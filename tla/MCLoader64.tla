----------------------------- MODULE MCLoader64 -----------------------------
(***************************************************************************)
(* Executables for loader_64: the segments of a linked program, its        *)
(* chained fixups or its bind opcodes, its symbols and libraries, in the   *)
(* orders a linker puts their commands in and some it could.               *)
(***************************************************************************)
EXTENDS Loader64, MCStreams, Functions, TLC

NoImages == {}
MCHostPage == 64

----------------------------------------------------------------------------
\* Commands; Laid gives them their places in the file.
Segment(name, vmaddr, vmsize, nsects, words) ==
  [cmd |-> "LC_SEGMENT_64", cmdsize |-> 72 + 80 * nsects, segname |-> name, vmaddr |-> vmaddr,
   vmsize |-> vmsize, fileoff |-> IF vmaddr < 256 THEN vmaddr ELSE vmaddr - 256,
   filesize |-> IF words = << >> THEN 0 ELSE vmsize,
   nsects |-> nsects, words |-> words]
FixupsCommand(payload) == [cmd |-> "LC_DYLD_CHAINED_FIXUPS", cmdsize |-> 16, fixups |-> payload]
DyldInfo(rs, ss, ts) ==
  [cmd |-> "LC_DYLD_INFO", cmdsize |-> 48, rebases |-> rs, streams |-> ss, targets |-> ts,
   code |-> CodeOf(ss)]
Symtab(syms) == [cmd |-> "LC_SYMTAB", cmdsize |-> 24, syms |-> syms]
Dylib(name) == [cmd |-> "LC_LOAD_DYLIB", cmdsize |-> 56, dylib |-> name]
WeakDylib(name) == [cmd |-> "LC_LOAD_WEAK_DYLIB", cmdsize |-> 56, dylib |-> name]
LcMain(off) == [cmd |-> "LC_MAIN", cmdsize |-> 24, entryoff |-> off]
Plainly(cmd) == [cmd |-> cmd, cmdsize |-> 24]

Placed(c, off) == [x \in DOMAIN c \cup {"off"} |-> IF x = "off" THEN off ELSE c[x]]
Laid(cmds, header) ==
  LET offs[k \in 1 .. Len(cmds)] == IF k = 1 THEN header ELSE offs[k - 1] + cmds[k - 1].cmdsize
  IN  [k \in 1 .. Len(cmds) |-> Placed(cmds[k], offs[k])]

File(type, cmds) ==
  [magic |-> "MH_MAGIC_64", filetype |-> type, cmds |-> Laid(cmds, 32)]

----------------------------------------------------------------------------
\* The image: __TEXT at 256, two data segments of a page behind it.
TextWords == (0 :> 7) @@ (16 :> 11) @@ (24 :> 13)
At4 == <<0, 8, 16, 24>>
ConstSlots == <<Rebase(16, 0), Bind(0, 1), Plain, Bind(1, 0)>>
DataSlots == <<Bind(2, 0), Plain, Rebase(72, 0), Plain>>
ConstChain == LinkChain(ConstSlots, At4, 64)
DataChain == LinkChain(DataSlots, At4, 128)

\* What is in a data segment at base: its chain, and a word between.
Filled(chain, base) ==
  [o \in {chain[k].off - base : k \in DOMAIN chain} |->
     (CHOOSE e \in Range(chain) : e.off - base = o).raw] @@ (40 :> 17)

PageZero == Segment("__PAGEZERO", 0, 256, 0, << >>)
Text(nsects) == Segment("__TEXT", 256, 64, nsects, TextWords)
Const == Segment("__DATA_CONST", 320, 64, 1, Filled(ConstChain, 64))
Data == Segment("__DATA", 384, 64, 2, Filled(DataChain, 128))
Bss == Segment("__DATA", 448, 64, 0, << >>)
Linkedit == Segment("__LINKEDIT", 512, 40, 0, (0 :> 19) @@ (32 :> 23))

NoStarts == [seg_info_off |-> 0, page_size |-> 0, pointer_format |-> 0,
             segment_offset |-> 0, page_start |-> << >>, chain |-> << >>]
StartsOf(off, slots, chain) ==
  [seg_info_off |-> 24, page_size |-> 64, pointer_format |-> PTR_64_OFFSET,
   segment_offset |-> off, page_start |-> <<StartOf(slots, At4)>>, chain |-> <<chain>>]
Payload(segs) ==
  [datasize |-> 200, starts_offset |-> 28, imports_format |-> IMPORT,
   imports |-> << [name |-> "_puts", addend |-> 0], [name |-> "_missing", addend |-> 0],
                  [name |-> "_exit", addend |-> 0] >>, segs |-> segs]
ConstStarts == StartsOf(64, ConstSlots, ConstChain)
DataStarts == StartsOf(128, DataSlots, DataChain)
Fixups == FixupsCommand(Payload(<<NoStarts, NoStarts, ConstStarts, DataStarts, NoStarts>>))
LateFixups == FixupsCommand(Payload(<<NoStarts, NoStarts, ConstStarts, NoStarts, DataStarts>>))

Symbols == Symtab(<< [name |-> "_helper", n_value |-> 256], [name |-> "_main", n_value |-> 272],
                     [name |-> "_puts", n_value |-> 0] >>)
TwoMains == Symtab(<< [name |-> "_main", n_value |-> 256], [name |-> "_main", n_value |-> 280] >>)

\* A program with bind opcodes: a word of each data segment, one of no segment.
Binds ==
  DyldInfo({}, <<SET_SYMBOL("_puts") \o SET_SEGMENT(2, 0, 0) \o DO_BIND_SCALED(4) \o DO_BIND \o DONE,
                 SET_SEGMENT(3, 16, 0) \o SET_SYMBOL("_exit") \o DO_BIND \o DONE>>,
           <<Target("_puts", 2, 0), Target("_puts", 2, 40), Target("_exit", 3, 16)>>)

----------------------------------------------------------------------------
Rest == <<Dylib("libSystem"), Plainly("LC_LOAD_DYLINKER"), LcMain(16),
          WeakDylib("libA"), Dylib("libm")>>

\* Segments first, with sections or not, in the table whole or not (at most
\* four are recorded), and the two other commands in either order.
Programs ==
  {File("MH_EXECUTE", segs \o tail \o Rest) :
     segs \in {<<PageZero, Text(n), Const, Data, Linkedit>> : n \in {0, 3}}
                \cup {<<PageZero, Text(1), Const, Data, Bss, Linkedit>>,
                      <<PageZero, Text(2), Const, Data>>},
     tail \in {<<Fixups, Symbols>>, <<Symbols, Fixups>>, <<Binds, TwoMains>>}}

\* A fifth segment with fixups; a segment behind the command; no __PAGEZERO;
\* nothing to map; a library.
Oddities ==
  {File("MH_EXECUTE", <<PageZero, Text(1), Const, Bss, Data, LateFixups, Symbols>>),
   File("MH_EXECUTE", <<PageZero, Text(1), Const, Fixups, Data, Symbols>>),
   File("MH_EXECUTE", <<PageZero, Symbols, Text(1), Const, Data, Fixups>>),
   File("MH_EXECUTE", <<Text(1), Const, FixupsCommand(Payload(<<NoStarts, ConstStarts>>)), Symbols>>),
   File("MH_EXECUTE", <<PageZero, Symbols>>),
   File("MH_DYLIB", <<PageZero, Text(1), Symbols>>)}

MCFiles == Programs \cup Oddities

(* They are what a linker makes of a program the loader supports. *)
ASSUME MCFilesLinked ==
  \A f \in MCFiles :
    /\ Linked(f) /\ SupportedFixups(f) /\ LinkedMain(f)
    /\ LinkedBinds(f) /\ BindsApart(f) /\ BindsInWords(f)

----------------------------------------------------------------------------
\* A program with pointers to rebase instead of chained ones.
Pointers == Segment("__DATA", 320, 64, 1, (0 :> 272) @@ (8 :> 330) @@ (16 :> 5))
RebaseFiles ==
  {File("MH_EXECUTE", <<PageZero, Text(n), Pointers, DyldInfo(rs, << << >>, << >> >>, << >>), Symbols>>
                        \o Rest) :
     n \in {0, 1, 2}, rs \in SUBSET {[seg |-> 2, off |-> 0], [seg |-> 2, off |-> 8]}}

----------------------------------------------------------------------------
\* Programs linked from address 0 on, without a __PAGEZERO, and one linked at
\* 128 without it.
LinkedFrom(base) ==
  File("MH_EXECUTE", <<Segment("__TEXT", base, 64, 1, TextWords),
                       Segment("__DATA", base + 64, 64, 1, (0 :> 330) @@ (16 :> 5)), Linkedit>> \o Rest)
LowFiles == {LinkedFrom(base) : base \in {0, 128}}

\* A program without weak libraries, and one with two.
WeakFiles ==
  {File("MH_EXECUTE", <<PageZero, Text(1), Const, Dylib("libSystem")>> \o tail) :
     tail \in {<< >>, <<WeakDylib("libA"), WeakDylib("libB")>>}}
=============================================================================
