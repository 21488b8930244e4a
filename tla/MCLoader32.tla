----------------------------- MODULE MCLoader32 -----------------------------
(***************************************************************************)
(* 32-bit executables: data within the head of the file, across its end    *)
(* and behind it, in step with memory and not, in several orders.          *)
(***************************************************************************)
EXTENDS Loader32, MCLoader64

MCHeadSize == 192

Segment32(name, vmaddr, vmsize, nsects, fileoff, words) ==
  [cmd |-> "LC_SEGMENT", cmdsize |-> 56 + 68 * nsects, segname |-> name, vmaddr |-> vmaddr,
   vmsize |-> vmsize, fileoff |-> fileoff,
   filesize |-> IF words = << >> THEN 0 ELSE vmsize, nsects |-> nsects, words |-> words]

File32(type, cmds) ==
  [magic |-> "MH_MAGIC", filetype |-> type, cmds |-> Laid(cmds, 28)]

----------------------------------------------------------------------------
PageZero32 == Segment32("__PAGEZERO", 0, 256, 0, 0, << >>)
Text32(nsects) == Segment32("__TEXT", 256, 64, nsects, 0, TextWords)
DataWords == (0 :> 31) @@ (40 :> 37) @@ (72 :> 41)
\* All of it in the head, the last word behind it, all of it behind it; and
\* one with zero fill before it in memory.
Datas == {Segment32("__DATA", 320, 128, n, 64, DataWords) : n \in {0, 2}}
           \cup {Segment32("__DATA", 384, 128, 1, 128, DataWords),
                 Segment32("__DATA", 448, 128, 1, 192, DataWords),
                 Segment32("__DATA", 448, 128, 1, 64, DataWords)}
Linkedit32 == Segment32("__LINKEDIT", 576, 64, 0, 320, (0 :> 43))

Binds32 == <<Binds, Symbols, Dylib("libSystem"), Plainly("LC_DYSYMTAB"), WeakDylib("libA"),
             FixupsCommand(Payload(<<NoStarts>>))>>
Symbols32 == <<TwoMains, Binds, LcMain(16), Dylib("libm")>>

Files32 ==
  {File32("MH_EXECUTE", segs \o tail) :
     tail \in {Binds32, Symbols32},
     segs \in UNION {{<<PageZero32, Text32(1), d, Linkedit32>>, <<PageZero32, d, Text32(3), Linkedit32>>,
                      <<PageZero32, Text32(0), Linkedit32, d, d>>} : d \in Datas}}
  \cup {File32("MH_EXECUTE", <<Symbols>> \o <<PageZero32, Text32(2)>> \o Binds32)}
  \cup {File32("MH_EXECUTE", <<PageZero32, Text32(2), Binds>> \o <<d>>) : d \in Datas}
  \cup {File32("MH_DYLIB", <<Text32(1)>>)}

ASSUME MCFiles32Linked == \A f \in Files32 : LinkedHead(f) /\ OneSymbolTable(f) /\ LinkedBinds(f)
=============================================================================
