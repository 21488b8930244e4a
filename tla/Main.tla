-------------------------------- MODULE Main --------------------------------
(***************************************************************************)
(* main (main.c): the file is opened, the loader of its architecture and   *)
(* do_bind run one after the other over the one context, and the program   *)
(* is entered.  Every check in between prints and goes on.                 *)
(***************************************************************************)
EXTENDS Loader32, Binding

VARIABLES
  mpc,          \* where main is
  warnings      \* what it has printed on stderr

main_vars == <<context, fixups_state, binds_state, loader_state, binding_state, mpc, warnings>>

----------------------------------------------------------------------------
(* openExec and determineBit: a file that cannot be opened, or has another  *)
(* magic, ends the process.                                                 *)
OpenExec ==
  /\ mpc = "open"
  /\ mpc' = IF file.magic \in {"MH_MAGIC", "MH_MAGIC_64"} THEN "load" ELSE "exited"
  /\ UNCHANGED <<context, fixups_state, binds_state, loader_state, binding_state, warnings>>

(* l[bit >> 6]: loader or loader_64. *)
RunLoader ==
  /\ mpc = "load"
  /\ IF Bits(file) = 64 THEN LoaderStep ELSE Loader32Step
  /\ mpc' = IF lpc' = "crashed" THEN "crashed" ELSE mpc
  /\ UNCHANGED <<binding_state, warnings>>

(* A bug the runs must find: unresolved binds are not warned of. *)
Warnings_NoUnresolved ==
  (IF lpc = "refused" THEN {"loader failed"} ELSE {})
  \cup (IF img_addr = Null \/ v_addr = Null THEN {"image mapping was not established"} ELSE {})
  \cup (IF entry_point = Null THEN {"no entry point found"} ELSE {})

(* The four checks between the loader and do_bind. *)
Warnings ==
  (IF lpc = "refused" THEN {"loader failed"} ELSE {})
  \cup (IF img_addr = Null \/ v_addr = Null THEN {"image mapping was not established"} ELSE {})
  \cup (IF entry_point = Null THEN {"no entry point found"} ELSE {})
  \cup (IF chained_unresolved_bind_count # 0 THEN {"unresolved chained binds"} ELSE {})

CheckLoaded ==
  /\ mpc = "load" /\ lpc \in {"done", "refused"}
  /\ warnings' = Warnings
  /\ dpc' = "begin"
  /\ mpc' = "bind"
  /\ UNCHANGED <<context, fixups_state, binds_state, loader_state,
                 host, lib_i, bind_j, unbound, linked>>

RunBinding ==
  /\ mpc = "bind"
  /\ BindingStep
  /\ mpc' = IF dpc' = "crashed" THEN "crashed" ELSE mpc
  /\ UNCHANGED <<fixups_state, binds_state, loader_state, warnings>>

(* A bug the runs must find: the program is entered before do_bind. *)
Enter_Unbound ==
  /\ mpc = "bind" /\ dpc = "begin"
  /\ mpc' = "entered"
  /\ UNCHANGED <<context, fixups_state, binds_state, loader_state, binding_state, warnings>>

(* do_bind always returns 0.  entry_point is called, whatever it is. *)
Enter ==
  /\ mpc = "bind" /\ dpc = "return"
  /\ mpc' = "entered"
  /\ UNCHANGED <<context, fixups_state, binds_state, loader_state, binding_state, warnings>>

MainStep == OpenExec \/ RunLoader \/ CheckLoaded \/ RunBinding \/ Enter

(* The process is the program's now, or gone. *)
LeftMain == mpc \in {"entered", "exited", "crashed"} /\ UNCHANGED main_vars

MainNext == MainStep \/ LeftMain

MainInit ==
  /\ LoaderInit
  /\ host \in Hosts
  /\ dpc = "return" /\ lib_i = 1 /\ bind_j = 1
  /\ unbound = << >> /\ linked = << >>
  /\ mpc \in {"open", "exited"}    \* called with the name of a file, or without one
  /\ warnings = {}

(* One thread; nothing blocks it before the program is entered. *)
MainSpec == MainInit /\ [][MainNext]_main_vars /\ WF_main_vars(MainStep)

----------------------------------------------------------------------------
MainTypeOK ==
  /\ LoaderTypeOK /\ BindingTypeOK
  /\ mpc \in {"open", "load", "bind", "entered", "exited", "crashed"}
  /\ warnings \subseteq {"loader failed", "image mapping was not established",
                         "no entry point found", "unresolved chained binds"}

(* What a linker guarantees of a whole program: its binds are written as    *)
(* they are, at places of their own; one of 32 bits has a head; one of 64   *)
(* bits is linked, and if it has a segment to map, it has __TEXT.           *)
LinkedProgram(f) ==
  /\ LinkedBinds(f) /\ BindsApart(f)
  /\ IF Bits(f) = 32 THEN LinkedHead(f)
     ELSE /\ Linked(f) /\ LinkedMain(f) /\ SupportedFixups(f) /\ BindsInWords(f)
          /\ Mappable(f) # {} => \E k \in SegmentsOf(f) : f.cmds[k].segname = "__TEXT"

(* What the loader supports of its binds: none has an addend. *)
WithoutAddends(f) == \A j \in BindsCommands(f) : NoAddends(f.cmds[j].targets)

(* The file is in the order linkers use: the segments, then the rest. *)
SegmentsFirst ==
  \A k \in SegmentCommands, j \in DOMAIN file.cmds : j < k => j \in SegmentCommands

(* Every segment that has an address of its own got it. *)
AllRecorded == \A k \in SegmentCommands : file.cmds[k].segname # "__PAGEZERO" => Recorded(k)

(* What the opcodes of bind j ask for: the symbol the last library had for  *)
(* it plus its addend, or the word from before if none had one.             *)
IsBoundWithAddend(j) ==
  LET having == Having(j, Len(d_list)) IN
  IF having = {}
    THEN IsBoundBy(j, Len(d_list))
    ELSE \E i \in having :
           /\ \A k \in having : k <= i
           /\ Load(b_list[j].address) = (Symbol(i, j) + targets[j].addend) % AddrMod

(* The last word of an image word, when the fixups and do_bind are done:    *)
(* of a fixup what the format asks for, of a bind its symbol and addend,    *)
(* and otherwise the file's word.                                           *)
IsFinal(a) ==
  LET off == a - img_addr
      fixed == {e \in UNION {Image!FixupsOf(fx) : fx \in ProgramOf(file).payloads} : e.off = off}
      bound == {j \in DOMAIN b_list : Fit(j) /\ b_list[j].address = a}
  IN  CASE fixed # {} -> \E fx \in ProgramOf(file).payloads : \E e \in fixed :
                           e \in Image!FixupsOf(fx) /\ mem[a] = FormatValue(fx, img_addr, e.raw)
        [] bound # {} -> \A j \in bound : IsBoundWithAddend(j)
        [] OTHER -> mem[a] = FileWord(off)

(* Each bind do_bind goes through has a place to itself: no other bind's,   *)
(* and no fixup's.                                                          *)
PlacesApart ==
  /\ PlacesDiffer
  /\ \A j \in DOMAIN b_list : Fit(j) =>
       \A fx \in ProgramOf(file).payloads : \A e \in Image!FixupsOf(fx) :
         b_list[j].address # img_addr + e.off

(* The handoff: if every segment was mapped and recorded, the program that  *)
(* is entered is the whole file, each of its words final, and it is entered *)
(* at its last _main.  It holds of programs WithoutAddends: of others       *)
(* bind_list_retriever drops the addends, and do_bind stores bare symbols   *)
(* (bind.c:337).                                                            *)
EnteredWhole ==
  mpc = "entered" /\ lpc = "done" /\ SegmentsFirst /\ SegmentCommands # {} /\ AllRecorded =>
    /\ \A k \in SegmentCommands : \A o \in DOMAIN file.cmds[k].words :
         Slid(file.cmds[k].vmaddr + o) \in DOMAIN mem
    /\ \A a \in DOMAIN mem : IsFinal(a)
    /\ \A j \in DOMAIN file.cmds :
         file.cmds[j].cmd = "LC_SYMTAB" =>
           \A n \in DOMAIN file.cmds[j].syms :
             /\ file.cmds[j].syms[n].name = "_main"
             /\ \A m \in DOMAIN file.cmds[j].syms : file.cmds[j].syms[m].name = "_main" => m <= n
             => entry_point = Slid(file.cmds[j].syms[n].n_value)

(* When main had nothing to warn of, the program is entered inside its      *)
(* image and no pointer the chained fixups went over is left encoded.  (A   *)
(* segment that was passed over before a late mmap is not warned of.)       *)
QuietMeansReady ==
  mpc = "entered" /\ warnings = {} /\ SegmentsFirst =>
    /\ entry_point >= img_addr /\ entry_point < img_addr + map_size(file)
    /\ \A a \in visited : ~chained64_is_bind(Load(a))

(* main as the Handoff: its stages, the binds collected for places behind   *)
(* the start of the image, and what the file's libraries and the host's two *)
(* have for a name.                                                         *)
Stage == CASE mpc \in {"open", "load"} -> "loading"
           [] mpc = "bind"             -> "binding"
           [] mpc = "entered"          -> "entered"
           [] OTHER                    -> "gone"

Libraries == ({d_list[i] : i \in DOMAIN d_list} \cup {"libc.so.6", "libm.so.6"}) \cap DOMAIN host

HostSymbols ==
  [n \in Names \cup {NoName} |->
     CASE n = NoName        -> {}
       [] n \in MmapNames  -> {HostMmap : l \in Libraries}
       [] n \in GuardNames -> {Guard : l \in Libraries}
       [] OTHER            -> {host[l][n] : l \in Libraries} \ {Null}]

Promise == INSTANCE Handoff WITH
  stage <- Stage, memory <- mem,
  places <- {b_list[j] : j \in {k \in DOMAIN b_list : Fit(k)}},
  symbols <- HostSymbols

(* main implements the Handoff: nothing but do_bind, between the loader and *)
(* the entry, stores symbols, at the places collected, and the program is   *)
(* entered when each that has one got it.                                   *)
ImplementsHandoff == Promise!HandoffSpec

(* The file is entered or refused, or the process is gone, whatever happens *)
(* on the way.                                                              *)
MainEnds == <>(mpc \in {"entered", "exited", "crashed"})

(* A file with LC_MAIN is entered at the offset it names (loader.h of       *)
(* entry_point_command), if its __TEXT was loaded.                          *)
EntryOfLcMain ==
  mpc = "entered" /\ AllRecorded =>
    \A j \in DOMAIN file.cmds :
      file.cmds[j].cmd = "LC_MAIN" => entry_point = img_addr + file.cmds[j].entryoff
=============================================================================
