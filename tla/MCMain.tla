------------------------------- MODULE MCMain -------------------------------
(***************************************************************************)
(* Executables for main: those of MCLoader64, some of 32 bits, and some    *)
(* without a missing symbol, so that main has nothing to warn of.          *)
(***************************************************************************)
EXTENDS Main, MCLoader32

HostTable(at, names) ==
  [n \in MCNames |-> CASE n = "_puts" /\ n \in names -> at
                       [] n = "_exit" /\ n \in names -> at + 8
                       [] OTHER -> 0]

\* No library, libc alone, and one under the name the file has for its own with
\* libc and libm, each with other symbols.
MCMainHosts ==
  {<< >>, "libc.so.6" :> HostTable(8192, {"_puts", "_exit"}),
   ("libSystem" :> HostTable(9000, {"_puts"})) @@ ("libc.so.6" :> HostTable(8192, {"_exit"}))
     @@ ("libm.so.6" :> HostTable(8192, {}))}

NoTasks == {}

----------------------------------------------------------------------------
\* The payload with every name in the host.
Found == [Payload(<<NoStarts, NoStarts, ConstStarts, DataStarts, NoStarts>>) EXCEPT
            !.imports[2].name = "_exit"]

EntryRest == <<Dylib("libSystem"), LcMain(16)>>

NoMain == Symtab(<< [name |-> "_helper", n_value |-> 256] >>)
Body == <<PageZero, Text(1), Const, Data, Linkedit>>

QuietPrograms ==
  {File("MH_EXECUTE", Body \o tail \o EntryRest) :
     tail \in {<<FixupsCommand(Found), Symbols>>, <<FixupsCommand(Found), NoMain>>,
               <<Symbols, FixupsCommand(Found)>>, <<Binds, Symbols>>}}

\* The first bind comes before the first name.
UnnamedBinds ==
  DyldInfo({}, <<SET_SEGMENT(2, 0, 0) \o DO_BIND \o SET_SYMBOL("_puts") \o DO_BIND, << >> >>,
           <<Target(MCNoName, 2, 0), Target("_puts", 2, 8)>>)

MCMainFiles ==
  MCFiles \cup QuietPrograms
  \cup {File("MH_EXECUTE", Body \o <<UnnamedBinds, Symbols>> \o EntryRest)}
  \cup {f \in Files32 : f.filetype = "MH_EXECUTE" /\ f.cmds[1].cmd = "LC_SEGMENT" /\ f.cmds[3].cmd = "LC_SEGMENT"
                     /\ f.cmds[3].vmaddr = 320}
  \cup {[magic |-> "other", filetype |-> "MH_EXECUTE", cmds |-> << >>]}

(* They are what a linker makes of a program the loader supports. *)
ASSUME MCMainFilesLinked == \A f \in MCMainFiles : LinkedProgram(f) /\ WithoutAddends(f)

----------------------------------------------------------------------------
\* A program with a bind whose addend, not 0, is given by the opcodes.
AddendBinds(v) ==
  DyldInfo({}, <<SET_SYMBOL("_puts") \o SET_ADDEND(v, 0) \o SET_SEGMENT(2, 0, 0) \o DO_BIND \o DONE, << >> >>,
           <<TargetPlus("_puts", 2, 0, v)>>)

AddendFiles ==
  {File("MH_EXECUTE", Body \o <<AddendBinds(v), Symbols>> \o EntryRest) : v \in {-1, 8, 64}}

(* They too are written as a linker writes its binds. *)
ASSUME MCAddendFilesLinked ==
  \A f \in AddendFiles : LinkedProgram(f) /\ ~WithoutAddends(f)

----------------------------------------------------------------------------
\* A program whose symbols are stripped, and one that has them.
EntryFiles ==
  {File("MH_EXECUTE", Body \o <<FixupsCommand(Found), syms>> \o EntryRest) :
     syms \in {Symbols, NoMain}}
=============================================================================
