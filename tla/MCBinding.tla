----------------------------- MODULE MCBinding -----------------------------
(***************************************************************************)
(* Hosts and lists of binds for do_bind.                                   *)
(***************************************************************************)
EXTENDS Binding, MCMachO, TLC

\* What a library has: some of puts and exit, at addresses of its own; libm
\* also answers for the library it depends on, libc.
Table(at, names) ==
  [n \in MCNames |-> CASE n = "_puts" /\ n \in names -> at
                       [] n = "_exit" /\ n \in names -> at + 8
                       [] OTHER -> 0]
Some == SUBSET {"_puts", "_exit"}

\* A program's library is there with some symbols, or missing; libc and libm
\* are there or not.
MCHosts ==
  {own @@ std :
     own \in {<< >>} \cup {"libA" :> Table(9000, s) : s \in Some}
               \cup {("libA" :> Table(9000, s)) @@ ("libB" :> Table(9500, {"_puts"})) : s \in Some},
     std \in {<< >>, "libc.so.6" :> Table(8192, {"_puts", "_exit"})}
               \cup {("libc.so.6" :> Table(8192, {"_puts"})) @@ ("libm.so.6" :> Table(8192, s)) :
                       s \in {{}, {"_puts"}}}}

----------------------------------------------------------------------------
\* The image is at 4096; the fit binds of a list are at places of their own.
Place(j) == 4160 + 8 * j
BindOf(name, address) == [func_name |-> name, address |-> address]

Tasks(names, dylibs, unfit) ==
  {[img_addr |-> 4096, words |-> (4096 :> 5) @@ [a \in {Place(j) : j \in 1 .. 3} |-> a - 4000],
    binds |-> [j \in 1 .. 3 |-> BindOf(n[j], IF j = 2 THEN u ELSE Place(j))],
    dylibs |-> d, linked |-> <<"libA", "libc.so.6", "libB">>] :
     n \in [1 .. 3 -> names], u \in unfit, d \in dylibs}

MCBindTasks ==
  Tasks({"_puts", "_exit", "_missing"}, {<< >>, <<"libA">>, <<"libB", "libA">>},
        {Null, 4096, Place(2)})
  \cup Tasks({"_mmap", "___stack_chk_guard", "_puts"}, {<<"libNone">>}, {Place(2)})
  \cup Tasks({"_puts", MCNoName}, {<<"libA">>}, {Null, Place(2)})

----------------------------------------------------------------------------
\* Two libraries with a symbol of the same name.
TwoLevelTasks == Tasks({"_puts", "_exit"}, {<<"libA", "libB">>}, {Place(2)})
=============================================================================
