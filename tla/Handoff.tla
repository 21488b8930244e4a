------------------------------ MODULE Handoff ------------------------------
(***************************************************************************)
(* What main promises of its three stages, without the loaders, the loops  *)
(* and the checks: while a program is loaded the places to bind are        *)
(* collected; then memory changes at these places only, each time to a     *)
(* symbol the host has under the name of the place; and it is entered when *)
(* every place that can be bound is.                                       *)
(***************************************************************************)

VARIABLES
  stage,      \* "loading", "binding", "entered" or "gone"
  memory,     \* the words of the program
  places,     \* what is to be bound: addresses with names
  symbols     \* what the libraries of the program have for each name

handoff_vars == <<stage, memory, places, symbols>>

HandoffInit == stage \in {"loading", "gone"} /\ places = {}

(* Whatever the loader does: a place once collected stays. *)
Load == stage = "loading" /\ places \subseteq places' /\ UNCHANGED stage

StartBinding == stage = "loading" /\ stage' = "binding" /\ UNCHANGED <<memory, places, symbols>>

BindPlace ==
  /\ stage = "binding"
  /\ \E p \in places : \E s \in symbols[p.func_name] :
       memory' = [a \in DOMAIN memory \cup {p.address} |->
                    IF a = p.address THEN s ELSE memory[a]]
  /\ UNCHANGED <<stage, places, symbols>>

(* A place two names want has a symbol of one of them. *)
AllBound ==
  \A p \in places : symbols[p.func_name] # {} =>
    /\ p.address \in DOMAIN memory
    /\ \E q \in places : q.address = p.address /\ memory[p.address] \in symbols[q.func_name]

EnterProgram ==
  /\ stage = "binding" /\ AllBound
  /\ stage' = "entered"
  /\ UNCHANGED <<memory, places, symbols>>

GiveUp == stage \in {"loading", "binding"} /\ stage' = "gone" /\ UNCHANGED <<memory, places, symbols>>

HandoffNext == Load \/ StartBinding \/ BindPlace \/ EnterProgram \/ GiveUp

HandoffSpec == HandoffInit /\ [][HandoffNext]_handoff_vars
=============================================================================
