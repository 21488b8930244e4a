------------------------------ MODULE Binding ------------------------------
(***************************************************************************)
(* do_bind (bind.c): for each library in turn, the ones the file names and *)
(* two of the host's, every collected bind is looked up in it and, when it *)
(* is there, stored over the word at the bind's place.                     *)
(***************************************************************************)
EXTENDS MachContext

CONSTANTS
  HostMmap,     \* the address of host_mmap_for_darwin
  Guard,        \* the address of guard
  Hosts,        \* the libraries a host can have, each with its symbols
  BindTasks     \* what loader_64 can have left for do_bind

(* A host gives each library it can open the address dlsym finds in it for  *)
(* each name, less the name's leading underscore; Null when it has none.    *)
(* Its addresses are of a process, far below the top bit.                   *)
ASSUME HostsAssumption ==
  /\ HostMmap \in Word /\ HostMmap # Null /\ HostMmap < BindShift
  /\ Guard \in Word /\ Guard # Null /\ Guard < BindShift
  /\ \A h \in Hosts : \A l \in DOMAIN h :
       h[l] \in [Names -> Word] /\ \A n \in Names : h[l][n] < BindShift

DefaultLibraries == <<"libc.so.6", "libm.so.6">>
ASSUME DylibsAssumption == DefaultLibraries \in Seq(Dylibs)

(* loader_64 leaves a place in the image or Null for each bind, and its     *)
(* symbol, if one was named before the bind.                                *)
ASSUME BindTasksAssumption ==
  \A t \in BindTasks :
    /\ t.img_addr \in Addr
    /\ DOMAIN t.words \subseteq Nat /\ \A a \in DOMAIN t.words : t.words[a] \in Word
    /\ t.binds \in Seq(BindInfo)
    /\ t.dylibs \in Seq(Dylibs)

VARIABLES
  host,         \* the host's libraries
  dpc,          \* where do_bind is
  lib_i,        \* i, from 1
  bind_j,       \* j, from 1
  unbound,      \* history: the memory before do_bind
  linked        \* history: the library the linker found each bind in

binding_state == <<host, dpc, lib_i, bind_j, unbound, linked>>
binding_vars == <<context, binding_state>>

\* The names do_bind has an answer of its own for, as the file spells them.
MmapNames == {"_mmap", "mmap"}
GuardNames == {"___stack_chk_guard"}

(* NULL is no name. *)
ASSUME NoNameAssumption == NoName \notin Names \cup MmapNames \cup GuardNames

----------------------------------------------------------------------------
Opens(i) == d_list[i] \in DOMAIN host

(* A bug the runs must find: no place is unfit. *)
Fit_Always(j) == b_list[j].address \in Word

(* Places at or below the start of the image are passed over, Null first.   *)
Fit(j) == b_list[j].address > img_addr

Named(j) == b_list[j].func_name # NoName

(* What library i has for bind j. *)
Symbol(i, j) ==
  LET name == b_list[j].func_name IN
  CASE name = NoName        -> Null
    [] name \in MmapNames  -> HostMmap
    [] name \in GuardNames -> Guard
    [] OTHER               -> host[d_list[i]][name]

BeginBinding ==
  /\ dpc = "begin"
  /\ d_list' = d_list \o DefaultLibraries
  /\ lib_i' = 1 /\ dpc' = "library"
  /\ unbound' = mem
  /\ UNCHANGED <<img_addr, segments, mem, b_list, host, bind_j, linked>>

(* "lib not loaded" *)
SkipLibrary ==
  /\ dpc = "library" /\ lib_i <= Len(d_list) /\ ~Opens(lib_i)
  /\ lib_i' = lib_i + 1
  /\ UNCHANGED <<context, host, dpc, bind_j, unbound, linked>>

OpenLibrary ==
  /\ dpc = "library" /\ lib_i <= Len(d_list) /\ Opens(lib_i)
  /\ bind_j' = 1 /\ dpc' = "bind"
  /\ UNCHANGED <<context, host, lib_i, unbound, linked>>

EndLibraries ==
  /\ dpc = "library" /\ lib_i > Len(d_list)
  /\ dpc' = "return"
  /\ UNCHANGED <<context, host, lib_i, bind_j, unbound, linked>>

AtBind == dpc = "bind" /\ bind_j <= Len(b_list)

NextBind ==
  /\ bind_j' = bind_j + 1
  /\ UNCHANGED <<img_addr, segments, lists, host, dpc, lib_i, unbound, linked>>

(* A bug the runs must find: the loop goes on without the next bind. *)
PassUnfit_Stuck == AtBind /\ ~Fit(bind_j) /\ UNCHANGED binding_vars

(* The bind "seemed unfit". *)
PassUnfit == AtBind /\ ~Fit(bind_j) /\ UNCHANGED mem /\ NextBind

(* c[0] of a NULL func_name. *)
CrashUnnamed ==
  /\ AtBind /\ Fit(bind_j) /\ ~Named(bind_j)
  /\ dpc' = "crashed"
  /\ UNCHANGED <<context, host, lib_i, bind_j, unbound, linked>>

StoreSymbol ==
  /\ AtBind /\ Fit(bind_j) /\ Symbol(lib_i, bind_j) # Null
  /\ Store(b_list[bind_j].address, Symbol(lib_i, bind_j))
  /\ NextBind

(* A bug the runs must find: what dlsym did not find is stored. *)
MissSymbol_Stored ==
  /\ AtBind /\ Fit(bind_j) /\ Named(bind_j) /\ Symbol(lib_i, bind_j) = Null
  /\ Store(b_list[bind_j].address, Null)
  /\ NextBind

(* "func not loaded" *)
MissSymbol ==
  /\ AtBind /\ Fit(bind_j) /\ Named(bind_j) /\ Symbol(lib_i, bind_j) = Null
  /\ UNCHANGED mem
  /\ NextBind

(* A bug the runs must find: one library is skipped with the one before it. *)
EndBinds_TwoOn ==
  /\ dpc = "bind" /\ bind_j > Len(b_list)
  /\ lib_i' = lib_i + 2 /\ dpc' = "library"
  /\ UNCHANGED <<context, host, bind_j, unbound, linked>>

EndBinds ==
  /\ dpc = "bind" /\ bind_j > Len(b_list)
  /\ lib_i' = lib_i + 1 /\ dpc' = "library"
  /\ UNCHANGED <<context, host, bind_j, unbound, linked>>

(* do_bind has returned to main, or the process is gone. *)
BindingReturned == dpc \in {"return", "crashed"} /\ UNCHANGED binding_vars

BindingStep ==
  \/ BeginBinding \/ SkipLibrary \/ OpenLibrary \/ EndLibraries
  \/ PassUnfit \/ CrashUnnamed \/ StoreSymbol \/ MissSymbol \/ EndBinds

BindingNext == BindingStep \/ BindingReturned

BindingInit ==
  /\ \E t \in BindTasks :
       /\ img_addr = t.img_addr /\ mem = t.words
       /\ b_list = t.binds /\ d_list = t.dylibs /\ linked = t.linked
  /\ segments = << >>
  /\ host \in Hosts
  /\ dpc = "begin" /\ lib_i = 1 /\ bind_j = 1
  /\ unbound = mem

(* One thread, straight through the two loops. *)
BindingSpec == BindingInit /\ [][BindingNext]_binding_vars /\ WF_binding_vars(BindingStep)

----------------------------------------------------------------------------
BindingTypeOK ==
  /\ ContextTypeOK
  /\ b_list \in Seq(BindInfo)
  /\ d_list \in Seq(Dylibs)
  /\ host \in Hosts
  /\ dpc \in {"begin", "library", "bind", "return", "crashed"}
  /\ lib_i \in 1 .. Len(d_list) + 1 /\ bind_j \in 1 .. Len(b_list) + 1

(* How many of the libraries bind j has been through. *)
Through(j) ==
  CASE dpc = "begin" -> 0
    [] dpc \in {"bind", "crashed"} /\ j < bind_j -> lib_i
    [] OTHER -> lib_i - 1

(* The libraries among the first n that have bind j's name. *)
Having(j, n) == {i \in 1 .. n : Opens(i) /\ Symbol(i, j) # Null}

(* The place of bind j holds its word of the file while no library had the  *)
(* name, and otherwise what the last of those that had it gave.             *)
IsBoundBy(j, n) ==
  LET word == Load(b_list[j].address) IN
  IF Having(j, n) = {}
    THEN b_list[j].address \in DOMAIN unbound => word = unbound[b_list[j].address]
    ELSE \E i \in Having(j, n) :
           (\A k \in Having(j, n) : k <= i) /\ word = Symbol(i, j)

PlacesDiffer ==
  \A j, k \in 1 .. Len(b_list) :
    Fit(j) /\ Fit(k) /\ b_list[j].address = b_list[k].address => j = k

(* At every moment each place is bound by the last library so far that has  *)
(* its symbol: a library that is missing, or lacks the symbol, undoes       *)
(* nothing, and no other bind overwrites it.                                *)
BindsAreCurrent ==
  PlacesDiffer => \A j \in 1 .. Len(b_list) : Fit(j) => IsBoundBy(j, Through(j))

(* do_bind writes at the places of fit binds and nowhere else: a bind whose *)
(* segment was not mapped, with address Null, is not written through.       *)
StoresAtBinds ==
  [][\A a \in DOMAIN mem' : (a \notin DOMAIN mem \/ mem'[a] # mem[a]) =>
       /\ a > img_addr
       /\ \E j \in 1 .. Len(b_list) : a = b_list[j].address]_mem

(* A bind is to the library its ordinal names (loader.h of bind_off: the    *)
(* symbol-library-ordinal of each tuple), when the host has it there.       *)
OrdinalsRespected ==
  dpc = "return" =>
    \A j \in 1 .. Len(b_list) :
      /\ Fit(j) /\ b_list[j].func_name \notin MmapNames \cup GuardNames
      /\ linked[j] \in DOMAIN host /\ host[linked[j]][b_list[j].func_name] # Null
      => Load(b_list[j].address) = host[linked[j]][b_list[j].func_name]

(* The two loops end, unless a bind without a name ends the process. *)
BindingReturns == <>(dpc \in {"return", "crashed"})
=============================================================================
