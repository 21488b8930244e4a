--------------------------- MODULE BindingProofs ---------------------------
(***************************************************************************)
(* Proofs about do_bind, for every host, every list of libraries and every *)
(* list of binds.                                                          *)
(***************************************************************************)
EXTENDS Binding, TLAPS

USE DEF Word, Addr, Null

----------------------------------------------------------------------------
(* What a library has for a bind is a word, of an address. *)
LEMMA SymbolType ==
  ASSUME BindingTypeOK, NEW i \in 1 .. Len(d_list), Opens(i), NEW j \in 1 .. Len(b_list)
  PROVE  Symbol(i, j) \in Word /\ Symbol(i, j) < BindShift
  <1>1. b_list[j].func_name \in Names \cup {NoName}
    <2>1. b_list[j] \in BindInfo
      BY DEF BindingTypeOK
    <2> QED
      BY <2>1 DEF BindInfo
  <1>2. host[d_list[i]] \in [Names -> Word] /\ \A n \in Names : host[d_list[i]][n] < BindShift
    BY HostsAssumption DEF BindingTypeOK, Opens
  <1>3. Named(j) => /\ host[d_list[i]][b_list[j].func_name] \in Word
                    /\ host[d_list[i]][b_list[j].func_name] < BindShift
    BY <1>1, <1>2 DEF Named
  <1>4. \/ Symbol(i, j) \in {Null, HostMmap, Guard}
        \/ Named(j) /\ Symbol(i, j) = host[d_list[i]][b_list[j].func_name]
    BY DEF Symbol, Named
  <1>5. \A w \in {Null, HostMmap, Guard} : w \in Word /\ w < BindShift
    BY HostsAssumption, WidthAssumption
  <1> QED
    BY <1>3, <1>4, <1>5

(* The loop over the binds runs over a library that opened. *)
LibraryOpen == dpc = "bind" => lib_i \in 1 .. Len(d_list) /\ Opens(lib_i)

BindingTyped == BindingTypeOK /\ LibraryOpen

LEMMA InitTyped == BindingInit => BindingTyped
  <1> SUFFICES ASSUME BindingInit PROVE BindingTyped
    OBVIOUS
  <1>1. PICK t \in BindTasks :
          img_addr = t.img_addr /\ mem = t.words /\ b_list = t.binds /\ d_list = t.dylibs
    BY DEF BindingInit
  <1>2. /\ img_addr \in Addr /\ DOMAIN mem \subseteq Nat
        /\ \A a \in DOMAIN mem : mem[a] \in Word
        /\ b_list \in Seq(BindInfo)
        /\ d_list \in Seq(Dylibs)
    BY <1>1, BindTasksAssumption
  <1>3. segments \in Seq(SegmentInfo) /\ Len(segments) <= MaxSegments
    BY LimitAssumption DEF BindingInit
  <1> QED
    BY <1>2, <1>3 DEF BindingInit, BindingTyped, BindingTypeOK, ContextTypeOK, LibraryOpen

LEMMA StepTyped == BindingTyped /\ [BindingNext]_binding_vars => BindingTyped'
  <1> SUFFICES ASSUME BindingTyped, [BindingNext]_binding_vars PROVE BindingTyped'
    OBVIOUS
  <1> USE DEF BindingTyped, BindingTypeOK, ContextTypeOK, LibraryOpen
  <1>1. CASE BeginBinding
    <2>1. d_list' \in Seq(Dylibs)
      BY <1>1, DylibsAssumption DEF BeginBinding
    <2>2. Len(d_list') \in Nat /\ Len(b_list) \in Nat /\ Len(d_list) \in Nat
      BY <2>1
    <2> QED
      BY <1>1, <2>1, <2>2 DEF BeginBinding
  <1>2. CASE SkipLibrary
    BY <1>2 DEF SkipLibrary, context, lists
  <1>3. CASE OpenLibrary
    BY <1>3 DEF OpenLibrary, context, lists, Opens
  <1>4. CASE EndLibraries
    BY <1>4 DEF EndLibraries, context, lists
  <1>5. CASE EndBinds
    BY <1>5 DEF EndBinds, context, lists
  <1>9. CASE CrashUnnamed
    BY <1>9 DEF CrashUnnamed, context, lists
  <1>6. CASE PassUnfit \/ MissSymbol
    BY <1>6 DEF PassUnfit, MissSymbol, AtBind, NextBind, lists, Opens
  <1>7. CASE StoreSymbol
    <2>1. bind_j \in 1 .. Len(b_list) /\ bind_j + 1 \in 1 .. Len(b_list) + 1
      BY <1>7 DEF StoreSymbol, AtBind
    <2>2. Symbol(lib_i, bind_j) \in Word
      BY <1>7, <2>1, SymbolType DEF StoreSymbol, AtBind
    <2>3. b_list[bind_j].address \in Nat
      <3>1. b_list[bind_j] \in BindInfo
        BY <2>1
      <3> QED
        BY <3>1, WidthAssumption DEF BindInfo
    <2>4. DOMAIN mem' \subseteq Nat /\ \A a \in DOMAIN mem' : mem'[a] \in Word
      BY <1>7, <2>2, <2>3 DEF StoreSymbol, Store
    <2> QED
      BY <1>7, <2>1, <2>4 DEF StoreSymbol, AtBind, NextBind, lists, Opens
  <1>8. CASE BindingReturned \/ UNCHANGED binding_vars
    BY <1>8 DEF BindingReturned, binding_vars, binding_state, context, lists, Opens
  <1> QED
    BY <1>1, <1>2, <1>3, <1>4, <1>5, <1>6, <1>7, <1>8, <1>9 DEF BindingNext, BindingStep

(* Every state of do_bind is well typed. *)
THEOREM BindingTypeCorrect == BindingSpec => []BindingTypeOK
  <1>1. BindingSpec => []BindingTyped
    BY InitTyped, StepTyped, PTL DEF BindingSpec
  <1>2. BindingTyped => BindingTypeOK
    BY DEF BindingTyped
  <1> QED
    BY <1>1, <1>2, PTL

----------------------------------------------------------------------------
(* A library that is missing, or lacks the symbol, adds nothing to those    *)
(* that have it; one that has it is the last of them.                       *)
LEMMA HavingGrows ==
  ASSUME NEW j, NEW n \in Nat \ {0}
  PROVE  /\ ~(Opens(n) /\ Symbol(n, j) # Null) => Having(j, n) = Having(j, n - 1)
         /\ Opens(n) /\ Symbol(n, j) # Null =>
              n \in Having(j, n) /\ \A k \in Having(j, n) : k <= n
  <1>1. 1 .. n = (1 .. n - 1) \cup {n}
    OBVIOUS
  <1> QED
    BY <1>1 DEF Having

BindingInv == BindingTyped /\ BindsAreCurrent

LEMMA InitCurrent == BindingInit => BindingInv
  <1> SUFFICES ASSUME BindingInit PROVE BindsAreCurrent
    BY InitTyped DEF BindingInv
  <1>1. \A j : Through(j) = 0 /\ Having(j, 0) = {}
    BY DEF BindingInit, Through, Having
  <1>2. unbound = mem
    BY DEF BindingInit
  <1> QED
    BY <1>1, <1>2 DEF BindsAreCurrent, IsBoundBy, Load

(* What the step of a bind leaves to the other binds. *)
LEMMA OthersStay ==
  ASSUME BindingInv, AtBind, NextBind, PlacesDiffer,
         \/ UNCHANGED mem
         \/ Fit(bind_j) /\ Store(b_list[bind_j].address, Symbol(lib_i, bind_j)),
         NEW j \in 1 .. Len(b_list), Fit(j), j # bind_j
  PROVE  /\ Load(b_list[j].address)' = Load(b_list[j].address)
         /\ Through(j)' = Through(j)
  <1>1. bind_j \in 1 .. Len(b_list) /\ bind_j' = bind_j + 1 /\ dpc = "bind" /\ dpc' = "bind"
    BY DEF AtBind, NextBind, BindingInv, BindingTyped, BindingTypeOK
  <1>2. Fit(bind_j) => b_list[j].address # b_list[bind_j].address
    BY <1>1 DEF PlacesDiffer
  <1>3. Load(b_list[j].address)' = Load(b_list[j].address)
    BY <1>2 DEF NextBind, lists, Load, Store
  <1>4. Through(j)' = Through(j)
    BY <1>1 DEF Through, NextBind
  <1> QED
    BY <1>3, <1>4

LEMMA StepCurrent == BindingInv /\ [BindingNext]_binding_vars => BindingInv'
  <1> SUFFICES ASSUME BindingInv, [BindingNext]_binding_vars PROVE BindsAreCurrent'
    BY StepTyped DEF BindingInv
  <1> USE DEF BindingInv
  <1>0. /\ BindingTyped /\ lib_i \in Nat \ {0} /\ bind_j \in Nat \ {0}
        /\ Len(b_list) \in Nat /\ Len(d_list) \in Nat
    BY DEF BindingTyped, BindingTypeOK
  <1>1. CASE BeginBinding
    <2>1. \A j : Through(j)' = 0 /\ Having(j, 0)' = {}
      BY <1>1 DEF BeginBinding, Through, Having
    <2>2. unbound' = mem'
      BY <1>1 DEF BeginBinding
    <2> QED
      BY <2>1, <2>2 DEF BindsAreCurrent, IsBoundBy, Load
  <1>2. ASSUME UNCHANGED <<img_addr, mem, lists, host, unbound>>,
               \A j \in 1 .. Len(b_list) :
                 Having(j, Through(j)') = Having(j, Through(j))
        PROVE  BindsAreCurrent'
    BY <1>2 DEF BindsAreCurrent, IsBoundBy, Having, Opens, Symbol, Load, Fit, PlacesDiffer, lists
  <1>3. CASE SkipLibrary
    <2>1. \A j : Through(j) = lib_i - 1 /\ Through(j)' = lib_i
      BY <1>0, <1>3 DEF SkipLibrary, Through
    <2>2. \A j : Having(j, lib_i) = Having(j, lib_i - 1)
      BY <1>0, <1>3, HavingGrows DEF SkipLibrary
    <2> QED
      BY <1>2, <1>3, <2>1, <2>2 DEF SkipLibrary, context, lists
  <1>4. CASE OpenLibrary
    <2>1. \A j \in 1 .. Len(b_list) : Through(j)' = Through(j)
      BY <1>4 DEF OpenLibrary, Through
    <2> QED
      BY <1>2, <1>4, <2>1 DEF OpenLibrary, context, lists
  <1>5. CASE EndLibraries
    <2>1. \A j : Through(j)' = Through(j)
      BY <1>5 DEF EndLibraries, Through
    <2> QED
      BY <1>2, <1>5, <2>1 DEF EndLibraries, context, lists
  <1>6. CASE EndBinds
    <2>1. \A j \in 1 .. Len(b_list) : Through(j) = lib_i /\ Through(j)' = lib_i
      BY <1>0, <1>6 DEF EndBinds, Through
    <2> QED
      BY <1>2, <1>6, <2>1 DEF EndBinds, context, lists
  <1>9. CASE CrashUnnamed
    <2>1. \A j \in 1 .. Len(b_list) : Through(j)' = Through(j)
      BY <1>9 DEF CrashUnnamed, AtBind, Through
    <2> QED
      BY <1>2, <1>9, <2>1 DEF CrashUnnamed, context, lists
  <1>7. CASE BindingReturned \/ UNCHANGED binding_vars
    <2>1. \A j : Through(j)' = Through(j)
      BY <1>7 DEF BindingReturned, binding_vars, binding_state, Through
    <2> QED
      BY <1>2, <1>7, <2>1 DEF BindingReturned, binding_vars, binding_state, context, lists
  <1>8. CASE PassUnfit \/ StoreSymbol \/ MissSymbol
    <2> SUFFICES ASSUME PlacesDiffer', NEW j \in 1 .. Len(b_list'), Fit(j)'
                 PROVE  IsBoundBy(j, Through(j))'
      BY DEF BindsAreCurrent
    <2>1. /\ AtBind /\ NextBind
          /\ UNCHANGED <<img_addr, b_list, d_list, host, unbound>>
      BY <1>8 DEF PassUnfit, StoreSymbol, MissSymbol, NextBind, lists
    <2>2. PlacesDiffer /\ j \in 1 .. Len(b_list) /\ Fit(j)
      BY <2>1 DEF PlacesDiffer, Fit
    <2>3. IsBoundBy(j, Through(j))
      BY <2>2 DEF BindsAreCurrent
    <2>4. \A n : Having(j, n)' = Having(j, n) /\ \A i : Symbol(i, j)' = Symbol(i, j)
      BY <2>1 DEF Having, Opens, Symbol
    <2>5. CASE j # bind_j
      <3>1. /\ Load(b_list[j].address)' = Load(b_list[j].address)
            /\ Through(j)' = Through(j)
        BY <1>8, <2>1, <2>2, <2>5, OthersStay DEF PassUnfit, StoreSymbol, MissSymbol
      <3> QED
        BY <2>1, <2>3, <2>4, <3>1 DEF IsBoundBy
    <2>6. CASE j = bind_j
      <3>1. Through(j) = lib_i - 1 /\ Through(j)' = lib_i /\ dpc = "bind"
        BY <1>0, <2>1, <2>6 DEF Through, AtBind, NextBind
      <3>2. Opens(lib_i)
        BY <3>1 DEF BindingTyped, LibraryOpen
      <3>3. CASE MissSymbol
        <4>1. Having(j, lib_i) = Having(j, lib_i - 1)
          BY <1>0, <2>6, <3>3, HavingGrows DEF MissSymbol
        <4>2. Load(b_list[j].address)' = Load(b_list[j].address)
          BY <2>1, <3>3 DEF MissSymbol, Load
        <4> QED
          BY <2>1, <2>3, <2>4, <3>1, <4>1, <4>2 DEF IsBoundBy
      <3>4. CASE StoreSymbol
        <4>1. lib_i \in Having(j, lib_i) /\ \A k \in Having(j, lib_i) : k <= lib_i
          BY <1>0, <2>6, <3>2, <3>4, HavingGrows DEF StoreSymbol
        <4>2. Load(b_list[j].address)' = Symbol(lib_i, j)
          BY <2>1, <2>6, <3>4 DEF StoreSymbol, Store, Load
        <4> QED
          BY <2>1, <2>4, <3>1, <4>1, <4>2 DEF IsBoundBy
      <3> QED
        BY <1>8, <2>2, <2>6, <3>3, <3>4 DEF PassUnfit
    <2> QED
      BY <2>5, <2>6
  <1> QED
    BY <1>1, <1>3, <1>4, <1>5, <1>6, <1>7, <1>8, <1>9 DEF BindingNext, BindingStep

(* At every moment of do_bind each place is bound by the last library so    *)
(* far that has its symbol, whatever the host has.                          *)
THEOREM BindsAreCurrentHolds == BindingSpec => []BindsAreCurrent
  <1>1. BindingSpec => []BindingInv
    BY InitCurrent, StepCurrent, PTL DEF BindingSpec
  <1>2. BindingInv => BindsAreCurrent
    BY DEF BindingInv
  <1> QED
    BY <1>1, <1>2, PTL

(* The stores of do_bind go to the places of binds above img_addr: never    *)
(* through the NULL of a bind whose segment was not mapped.                 *)
THEOREM StoresAtBindsHolds == BindingSpec => StoresAtBinds
  <1> DEFINE A == \A a \in DOMAIN mem' : (a \notin DOMAIN mem \/ mem'[a] # mem[a]) =>
                    /\ a > img_addr
                    /\ \E j \in 1 .. Len(b_list) : a = b_list[j].address
  <1>1. BindingTyped /\ [BindingNext]_binding_vars => [A]_mem
    <2> SUFFICES ASSUME BindingTyped, [BindingNext]_binding_vars, mem' # mem PROVE A
      OBVIOUS
    <2>1. StoreSymbol
      BY DEF BindingNext, BindingStep, BindingReturned, BeginBinding, SkipLibrary, OpenLibrary,
             EndLibraries, EndBinds, PassUnfit, CrashUnnamed, MissSymbol, binding_vars, context
    <2>2. bind_j \in 1 .. Len(b_list) /\ b_list[bind_j].address > img_addr
      BY <2>1 DEF StoreSymbol, AtBind, Fit, BindingTyped, BindingTypeOK
    <2> QED
      BY <2>1, <2>2 DEF StoreSymbol, Store
  <1> HIDE DEF A
  <1>2. BindingSpec => []BindingTyped
    BY InitTyped, StepTyped, PTL DEF BindingSpec
  <1>3. BindingSpec => [][A]_mem
    BY <1>1, <1>2, PTL DEF BindingSpec
  <1> QED
    BY <1>3 DEF StoresAtBinds, A
=============================================================================
