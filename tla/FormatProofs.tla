---------------------------- MODULE FormatProofs ----------------------------
(***************************************************************************)
(* What the walk leaves in memory, whatever the image, the base and the    *)
(* width: when it returns, every fixup of every page it went into holds    *)
(* the word the format defines, as long as the payload keeps to the part   *)
(* of the format the code implements; and the count main warns from is     *)
(* that of the words which still hold a bind.                              *)
(***************************************************************************)
EXTENDS ChainedFixupsProofs

USE DEF Word, Addr, Null

(* Fixup k of page p of segment i is in a page the walk goes into. *)
InWalkedPage(i, p, k) ==
  /\ IsFixup(i, p, k) /\ Walked(i)
  /\ PageHasChain(fixups.segs[i].page_start[p])

(* Nothing behind the cursor was left out... *)
BehindIsVisited ==
  \A i, p, k \in Nat : InWalkedPage(i, p, k) /\ Behind(i, p, k) => PlaceOf(i, p, k) \in visited

(* ...what was visited holds the format's word... *)
VisitedIsRight ==
  \A i, p, k \in Nat : InWalkedPage(i, p, k) /\ PlaceOf(i, p, k) \in visited =>
    mem[PlaceOf(i, p, k)] = FormatValue(fixups, img_addr, RawAt(i, p, k))

(* ...and the walk returns behind the last segment.                         *)
ReturnIsBehind ==
  /\ fpc = "begin" => seg_i = 1
  /\ fpc = "return" /\ HeaderOK => seg_i > Len(fixups.segs)

FormatInv ==
  /\ SupportedPayload(fixups)
  /\ BehindIsVisited /\ VisitedIsRight /\ ReturnIsBehind

----------------------------------------------------------------------------
(* The code's word is the format's, bit for bit.                            *)

LEMMA SupportedWord ==
  ASSUME FixupsTypeOK, SupportedPayload(fixups), NEW i, NEW p, NEW k, InWalkedPage(i, p, k)
  PROVE  /\ fixups.imports_format = IMPORT
         /\ Len(fixups.segs[i].chain[p]) <= ChainLimit
         /\ chained64_is_bind(RawAt(i, p, k)) => bind_addend(RawAt(i, p, k)) < AddendMod \div 2
         /\ ~chained64_is_bind(RawAt(i, p, k)) => rebase_high8(RawAt(i, p, k)) = 0
  <1>1. /\ i \in 1 .. Len(fixups.segs) /\ fixups.segs[i].pointer_format = PTR_64_OFFSET
        /\ p \in 1 .. Len(fixups.segs[i].chain) /\ PageHasChain(fixups.segs[i].page_start[p])
        /\ k \in 1 .. Len(fixups.segs[i].chain[p])
    BY DEF InWalkedPage, IsFixup, Walked, HasStarts
  <1>2. /\ Len(fixups.segs[i].chain[p]) <= ChainLimit
        /\ \A n \in 1 .. Len(fixups.segs[i].chain[p]) :
             IF chained64_is_bind(FixupAt(fixups, i, p, n).raw)
               THEN bind_addend(FixupAt(fixups, i, p, n).raw) < AddendMod \div 2
               ELSE rebase_high8(FixupAt(fixups, i, p, n).raw) = 0
    BY <1>1, Zenon DEF SupportedPayload
  <1>3. IF chained64_is_bind(RawAt(i, p, k))
          THEN bind_addend(RawAt(i, p, k)) < AddendMod \div 2
          ELSE rebase_high8(RawAt(i, p, k)) = 0
    BY <1>1, <1>2, Zenon DEF RawAt
  <1>4. fixups.imports_format = IMPORT
    BY DEF SupportedPayload
  <1> QED
    BY <1>2, <1>3, <1>4

(* apply_chained_64_offset_rebase, of a target without a top byte. *)
LEMMA RebaseIsFormat ==
  ASSUME NEW raw \in Word, NEW base \in Nat, ~chained64_is_bind(raw), rebase_high8(raw) = 0
  PROVE  (base + chained64_rebase_target(raw)) % AddrMod = FormatValue(fixups, base, raw)
  <1>1. AddrMod \div HighMod \in Nat
    BY DivNat, WidthAssumption
  <1>2. chained64_rebase_target(raw) \in Nat
    BY FieldTypes
  <1>3. base + chained64_rebase_target(raw) + 0 * (AddrMod \div HighMod)
          = base + chained64_rebase_target(raw)
    BY <1>1, <1>2
  <1> QED
    BY <1>3 DEF FormatValue

(* The import the code resolves and its int8_t addend, of a positive one. *)
LEMMA BindIsFormat ==
  ASSUME FixupsTypeOK, fixups.imports_format = IMPORT,
         NEW raw \in Word, NEW base, chained64_is_bind(raw),
         bind_addend(raw) < AddendMod \div 2
  PROVE  FormatValue(fixups, base, raw) =
           IF Resolved(raw) # Null
             THEN (Resolved(raw) + chained64_bind_addend(raw)) % AddrMod
             ELSE raw
  <1> DEFINE ordinal == chained64_bind_ordinal(raw)
             name == fixups.imports[ordinal + 1].name
  <1>1. chained64_bind_addend(raw) = bind_addend(raw)
    BY DEF chained64_bind_addend, bind_addend
  <1>2. chained_import_name(ordinal) = name
    BY DEF chained_import_name, IMPORT, IMPORT_ADDEND, IMPORT_ADDEND64
  <1>3. Resolved(raw) = IF ordinal < Len(fixups.imports) THEN Resolve[name] ELSE Null
    BY <1>2 DEF Resolved, HasImportName
  <1>4. CASE ordinal < Len(fixups.imports) /\ Resolve[name] # Null
    <2>1. Resolved(raw) = Resolve[name]
      BY <1>3, <1>4
    <2>2. Resolved(raw) \in Nat /\ bind_addend(raw) \in Int
      BY <1>1, ResolvedType, FieldTypes, WidthAssumption
    <2>3. FormatValue(fixups, base, raw) = (Resolved(raw) + bind_addend(raw) + 0) % AddrMod
      BY <1>4, <2>1 DEF FormatValue
    <2> HIDE DEF ordinal, name
    <2>4. Resolved(raw) + bind_addend(raw) + 0 = Resolved(raw) + bind_addend(raw)
      BY <2>2
    <2> QED
      BY <1>1, <1>4, <2>1, <2>3, <2>4
  <1>5. CASE ~(ordinal < Len(fixups.imports) /\ Resolve[name] # Null)
    BY <1>3, <1>5 DEF FormatValue
  <1> QED
    BY <1>4, <1>5

----------------------------------------------------------------------------
(* No step changes what is in a walked page or what the format asks there.  *)
LEMMA SameFormat ==
  ASSUME UNCHANGED <<img_addr, segments, fixups>>
  PROVE  /\ \A i, p, k : InWalkedPage(i, p, k)' <=> InWalkedPage(i, p, k)
         /\ \A i, p, k : PlaceOf(i, p, k)' = PlaceOf(i, p, k)
         /\ \A i, p, k : FormatValue(fixups, img_addr, RawAt(i, p, k))'
                           = FormatValue(fixups, img_addr, RawAt(i, p, k))
         /\ SupportedPayload(fixups)' <=> SupportedPayload(fixups)
         /\ HeaderOK' <=> HeaderOK
  BY DEF InWalkedPage, IsFixup, Walked, PlaceOf, RawAt, HeaderOK

(* A step at a word leaves the format's word there. *)
LEMMA ProcessIsFormat ==
  ASSUME FixupsInv, ProcessStep, SupportedPayload(fixups)
  PROVE  mem'[loc] = FormatValue(fixups, img_addr, RawAt(seg_i, page, chain_count + 1))
  <1> DEFINE raw == RawAt(seg_i, page, chain_count + 1)
  <1>1. fpc = "chain"
    BY ProcessEffect
  <1>2. loc \in DOMAIN mem /\ Load(loc) = raw /\ mem[loc] = raw
    BY <1>1, AtFixup DEF Load
  <1>3. InWalkedPage(seg_i, page, chain_count + 1)
    BY <1>1 DEF FixupsInv, CursorAtFixup, InWalkedPage
  <1>4. FixupsTypeOK /\ raw \in Word /\ img_addr \in Nat
    BY <1>2, LoadType, WidthAssumption DEF FixupsInv, FixupsTypeOK, ContextTypeOK
  <1>5. /\ fixups.imports_format = IMPORT
        /\ chained64_is_bind(raw) => bind_addend(raw) < AddendMod \div 2
        /\ ~chained64_is_bind(raw) => rebase_high8(raw) = 0
    BY <1>3, <1>4, SupportedWord
  <1> HIDE DEF raw
  <1>6. CASE ApplyRebase
    <2>1. ~chained64_is_bind(raw) /\ mem'[loc] = (img_addr + chained64_rebase_target(raw)) % AddrMod
      BY <1>2, <1>6 DEF ApplyRebase, Store
    <2> QED
      BY <1>4, <1>5, <2>1, RebaseIsFormat DEF raw
  <1>7. CASE ApplyBind
    <2>1. /\ chained64_is_bind(raw) /\ Resolved(raw) # Null
          /\ mem'[loc] = (Resolved(raw) + chained64_bind_addend(raw)) % AddrMod
      BY <1>2, <1>7 DEF ApplyBind, Store
    <2> QED
      BY <1>4, <1>5, <2>1, BindIsFormat DEF raw
  <1>8. CASE LeaveBind
    <2>1. chained64_is_bind(raw) /\ Resolved(raw) = Null /\ mem'[loc] = raw
      BY <1>2, <1>8 DEF LeaveBind
    <2> QED
      BY <1>4, <1>5, <2>1, BindIsFormat DEF raw
  <1> QED
    BY <1>6, <1>7, <1>8 DEF ProcessStep

(* A page's chain is walked to its end: the walk leaves a page at the last  *)
(* word, or at ChainLimit words, of which a supported chain has no more.    *)
LEMMA PageIsDone ==
  ASSUME FixupsInv, ProcessStep, SupportedPayload(fixups), fpc' = "page",
         NEW k \in Nat, IsFixup(seg_i, page, k)
  PROVE  k <= chain_count + 1
  <1> DEFINE raw == RawAt(seg_i, page, chain_count + 1)
             c == fixups.segs[seg_i].chain[page]
  <1>1. fpc = "chain" /\ Advance(raw)
    BY ProcessEffect
  <1>2. chained64_next(raw) = 0 \/ ~(chain_count + 1 < ChainLimit)
    BY <1>1 DEF Advance
  <1>3. /\ InWalkedPage(seg_i, page, chain_count + 1)
        /\ IsFixup(seg_i, page, chain_count + 1)
        /\ page \in 1 .. Len(fixups.segs[seg_i].page_start)
        /\ PageHasChain(fixups.segs[seg_i].page_start[page])
    BY <1>1 DEF FixupsInv, CursorAtFixup, InWalkedPage
  <1>4. k \in 1 .. Len(c) /\ chain_count + 1 \in 1 .. Len(c)
    BY <1>3 DEF IsFixup
  <1>5. CASE chained64_next(raw) = 0
    <2>1. chain_count + 1 = Len(c)
      BY <1>3, <1>5, NextIsLinked DEF FixupsInv
    <2> QED
      BY <1>4, <2>1
  <1>6. CASE ~(chain_count + 1 < ChainLimit)
    <2>1. Len(c) <= ChainLimit
      BY <1>3, SupportedWord DEF FixupsInv
    <2>2. chain_count \in Nat
      BY DEF FixupsInv, FixupsTypeOK
    <2> HIDE DEF c
    <2> QED
      BY <1>4, <1>6, <2>1, <2>2, ChainLimitAssumption
  <1> QED
    BY <1>2, <1>5, <1>6

(* Processing the word at hand keeps the invariant. *)
LEMMA ProcessKeepsFormat ==
  ASSUME FixupsInv, FormatInv, ProcessStep
  PROVE  FormatInv'
  <1>1. /\ fpc = "chain" /\ Advance(RawAt(seg_i, page, chain_count + 1))
        /\ visited' = visited \cup {loc}
        /\ UNCHANGED <<img_addr, segments, fixups, seg_i>>
        /\ \A a \in DOMAIN mem : a # loc => mem'[a] = mem[a]
    BY ProcessEffect
  <1>2. /\ SupportedPayload(fixups)
        /\ IsFixup(seg_i, page, chain_count + 1) /\ loc = PlaceOf(seg_i, page, chain_count + 1)
    BY <1>1 DEF FixupsInv, CursorAtFixup, FormatInv
  <1>3. seg_i \in Nat /\ page \in Nat /\ chain_count \in Nat
    BY <1>1 DEF FixupsInv, FixupsTypeOK
  <1>4. \/ fpc' = "chain" /\ page' = page /\ chain_count' = chain_count + 1
        \/ fpc' = "page" /\ page' = page + 1
    BY <1>1 DEF Advance
  <1>5. BehindIsVisited'
    <2> SUFFICES ASSUME NEW i \in Nat, NEW p \in Nat, NEW k \in Nat,
                        InWalkedPage(i, p, k), Behind(i, p, k)'
                 PROVE  PlaceOf(i, p, k) \in visited'
      BY <1>1, SameFormat DEF BehindIsVisited
    <2>1. CASE Behind(i, p, k)
      BY <1>1, <2>1 DEF BehindIsVisited, FormatInv
    <2>2. CASE ~Behind(i, p, k)
      <3>1. i = seg_i /\ p = page
        BY <1>1, <1>3, <1>4, <2>2 DEF Behind
      <3>2. k <= chain_count + 1
        <4>1. CASE fpc' = "page"
          BY <1>2, <3>1, <4>1, PageIsDone DEF InWalkedPage
        <4>2. CASE fpc' = "chain"
          BY <1>1, <1>3, <1>4, <3>1, <4>2 DEF Behind
        <4> QED
          BY <1>4, <4>1, <4>2
      <3>3. k = chain_count + 1
        BY <1>1, <1>3, <2>2, <3>1, <3>2 DEF Behind
      <3> QED
        BY <1>1, <1>2, <3>1, <3>3
    <2> QED
      BY <2>1, <2>2
  <1>6. VisitedIsRight'
    <2> SUFFICES ASSUME NEW i \in Nat, NEW p \in Nat, NEW k \in Nat,
                        InWalkedPage(i, p, k), PlaceOf(i, p, k) \in visited'
                 PROVE  mem'[PlaceOf(i, p, k)] = FormatValue(fixups, img_addr, RawAt(i, p, k))
      BY <1>1, SameFormat DEF VisitedIsRight
    <2>1. CASE PlaceOf(i, p, k) = loc
      <3>1. i = seg_i /\ p = page /\ k = chain_count + 1
        BY <1>2, <2>1, OnePlaceEach DEF InWalkedPage, FixupsInv
      <3> QED
        BY <1>2, <2>1, <3>1, ProcessIsFormat
    <2>2. CASE PlaceOf(i, p, k) # loc
      <3>1. PlaceOf(i, p, k) \in DOMAIN mem
        BY DEF FixupsInv, HeldUntilVisited, InWalkedPage
      <3>2. mem'[PlaceOf(i, p, k)] = mem[PlaceOf(i, p, k)]
        BY <1>1, <2>2, <3>1
      <3> QED
        BY <1>1, <2>2, <3>2 DEF FormatInv, VisitedIsRight
    <2> QED
      BY <2>1, <2>2
  <1>7. ReturnIsBehind'
    BY <1>4 DEF ReturnIsBehind
  <1> QED
    BY <1>1, <1>2, <1>5, <1>6, <1>7, SameFormat DEF FormatInv

(* Moving the cursor puts behind it only what is visited or not walked. *)
LEMMA MoveKeepsFormat ==
  ASSUME FixupsInv, FormatInv, MoveStep
  PROVE  FormatInv'
  <1>1. /\ UNCHANGED <<img_addr, segments, fixups, mem>>
        /\ visited' = visited
    BY DEF MoveStep, BeginFixups, SkipSegment, EnterSegment, EndSegments, SkipPage, EnterPage,
           EndPages, context, counters, cursor, FixupsInv, VisitedBehind
  <1>2. seg_i \in Nat \ {0} /\ page \in Nat \ {0} /\ chain_count \in Nat
    BY DEF FixupsInv, FixupsTypeOK
  <1>3. SupportedPayload(fixups)'
    BY <1>1, SameFormat DEF FormatInv
  <1>4. VisitedIsRight'
    BY <1>1, SameFormat DEF FormatInv, VisitedIsRight
  <1>5. BehindIsVisited'
    <2> SUFFICES ASSUME NEW i \in Nat, NEW p \in Nat, NEW k \in Nat,
                        InWalkedPage(i, p, k), Behind(i, p, k)'
                 PROVE  Behind(i, p, k)
      BY <1>1, SameFormat DEF BehindIsVisited, FormatInv
    <2>1. i \in Nat \ {0} /\ p \in Nat \ {0} /\ k \in Nat \ {0}
      BY FixupType DEF InWalkedPage, FixupsInv
    <2>2. CASE BeginFixups
      BY <2>1, <2>2 DEF BeginFixups, Behind
    <2>3. CASE SkipSegment \/ EnterSegment \/ EndSegments
      BY <1>2, <2>1, <2>3 DEF SkipSegment, EnterSegment, EndSegments, Behind, InWalkedPage, cursor
    <2>4. CASE SkipPage \/ EnterPage
      BY <1>2, <2>1, <2>4 DEF SkipPage, EnterPage, Behind, InWalkedPage, seg
    <2>5. CASE EndPages
      <3>1. /\ fpc = "page" /\ page > Len(fixups.segs[seg_i].page_start)
            /\ seg_i' = seg_i + 1 /\ fpc' = "segment"
        BY <2>5 DEF EndPages, seg
      <3>2. i < seg_i \/ i = seg_i
        BY <1>2, <3>1 DEF Behind
      <3>3. CASE i = seg_i
        <4>1. i \in 1 .. Len(fixups.segs) /\ p \in 1 .. Len(fixups.segs[i].chain)
          BY DEF InWalkedPage, IsFixup
        <4>2. Len(fixups.segs[i].chain) = Len(fixups.segs[i].page_start)
          BY <4>1 DEF FixupsInv, WellLinked
        <4>3. Len(fixups.segs[i].page_start) \in Nat
          BY <4>1, PageCountType DEF FixupsInv
        <4>4. p < page
          BY <1>2, <3>1, <3>3, <4>1, <4>2, <4>3
        <4> QED
          BY <3>1, <3>3, <4>4 DEF Behind
      <3> QED
        BY <3>2, <3>3 DEF Behind
    <2> QED
      BY <2>2, <2>3, <2>4, <2>5 DEF MoveStep
  <1>6. ReturnIsBehind'
    <2>1. CASE BeginFixups
      BY <1>1, <2>1 DEF BeginFixups, ReturnIsBehind, HeaderOK
    <2>2. CASE EndSegments
      BY <1>1, <2>2 DEF EndSegments, ReturnIsBehind, cursor
    <2>3. CASE SkipSegment \/ EnterSegment \/ SkipPage \/ EnterPage \/ EndPages
      BY <2>3 DEF SkipSegment, EnterSegment, SkipPage, EnterPage, EndPages, ReturnIsBehind
    <2> QED
      BY <2>1, <2>2, <2>3 DEF MoveStep
  <1> QED
    BY <1>3, <1>4, <1>5, <1>6 DEF FormatInv

LEMMA StepFormat == FixupsInv /\ FormatInv /\ [FixupsNext]_fixups_vars => FormatInv'
  <1> SUFFICES ASSUME FixupsInv, FormatInv, [FixupsNext]_fixups_vars PROVE FormatInv'
    OBVIOUS
  <1>1. CASE MoveStep
    BY <1>1, MoveKeepsFormat
  <1>2. CASE ProcessStep
    BY <1>2, ProcessKeepsFormat
  <1>3. CASE UNCHANGED fixups_vars
    <2>1. /\ UNCHANGED <<img_addr, segments, mem, fixups, fpc, seg_i, page, chain_count, visited>>
      BY <1>3 DEF fixups_vars, fixups_state, context, cursor
    <2>2. \A i, p, k : Behind(i, p, k)' <=> Behind(i, p, k)
      BY <2>1 DEF Behind
    <2> QED
      BY <2>1, <2>2, SameFormat
      DEF FormatInv, BehindIsVisited, VisitedIsRight, ReturnIsBehind
  <1> QED
    BY <1>1, <1>2, <1>3 DEF FixupsNext, FixupsStep, Returned, MoveStep, ProcessStep

LEMMA InitFormat == FixupsInit /\ SupportedPayload(fixups) => FormatInv
  <1> SUFFICES ASSUME FixupsInit, SupportedPayload(fixups) PROVE FormatInv
    OBVIOUS
  <1>1. fpc = "begin" /\ seg_i = 1 /\ visited = {} /\ FixupsTypeOK
    BY InitTypeOK DEF FixupsInit
  <1>2. BehindIsVisited
    <2> SUFFICES ASSUME NEW i \in Nat, NEW p \in Nat, NEW k \in Nat,
                        InWalkedPage(i, p, k), Behind(i, p, k)
                 PROVE  FALSE
      BY DEF BehindIsVisited
    <2>1. i \in Nat \ {0}
      BY <1>1, FixupType DEF InWalkedPage
    <2> QED
      BY <1>1, <2>1 DEF Behind
  <1> QED
    BY <1>1, <1>2 DEF FormatInv, VisitedIsRight, ReturnIsBehind

(* At its return the walk has left the format's word at every fixup. *)
LEMMA FormatAtReturn == FixupsInv /\ FormatInv => FixupsMatchFormat
  <1> SUFFICES ASSUME FixupsInv, FormatInv, fpc = "return", HeaderOK,
                      NEW i \in 1 .. Len(fixups.segs), Walked(i),
                      NEW p \in 1 .. Len(fixups.segs[i].chain),
                      PageHasChain(fixups.segs[i].page_start[p]),
                      NEW k \in 1 .. Len(fixups.segs[i].chain[p])
               PROVE  Load(PlaceOf(i, p, k))
                        = FormatValue(fixups, img_addr, FixupAt(fixups, i, p, k).raw)
    BY DEF FixupsMatchFormat
  <1>1. InWalkedPage(i, p, k) /\ IsFixup(i, p, k)
    BY DEF InWalkedPage, IsFixup
  <1>2. i \in Nat /\ p \in Nat /\ k \in Nat /\ seg_i \in Nat /\ Len(fixups.segs) \in Nat
    BY <1>1, FixupType DEF FixupsInv, FixupsTypeOK, FixupsPayload
  <1>3. i < seg_i
    BY <1>2 DEF FormatInv, ReturnIsBehind
  <1>4. PlaceOf(i, p, k) \in visited /\ PlaceOf(i, p, k) \in DOMAIN mem
    BY <1>1, <1>2, <1>3 DEF FormatInv, BehindIsVisited, Behind, FixupsInv, HeldUntilVisited
  <1>5. mem[PlaceOf(i, p, k)] = FormatValue(fixups, img_addr, RawAt(i, p, k))
    BY <1>1, <1>2, <1>4 DEF FormatInv, VisitedIsRight
  <1> QED
    BY <1>4, <1>5 DEF Load, RawAt

(* Whatever the image, base and width: if the payload keeps to the part of  *)
(* the format that dump_chained_64_offset_entries implements, then at its   *)
(* return every fixup of every page it went into holds what the format asks *)
(* for.  MCImport, MCLongPage, MCHigh and MCAddend each drop one condition  *)
(* of SupportedPayload, and TLC finds the word that is then wrong.          *)
THEOREM FixupsMatchFormatHolds ==
  FixupsSpec /\ SupportedPayload(fixups) => []FixupsMatchFormat
  BY InitFormat, StepFormat, FormatAtReturn, FixupsInvariant, PTL DEF FixupsSpec

----------------------------------------------------------------------------
(* What a rebase or a resolved bind stores never has the bind bit, so the   *)
(* processed words that still decode as binds are exactly the ones the walk *)
(* left and counted.                                                        *)
Encoded == {a \in visited : chained64_is_bind(Load(a))}

(* The base is one of the host's, and before the walk nothing is counted.   *)
CountInv ==
  /\ img_addr \in HostBases
  /\ fpc = "begin" => visited = {}
  /\ UnresolvedAreLeft

----------------------------------------------------------------------------
LEMMA DivZero ==
  ASSUME NEW x \in Nat, NEW n \in Nat \ {0}, x < n
  PROVE  x \div n = 0
  OBVIOUS

LEMMA ModSmall ==
  ASSUME NEW x \in Nat, NEW n \in Nat \ {0}
  PROVE  x % n \in Nat /\ x % n <= x
  OBVIOUS

(* A sum below the bind bit has not the bit. *)
LEMMA LowIsNoBind ==
  ASSUME NEW x \in Nat, x < BindShift
  PROVE  ~chained64_is_bind(x % AddrMod)
  <1>1. x % AddrMod \in Nat /\ x % AddrMod <= x
    BY ModSmall, WidthAssumption
  <1>2. (x % AddrMod) \div BindShift = 0
    BY <1>1, DivZero, WidthAssumption
  <1> QED
    BY <1>2 DEF chained64_is_bind

(* Nor has the word of a rebase, as the image lies below it... *)
LEMMA RebaseIsNoBind ==
  ASSUME NEW base \in HostBases, NEW raw \in Word
  PROVE  ~chained64_is_bind((base + chained64_rebase_target(raw)) % AddrMod)
  <1> DEFINE target == chained64_rebase_target(raw)
  <1>1. target \in Nat /\ target < TargetMod
    BY ModRange, WidthAssumption DEF chained64_rebase_target
  <1>2. base \in Nat /\ base + TargetMod < BindShift
    BY HostAssumption, WidthAssumption
  <1>3. base + target \in Nat /\ base + target < BindShift
    BY <1>1, <1>2, WidthAssumption
  <1> QED
    BY <1>3, LowIsNoBind

(* ...nor that of a resolved bind, as the host's symbols do. *)
LEMMA BoundIsNoBind ==
  ASSUME FixupsTypeOK, NEW raw \in Word, Resolved(raw) # Null
  PROVE  ~chained64_is_bind((Resolved(raw) + chained64_bind_addend(raw)) % AddrMod)
  <1> DEFINE ordinal == chained64_bind_ordinal(raw)
             addend == chained64_bind_addend(raw)
  <1>1. HasImportName(ordinal) /\ Resolved(raw) = Resolve[chained_import_name(ordinal)]
    BY DEF Resolved
  <1>2. chained_import_name(ordinal) \in Names
    <2>1. ordinal \in Nat
      BY FieldTypes
    <2>2. /\ fixups.imports \in Seq(Import)
          /\ ordinal + 1 \in 1 .. Len(fixups.imports)
      BY <1>1, <2>1 DEF FixupsTypeOK, FixupsPayload, HasImportName
    <2>3. ordinal \div 2 + 1 \in 1 .. Len(fixups.imports)
      BY <2>1, <2>2, DivNat
    <2>4. \A n \in 1 .. Len(fixups.imports) : fixups.imports[n] \in Import
      BY <2>2
    <2>5. \A n \in 1 .. Len(fixups.imports) : fixups.imports[n].name \in Names
      BY <2>4 DEF Import
    <2> QED
      BY <2>2, <2>3, <2>5, HostAssumption DEF chained_import_name
  <1>3. /\ Resolved(raw) \in Nat
        /\ Resolved(raw) >= AddendMod /\ Resolved(raw) + AddendMod < BindShift
    BY <1>1, <1>2, HostAssumption, WidthAssumption
  <1>4. addend \in Int /\ 0 - AddendMod <= addend /\ addend < AddendMod
    <2>1. raw \in Nat /\ raw \div OrdinalMod \in Nat
      BY DivNat, WidthAssumption
    <2>2. (raw \div OrdinalMod) % AddendMod \in 0 .. AddendMod - 1
      BY <2>1, ModRange, WidthAssumption
    <2>3. AddendMod \div 2 \in Nat
      BY DivNat, WidthAssumption
    <2> QED
      BY <2>2, <2>3, WidthAssumption DEF chained64_bind_addend
  <1> HIDE DEF addend
  <1>5. Resolved(raw) + addend \in Nat /\ Resolved(raw) + addend < BindShift
    BY <1>3, <1>4, WidthAssumption
  <1>6. ~chained64_is_bind((Resolved(raw) + addend) % AddrMod)
    BY <1>5, LowIsNoBind
  <1> QED
    BY <1>6 DEF addend

----------------------------------------------------------------------------
(* What a step at a word adds to the encoded ones. *)
LEMMA ProcessEncodes ==
  ASSUME FixupsInv, ProcessStep, img_addr \in HostBases
  PROVE  /\ loc \notin Encoded
         /\ \/ /\ Encoded' = Encoded
               /\ UNCHANGED chained_unresolved_bind_count
            \/ /\ Encoded' = Encoded \cup {loc}
               /\ chained_unresolved_bind_count' = chained_unresolved_bind_count + 1
  <1>1. /\ fpc = "chain" /\ visited' = visited \cup {loc}
        /\ DOMAIN mem' = DOMAIN mem /\ UNCHANGED img_addr
        /\ \A a \in DOMAIN mem : a # loc => mem'[a] = mem[a]
    BY ProcessEffect
  <1>2. loc \notin visited /\ loc \in DOMAIN mem
    BY <1>1, AtFixup
  <1>3. Load(loc) \in Word /\ FixupsTypeOK
    BY LoadType DEF FixupsInv, FixupsTypeOK
  <1>4. \A a \in visited : Load(a)' = Load(a)
    BY <1>1, <1>2 DEF Load
  <1>5. PICK at : at = loc
    OBVIOUS
  <1>6. Encoded' = Encoded \cup (IF chained64_is_bind(Load(at)') THEN {loc} ELSE {})
    <2>1. \A a \in visited : chained64_is_bind(Load(a))' <=> chained64_is_bind(Load(a))
      BY <1>4 DEF chained64_is_bind
    <2> QED
      BY <1>1, <1>5, <2>1 DEF Encoded, chained64_is_bind
  <1>7. CASE ApplyRebase
    <2>1. Load(at)' = (img_addr + chained64_rebase_target(Load(loc))) % AddrMod
      BY <1>1, <1>2, <1>7, <1>5 DEF ApplyRebase, Store, Load
    <2>2. ~chained64_is_bind(Load(at)')
      BY <1>3, <2>1, RebaseIsNoBind
    <2> QED
      BY <1>2, <1>6, <1>7, <2>2 DEF ApplyRebase, Encoded
  <1>8. CASE ApplyBind
    <2>1. /\ Resolved(Load(loc)) # Null
          /\ Load(at)' = (Resolved(Load(loc)) + chained64_bind_addend(Load(loc))) % AddrMod
      BY <1>1, <1>2, <1>8, <1>5 DEF ApplyBind, Store, Load
    <2>2. ~chained64_is_bind(Load(at)')
      BY <1>3, <2>1, BoundIsNoBind
    <2> QED
      BY <1>2, <1>6, <1>8, <2>2 DEF ApplyBind, Encoded
  <1>9. CASE LeaveBind
    <2>1. chained64_is_bind(Load(loc)) /\ Load(at)' = Load(loc)
      BY <1>9, <1>5 DEF LeaveBind, Load
    <2>2. chained64_is_bind(Load(at)')
      BY <2>1 DEF chained64_is_bind
    <2> QED
      BY <1>2, <1>6, <1>9, <2>2 DEF LeaveBind, Encoded
  <1> QED
    BY <1>7, <1>8, <1>9 DEF ProcessStep

LEMMA StepCountInv ==
  ASSUME FixupsInv, CountInv, [FixupsNext]_fixups_vars
  PROVE  CountInv'
  <1>1. IsFiniteSet(Encoded) /\ chained_unresolved_bind_count = Cardinality(Encoded)
    BY FS_Subset DEF FixupsInv, CountOK, CountInv, UnresolvedAreLeft, Encoded
  <1>2. CASE ProcessStep
    <2>1. /\ UNCHANGED img_addr /\ fpc' # "begin"
      BY <1>2, ProcessEffect DEF Advance
    <2>2. /\ loc \notin Encoded
          /\ \/ /\ Encoded' = Encoded
                /\ UNCHANGED chained_unresolved_bind_count
             \/ /\ Encoded' = Encoded \cup {loc}
                /\ chained_unresolved_bind_count' = chained_unresolved_bind_count + 1
      BY <1>2, ProcessEncodes DEF CountInv
    <2>3. chained_unresolved_bind_count' = Cardinality(Encoded')
      BY <1>1, <2>2, FS_AddElement
    <2> QED
      BY <2>1, <2>3 DEF CountInv, UnresolvedAreLeft, Encoded
  <1>3. CASE BeginFixups
    <2>1. /\ UNCHANGED <<img_addr, chained_unresolved_bind_count>> /\ visited = {} /\ visited' = {}
      BY <1>3 DEF BeginFixups, CountInv, context
    <2>2. Encoded = {} /\ Encoded' = {}
      BY <2>1 DEF Encoded
    <2> QED
      BY <1>1, <2>1, <2>2 DEF CountInv, UnresolvedAreLeft, Encoded
  <1>4. CASE (MoveStep /\ ~BeginFixups) \/ UNCHANGED fixups_vars
    <2>1. /\ UNCHANGED <<img_addr, mem, visited, chained_unresolved_bind_count>>
          /\ fpc' = "begin" => fpc = "begin"
      BY <1>4 DEF MoveStep, SkipSegment, EnterSegment, EndSegments, SkipPage, EnterPage,
                  EndPages, fixups_vars, fixups_state, context, counters, cursor
    <2>2. UnresolvedAreLeft'
      BY <2>1 DEF CountInv, UnresolvedAreLeft, Load
    <2> QED
      BY <2>1, <2>2 DEF CountInv
  <1> QED
    BY <1>2, <1>3, <1>4 DEF FixupsNext, FixupsStep, Returned, MoveStep, ProcessStep

LEMMA InitCountInv == FixupsInit => CountInv
  <1> SUFFICES ASSUME FixupsInit PROVE CountInv
    OBVIOUS
  <1>1. img_addr \in HostBases /\ visited = {} /\ chained_unresolved_bind_count = 0
    BY DEF FixupsInit
  <1>2. {a \in visited : chained64_is_bind(Load(a))} = {}
    BY <1>1
  <1> QED
    BY <1>1, <1>2, FS_EmptySet DEF CountInv, UnresolvedAreLeft

(* For every image, base and width, chained_unresolved_bind_count, from     *)
(* which main decides to warn, is at every moment the number of processed   *)
(* words that still hold an encoded bind.                                   *)
THEOREM UnresolvedAreLeftHolds == FixupsSpec => []UnresolvedAreLeft
  <1>1. FixupsInv /\ CountInv /\ [FixupsNext]_fixups_vars => CountInv'
    BY StepCountInv
  <1>2. CountInv => UnresolvedAreLeft
    BY DEF CountInv
  <1> QED
    BY <1>1, <1>2, InitCountInv, FixupsInvariant, PTL DEF FixupsSpec
=============================================================================
