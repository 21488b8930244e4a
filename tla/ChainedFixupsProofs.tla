------------------------ MODULE ChainedFixupsProofs ------------------------
(***************************************************************************)
(* Proofs about the chained-fixup walk, for every image a linker can have  *)
(* made (ImagesAssumption), every base and every width of the machine.     *)
(***************************************************************************)
EXTENDS ChainedFixups, FiniteSetTheorems, TLAPS

USE DEF Word, Addr, Null

----------------------------------------------------------------------------
(* Arithmetic the bit fields rest on. *)

LEMMA ModRange ==
  ASSUME NEW x \in Int, NEW n \in Nat \ {0}
  PROVE  x % n \in 0 .. n - 1
  OBVIOUS

LEMMA DivNat ==
  ASSUME NEW x \in Nat, NEW n \in Nat \ {0}
  PROVE  x \div n \in Nat /\ x \div n <= x
  OBVIOUS

LEMMA ProductNat ==
  ASSUME NEW m \in Nat, NEW n \in Nat
  PROVE  m * n \in Nat
  OBVIOUS

(* A 64-bit sum is a word. *)
LEMMA WordSum ==
  ASSUME NEW x \in Int
  PROVE  x % AddrMod \in Word
  BY ModRange, WidthAssumption

(* The fields of a word are naturals within their widths, as the extractors *)
(* of main.c return them.                                                   *)
LEMMA FieldTypes ==
  ASSUME NEW raw \in Word
  PROVE  /\ chained64_next(raw) \in Nat
         /\ chained64_rebase_target(raw) \in Nat
         /\ chained64_bind_ordinal(raw) \in Nat
         /\ chained64_bind_addend(raw) \in Int
  <1>1. raw \in Nat
    BY WidthAssumption
  <1>2. raw \div NextShift \in Nat /\ raw \div OrdinalMod \in Nat
    BY <1>1, DivNat, WidthAssumption
  <1>3. /\ (raw \div NextShift) % NextMod \in Nat
        /\ (raw \div OrdinalMod) % AddendMod \in Nat
        /\ raw % TargetMod \in Nat
        /\ raw % OrdinalMod \in Nat
    BY <1>1, <1>2, ModRange, WidthAssumption
  <1> QED
    BY <1>3, WidthAssumption
    DEF chained64_next, chained64_rebase_target, chained64_bind_ordinal, chained64_bind_addend

(* A load of mapped memory is a word. *)
LEMMA LoadType ==
  ASSUME ContextTypeOK, NEW a
  PROVE  Load(a) \in Word
  BY WidthAssumption DEF ContextTypeOK, Load

(* A store of a word keeps memory a map from addresses to words. *)
LEMMA StoreType ==
  ASSUME ContextTypeOK, NEW a \in Nat, NEW w \in Word, Store(a, w)
  PROVE  /\ DOMAIN mem' \subseteq Nat
         /\ \A x \in DOMAIN mem' : mem'[x] \in Word
  BY DEF ContextTypeOK, Store

----------------------------------------------------------------------------
(* Type correctness of the walk: no step leaves img_addr, the table, the    *)
(* memory, the cursor or the counters outside their ranges; in particular   *)
(* a resolved import is always a host address (resolve_macho_import_symbol  *)
(* is called with a name whatever ordinal the word has).                    *)

LEMMA ResolvedType ==
  ASSUME FixupsTypeOK, NEW raw \in Word
  PROVE  Resolved(raw) \in Addr
  <1> DEFINE ordinal == chained64_bind_ordinal(raw)
  <1>1. ordinal \in Nat
    BY FieldTypes
  <1>2. CASE HasImportName(ordinal)
    <2>1. /\ fixups.imports \in Seq(Import)
          /\ ordinal + 1 \in 1 .. Len(fixups.imports)
      BY <1>1, <1>2 DEF FixupsTypeOK, FixupsPayload, HasImportName
    <2>2. ordinal \div 2 + 1 \in 1 .. Len(fixups.imports)
      BY <1>1, <2>1, DivNat
    <2>3. \A n \in 1 .. Len(fixups.imports) : fixups.imports[n] \in Import
      BY <2>1
    <2>4. \A n \in 1 .. Len(fixups.imports) : fixups.imports[n].name \in Names
      BY <2>3 DEF Import
    <2>5. chained_import_name(ordinal) \in Names
      BY <2>1, <2>2, <2>4, HostAssumption DEF chained_import_name
    <2> QED
      BY <2>5, <1>2, HostAssumption DEF Resolved
  <1>3. CASE ~HasImportName(ordinal)
    BY <1>3, WidthAssumption DEF Resolved
  <1> QED
    BY <1>2, <1>3, Zenon

LEMMA InitTypeOK == FixupsInit => FixupsTypeOK
  <1> SUFFICES ASSUME FixupsInit PROVE FixupsTypeOK
    OBVIOUS
  <1>1. PICK im \in Images, base \in HostBases :
          /\ img_addr = base
          /\ fixups = im.fixups
          /\ segments = [i \in 1 .. Len(im.segs) |->
               [segname |-> im.segs[i].segname, vmaddr |-> im.segs[i].vmaddr,
                vmsize |-> im.segs[i].vmsize,
                mapped_addr |-> IF im.segs[i].mapped
                                  THEN base + im.segs[i].vmaddr - im.v_addr ELSE Null]]
          /\ mem = [a \in {base + off : off \in DOMAIN im.words} |-> im.words[a - base]]
    BY DEF FixupsInit
  <1>2. img_addr \in Addr /\ base \in Nat
    BY <1>1, HostAssumption, WidthAssumption
  <1>3. fixups \in FixupsPayload
    BY <1>1, ImagesAssumption
  <1>4. segments \in Seq(SegmentInfo) /\ Len(segments) <= MaxSegments
    <2>1. im.segs \in Seq(ImageSegment) /\ Len(im.segs) <= MaxSegments
      BY ImagesAssumption
    <2>2. \A i \in 1 .. Len(im.segs) : segments[i] \in SegmentInfo
      <3> SUFFICES ASSUME NEW i \in 1 .. Len(im.segs) PROVE segments[i] \in SegmentInfo
        OBVIOUS
      <3>1. im.segs[i] \in ImageSegment
        BY <2>1
      <3>2. im.segs[i].mapped => base + im.segs[i].vmaddr - im.v_addr \in Addr
        BY ImagesAssumption
      <3> QED
        BY <1>1, <3>1, <3>2, WidthAssumption DEF ImageSegment, SegmentInfo
    <2>3. Len(im.segs) \in Nat /\ DOMAIN segments = 1 .. Len(im.segs)
      BY <1>1, <2>1
    <2>4. segments = [i \in 1 .. Len(im.segs) |-> segments[i]]
      BY <1>1
    <2>5. segments \in [1 .. Len(im.segs) -> SegmentInfo]
      BY <2>2, <2>4
    <2>6. segments \in Seq(SegmentInfo) /\ Len(segments) = Len(im.segs)
      BY <2>3, <2>5
    <2> QED
      BY <2>1, <2>6
  <1>5. DOMAIN mem \subseteq Nat /\ \A a \in DOMAIN mem : mem[a] \in Word
    <2>1. DOMAIN im.words \subseteq Nat /\ \A o \in DOMAIN im.words : im.words[o] \in Word
      BY ImagesAssumption
    <2> SUFFICES ASSUME NEW a \in DOMAIN mem PROVE a \in Nat /\ mem[a] \in Word
      OBVIOUS
    <2>2. PICK off \in DOMAIN im.words : a = base + off
      BY <1>1
    <2>3. off \in Nat /\ a - base = off
      BY <1>2, <2>1, <2>2
    <2>4. mem[a] = im.words[off]
      BY <1>1, <2>3
    <2> QED
      BY <1>2, <2>1, <2>2, <2>3, <2>4
  <1>6. /\ fpc = "begin"
        /\ seg_i = 1 /\ page = 1 /\ loc = 0 /\ chain_count = 0
        /\ chained_rebase_count = 0 /\ chained_bind_count = 0
        /\ chained_unresolved_bind_count = 0
        /\ visited = {}
    BY DEF FixupsInit
  <1> QED
    BY <1>2, <1>3, <1>4, <1>5, <1>6, ChainLimitAssumption DEF FixupsTypeOK, ContextTypeOK

(* The words Advance leaves the cursor at are still in range. *)
LEMMA AdvanceType ==
  ASSUME FixupsTypeOK, fpc = "chain", NEW raw \in Word, Advance(raw)
  PROVE  /\ fpc' \in {"chain", "page"}
         /\ seg_i' \in Nat \ {0} /\ page' \in Nat \ {0}
         /\ loc' \in Nat /\ chain_count' \in 0 .. ChainLimit - 1
         /\ visited' \subseteq Nat
         /\ img_addr' \in Addr /\ fixups' \in FixupsPayload
         /\ segments' \in Seq(SegmentInfo) /\ Len(segments') <= MaxSegments
  <1>1. chained64_next(raw) \in Nat
    BY FieldTypes
  <1>2. /\ img_addr' = img_addr /\ segments' = segments
        /\ fixups' = fixups /\ seg_i' = seg_i
        /\ visited' = visited \cup {loc}
    BY DEF Advance
  <1>3. \/ /\ loc' = loc + chained64_next(raw) * 4
           /\ chain_count' = chain_count + 1 /\ chain_count + 1 < ChainLimit
           /\ fpc' = fpc /\ page' = page
        \/ /\ fpc' = "page" /\ page' = page + 1
           /\ loc' = loc /\ chain_count' = chain_count
    BY DEF Advance
  <1> QED
    BY <1>1, <1>2, <1>3, ChainLimitAssumption DEF FixupsTypeOK, ContextTypeOK

(* The place of a page's first fixup is an address: the sum EnterPage forms. *)
LEMMA PageSum ==
  ASSUME NEW base \in Nat, NEW off \in Nat, NEW size \in Nat,
         NEW p \in Nat \ {0}, NEW start \in Nat
  PROVE  base + off + (p - 1) * size + start \in Nat
  <1>1. (p - 1) * size \in Nat
    BY ProductNat
  <1> QED
    BY <1>1

LEMMA EnterPageType ==
  ASSUME FixupsTypeOK, seg_i \in 1 .. Len(fixups.segs), EnterPage
  PROVE  loc' \in Nat
  <1>1. fixups.segs \in Seq(StartsInSegment)
    BY DEF FixupsTypeOK, FixupsPayload
  <1>2. PICK s \in StartsInSegment : fixups.segs[seg_i] = s
    BY <1>1
  <1>3. PICK off \in Nat, size \in Nat, starts \in Seq(Nat) :
          s.segment_offset = off /\ s.page_size = size /\ s.page_start = starts
    BY DEF StartsInSegment
  <1>4. /\ page \in Nat \ {0} /\ page <= Len(starts)
        /\ loc' = img_addr + off + (page - 1) * size + starts[page]
    BY <1>2, <1>3 DEF EnterPage, seg, FixupsTypeOK
  <1>5. img_addr \in Nat
    BY WidthAssumption DEF FixupsTypeOK, ContextTypeOK
  <1>6. starts[page] \in Nat
    BY <1>4
  <1>7. img_addr + off + (page - 1) * size + starts[page] \in Nat
    BY <1>4, <1>5, <1>6, PageSum
  <1> QED
    BY <1>4, <1>7

LEMMA PageCountType ==
  ASSUME FixupsTypeOK, NEW i \in 1 .. Len(fixups.segs)
  PROVE  Len(fixups.segs[i].page_start) \in Nat
  <1>1. fixups.segs \in Seq(StartsInSegment)
    BY DEF FixupsTypeOK, FixupsPayload
  <1>2. PICK s \in StartsInSegment : fixups.segs[i] = s
    BY <1>1
  <1>3. PICK starts \in Seq(Nat) : s.page_start = starts
    BY DEF StartsInSegment
  <1> QED
    BY <1>2, <1>3

(* The sum of EnterPage, whichever way it is associated. *)
LEMMA FirstPlaceSum ==
  ASSUME FixupsTypeOK, NEW i \in 1 .. Len(fixups.segs),
         NEW p \in 1 .. Len(fixups.segs[i].page_start)
  PROVE  img_addr + fixups.segs[i].segment_offset + (p - 1) * fixups.segs[i].page_size
           + fixups.segs[i].page_start[p]
         = img_addr + (fixups.segs[i].segment_offset + (p - 1) * fixups.segs[i].page_size
           + fixups.segs[i].page_start[p])
  <1>1. fixups.segs \in Seq(StartsInSegment)
    BY DEF FixupsTypeOK, FixupsPayload
  <1>2. PICK s \in StartsInSegment : fixups.segs[i] = s
    BY <1>1
  <1>3. PICK off \in Nat, size \in Nat, starts \in Seq(Nat) :
          s.segment_offset = off /\ s.page_size = size /\ s.page_start = starts
    BY DEF StartsInSegment
  <1>4. PICK start \in Nat : starts[p] = start
    BY <1>2, <1>3
  <1>5. img_addr \in Nat /\ p - 1 \in Nat
    BY <1>2, <1>3, WidthAssumption DEF FixupsTypeOK, ContextTypeOK
  <1>6. (p - 1) * size \in Nat
    BY <1>5, ProductNat
  <1>7. img_addr + off + (p - 1) * size + start = img_addr + (off + (p - 1) * size + start)
    BY <1>5, <1>6
  <1> QED
    BY <1>2, <1>3, <1>4, <1>7

(* The three ways a word of a chain is processed store a word and count it. *)
LEMMA ProcessType ==
  ASSUME FixupsTypeOK, ApplyRebase \/ ApplyBind \/ LeaveBind
  PROVE  FixupsTypeOK'
  <1> DEFINE raw == Load(loc)
  <1>1. fpc = "chain" /\ Advance(raw) /\ raw \in Word /\ loc \in Nat /\ img_addr \in Nat
    BY LoadType, WidthAssumption DEF ApplyRebase, ApplyBind, LeaveBind, FixupsTypeOK, ContextTypeOK
  <1>2. /\ fpc' \in {"chain", "page"}
        /\ seg_i' \in Nat \ {0} /\ page' \in Nat \ {0}
        /\ loc' \in Nat /\ chain_count' \in 0 .. ChainLimit - 1
        /\ visited' \subseteq Nat
        /\ img_addr' \in Addr /\ fixups' \in FixupsPayload
        /\ segments' \in Seq(SegmentInfo) /\ Len(segments') <= MaxSegments
    BY <1>1, AdvanceType
  <1>3. DOMAIN mem' \subseteq Nat /\ \A x \in DOMAIN mem' : mem'[x] \in Word
    <2>1. CASE ApplyRebase
      <3>1. (img_addr + chained64_rebase_target(raw)) % AddrMod \in Word
        <4>1. img_addr + chained64_rebase_target(raw) \in Int
          BY <1>1, FieldTypes
        <4> QED
          BY <4>1, WordSum
      <3> QED
        BY <1>1, <2>1, <3>1, StoreType DEF ApplyRebase, FixupsTypeOK
    <2>2. CASE ApplyBind
      <3>1. Resolved(raw) \in Nat
        BY <1>1, ResolvedType, WidthAssumption
      <3>2. (Resolved(raw) + chained64_bind_addend(raw)) % AddrMod \in Word
        <4>1. Resolved(raw) + chained64_bind_addend(raw) \in Int
          BY <1>1, <3>1, FieldTypes
        <4> QED
          BY <4>1, WordSum
      <3> QED
        BY <1>1, <2>2, <3>2, StoreType DEF ApplyBind, FixupsTypeOK
    <2>3. CASE LeaveBind
      BY <2>3 DEF LeaveBind, FixupsTypeOK, ContextTypeOK
    <2> QED
      BY <2>1, <2>2, <2>3
  <1>4. /\ chained_rebase_count' \in Nat /\ chained_bind_count' \in Nat
        /\ chained_unresolved_bind_count' \in Nat
    BY DEF ApplyRebase, ApplyBind, LeaveBind, FixupsTypeOK
  <1> QED
    BY <1>2, <1>3, <1>4 DEF FixupsTypeOK, ContextTypeOK

(* Inside a segment the loop index is one of the payload's segments. *)
SegmentInRange == fpc \in {"page", "chain"} => seg_i \in 1 .. Len(fixups.segs)

LEMMA StepTypeOK ==
  ASSUME FixupsTypeOK, SegmentInRange, [FixupsNext]_fixups_vars
  PROVE  FixupsTypeOK' /\ SegmentInRange'
  <1> USE DEF FixupsTypeOK, ContextTypeOK, SegmentInRange, context, counters
  <1>1. CASE BeginFixups
    BY <1>1 DEF BeginFixups
  <1>2. CASE SkipSegment
    BY <1>2 DEF SkipSegment
  <1>3. CASE EnterSegment
    BY <1>3 DEF EnterSegment
  <1>4. CASE EndSegments
    BY <1>4 DEF EndSegments, cursor
  <1>5. CASE SkipPage
    BY <1>5 DEF SkipPage
  <1>6. CASE EnterPage
    <2>1. seg_i \in 1 .. Len(fixups.segs)
      BY <1>6 DEF EnterPage
    <2>2. loc' \in Nat
      BY <1>6, <2>1, EnterPageType
    <2> QED
      BY <1>6, <2>1, <2>2, ChainLimitAssumption DEF EnterPage
  <1>7. CASE EndPages
    BY <1>7 DEF EndPages
  <1>8. CASE ApplyRebase \/ ApplyBind \/ LeaveBind
    <2>1. FixupsTypeOK'
      BY <1>8, ProcessType
    <2>2. fpc = "chain" /\ UNCHANGED <<seg_i, fixups>>
      BY <1>8 DEF ApplyRebase, ApplyBind, LeaveBind, Advance
    <2> QED
      BY <2>1, <2>2
  <1>9. CASE Returned \/ UNCHANGED fixups_vars
    BY <1>9 DEF Returned, fixups_vars, fixups_state, cursor
  <1> QED
    BY <1>1, <1>2, <1>3, <1>4, <1>5, <1>6, <1>7, <1>8, <1>9 DEF FixupsNext, FixupsStep

(* Every state of the walk is well typed. *)
THEOREM FixupsTypeCorrect == FixupsSpec => []FixupsTypeOK
  <1>1. FixupsInit => FixupsTypeOK /\ SegmentInRange
    BY InitTypeOK DEF FixupsInit, SegmentInRange
  <1>2. FixupsTypeOK /\ SegmentInRange /\ [FixupsNext]_fixups_vars
          => FixupsTypeOK' /\ SegmentInRange'
    BY StepTypeOK
  <1> QED
    BY <1>1, <1>2, PTL DEF FixupsSpec

----------------------------------------------------------------------------
(* The inductive invariant of the walk.  EachPlaceOnce is not inductive by  *)
(* itself: that the place at hand was not visited before follows from where *)
(* the visited places are (all behind the cursor), from the cursor being at *)
(* a fixup of the payload, and from that place still holding the word the   *)
(* linker left, so that its next leads to the fixup the linker linked.      *)

IsFixup(i, p, k) ==
  /\ i \in 1 .. Len(fixups.segs)
  /\ p \in 1 .. Len(fixups.segs[i].chain)
  /\ k \in 1 .. Len(fixups.segs[i].chain[p])

RawAt(i, p, k) == FixupAt(fixups, i, p, k).raw

(* The walk is past fixup k of page p of segment i. *)
Behind(i, p, k) ==
  \/ i < seg_i
  \/ /\ i = seg_i /\ fpc \in {"page", "chain"}
     /\ p < page \/ (p = page /\ fpc = "chain" /\ k <= chain_count)

HeldUntilVisited ==
  \A i, p, k \in Nat : IsFixup(i, p, k) /\ Walked(i) =>
    /\ PlaceOf(i, p, k) \in DOMAIN mem
    /\ PlaceOf(i, p, k) \notin visited => mem[PlaceOf(i, p, k)] = RawAt(i, p, k)

CursorAtFixup ==
  /\ fpc \in {"page", "chain"} => Walked(seg_i)
  /\ fpc = "chain" =>
       /\ IsFixup(seg_i, page, chain_count + 1)
       /\ page \in 1 .. Len(fixups.segs[seg_i].page_start)
       /\ PageHasChain(fixups.segs[seg_i].page_start[page])
       /\ loc = PlaceOf(seg_i, page, chain_count + 1)

VisitedBehind ==
  /\ fpc = "begin" => visited = {}
  /\ \A a \in visited : \E i, p, k \in Nat :
       IsFixup(i, p, k) /\ Walked(i) /\ Behind(i, p, k) /\ a = PlaceOf(i, p, k)

CountOK == IsFiniteSet(visited) /\ EachPlaceOnce

FixupsInv ==
  /\ FixupsTypeOK /\ SegmentInRange /\ WellLinked(fixups)
  /\ HeldUntilVisited /\ CursorAtFixup /\ VisitedBehind /\ CountOK

----------------------------------------------------------------------------
(* What a well-linked payload gives the walk. *)

LEMMA FixupType ==
  ASSUME FixupsTypeOK, NEW i, NEW p, NEW k, IsFixup(i, p, k)
  PROVE  /\ i \in Nat \ {0} /\ p \in Nat \ {0} /\ k \in Nat \ {0}
         /\ FixupAt(fixups, i, p, k).off \in Nat
         /\ RawAt(i, p, k) \in Word
         /\ PlaceOf(i, p, k) \in Nat
  <1>1. fixups.segs \in Seq(StartsInSegment)
    BY DEF FixupsTypeOK, FixupsPayload
  <1>2. PICK s \in StartsInSegment : fixups.segs[i] = s
    BY <1>1 DEF IsFixup
  <1>3. PICK chains \in Seq(Seq(Fixup)) : s.chain = chains
    BY DEF StartsInSegment
  <1>4. PICK c \in Seq(Fixup) : chains[p] = c
    BY <1>2, <1>3 DEF IsFixup
  <1>5. PICK e \in Fixup : c[k] = e
    BY <1>2, <1>3, <1>4 DEF IsFixup
  <1>6. e.off \in Nat /\ e.raw \in Word
    BY DEF Fixup
  <1>7. FixupAt(fixups, i, p, k) = e
    BY <1>2, <1>3, <1>4, <1>5 DEF FixupAt
  <1>8. i \in Nat \ {0} /\ p \in Nat \ {0} /\ k \in Nat \ {0}
    BY <1>1, <1>2, <1>3, <1>4 DEF IsFixup
  <1>9. img_addr \in Nat
    BY WidthAssumption DEF FixupsTypeOK, ContextTypeOK
  <1> QED
    BY <1>6, <1>7, <1>8, <1>9 DEF RawAt, PlaceOf

(* Two fixups at one place are the same fixup. *)
LEMMA OnePlaceEach ==
  ASSUME FixupsTypeOK, WellLinked(fixups),
         NEW i, NEW p, NEW k, IsFixup(i, p, k),
         NEW j, NEW q, NEW l, IsFixup(j, q, l),
         PlaceOf(i, p, k) = PlaceOf(j, q, l)
  PROVE  i = j /\ p = q /\ k = l
  <1>1. /\ FixupAt(fixups, i, p, k).off \in Nat
        /\ FixupAt(fixups, j, q, l).off \in Nat
        /\ img_addr \in Nat
    BY FixupType, WidthAssumption DEF FixupsTypeOK, ContextTypeOK
  <1>2. FixupAt(fixups, i, p, k).off = FixupAt(fixups, j, q, l).off
    BY <1>1 DEF PlaceOf
  <1>3. /\ i \in 1 .. Len(fixups.segs) /\ j \in 1 .. Len(fixups.segs)
        /\ p \in 1 .. Len(fixups.segs[i].chain) /\ q \in 1 .. Len(fixups.segs[j].chain)
        /\ k \in 1 .. Len(fixups.segs[i].chain[p]) /\ l \in 1 .. Len(fixups.segs[j].chain[q])
    BY DEF IsFixup
  <1>4. \A a, b \in 1 .. Len(fixups.segs) :
          \A x \in 1 .. Len(fixups.segs[a].chain), y \in 1 .. Len(fixups.segs[b].chain) :
            \A m \in 1 .. Len(fixups.segs[a].chain[x]), n \in 1 .. Len(fixups.segs[b].chain[y]) :
              FixupAt(fixups, a, x, m).off = FixupAt(fixups, b, y, n).off
                => a = b /\ x = y /\ m = n
    BY DEF WellLinked
  <1>5. \A x \in 1 .. Len(fixups.segs[i].chain), y \in 1 .. Len(fixups.segs[j].chain) :
          \A m \in 1 .. Len(fixups.segs[i].chain[x]), n \in 1 .. Len(fixups.segs[j].chain[y]) :
            FixupAt(fixups, i, x, m).off = FixupAt(fixups, j, y, n).off
              => i = j /\ x = y /\ m = n
    BY <1>3, <1>4, Zenon
  <1>6. \A m \in 1 .. Len(fixups.segs[i].chain[p]), n \in 1 .. Len(fixups.segs[j].chain[q]) :
          FixupAt(fixups, i, p, m).off = FixupAt(fixups, j, q, n).off
            => i = j /\ p = q /\ m = n
    BY <1>3, <1>5, Zenon
  <1> QED
    BY <1>2, <1>3, <1>6, Zenon

(* The start the file records is the place of a chain's first fixup. *)
LEMMA StartIsFirst ==
  ASSUME FixupsTypeOK, WellLinked(fixups),
         NEW i \in 1 .. Len(fixups.segs),
         NEW p \in 1 .. Len(fixups.segs[i].page_start),
         PageHasChain(fixups.segs[i].page_start[p])
  PROVE  /\ IsFixup(i, p, 1)
         /\ PlaceOf(i, p, 1) = img_addr + (fixups.segs[i].segment_offset
              + (p - 1) * fixups.segs[i].page_size + fixups.segs[i].page_start[p])
  <1>1. ChainLinks(fixups.segs[i], p) /\ Len(fixups.segs[i].chain) = Len(fixups.segs[i].page_start)
    BY DEF WellLinked
  <1>2. /\ fixups.segs[i].chain[p] # << >>
        /\ fixups.segs[i].chain[p][1].off = fixups.segs[i].segment_offset
             + (p - 1) * fixups.segs[i].page_size + fixups.segs[i].page_start[p]
    BY <1>1 DEF ChainLinks
  <1>3. fixups.segs \in Seq(StartsInSegment)
    BY DEF FixupsTypeOK, FixupsPayload
  <1>4. PICK s \in StartsInSegment : fixups.segs[i] = s
    BY <1>3
  <1>5. PICK chains \in Seq(Seq(Fixup)) : s.chain = chains
    BY DEF StartsInSegment
  <1>6. p \in 1 .. Len(chains)
    BY <1>1, <1>4, <1>5
  <1>7. chains[p] \in Seq(Fixup) /\ chains[p] # << >>
    BY <1>2, <1>4, <1>5, <1>6
  <1>8. IsFixup(i, p, 1)
    BY <1>4, <1>5, <1>6, <1>7 DEF IsFixup
  <1> QED
    BY <1>2, <1>8 DEF PlaceOf, FixupAt

(* The next of a fixup's word leads to the fixup linked after it, and only  *)
(* the last one's is 0.                                                     *)
LEMMA NextIsLinked ==
  ASSUME FixupsTypeOK, WellLinked(fixups),
         NEW i, NEW p, NEW k, IsFixup(i, p, k),
         p \in 1 .. Len(fixups.segs[i].page_start),
         PageHasChain(fixups.segs[i].page_start[p])
  PROVE  IF chained64_next(RawAt(i, p, k)) # 0
           THEN /\ IsFixup(i, p, k + 1)
                /\ PlaceOf(i, p, k + 1) = PlaceOf(i, p, k) + chained64_next(RawAt(i, p, k)) * 4
           ELSE k = Len(fixups.segs[i].chain[p])
  <1> DEFINE c == fixups.segs[i].chain[p]
  <1>1. ChainLinks(fixups.segs[i], p)
    BY DEF WellLinked, IsFixup
  <1>2. /\ \A n \in 1 .. Len(c) - 1 :
             /\ chained64_next(c[n].raw) # 0
             /\ c[n + 1].off = c[n].off + chained64_next(c[n].raw) * 4
        /\ chained64_next(c[Len(c)].raw) = 0
    BY <1>1 DEF ChainLinks
  <1>3. k \in 1 .. Len(c) /\ RawAt(i, p, k) = c[k].raw
    BY DEF IsFixup, RawAt, FixupAt
  <1>4. Len(c) \in Nat
    <2>1. fixups.segs \in Seq(StartsInSegment)
      BY DEF FixupsTypeOK, FixupsPayload
    <2>2. PICK s \in StartsInSegment : fixups.segs[i] = s
      BY <2>1 DEF IsFixup
    <2>3. PICK chains \in Seq(Seq(Fixup)) : s.chain = chains
      BY DEF StartsInSegment
    <2> QED
      BY <2>2, <2>3 DEF IsFixup
  <1>5. CASE k < Len(c)
    <2>1. k \in 1 .. Len(c) - 1 /\ k + 1 \in 1 .. Len(c)
      BY <1>3, <1>4, <1>5
    <2>2. IsFixup(i, p, k + 1)
      BY <2>1 DEF IsFixup
    <2>3. c[k + 1].off = c[k].off + chained64_next(c[k].raw) * 4 /\ chained64_next(c[k].raw) # 0
      BY <1>2, <2>1
    <2>4. FixupAt(fixups, i, p, k) = c[k] /\ FixupAt(fixups, i, p, k + 1) = c[k + 1]
      BY DEF FixupAt
    <2>5. c[k].off \in Nat /\ RawAt(i, p, k) \in Word
      BY <2>4, FixupType
    <2>6. chained64_next(RawAt(i, p, k)) \in Nat /\ img_addr \in Nat
      BY <2>5, FieldTypes, WidthAssumption DEF FixupsTypeOK, ContextTypeOK
    <2>7. PlaceOf(i, p, k) = img_addr + c[k].off /\ PlaceOf(i, p, k + 1) = img_addr + c[k + 1].off
      BY <2>4 DEF PlaceOf
    <2> HIDE DEF c
    <2>8. PlaceOf(i, p, k + 1) = PlaceOf(i, p, k) + chained64_next(RawAt(i, p, k)) * 4
      BY <1>3, <2>3, <2>5, <2>6, <2>7
    <2> QED
      BY <1>3, <2>2, <2>3, <2>8
  <1>6. CASE k = Len(c)
    BY <1>2, <1>3, <1>6
  <1> QED
    BY <1>3, <1>4, <1>5, <1>6

----------------------------------------------------------------------------
(* In the middle of a chain the cursor is at a fixup not yet visited, whose *)
(* word is the linker's.                                                    *)
LEMMA AtFixup ==
  ASSUME FixupsInv, fpc = "chain"
  PROVE  /\ loc \notin visited
         /\ loc \in DOMAIN mem
         /\ Load(loc) = RawAt(seg_i, page, chain_count + 1)
         /\ Declared(loc)
  <1> USE DEF FixupsInv
  <1>1. /\ IsFixup(seg_i, page, chain_count + 1)
        /\ PageHasChain(fixups.segs[seg_i].page_start[page])
        /\ loc = PlaceOf(seg_i, page, chain_count + 1)
        /\ Walked(seg_i)
    BY DEF CursorAtFixup
  <1>2. seg_i \in Nat /\ page \in Nat /\ chain_count \in Nat /\ chain_count + 1 \in Nat
    BY ChainLimitAssumption DEF FixupsTypeOK
  <1>3. loc \notin visited
    <2> SUFFICES ASSUME loc \in visited PROVE FALSE
      OBVIOUS
    <2>1. PICK i \in Nat, p \in Nat, k \in Nat :
            IsFixup(i, p, k) /\ Behind(i, p, k) /\ loc = PlaceOf(i, p, k)
      BY DEF VisitedBehind
    <2>2. i = seg_i /\ p = page /\ k = chain_count + 1
      BY <1>1, <2>1, OnePlaceEach
    <2> QED
      BY <1>2, <2>1, <2>2 DEF Behind
  <1>4. loc \in DOMAIN mem /\ mem[loc] = RawAt(seg_i, page, chain_count + 1)
    BY <1>1, <1>2, <1>3 DEF HeldUntilVisited
  <1>5. Declared(loc)
    BY <1>1 DEF Declared, IsFixup
  <1> QED
    BY <1>3, <1>4, <1>5 DEF Load

(* What is behind the cursor stays behind it. *)
LEMMA BehindStays ==
  ASSUME FixupsTypeOK, FixupsStep, fpc # "begin",
         NEW i \in Nat, NEW p \in Nat, NEW k \in Nat, Behind(i, p, k)
  PROVE  Behind(i, p, k)'
  <1> USE DEF Behind, FixupsTypeOK
  <1>1. CASE SkipSegment \/ EnterSegment \/ EndSegments
    BY <1>1 DEF SkipSegment, EnterSegment, EndSegments, cursor
  <1>2. CASE SkipPage \/ EnterPage \/ EndPages
    BY <1>2 DEF SkipPage, EnterPage, EndPages
  <1>3. CASE ApplyRebase \/ ApplyBind \/ LeaveBind
    <2>1. fpc = "chain" /\ Advance(Load(loc))
      BY <1>3 DEF ApplyRebase, ApplyBind, LeaveBind
    <2>2. /\ seg_i' = seg_i
          /\ \/ fpc' = fpc /\ page' = page /\ chain_count' = chain_count + 1
             \/ fpc' = "page" /\ page' = page + 1
      BY <2>1 DEF Advance
    <2> QED
      BY <2>1, <2>2, ChainLimitAssumption
  <1> QED
    BY <1>1, <1>2, <1>3 DEF FixupsStep, BeginFixups

(* The payload, the table and the base never change, nor does what is       *)
(* declared.                                                                *)
LEMMA SamePayload ==
  ASSUME UNCHANGED <<img_addr, segments, fixups>>
  PROVE  /\ \A i, p, k : IsFixup(i, p, k)' <=> IsFixup(i, p, k)
         /\ \A i, p, k : PlaceOf(i, p, k)' = PlaceOf(i, p, k)
         /\ \A i, p, k : RawAt(i, p, k)' = RawAt(i, p, k)
         /\ \A i : Walked(i)' <=> Walked(i)
         /\ WellLinked(fixups)' <=> WellLinked(fixups)
  BY DEF IsFixup, PlaceOf, RawAt, Walked

(* The steps that move the cursor without touching a word. *)
MoveStep ==
  \/ BeginFixups \/ SkipSegment \/ EnterSegment \/ EndSegments
  \/ SkipPage \/ EnterPage \/ EndPages

LEMMA MoveKeepsInv ==
  ASSUME FixupsInv, MoveStep
  PROVE  FixupsInv'
  <1>1. /\ UNCHANGED <<img_addr, segments, fixups, mem>>
        /\ fpc # "begin" => UNCHANGED <<visited, chained_rebase_count, chained_bind_count>>
        /\ fpc = "begin" => visited' = {} /\ chained_rebase_count' = 0 /\ chained_bind_count' = 0
        /\ fpc' # "begin"
    BY DEF MoveStep, BeginFixups, SkipSegment, EnterSegment, EndSegments, SkipPage, EnterPage,
           EndPages, context, counters, cursor
  <1>2. FixupsTypeOK' /\ SegmentInRange'
    BY StepTypeOK DEF FixupsInv, MoveStep, FixupsNext, FixupsStep
  <1>3. WellLinked(fixups)'
    BY <1>1, SamePayload DEF FixupsInv
  <1>4. HeldUntilVisited'
    <2>1. visited' = visited
      BY <1>1 DEF FixupsInv, VisitedBehind
    <2> QED
      BY <1>1, <2>1, SamePayload DEF FixupsInv, HeldUntilVisited
  <1>5. VisitedBehind'
    <2>1. CASE fpc = "begin"
      BY <1>1, <2>1 DEF VisitedBehind
    <2>2. CASE fpc # "begin"
      <3> SUFFICES ASSUME NEW a \in visited
                   PROVE  \E i, p, k \in Nat :
                            /\ IsFixup(i, p, k)' /\ Walked(i)'
                            /\ Behind(i, p, k)' /\ a = PlaceOf(i, p, k)'
        BY <1>1, <2>2 DEF VisitedBehind
      <3>1. PICK i \in Nat, p \in Nat, k \in Nat :
              IsFixup(i, p, k) /\ Walked(i) /\ Behind(i, p, k) /\ a = PlaceOf(i, p, k)
        BY DEF FixupsInv, VisitedBehind
      <3>2. Behind(i, p, k)'
        BY <2>2, <3>1, BehindStays DEF FixupsInv, MoveStep, FixupsStep
      <3>3. IsFixup(i, p, k)' /\ Walked(i)' /\ a = PlaceOf(i, p, k)'
        BY <1>1, <3>1, SamePayload
      <3> QED
        BY <3>2, <3>3
    <2> QED
      BY <2>1, <2>2
  <1>6. CountOK'
    <2>1. CASE fpc = "begin"
      BY <1>1, <2>1, FS_EmptySet DEF CountOK, EachPlaceOnce
    <2>2. CASE fpc # "begin"
      BY <1>1, <2>2 DEF FixupsInv, CountOK, EachPlaceOnce
    <2> QED
      BY <2>1, <2>2
  <1>7. CursorAtFixup'
    <2>1. CASE EnterSegment
      BY <1>1, <2>1, SamePayload DEF EnterSegment, CursorAtFixup
    <2>2. CASE SkipPage
      BY <1>1, <2>2, SamePayload DEF SkipPage, CursorAtFixup, FixupsInv
    <2>3. CASE EnterPage
      <3>1. /\ fpc = "page" /\ seg_i' = seg_i /\ page' = page
            /\ chain_count' = 0 /\ fpc' = "chain"
            /\ page \in Nat \ {0} /\ page <= Len(fixups.segs[seg_i].page_start)
            /\ PageHasChain(fixups.segs[seg_i].page_start[page])
            /\ loc' = img_addr + fixups.segs[seg_i].segment_offset
                 + (page - 1) * fixups.segs[seg_i].page_size
                 + fixups.segs[seg_i].page_start[page]
        BY <2>3 DEF EnterPage, seg, FixupsInv, FixupsTypeOK
      <3>2. seg_i \in 1 .. Len(fixups.segs) /\ Walked(seg_i)
        BY <3>1 DEF FixupsInv, SegmentInRange, CursorAtFixup
      <3>3. page \in 1 .. Len(fixups.segs[seg_i].page_start)
        <4>1. Len(fixups.segs[seg_i].page_start) \in Nat
          BY <3>2, PageCountType DEF FixupsInv
        <4> QED
          BY <3>1, <4>1
      <3>4. /\ IsFixup(seg_i, page, 1)
            /\ PlaceOf(seg_i, page, 1) = img_addr + (fixups.segs[seg_i].segment_offset
                 + (page - 1) * fixups.segs[seg_i].page_size
                 + fixups.segs[seg_i].page_start[page])
        BY <3>1, <3>2, <3>3, StartIsFirst DEF FixupsInv
      <3>5. loc' = PlaceOf(seg_i, page, 1)
        BY <3>1, <3>2, <3>3, <3>4, FirstPlaceSum DEF FixupsInv
      <3> QED
        BY <1>1, <3>1, <3>2, <3>3, <3>4, <3>5, SamePayload DEF CursorAtFixup
    <2>4. CASE BeginFixups \/ SkipSegment \/ EndSegments \/ EndPages
      BY <2>4 DEF BeginFixups, SkipSegment, EndSegments, EndPages, CursorAtFixup
    <2> QED
      BY <2>1, <2>2, <2>3, <2>4 DEF MoveStep
  <1> QED
    BY <1>2, <1>3, <1>4, <1>5, <1>6, <1>7 DEF FixupsInv

(* The steps that process the word at hand. *)
ProcessStep == ApplyRebase \/ ApplyBind \/ LeaveBind

LEMMA ProcessEffect ==
  ASSUME FixupsInv, ProcessStep
  PROVE  /\ fpc = "chain"
         /\ Advance(RawAt(seg_i, page, chain_count + 1))
         /\ visited' = visited \cup {loc}
         /\ UNCHANGED <<img_addr, segments, lists, fixups, seg_i>>
         /\ DOMAIN mem' = DOMAIN mem
         /\ \A a \in DOMAIN mem : a # loc => mem'[a] = mem[a]
         /\ chained_rebase_count' + chained_bind_count'
              = chained_rebase_count + chained_bind_count + 1
  <1>1. fpc = "chain" /\ Advance(Load(loc))
    BY DEF ProcessStep, ApplyRebase, ApplyBind, LeaveBind
  <1>2. loc \in DOMAIN mem /\ Load(loc) = RawAt(seg_i, page, chain_count + 1)
    BY <1>1, AtFixup
  <1>3. DOMAIN mem' = DOMAIN mem /\ \A a \in DOMAIN mem : a # loc => mem'[a] = mem[a]
    <2>1. CASE UNCHANGED mem
      BY <2>1
    <2>2. CASE \E w : Store(loc, w)
      BY <1>2, <2>2 DEF Store
    <2> QED
      BY <2>1, <2>2 DEF ProcessStep, ApplyRebase, ApplyBind, LeaveBind
  <1>4. chained_rebase_count' + chained_bind_count' = chained_rebase_count + chained_bind_count + 1
    BY DEF ProcessStep, ApplyRebase, ApplyBind, LeaveBind, FixupsInv, FixupsTypeOK
  <1> QED
    BY <1>1, <1>2, <1>3, <1>4 DEF Advance

LEMMA ProcessKeepsInv ==
  ASSUME FixupsInv, ProcessStep
  PROVE  FixupsInv'
  <1> DEFINE raw == RawAt(seg_i, page, chain_count + 1)
  <1>1. /\ fpc = "chain" /\ Advance(raw)
        /\ visited' = visited \cup {loc}
        /\ UNCHANGED <<img_addr, segments, lists, fixups, seg_i>>
        /\ DOMAIN mem' = DOMAIN mem
        /\ \A a \in DOMAIN mem : a # loc => mem'[a] = mem[a]
        /\ chained_rebase_count' + chained_bind_count'
              = chained_rebase_count + chained_bind_count + 1
    BY ProcessEffect
  <1>2. loc \notin visited
    BY <1>1, AtFixup
  <1>3. /\ IsFixup(seg_i, page, chain_count + 1)
        /\ page \in 1 .. Len(fixups.segs[seg_i].page_start)
        /\ PageHasChain(fixups.segs[seg_i].page_start[page])
        /\ loc = PlaceOf(seg_i, page, chain_count + 1)
        /\ Walked(seg_i)
    BY <1>1 DEF FixupsInv, CursorAtFixup
  <1>4. /\ seg_i \in Nat /\ page \in Nat /\ chain_count \in Nat
        /\ IsFiniteSet(visited) /\ chained_rebase_count + chained_bind_count = Cardinality(visited)
    BY <1>1, ChainLimitAssumption DEF FixupsInv, FixupsTypeOK, CountOK, EachPlaceOnce
  <1>5. FixupsTypeOK' /\ SegmentInRange'
    BY StepTypeOK DEF FixupsInv, ProcessStep, FixupsNext, FixupsStep
  <1>6. WellLinked(fixups)'
    BY <1>1, SamePayload DEF FixupsInv
  <1>7. HeldUntilVisited'
    BY <1>1, SamePayload DEF FixupsInv, HeldUntilVisited
  <1>8. /\ fpc' \in {"page", "chain"}
        /\ fpc' = "page" => page' = page + 1
        /\ fpc' = "chain" =>
             /\ page' = page /\ chain_count' = chain_count + 1
             /\ chained64_next(raw) # 0
             /\ loc' = loc + chained64_next(raw) * 4
    BY <1>1 DEF Advance
  <1>9. PICK i \in Nat, p \in Nat, k \in Nat :
          i = seg_i /\ p = page /\ k = chain_count + 1
    BY <1>4
  <1>10. IsFixup(i, p, k) /\ loc = PlaceOf(i, p, k) /\ Behind(i, p, k)'
    BY <1>1, <1>3, <1>4, <1>8, <1>9 DEF Behind
  <1>11. VisitedBehind'
    <2> SUFFICES ASSUME NEW a \in visited'
                 PROVE  \E j, q, l \in Nat :
                          /\ IsFixup(j, q, l)' /\ Walked(j)'
                          /\ Behind(j, q, l)' /\ a = PlaceOf(j, q, l)'
      BY <1>8 DEF VisitedBehind
    <2>1. CASE a = loc
      BY <1>1, <1>3, <1>9, <1>10, <2>1, SamePayload
    <2>2. CASE a # loc
      <3>1. PICK j \in Nat, q \in Nat, l \in Nat :
              IsFixup(j, q, l) /\ Walked(j) /\ Behind(j, q, l) /\ a = PlaceOf(j, q, l)
        BY <1>1, <2>2 DEF FixupsInv, VisitedBehind
      <3>2. Behind(j, q, l)'
        BY <1>1, <3>1, BehindStays DEF ProcessStep, FixupsStep, FixupsInv
      <3> QED
        BY <1>1, <3>1, <3>2, SamePayload
    <2> QED
      BY <2>1, <2>2
  <1>12. CountOK'
    BY <1>1, <1>2, <1>4, FS_AddElement DEF CountOK, EachPlaceOnce
  <1>13. CursorAtFixup'
    <2>1. Walked(seg_i)' /\ i = seg_i'
      BY <1>1, <1>3, <1>9, SamePayload
    <2>2. CASE fpc' = "page"
      BY <2>1, <2>2 DEF CursorAtFixup
    <2>3. CASE fpc' = "chain"
      <3>1. IsFixup(i, p, k + 1) /\ PlaceOf(i, p, k + 1) = loc + chained64_next(raw) * 4
        BY <1>3, <1>8, <1>9, <2>3, NextIsLinked DEF FixupsInv
      <3>2. IsFixup(i, p, k + 1)' /\ PlaceOf(i, p, k + 1)' = loc'
        BY <1>1, <1>8, <2>3, <3>1, SamePayload
      <3>3. page' = p /\ chain_count' + 1 = k + 1
        BY <1>8, <1>9, <2>3
      <3>4. IsFixup(seg_i, page, chain_count + 1)' /\ loc' = PlaceOf(seg_i, page, chain_count + 1)'
        BY <2>1, <3>2, <3>3
      <3>5. /\ page' \in 1 .. Len(fixups'.segs[seg_i'].page_start)
            /\ PageHasChain(fixups'.segs[seg_i'].page_start[page'])
        BY <1>1, <1>3, <1>9, <3>3
      <3> QED
        BY <2>1, <3>4, <3>5 DEF CursorAtFixup
    <2> QED
      BY <1>8, <2>2, <2>3
  <1> QED
    BY <1>5, <1>6, <1>7, <1>11, <1>12, <1>13 DEF FixupsInv

LEMMA InitInv == FixupsInit => FixupsInv
  <1> SUFFICES ASSUME FixupsInit PROVE FixupsInv
    OBVIOUS
  <1>1. PICK im \in Images, base \in HostBases :
          /\ img_addr = base
          /\ fixups = im.fixups
          /\ mem = [a \in {base + off : off \in DOMAIN im.words} |-> im.words[a - base]]
    BY DEF FixupsInit
  <1>2. fpc = "begin" /\ visited = {}
    BY DEF FixupsInit
  <1>3. FixupsTypeOK
    BY InitTypeOK
  <1>4. WellLinked(fixups)
    BY <1>1, ImagesAssumption
  <1>5. HeldUntilVisited
    <2> SUFFICES ASSUME NEW i \in Nat, NEW p \in Nat, NEW k \in Nat, IsFixup(i, p, k)
                 PROVE  /\ PlaceOf(i, p, k) \in DOMAIN mem
                        /\ mem[PlaceOf(i, p, k)] = RawAt(i, p, k)
      BY DEF HeldUntilVisited
    <2> DEFINE off == FixupAt(fixups, i, p, k).off
    <2>1. off \in DOMAIN im.words /\ im.words[off] = RawAt(i, p, k)
      BY <1>1, ImagesAssumption DEF WordsInPlace, IsFixup, RawAt
    <2>2. off \in Nat /\ base \in Nat
      BY <1>3, FixupType, HostAssumption, WidthAssumption
    <2>3. PlaceOf(i, p, k) = base + off
      BY <1>1 DEF PlaceOf
    <2> HIDE DEF off
    <2>4. base + off \in DOMAIN mem /\ (base + off) - base = off
      BY <1>1, <2>1, <2>2
    <2>5. mem[base + off] = im.words[off]
      BY <1>1, <2>4
    <2> QED
      BY <2>1, <2>3, <2>4, <2>5
  <1>6. SegmentInRange /\ CursorAtFixup /\ VisitedBehind
    BY <1>2 DEF SegmentInRange, CursorAtFixup, VisitedBehind
  <1>7. CountOK
    BY <1>2, FS_EmptySet DEF CountOK, EachPlaceOnce
  <1> QED
    BY <1>3, <1>4, <1>5, <1>6, <1>7 DEF FixupsInv

LEMMA StepInv == FixupsInv /\ [FixupsNext]_fixups_vars => FixupsInv'
  <1> SUFFICES ASSUME FixupsInv, [FixupsNext]_fixups_vars PROVE FixupsInv'
    OBVIOUS
  <1>1. CASE MoveStep
    BY <1>1, MoveKeepsInv
  <1>2. CASE ProcessStep
    BY <1>2, ProcessKeepsInv
  <1>3. CASE UNCHANGED fixups_vars
    <2>1. /\ UNCHANGED <<img_addr, segments, mem, fixups, fpc, seg_i, page, loc, chain_count>>
          /\ UNCHANGED <<chained_rebase_count, chained_bind_count, visited>>
      BY <1>3 DEF fixups_vars, fixups_state, context, cursor, counters
    <2>2. FixupsTypeOK' /\ SegmentInRange'
      BY StepTypeOK DEF FixupsInv
    <2>3. WellLinked(fixups)'
      BY <2>1 DEF FixupsInv
    <2>4. HeldUntilVisited' /\ CursorAtFixup'
      BY <2>1, SamePayload DEF FixupsInv, HeldUntilVisited, CursorAtFixup
    <2>5. VisitedBehind' /\ CountOK'
      BY <2>1, SamePayload DEF FixupsInv, VisitedBehind, Behind, CountOK, EachPlaceOnce
    <2> QED
      BY <2>2, <2>3, <2>4, <2>5 DEF FixupsInv
  <1> QED
    BY <1>1, <1>2, <1>3 DEF FixupsNext, FixupsStep, Returned, MoveStep, ProcessStep

(* The walk is where the payload says, whatever the image: its cursor is at *)
(* a linked fixup, everything visited is behind it, and every fixup ahead   *)
(* still holds the word load_segment_64 copied.                             *)
THEOREM FixupsInvariant == FixupsSpec => []FixupsInv
  BY InitInv, StepInv, PTL DEF FixupsSpec

(* The walk processes no word twice (the loop over the chain of            *)
(* dump_chained_64_offset_entries): its two counters count places.         *)
THEOREM EachPlaceOnceHolds == FixupsSpec => []EachPlaceOnce
  <1>1. FixupsInv => EachPlaceOnce
    BY DEF FixupsInv, CountOK
  <1> QED
    BY <1>1, FixupsInvariant, PTL

(* Whatever the chain limit, the base and the payload, a store of           *)
(* apply_chained_64_offset_rebase or apply_chained_bind goes to a fixup the *)
(* payload declares, and to each at most once.                              *)
THEOREM RewritesDeclaredOnceHolds == FixupsSpec => RewritesDeclaredOnce
  <1> DEFINE A == \A a \in DOMAIN mem' : (a \notin DOMAIN mem \/ mem'[a] # mem[a]) =>
                    a \in DOMAIN mem /\ a \notin visited /\ Declared(a)
  <1>1. FixupsInv /\ [FixupsNext]_fixups_vars => [A]_mem
    <2> SUFFICES ASSUME FixupsInv, [FixupsNext]_fixups_vars, mem' # mem PROVE A
      OBVIOUS
    <2>1. ProcessStep
      BY DEF FixupsNext, FixupsStep, Returned, ProcessStep, fixups_vars, fixups_state, context,
             BeginFixups, SkipSegment, EnterSegment, EndSegments, SkipPage, EnterPage, EndPages
    <2>2. /\ fpc = "chain" /\ DOMAIN mem' = DOMAIN mem
          /\ \A a \in DOMAIN mem : a # loc => mem'[a] = mem[a]
      BY <2>1, ProcessEffect
    <2>3. loc \notin visited /\ Declared(loc)
      BY <2>2, AtFixup
    <2> QED
      BY <2>2, <2>3
  <1> HIDE DEF A
  <1>2. FixupsSpec => [][A]_mem
    BY <1>1, FixupsInvariant, PTL DEF FixupsSpec
  <1> QED
    BY <1>2 DEF RewritesDeclaredOnce, A
=============================================================================
