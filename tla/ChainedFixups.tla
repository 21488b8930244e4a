--------------------------- MODULE ChainedFixups ---------------------------
(***************************************************************************)
(* dump_chained_fixups and dump_chained_64_offset_entries (main.c): the    *)
(* walk over the payload of LC_DYLD_CHAINED_FIXUPS that rewrites, in the   *)
(* mapped image, every pointer of every chain.  A chain is read out of the *)
(* very memory it is rewriting, one word per step.                         *)
(***************************************************************************)
EXTENDS MachContext

CONSTANTS
  ChainLimit,   \* how many words of one chain are walked: 512
  Images        \* what the loader can have mapped when the walk starts

ASSUME ChainLimitAssumption == ChainLimit \in Nat \ {0}

(* An image: the segments in the order of their commands, each mapped or    *)
(* not; the payload; and the words of the file by their offset in the image.*)
ImageSegment == [segname : SegmentNames, vmaddr : Addr, vmsize : Nat, mapped : BOOLEAN]

WordsInPlace(fx, words) ==
  \A i \in 1 .. Len(fx.segs) :
    \A p \in 1 .. Len(fx.segs[i].chain) :
      \A k \in 1 .. Len(fx.segs[i].chain[p]) :
        LET e == FixupAt(fx, i, p, k)
        IN  e.off \in DOMAIN words /\ words[e.off] = e.raw

(* The linker chained the payload and wrote its words; the segments fit in  *)
(* the address space wherever the host puts the image.                      *)
ASSUME ImagesAssumption ==
  \A im \in Images :
    /\ im.fixups \in FixupsPayload /\ WellLinked(im.fixups)
    /\ DOMAIN im.words \subseteq Nat
    /\ \A o \in DOMAIN im.words : im.words[o] \in Word
    /\ WordsInPlace(im.fixups, im.words)
    /\ im.v_addr \in Addr
    /\ im.segs \in Seq(ImageSegment) /\ Len(im.segs) <= MaxSegments
    /\ \A i \in 1 .. Len(im.segs) : im.segs[i].mapped =>
         \A b \in HostBases : b + im.segs[i].vmaddr - im.v_addr \in Addr

VARIABLES
  fixups,       \* the payload the command points to
  fpc,          \* where the walk is
  seg_i,        \* i of dump_chained_fixups, from 1
  page,         \* page of dump_chained_64_offset_entries, from 1
  loc, chain_count,
  chained_rebase_count, chained_bind_count, chained_unresolved_bind_count,
  visited       \* history: the places the walk has processed

counters == <<chained_rebase_count, chained_bind_count, chained_unresolved_bind_count>>
cursor == <<seg_i, page, loc, chain_count>>
fixups_state == <<fixups, fpc, cursor, counters, visited>>
fixups_vars == <<context, fixups_state>>

----------------------------------------------------------------------------
(* sizeof of the three structures whose ends the code checks. *)
SizeofHeader == 28
SizeofSegCount == 4
SizeofStartsInSegment == 24

HeaderFits(fx) ==
  /\ fx.datasize >= SizeofHeader
  /\ fx.starts_offset < fx.datasize
  /\ fx.starts_offset + SizeofSegCount <= fx.datasize

HeaderOK == HeaderFits(fixups)

(* Segment i has starts, inside the payload, of the one format known. *)
HasStarts(fx, i) ==
  LET s == fx.segs[i] IN
  /\ s.seg_info_off # 0
  /\ fx.starts_offset + s.seg_info_off + SizeofStartsInSegment <= fx.datasize
  /\ s.pointer_format = PTR_64_OFFSET

(* A bug the runs must find: mapped_addr is not looked at. *)
Walked_Unmapped(i) == HasStarts(fixups, i) /\ i <= Len(segments)

(* dump_chained_fixups goes through segment i and                           *)
(* dump_chained_64_offset_entries does not return at once.                  *)
Walked(i) ==
  /\ HasStarts(fixups, i)
  /\ i <= Len(segments)
  /\ segments[i].mapped_addr # Null

seg == fixups.segs[seg_i]

(* The array of imports is read as 4-byte entries whatever imports_format   *)
(* says.  In the wider formats an entry's first word still holds the name,  *)
(* or, in IMPORT_ADDEND64, only the library; the other words hold addends   *)
(* and high halves, small values whose upper 23 bits, taken for a name      *)
(* offset, select the start of the pool.                                    *)
chained_import_name(ordinal) ==
  CASE fixups.imports_format = IMPORT -> fixups.imports[ordinal + 1].name
    [] fixups.imports_format = IMPORT_ADDEND /\ ordinal % 2 = 0 ->
         fixups.imports[ordinal \div 2 + 1].name
    [] OTHER -> PoolStart

HasImportName(ordinal) == ordinal < Len(fixups.imports)

(* The address a bind word resolves to, Null when the ordinal is bad or the *)
(* name is found nowhere.                                                   *)
Resolved(raw) ==
  LET ordinal == chained64_bind_ordinal(raw)
  IN  IF HasImportName(ordinal) THEN Resolve[chained_import_name(ordinal)] ELSE Null

----------------------------------------------------------------------------
(* A bug the runs must find: the loop over the segments starts one too low. *)
BeginFixups_OneLow ==
  /\ fpc = "begin"
  /\ chained_rebase_count' = 0 /\ chained_bind_count' = 0
  /\ UNCHANGED chained_unresolved_bind_count
  /\ seg_i' = 0
  /\ visited' = {}
  /\ fpc' = IF HeaderOK THEN "segment" ELSE "return"
  /\ UNCHANGED <<context, fixups, page, loc, chain_count>>

(* dump_chained_fixups resets two of the three counters and checks the      *)
(* header.                                                                  *)
BeginFixups ==
  /\ fpc = "begin"
  /\ chained_rebase_count' = 0 /\ chained_bind_count' = 0
  /\ UNCHANGED chained_unresolved_bind_count
  /\ seg_i' = 1
  /\ visited' = {}
  /\ fpc' = IF HeaderOK THEN "segment" ELSE "return"
  /\ UNCHANGED <<context, fixups, page, loc, chain_count>>

SkipSegment ==
  /\ fpc = "segment" /\ seg_i <= Len(fixups.segs) /\ ~Walked(seg_i)
  /\ seg_i' = seg_i + 1
  /\ UNCHANGED <<context, fixups, fpc, page, loc, chain_count, counters, visited>>

EnterSegment ==
  /\ fpc = "segment" /\ seg_i <= Len(fixups.segs) /\ Walked(seg_i)
  /\ page' = 1
  /\ fpc' = "page"
  /\ UNCHANGED <<context, fixups, seg_i, loc, chain_count, counters, visited>>

EndSegments ==
  /\ fpc = "segment" /\ seg_i > Len(fixups.segs)
  /\ fpc' = "return"
  /\ UNCHANGED <<context, fixups, cursor, counters, visited>>

(* A bug the runs must find: the loop goes on without the next page. *)
SkipPage_Stuck ==
  /\ fpc = "page" /\ page <= Len(seg.page_start) /\ ~PageHasChain(seg.page_start[page])
  /\ UNCHANGED fixups_vars

(* No fixups on the page, or several starts, which are not implemented. *)
SkipPage ==
  /\ fpc = "page" /\ page <= Len(seg.page_start) /\ ~PageHasChain(seg.page_start[page])
  /\ page' = page + 1
  /\ UNCHANGED <<context, fixups, fpc, seg_i, loc, chain_count, counters, visited>>

(* A bug the runs must find: every page is taken for the first. *)
EnterPage_First ==
  /\ fpc = "page" /\ page <= Len(seg.page_start) /\ PageHasChain(seg.page_start[page])
  /\ loc' = img_addr + seg.segment_offset + seg.page_start[page]
  /\ chain_count' = 0
  /\ fpc' = "chain"
  /\ UNCHANGED <<context, fixups, seg_i, page, counters, visited>>

EnterPage ==
  /\ fpc = "page" /\ page <= Len(seg.page_start) /\ PageHasChain(seg.page_start[page])
  /\ loc' = img_addr + seg.segment_offset + (page - 1) * seg.page_size + seg.page_start[page]
  /\ chain_count' = 0
  /\ fpc' = "chain"
  /\ UNCHANGED <<context, fixups, seg_i, page, counters, visited>>

EndPages ==
  /\ fpc = "page" /\ page > Len(seg.page_start)
  /\ seg_i' = seg_i + 1
  /\ fpc' = "segment"
  /\ UNCHANGED <<context, fixups, page, loc, chain_count, counters, visited>>

(* Bugs the runs must find: loc is left where it is; next is read from the  *)
(* word after it was rewritten.                                             *)
Advance_Unmoved(raw) ==
  LET next == chained64_next(raw) IN
  /\ IF next # 0 /\ chain_count + 1 < ChainLimit
       THEN chain_count' = chain_count + 1 /\ UNCHANGED <<loc, fpc, page>>
       ELSE fpc' = "page" /\ page' = page + 1 /\ UNCHANGED <<loc, chain_count>>
  /\ visited' = visited \cup {loc}
  /\ UNCHANGED <<img_addr, segments, lists, fixups, seg_i>>

Advance_ReadLate(raw) ==
  LET next == chained64_next(mem'[loc]) IN
  /\ IF next # 0 /\ chain_count + 1 < ChainLimit
       THEN loc' = loc + next * 4 /\ chain_count' = chain_count + 1 /\ UNCHANGED <<fpc, page>>
       ELSE fpc' = "page" /\ page' = page + 1 /\ UNCHANGED <<loc, chain_count>>
  /\ visited' = visited \cup {loc}
  /\ UNCHANGED <<img_addr, segments, lists, fixups, seg_i>>

(* The next word of the chain, from the word read before it was rewritten.  *)
(* The walk of a page also ends at ChainLimit words.                        *)
Advance(raw) ==
  LET next == chained64_next(raw) IN
  /\ IF next # 0 /\ chain_count + 1 < ChainLimit
       THEN /\ loc' = loc + next * 4
            /\ chain_count' = chain_count + 1
            /\ UNCHANGED <<fpc, page>>
       ELSE /\ fpc' = "page"
            /\ page' = page + 1
            /\ UNCHANGED <<loc, chain_count>>
  /\ visited' = visited \cup {loc}
  /\ UNCHANGED <<img_addr, segments, lists, fixups, seg_i>>

(* apply_chained_64_offset_rebase *)
ApplyRebase ==
  LET raw == Load(loc) IN
  /\ fpc = "chain" /\ ~chained64_is_bind(raw)
  /\ Store(loc, (img_addr + chained64_rebase_target(raw)) % AddrMod)
  /\ chained_rebase_count' = chained_rebase_count + 1
  /\ UNCHANGED <<chained_bind_count, chained_unresolved_bind_count>>
  /\ Advance(raw)

(* apply_chained_bind of a name the host has *)
ApplyBind ==
  LET raw == Load(loc) IN
  /\ fpc = "chain" /\ chained64_is_bind(raw) /\ Resolved(raw) # Null
  /\ Store(loc, (Resolved(raw) + chained64_bind_addend(raw)) % AddrMod)
  /\ chained_bind_count' = chained_bind_count + 1
  /\ UNCHANGED <<chained_rebase_count, chained_unresolved_bind_count>>
  /\ Advance(raw)

(* Bugs the runs must find: the unresolved bind is not counted; its word is *)
(* cleared.                                                                 *)
LeaveBind_Uncounted ==
  LET raw == Load(loc) IN
  /\ fpc = "chain" /\ chained64_is_bind(raw) /\ Resolved(raw) = Null
  /\ UNCHANGED mem
  /\ chained_bind_count' = chained_bind_count + 1
  /\ UNCHANGED <<chained_rebase_count, chained_unresolved_bind_count>>
  /\ Advance(raw)

LeaveBind_Cleared ==
  LET raw == Load(loc) IN
  /\ fpc = "chain" /\ chained64_is_bind(raw) /\ Resolved(raw) = Null
  /\ Store(loc, 0)
  /\ chained_bind_count' = chained_bind_count + 1
  /\ chained_unresolved_bind_count' = chained_unresolved_bind_count + 1
  /\ UNCHANGED chained_rebase_count
  /\ Advance(raw)

(* A bad ordinal, or apply_chained_bind of a name the host does not have:   *)
(* the word stays as the file had it.                                       *)
LeaveBind ==
  LET raw == Load(loc) IN
  /\ fpc = "chain" /\ chained64_is_bind(raw) /\ Resolved(raw) = Null
  /\ UNCHANGED mem
  /\ chained_bind_count' = chained_bind_count + 1
  /\ chained_unresolved_bind_count' = chained_unresolved_bind_count + 1
  /\ UNCHANGED chained_rebase_count
  /\ Advance(raw)

(* dump_chained_fixups has returned to the walk over the load commands. *)
Returned == fpc = "return" /\ UNCHANGED fixups_vars

FixupsStep ==
  \/ BeginFixups
  \/ SkipSegment \/ EnterSegment \/ EndSegments
  \/ SkipPage \/ EnterPage \/ EndPages
  \/ ApplyRebase \/ ApplyBind \/ LeaveBind

FixupsNext == FixupsStep \/ Returned

(* An image as load_segment_64 leaves it: mapped at a base the host chose,  *)
(* its segments recorded, its words copied.                                 *)
FixupsInit ==
  /\ \E im \in Images, base \in HostBases :
       /\ img_addr = base
       /\ fixups = im.fixups
       /\ segments = [i \in 1 .. Len(im.segs) |->
            [segname |-> im.segs[i].segname, vmaddr |-> im.segs[i].vmaddr,
             vmsize |-> im.segs[i].vmsize,
             mapped_addr |-> IF im.segs[i].mapped
                               THEN base + im.segs[i].vmaddr - im.v_addr ELSE Null]]
       /\ mem = [a \in {base + off : off \in DOMAIN im.words} |-> im.words[a - base]]
  /\ b_list = << >> /\ d_list = << >>
  /\ fpc = "begin"
  /\ seg_i = 1 /\ page = 1 /\ loc = 0 /\ chain_count = 0
  /\ chained_rebase_count = 0 /\ chained_bind_count = 0
  /\ chained_unresolved_bind_count = 0
  /\ visited = {}

(* The loader is one thread that runs straight through the walk. *)
FixupsSpec == FixupsInit /\ [][FixupsNext]_fixups_vars /\ WF_fixups_vars(FixupsStep)

----------------------------------------------------------------------------
FixupsTypeOK ==
  /\ ContextTypeOK
  /\ fixups \in FixupsPayload
  /\ fpc \in {"begin", "segment", "page", "chain", "return"}
  /\ seg_i \in Nat \ {0} /\ page \in Nat \ {0}
  /\ loc \in Nat /\ chain_count \in 0 .. ChainLimit - 1
  /\ chained_rebase_count \in Nat /\ chained_bind_count \in Nat
  /\ chained_unresolved_bind_count \in Nat
  /\ visited \subseteq Nat

(* Where fixup k of page p of segment i is in memory. *)
PlaceOf(i, p, k) == img_addr + FixupAt(fixups, i, p, k).off

(* a is a fixup of a page the walk goes into. *)
Declared(a) ==
  \E i \in 1 .. Len(fixups.segs) :
    /\ Walked(i)
    /\ \E p \in 1 .. Len(fixups.segs[i].chain) :
         /\ PageHasChain(fixups.segs[i].page_start[p])
         /\ \E k \in 1 .. Len(fixups.segs[i].chain[p]) : a = PlaceOf(i, p, k)

(* The counters of the summary line count places: the walk never processes  *)
(* a word twice, which would rebase a pointer that is already rebased.      *)
EachPlaceOnce ==
  fpc # "begin" =>
    chained_rebase_count + chained_bind_count = Cardinality(visited)

(* chained_unresolved_bind_count, from which main decides to warn, is the   *)
(* number of processed places that still hold an encoded bind word.         *)
UnresolvedAreLeft ==
  chained_unresolved_bind_count = Cardinality({a \in visited : chained64_is_bind(Load(a))})

(* The walk writes into the image only at fixups the payload declares in    *)
(* segments and pages it goes into, each at most once, and adds no word.    *)
RewritesDeclaredOnce ==
  [][\A a \in DOMAIN mem' : (a \notin DOMAIN mem \/ mem'[a] # mem[a]) =>
       a \in DOMAIN mem /\ a \notin visited /\ Declared(a)]_mem

(* When the walk returns, every fixup of every page it went into holds what *)
(* the format asks for: no chain is left half-way, no word is decoded or    *)
(* combined wrongly.                                                        *)
FixupsMatchFormat ==
  fpc = "return" /\ HeaderOK =>
    \A i \in 1 .. Len(fixups.segs) : Walked(i) =>
      \A p \in 1 .. Len(fixups.segs[i].chain) :
        PageHasChain(fixups.segs[i].page_start[p]) =>
          \A k \in 1 .. Len(fixups.segs[i].chain[p]) :
            Load(PlaceOf(i, p, k)) = FormatValue(fixups, img_addr, FixupAt(fixups, i, p, k).raw)

(* The part of the format the walk implements: the 4-byte import table,     *)
(* chains of at most ChainLimit words, no top byte on a rebased pointer,    *)
(* addends that stay positive as int8_t.  Of the other segments, of which   *)
(* it reads no word, nothing is asked.                                      *)
SupportedPayload(fx) ==
  /\ fx.imports_format = IMPORT
  /\ \A i \in 1 .. Len(fx.segs) : fx.segs[i].pointer_format = PTR_64_OFFSET =>
       \A p \in 1 .. Len(fx.segs[i].chain) : PageHasChain(fx.segs[i].page_start[p]) =>
         /\ Len(fx.segs[i].chain[p]) <= ChainLimit
         /\ \A k \in 1 .. Len(fx.segs[i].chain[p]) :
              LET raw == FixupAt(fx, i, p, k).raw IN
              IF chained64_is_bind(raw) THEN bind_addend(raw) < AddendMod \div 2
                                        ELSE rebase_high8(raw) = 0

(* The walk returns, whatever the payload: a chain ends at a next of 0 or   *)
(* at ChainLimit words.                                                     *)
FixupsReturn == <>(fpc = "return")
=============================================================================
