------------------------------- MODULE MachO -------------------------------
(***************************************************************************)
(* What the loader reads in a Mach-O file and the memory of the process it *)
(* fills: the widths of the machine's integers, the bit fields of a        *)
(* chained-fixup word, and the part of mach_context (machctrl.h) that the  *)
(* loader's components share.                                              *)
(*                                                                         *)
(* Addresses, offsets and 64-bit words are naturals.  The widths are       *)
(* constants, so that TLC runs on a machine with short words laid out in   *)
(* the same order as the real ones.                                        *)
(***************************************************************************)
EXTENDS Integers, Sequences, FiniteSets

CONSTANTS
  AddrMod,      \* uint64_t wraps here: 2^64
  TargetMod,    \* bits 0..35 of a rebase word, its target: 2^36
  HighMod,      \* the 8 bits above them, high8: 2^8
  OrdinalMod,   \* bits 0..23 of a bind word, its import ordinal: 2^24
  AddendMod,    \* the 8 bits above them, its addend: 2^8
  NextMod,      \* the 12-bit field next: 2^12
  NextShift,    \* where next starts: 2^51
  BindShift,    \* the top bit, bind: 2^63
  MaxSegments,  \* MACH_LOADER_MAX_SEGMENTS: 32
  Names,        \* the symbol names an import can have
  PoolStart,    \* the name at offset 0 of the symbol pool
  Dylibs,       \* the names of libraries
  Resolve,      \* what resolve_macho_import_symbol returns for each name
  HostBases     \* where the host's mmap may put the image

Null == 0

Word == 0 .. AddrMod - 1
Addr == Word

ASSUME WidthAssumption ==
  /\ AddrMod \in Nat \ {0} /\ TargetMod \in Nat \ {0} /\ HighMod \in Nat \ {0}
  /\ OrdinalMod \in Nat \ {0} /\ AddendMod \in Nat \ {0}
  /\ NextMod \in Nat \ {0} /\ NextShift \in Nat \ {0} /\ BindShift \in Nat \ {0}

ASSUME LimitAssumption == MaxSegments \in Nat \ {0}

(* The host's symbols and the image live below the bind bit, and far enough *)
(* from address 0 and from that bit for an addend not to cross either.      *)
ASSUME HostAssumption ==
  /\ PoolStart \in Names
  /\ Resolve \in [Names -> Addr]
  /\ \A n \in Names : Resolve[n] # Null =>
       Resolve[n] >= AddendMod /\ Resolve[n] + AddendMod < BindShift
  /\ \A b \in HostBases : b \in Addr /\ b # Null /\ b + TargetMod < BindShift

----------------------------------------------------------------------------
(* The bit fields of a chained-fixup word, as the code extracts them.      *)

chained64_is_bind(raw) == (raw \div BindShift) % 2 = 1

chained64_next(raw) == (raw \div NextShift) % NextMod

chained64_rebase_target(raw) == raw % TargetMod

chained64_bind_ordinal(raw) == raw % OrdinalMod

(* The 8 bits converted to int8_t: the upper half is negative. *)
chained64_bind_addend(raw) ==
  LET bits == (raw \div OrdinalMod) % AddendMod
  IN  IF bits < AddendMod \div 2 THEN bits ELSE bits - AddendMod

(* The same fields as fixup-chains.h declares them: high8 is the top byte   *)
(* of the rebased pointer, and a bind's addend is 0 thru 255.               *)
rebase_high8(raw) == (raw \div TargetMod) % HighMod

bind_addend(raw) == (raw \div OrdinalMod) % AddendMod

----------------------------------------------------------------------------
(* The payload of LC_DYLD_CHAINED_FIXUPS (fixup-chains.h).  A page carries  *)
(* the start the file records and, for reference, the fixups its chain      *)
(* links: where each one is in the image and the word the linker left there.*)

START_NONE == 65535
START_MULTI == 32768
PTR_64_OFFSET == 6
IMPORT == 1
IMPORT_ADDEND == 2
IMPORT_ADDEND64 == 3

Fixup == [off : Nat, raw : Word]

StartsInSegment ==
  [seg_info_off : Nat, page_size : Nat, pointer_format : Nat,
   segment_offset : Nat, page_start : Seq(Nat), chain : Seq(Seq(Fixup))]

Import == [name : Names, addend : Nat]

FixupsPayload ==
  [datasize : Nat, starts_offset : Nat,
   imports_format : {IMPORT, IMPORT_ADDEND, IMPORT_ADDEND64},
   imports : Seq(Import), segs : Seq(StartsInSegment)]

PageHasChain(start) == start < START_MULTI

(* The k-th fixup of page p of segment i, all counted from 1. *)
FixupAt(fx, i, p, k) == fx.segs[i].chain[p][k]

(* A page's words link its fixups: the start is the first one's place in    *)
(* the page, every next is the distance to the one after it in units of 4   *)
(* bytes, and the last one's is 0.                                          *)
ChainLinks(seg, p) ==
  LET c == seg.chain[p] IN
  PageHasChain(seg.page_start[p]) =>
    /\ c # << >>
    /\ c[1].off = seg.segment_offset + (p - 1) * seg.page_size + seg.page_start[p]
    /\ \A k \in 1 .. Len(c) - 1 :
         /\ chained64_next(c[k].raw) # 0
         /\ c[k + 1].off = c[k].off + chained64_next(c[k].raw) * 4
    /\ chained64_next(c[Len(c)].raw) = 0

(* What a linker guarantees of a payload: its chains are linked as above    *)
(* and no two fixups share a place.                                         *)
WellLinked(fx) ==
  /\ \A i \in 1 .. Len(fx.segs) :
       /\ Len(fx.segs[i].chain) = Len(fx.segs[i].page_start)
       /\ \A p \in 1 .. Len(fx.segs[i].page_start) : ChainLinks(fx.segs[i], p)
  /\ \A i, j \in 1 .. Len(fx.segs) :
       \A p \in 1 .. Len(fx.segs[i].chain), q \in 1 .. Len(fx.segs[j].chain) :
         \A k \in 1 .. Len(fx.segs[i].chain[p]), l \in 1 .. Len(fx.segs[j].chain[q]) :
           FixupAt(fx, i, p, k).off = FixupAt(fx, j, q, l).off => i = j /\ p = q /\ k = l

(* The word the format asks for in place of raw, in an image at base: the   *)
(* base plus the target under its high8, or the import plus its addends;    *)
(* the word itself when the import is not to be had.                        *)
FormatValue(fx, base, raw) ==
  IF chained64_is_bind(raw)
    THEN LET ordinal == chained64_bind_ordinal(raw) IN
         IF ordinal < Len(fx.imports) /\ Resolve[fx.imports[ordinal + 1].name] # Null
           THEN LET import == fx.imports[ordinal + 1] IN
                (Resolve[import.name] + bind_addend(raw)
                  + (IF fx.imports_format = IMPORT THEN 0 ELSE import.addend)) % AddrMod
           ELSE raw
    ELSE (base + chained64_rebase_target(raw)
           + rebase_high8(raw) * (AddrMod \div HighMod)) % AddrMod
=============================================================================
