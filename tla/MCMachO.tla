------------------------------ MODULE MCMachO ------------------------------
(***************************************************************************)
(* Short words for TLC and the linker's side of a chain: how the images of *)
(* the runs get their words.  The field order is the real one; a word has  *)
(* 20 bits:  19 bind | 14-18 next | 10-11 high8 | 0-9 target, or           *)
(* 3-5 addend, 0-2 ordinal.  Host addresses are below bit 14, as a user    *)
(* address is below bit 51, so a rewritten word decodes as the end of a    *)
(* chain of rebases.                                                       *)
(***************************************************************************)
EXTENDS Integers, Sequences, FiniteSets

MCWordBits == 20
MCAddrMod == 2^20
MCTargetMod == 2^10
MCHighMod == 2^2
MCOrdinalMod == 2^3
MCAddendMod == 2^3
MCNextMod == 2^5
MCNextShift == 2^14
MCBindShift == 2^19

\* _missing is a name no library of the host has.
MCNames == {"_puts", "_exit", "_mmap", "___stack_chk_guard", "_missing", ""}
MCPoolStart == ""
MCNoName == "NULL"
MCResolve ==
  [n \in MCNames |-> CASE n = "_puts" -> 8192 [] n = "_exit" -> 12288 [] n = "_mmap" -> 12296
                      [] n = "___stack_chk_guard" -> 14336 [] OTHER -> 0]

MCDylibs == {"libA", "libB", "libNone", "libSystem", "libm", "libc.so.6", "libm.so.6"}

\* do_bind's own functions.
MCHostMmap == 14344
MCGuard == 14352

\* The preferred base of the images below, and another.
MCHostBases == {256, 4096}

----------------------------------------------------------------------------
(* What a slot of a page holds, and the word for it at a distance next * 4  *)
(* from the slot after it.                                                  *)
Plain == [kind |-> "plain"]
Rebase(target, high8) == [kind |-> "rebase", target |-> target, high8 |-> high8]
Bind(ordinal, addend) == [kind |-> "bind", ordinal |-> ordinal, addend |-> addend]

RawWord(slot, next) ==
  next * MCNextShift +
  (IF slot.kind = "rebase" THEN slot.target + slot.high8 * MCTargetMod
                           ELSE MCBindShift + slot.ordinal + slot.addend * MCOrdinalMod)

(* The chain through the slots of one page: slots[n] is at offset at[n] of  *)
(* the page, and base is where the page is in the image.                    *)
LinkChain(slots, at, base) ==
  LET linked == SelectSeq([n \in 1 .. Len(slots) |-> n], LAMBDA n : slots[n].kind # "plain")
      Next(k) == IF k = Len(linked) THEN 0
                 ELSE (at[linked[k + 1]] - at[linked[k]]) \div 4
  IN  [k \in 1 .. Len(linked) |->
         [off |-> base + at[linked[k]], raw |-> RawWord(slots[linked[k]], Next(k))]]

(* Its page_start. *)
StartOf(slots, at) ==
  LET linked == SelectSeq([n \in 1 .. Len(slots) |-> n], LAMBDA n : slots[n].kind # "plain")
  IN  IF linked = << >> THEN 65535 ELSE at[linked[1]]

=============================================================================
