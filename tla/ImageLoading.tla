---------------------------- MODULE ImageLoading ----------------------------
(***************************************************************************)
(* What the loader promises of the image, without the order and the means: *)
(* the image gets one base; a part of the program is put in it once, whole *)
(* and where nothing is yet; a word that has a fixup changes once more, to *)
(* what the format asks for at that base; nothing else ever changes.       *)
(***************************************************************************)
EXTENDS MachO

VARIABLES
  program,    \* its parts, words by their offset in the image, and fixups
  base,       \* where the image is, Null while it is nowhere
  contents,   \* the words in the image, by offset
  settled     \* the offsets whose fixup is done

image_vars == <<program, base, contents, settled>>

(* The fixups of a payload. *)
FixupsOf(fx) ==
  UNION {UNION {{FixupAt(fx, i, p, k) : k \in DOMAIN fx.segs[i].chain[p]}
                : p \in DOMAIN fx.segs[i].chain} : i \in DOMAIN fx.segs}

ImageInit == base = Null /\ contents = << >> /\ settled = {}

Based == base' = base \/ (base = Null /\ base' \in HostBases)

(* The image finds its place, and nothing is in it yet. *)
MapImage == Based /\ UNCHANGED <<program, contents, settled>>

(* A part of the program is put in the image. *)
PutPart ==
  /\ Based /\ base' # Null
  /\ \E part \in program.parts :
       /\ DOMAIN part \cap DOMAIN contents = {}
       /\ contents' = [o \in DOMAIN part \cup DOMAIN contents |->
                         IF o \in DOMAIN part THEN part[o] ELSE contents[o]]
  /\ UNCHANGED <<program, settled>>

(* A fixup is done. *)
Fix ==
  /\ \E fx \in program.payloads : \E e \in FixupsOf(fx) :
       /\ e.off \in DOMAIN contents \ settled
       /\ contents[e.off] = e.raw
       /\ contents' = [contents EXCEPT ![e.off] = FormatValue(fx, base, e.raw)]
       /\ settled' = settled \cup {e.off}
  /\ UNCHANGED <<program, base>>

ImageNext == MapImage \/ PutPart \/ Fix

ImageSpec == ImageInit /\ [][ImageNext]_image_vars
=============================================================================
