--------------------------- MODULE MCBindOpcodes ---------------------------
(***************************************************************************)
(* Every way a linker can encode a few binds as opcodes, to run the        *)
(* interpreter on.                                                         *)
(***************************************************************************)
EXTENDS MCStreams

----------------------------------------------------------------------------
(* The instructions that bring the interpreter from where its registers are *)
(* to target t, and the registers they leave.                               *)
SymbolChange(cur, t) ==
  IF cur.name = t.name THEN << >> ELSE Op(1, 2) \o SET_SYMBOL(t.name)

PlaceChanges(cur, t, pad) ==
  LET set == SET_SEGMENT(t.seg, t.off, pad)
      add == ADD_ADDR(t.off - cur.off, pad)
  IN  CASE cur.seg # t.seg -> {set}
        [] cur.seg = t.seg /\ cur.off = t.off -> {set, << >>}
        [] OTHER -> {set, add}

(* How many of ts from k on are one symbol at one stride. *)
Runs(ts, k) ==
  {m \in 2 .. Len(ts) - k + 1 :
     /\ ts[k + 1].off > ts[k].off
     /\ \A j \in k + 1 .. k + m - 1 :
          /\ ts[j].name = ts[k].name /\ ts[j].seg = ts[k].seg
          /\ ts[j].off - ts[j - 1].off = ts[k + 1].off - ts[k].off}

(* The encodings of targets k .. Len(ts), with the registers at cur. *)
RECURSIVE EncodeFrom(_, _, _, _)
EncodeFrom(ts, k, cur, pad) ==
  IF k > Len(ts) THEN {DONE}
  ELSE
    LET t == ts[k]
        Then(ins, taken, off) ==
          {SymbolChange(cur, t) \o place \o ins \o rest :
             place \in PlaceChanges(cur, t, pad),
             rest \in EncodeFrom(ts, k + taken, [name |-> t.name, seg |-> t.seg, off |-> off], pad)}
        plain == Then(DO_BIND, 1, t.off + 8)
        gap == IF k < Len(ts) /\ ts[k + 1].seg = t.seg THEN ts[k + 1].off - t.off - 8 ELSE 0
        added == IF gap = 0 THEN {} ELSE Then(DO_BIND_ADD_ADDR(gap, pad), 1, t.off + 8 + gap)
        scaled == IF gap < 0 \/ gap % 8 # 0 \/ gap \div 8 > 15 THEN {}
                  ELSE Then(DO_BIND_SCALED(gap \div 8), 1, t.off + 8 + gap)
        repeated == UNION {
          LET stride == ts[k + 1].off - t.off
          IN  Then(DO_BIND_TIMES(m, stride - 8, pad), m, t.off + m * stride) : m \in Runs(ts, k)}
    IN  plain \cup added \cup scaled \cup repeated

Encodings(ts, pad) == EncodeFrom(ts, 1, [name |-> MCNoName, seg |-> 16, off |-> 0], pad)

(* A lazy record is always encoded the same way. *)
LazyRecord(t) ==
  SET_SEGMENT(t.seg, t.off, 0) \o Op(1, 1) \o SET_SYMBOL(t.name) \o DO_BIND \o DONE

RECURSIVE LazyStream(_)
LazyStream(ts) == IF ts = << >> THEN << >> ELSE LazyRecord(Head(ts)) \o LazyStream(Tail(ts))

----------------------------------------------------------------------------
\* Segment 0 is __PAGEZERO; the table of the second kind is cut short.
Table == << [segname |-> "__PAGEZERO", vmaddr |-> 0, vmsize |-> 256, mapped_addr |-> 0],
            [segname |-> "__TEXT", vmaddr |-> 256, vmsize |-> 64, mapped_addr |-> 4096],
            [segname |-> "__DATA", vmaddr |-> 320, vmsize |-> 64, mapped_addr |-> 4160] >>
ShortTable == SubSeq(Table, 1, 2)

\* Binds at three places of __DATA in any order, runs of one symbol or two;
\* two segments by turns; a longer run.
Places == {0, 8, 40}
Symbols == {<<"_puts", "_puts", "_puts">>, <<"_puts", "_exit", "_exit">>}
Lazy == <<Target("_exit", 2, 32), Target("_puts", 2, 24)>>

TargetLists ==
  {<<Target(n[1], 2, o[1]), Target(n[2], 2, o[2]), Target(n[3], 2, o[3])>> :
     n \in Symbols, o \in [1 .. 3 -> Places]}
Turns == <<Target("_puts", 1, 8), Target("_puts", 2, 8), Target("_exit", 1, 16)>>
LongRun == [k \in 1 .. 4 |-> Target("_puts", 2, (k - 1) * 16)]

ImagesOf(choices, lazy, table, pad) ==
  UNION {{[img_addr |-> 4096, segments |-> table, streams |-> <<s, LazyStream(lazy)>>,
           targets |-> ts \o lazy] : s \in Encodings(ts, pad)} : ts \in choices}

\* Opcodes that change nothing between the binds, and a run of none: an
\* addend of 0, or one set back to 0, is none.  The operand of the last is
\* cut off by the end of the stream.
Nothing == {DONE, Op(1, 3), Op(2, 0) \o ToUleb(300, 0), Op(3, 15), Op(5, 1), SET_ADDEND(0, 2),
            SET_ADDEND(-3, 1) \o SET_ADDEND(0, 0), Op(14, 0)}
WithNothing(op) ==
  op \o SET_SYMBOL("_puts") \o op \o SET_SEGMENT(2, 8, 0) \o op \o DO_BIND_TIMES(0, 8, 1)
     \o DO_BIND \o op \o OneByte(128) \o OneByte(255)

\* The name of the last opcode lies behind the end of the stream.
CutName == SET_SYMBOL("_exit") \o SET_SEGMENT(1, 8, 0) \o DO_BIND \o Op(4, 0)

\* ULEBs as short as can be, of more bytes than the width has groups, and
\* of one more.
LinkedImages ==
  ImagesOf(TargetLists, << >>, Table, 0)
  \cup ImagesOf({Turns, LongRun}, Lazy, Table, 0) \cup ImagesOf({Turns}, Lazy, ShortTable, 0)
  \cup UNION {ImagesOf({Turns, LongRun}, << >>, Table, pad) : pad \in {1, 4}}

MCBindImages ==
  LinkedImages
  \cup {[img_addr |-> 4096, segments |-> Table, streams |-> <<WithNothing(op), << >> >>,
          targets |-> <<Target("_puts", 2, 8)>>] : op \in Nothing}
  \cup {[img_addr |-> 4096, segments |-> Table, streams |-> <<CutName, LazyStream(Lazy)>>,
          targets |-> <<Target("_exit", 1, 8)>> \o Lazy]}

(* They are what a linker writes for their binds. *)
ASSUME MCImagesEncoded ==
  \A im \in LinkedImages : Encodes(im.streams, CodeOf(im.streams), im.targets)

----------------------------------------------------------------------------
\* One bind with an addend, and one behind it, with the same or with none.
AddendStream(v, pad, reset) ==
  SET_SYMBOL("_puts") \o SET_ADDEND(v, pad) \o SET_SEGMENT(2, 8, 0) \o DO_BIND
    \o reset \o DO_BIND \o DONE

AddendImages ==
  {[img_addr |-> 4096, segments |-> Table,
    streams |-> <<AddendStream(v, pad, keep.reset), << >> >>,
    targets |-> <<TargetPlus("_puts", 2, 8, v), TargetPlus("_puts", 2, 16, IF keep.same THEN v ELSE 0)>>] :
     v \in {-65, -1, 0, 8, 63, 64, 200}, pad \in {0, 1},
     keep \in {[same |-> TRUE, reset |-> << >>], [same |-> FALSE, reset |-> SET_ADDEND(0, 0)]}}

(* They too are what a linker writes. *)
ASSUME MCAddendsEncoded ==
  \A im \in AddendImages : Encodes(im.streams, CodeOf(im.streams), im.targets)

----------------------------------------------------------------------------
\* The table size of a threaded stream, before an ordinary bind.
ThreadedImages ==
  {[img_addr |-> 4096, segments |-> Table,
    streams |-> <<SET_SYMBOL("_puts") \o Op(13, 0) \o ToUleb(n, 0)
                    \o SET_SEGMENT(2, 8, 0) \o DO_BIND \o DONE, << >> >>,
    targets |-> <<Target("_puts", 2, 8)>>] : n \in 1 .. 200}
=============================================================================
