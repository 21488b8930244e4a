------------------------------ MODULE MCStreams ------------------------------
(***************************************************************************)
(* The linker's side of a bind stream: an instruction as its bytes, a name *)
(* as one item; pad is the number of bytes a ULEB is longer than it has to *)
(* be.  And the account of a stream, read back from it.                    *)
(***************************************************************************)
EXTENDS BindOpcodes, MCMachO

OneByte(b) == <<[byte |-> b, name |-> MCNoName]>>
NameItem(name) == <<[byte |-> 95, name |-> name]>>

ToUleb(v, pad) ==
  LET more == {n \in 1 .. 3 : v >= 128^n}
      size == Cardinality(more) + 1
      Seven(n) == IF n > size THEN 0 ELSE (v \div 128^(n - 1)) % 128
  IN  [n \in 1 .. size + pad |->
         [byte |-> Seven(n) + (IF n < size + pad THEN 128 ELSE 0), name |-> MCNoName]]

(* An SLEB128: septets until only the sign is left, and then pad more. *)
ToSleb(v, pad) ==
  LET size == CHOOSE n \in 1 .. 3 : v \div 2^(7 * n - 1) \in {0, -1}
                                 /\ \A m \in 1 .. n - 1 : v \div 2^(7 * m - 1) \notin {0, -1}
  IN  [n \in 1 .. size + pad |->
         [byte |-> ((v \div 128^(n - 1)) % 128) + (IF n < size + pad THEN 128 ELSE 0), name |-> MCNoName]]

Op(op, imm) == OneByte(16 * op + imm)
DONE == Op(0, 0)
SET_SYMBOL(name) == Op(4, 0) \o NameItem(name)
SET_ADDEND(v, pad) == Op(6, 0) \o ToSleb(v, pad)
SET_SEGMENT(sg, off, pad) == Op(7, sg) \o ToUleb(off, pad)
ADD_ADDR(d, pad) == Op(8, 0) \o ToUleb(d % MCAddrMod, pad)
DO_BIND == Op(9, 0)
DO_BIND_ADD_ADDR(d, pad) == Op(10, 0) \o ToUleb(d % MCAddrMod, pad)
DO_BIND_SCALED(n) == Op(11, n)
DO_BIND_TIMES(n, skp, pad) == Op(12, 0) \o ToUleb(n, pad) \o ToUleb(skp % MCAddrMod, pad)

(* A bind, with an addend or with none. *)
TargetPlus(name, sg, off, addend) == [name |-> name, seg |-> sg, off |-> off, addend |-> addend]
Target(name, sg, off) == TargetPlus(name, sg, off, 0)

----------------------------------------------------------------------------
(* The number from q up to e, and the end of the one at q.                  *)
EndOf(s, q) == 1 + CHOOSE e \in q .. Len(s) : s[e].byte < 128 /\ \A k \in q .. e - 1 : s[k].byte >= 128

RECURSIVE ValueOf(_, _, _)
ValueOf(s, q, e) ==
  IF q = e THEN 0 ELSE (s[q].byte % 128) + 128 * ValueOf(s, q + 1, e)

NoOperand == {"DO_BIND", "DO_BIND_ADD_ADDR_IMM_SCALED"} \cup NoEffect

RECURSIVE CodeFrom(_, _, _, _)
CodeFrom(s, q, n, off) ==
  LET end == [at |-> q, mid |-> 0, times |-> 0, arg |-> 0, n |-> n, off |-> off] IN
  IF q > Len(s) THEN <<end>>
  ELSE
    LET op == OpcodeOf(s[q])
        e == EndOf(s, q + 1)
        c == CASE op \in NoOperand \cup Dropped \cup {"SET_SYMBOL_TRAILING_FLAGS_IMM"} -> end
               [] op = "DO_BIND_ULEB_TIMES_SKIPPING_ULEB" ->
                    [end EXCEPT !.mid = e, !.times = ValueOf(s, q + 1, e), !.arg = ValueOf(s, e, EndOf(s, e))]
               [] OTHER -> [end EXCEPT !.arg = ValueOf(s, q + 1, e)]
        next == CASE op \in NoOperand -> q + 1
                  [] op = "SET_SYMBOL_TRAILING_FLAGS_IMM" -> q + 2
                  [] op = "DO_BIND_ULEB_TIMES_SKIPPING_ULEB" -> EndOf(s, e)
                  [] OTHER -> e
    IN  <<c>> \o CodeFrom(s, next, n + Made(s, c), Left(s, c))

CodeOf(ss) ==
  LET first == CodeFrom(ss[1], 1, 0, 0)
  IN  <<first, CodeFrom(ss[2], 1, first[Len(first)].n, 0)>>
=============================================================================
