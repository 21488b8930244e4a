------------------------- MODULE BindOpcodesProofs -------------------------
(***************************************************************************)
(* Proofs about BindOpcodes, for every width of a word and every streams:  *)
(* whatever bytes they hold, the interpreter's registers stay in range.    *)
(***************************************************************************)
EXTENDS BindOpcodes, FiniteSetTheorems, FunctionTheorems, WellFoundedInduction, TLAPS

----------------------------------------------------------------------------
(* Induction over naturals, by the least element of a set.                 *)

LEMMA LeastNatural ==
  ASSUME NEW S, S \subseteq Nat, S # {}
  PROVE  \E x \in S : \A y \in S : x <= y
  <1>1. IsWellFoundedOn(OpToRel(<, Nat), Nat)
    BY NatLessThanWellFounded
  <1>2. PICK x \in S : \A y \in S : <<y, x>> \notin OpToRel(<, Nat)
    BY <1>1, WFMin
  <1>3. \A y \in S : ~(y < x)
    BY <1>2 DEF OpToRel
  <1> QED
    BY <1>3

(* A set with 0 and, below m, with each number the one behind it.           *)
LEMMA InductionUpTo ==
  ASSUME NEW m \in Nat, NEW S, 0 \in S, \A k \in 1 .. m : k - 1 \in S => k \in S
  PROVE  0 .. m \subseteq S
  <1> DEFINE out == {k \in 0 .. m : k \notin S}
  <1>1. SUFFICES ASSUME out # {} PROVE FALSE
    OBVIOUS
  <1>2. PICK x \in out : \A y \in out : x <= y
    <2>1. out \subseteq Nat
      OBVIOUS
    <2> HIDE DEF out
    <2> QED
      BY <1>1, <2>1, LeastNatural
  <1>3. x \in 0 .. m /\ x \notin S
    BY <1>2
  <1>4. x # 0
    BY <1>3
  <1>5. x \in 1 .. m /\ x - 1 \in 0 .. m
    BY <1>3, <1>4
  <1>6. x - 1 \notin out
    BY <1>2, <1>5
  <1>7. x - 1 \in S
    BY <1>5, <1>6
  <1> QED
    BY <1>3, <1>5, <1>7

----------------------------------------------------------------------------
(* Powers of two, by the subsets of an interval: those without its last     *)
(* element, and those with it.                                              *)

LEMMA PowerOfTwo ==
  ASSUME NEW n \in Nat
  PROVE  2^n \in Nat \ {0} /\ 2^(n + 1) = 2 * 2^n
  <1> DEFINE S == 1 .. n
             T == 1 .. n + 1
             Old == SUBSET S
             New == {B \cup {n + 1} : B \in Old}
             f == [B \in Old |-> B \cup {n + 1}]
  <1>1. IsFiniteSet(S) /\ Cardinality(S) = n /\ IsFiniteSet(T) /\ Cardinality(T) = n + 1
    BY FS_Interval
  <1>2. /\ IsFiniteSet(Old) /\ Cardinality(Old) = 2^n
        /\ IsFiniteSet(SUBSET T) /\ Cardinality(SUBSET T) = 2^(n + 1)
    <2> HIDE DEF S, T
    <2> QED
      BY <1>1, FS_SUBSET
  <1>3. T = S \cup {n + 1} /\ n + 1 \notin S
    OBVIOUS
  <1>4. f \in Bijection(Old, New)
    <2>1. f \in [Old -> New] /\ \A C \in New : \E B \in Old : f[B] = C
      OBVIOUS
    <2>2. ASSUME NEW B \in Old, NEW C \in Old, f[B] = f[C] PROVE B = C
      <3>1. B \cup {n + 1} = C \cup {n + 1} /\ n + 1 \notin B /\ n + 1 \notin C
        BY <1>3, <2>2
      <3> HIDE DEF S, Old, f
      <3> QED
        BY <3>1
    <2> HIDE DEF f, Old, New
    <2> QED
      BY <2>1, <2>2, Fun_IsBij
  <1>5. IsFiniteSet(New) /\ Cardinality(New) = Cardinality(Old)
    <2> HIDE DEF f, Old, New
    <2> QED
      BY <1>2, <1>4, FS_Bijection DEF ExistsBijection
  <1>6. SUBSET T = Old \cup New /\ Old \cap New = {}
    <2>1. ASSUME NEW B \in SUBSET T PROVE B \in Old \cup New
      <3>1. CASE n + 1 \in B
        <4>1. B \ {n + 1} \in Old /\ B = (B \ {n + 1}) \cup {n + 1}
          <5> HIDE DEF S, T, New
          <5> QED
            BY <1>3, <2>1, <3>1
        <4> HIDE DEF Old
        <4> QED
          BY <4>1
      <3>2. CASE n + 1 \notin B
        <4> HIDE DEF S, T, New
        <4> QED
          BY <1>3, <2>1, <3>2
      <3> QED
        BY <3>1, <3>2
    <2> HIDE DEF S, T
    <2> QED
      BY <1>3, <2>1
  <1>7. Cardinality(Old) \in Nat \ {0}
    <2>1. Old # {}
      OBVIOUS
    <2> HIDE DEF Old
    <2> QED
      BY <1>2, <2>1, FS_CardinalityType, FS_EmptySet
  <1>8. Cardinality(SUBSET T) = Cardinality(Old) + Cardinality(New)
    <2> HIDE DEF S, T, Old, New, f
    <2>1. Cardinality(Old \cup New) = Cardinality(Old) + Cardinality(New) - Cardinality(Old \cap New)
      BY <1>2, <1>5, FS_Union
    <2>2. Cardinality(Old \cap New) = 0
      BY <1>6, FS_EmptySet
    <2>3. Cardinality(SUBSET T) = Cardinality(Old \cup New)
      BY <1>6, Zenon
    <2>4. Cardinality(Old \cup New) = Cardinality(Old) + Cardinality(New) - 0
      BY <2>1, <2>2, Zenon
    <2> QED
      BY <1>5, <1>7, <2>3, <2>4
  <1> HIDE DEF S, T, Old, New, f
  <1> QED
    BY <1>2, <1>5, <1>7, <1>8

----------------------------------------------------------------------------
(* Division: the quotient is the only one, and halves go bit by bit.        *)

LEMMA QuotientUnique ==
  ASSUME NEW d \in Nat \ {0}, NEW m \in Int, NEW r \in 0 .. d - 1, NEW x \in Int, x = d * m + r
  PROVE  x \div d = m
  <1> DEFINE w == x \div d
  <1>1. w \in Int /\ x = d * w + (x % d) /\ x % d \in 0 .. d - 1
    OBVIOUS
  <1>2. PICK s \in 0 .. d - 1 : x = d * w + s
    BY <1>1
  <1> HIDE DEF w
  <1>3. CASE w <= m - 1
    <2>1. d * w <= d * (m - 1) /\ d * (m - 1) = d * m - d
      BY <1>1, <1>3
    <2>2. d * w \in Int /\ d * m \in Int
      BY <1>1
    <2> QED
      BY <1>2, <2>1, <2>2
  <1>4. CASE w >= m + 1
    <2>1. d * w >= d * (m + 1) /\ d * (m + 1) = d * m + d
      BY <1>1, <1>4
    <2>2. d * w \in Int /\ d * m \in Int
      BY <1>1
    <2> QED
      BY <1>2, <2>1, <2>2
  <1>5. w = m
    BY <1>1, <1>3, <1>4
  <1> QED
    BY <1>5 DEF w

LEMMA Halving ==
  ASSUME NEW v \in Nat, NEW n \in Nat
  PROVE  v \div 2^n \in Nat /\ v \div 2^(n + 1) = (v \div 2^n) \div 2
  <1>1. PICK y \in Nat \ {0} : y = 2^n
    BY PowerOfTwo
  <1>2. 2^(n + 1) = 2 * y
    BY <1>1, PowerOfTwo
  <1>3. PICK a \in Nat, r \in 0 .. y - 1 : a = v \div y /\ v = y * a + r
    <2>1. v \div y \in Nat /\ v % y \in 0 .. y - 1 /\ v = y * (v \div y) + (v % y)
      OBVIOUS
    <2> QED
      BY <2>1
  <1>4. PICK b \in Nat, s \in 0 .. 1 : b = a \div 2 /\ a = 2 * b + s
    <2>1. a \div 2 \in Nat /\ a % 2 \in 0 .. 1 /\ a = 2 * (a \div 2) + (a % 2)
      OBVIOUS
    <2> QED
      BY <2>1
  <1>5. v = (2 * y) * b + (y * s + r) /\ y * s + r \in 0 .. (2 * y) - 1
    <2>1. y * a = (2 * y) * b + y * s /\ (2 * y) * b \in Nat
      BY <1>4
    <2>2. y * s \in {0, y}
      OBVIOUS
    <2> QED
      BY <1>3, <2>1, <2>2
  <1>6. v \div (2 * y) = b
    BY <1>5, QuotientUnique
  <1> QED
    BY <1>1, <1>2, <1>3, <1>4, <1>6

LEMMA Shifted ==
  ASSUME NEW v \in Nat, NEW n \in Nat, NEW i \in 0 .. 6
  PROVE  v \div 2^(n + i) = (v \div 2^n) \div 2^i
  <1> DEFINE h(k) == v \div 2^(n + k)
  <1>1. ASSUME NEW k \in 0 .. 5 PROVE h(k) \in Nat /\ h(k + 1) = h(k) \div 2
    <2>1. n + k \in Nat /\ n + (k + 1) = (n + k) + 1
      OBVIOUS
    <2> QED
      BY <2>1, Halving
  <1>2. h(0) = v \div 2^n /\ v \div 2^n \in Nat
    <2>1. n + 0 = n
      OBVIOUS
    <2> QED
      BY <2>1, Halving
  <1>3. /\ h(1) = h(0) \div 2 /\ h(2) = h(1) \div 2 /\ h(3) = h(2) \div 2
        /\ h(4) = h(3) \div 2 /\ h(5) = h(4) \div 2 /\ h(6) = h(5) \div 2
    <2>1. /\ h(0 + 1) = h(0) \div 2 /\ h(1 + 1) = h(1) \div 2 /\ h(2 + 1) = h(2) \div 2
          /\ h(3 + 1) = h(3) \div 2 /\ h(4 + 1) = h(4) \div 2 /\ h(5 + 1) = h(5) \div 2
      <3> HIDE DEF h
      <3> QED
        BY <1>1
    <2>2. 0 + 1 = 1 /\ 1 + 1 = 2 /\ 2 + 1 = 3 /\ 3 + 1 = 4 /\ 4 + 1 = 5 /\ 5 + 1 = 6
      OBVIOUS
    <2> HIDE DEF h
    <2> QED
      BY <2>1, <2>2
  <1>4. h(i) = v \div 2^(n + i)
    OBVIOUS
  <1> HIDE DEF h
  <1>5. PICK w \in Int : w = v \div 2^n
    BY <1>2
  <1>6. h(i) = w \div 2^i
    <2>1. h(0) = w
      BY <1>2, <1>5
    <2>2. i \in {0, 1, 2, 3, 4, 5, 6}
      OBVIOUS
    <2>3. CASE i = 0
      BY <2>1, <2>3
    <2>4. CASE i = 1
      BY <1>3, <2>1, <2>4
    <2>5. CASE i = 2
      BY <1>3, <2>1, <2>5
    <2>6. CASE i = 3
      BY <1>3, <2>1, <2>6
    <2>7. CASE i = 4
      BY <1>3, <2>1, <2>7
    <2>8. CASE i = 5
      BY <1>3, <2>1, <2>8
    <2>9. CASE i = 6
      BY <1>3, <2>1, <2>9
    <2> QED
      BY <2>2, <2>3, <2>4, <2>5, <2>6, <2>7, <2>8, <2>9
  <1> QED
    BY <1>4, <1>5, <1>6

(* The bits of a septet: shift by the septets below it, then within it. *)
LEMMA ShiftedSeptets ==
  \A v \in Nat : \A j \in Nat : \A i \in 0 .. 6 :
    v \div 2^(7 * j + i) = (v \div 2^(7 * j)) \div 2^i
  <1>1. TAKE v \in Nat
  <1>2. TAKE j \in Nat
  <1>3. TAKE i \in 0 .. 6
  <1>4. 7 * j \in Nat
    OBVIOUS
  <1> QED
    BY <1>4, Shifted, Zenon

(* The low seven bits of a number have its first seven bits. *)
LEMMA LowBits ==
  ASSUME NEW w \in Nat, NEW i \in 0 .. 6
  PROVE  ((w % 128) \div 2^i) % 2 = (w \div 2^i) % 2
  <1>1. i \in {0, 1, 2, 3, 4, 5, 6}
    OBVIOUS
  <1>2. CASE i = 0
    BY <1>2
  <1>3. CASE i = 1
    BY <1>3
  <1>4. CASE i = 2
    BY <1>4
  <1>5. CASE i = 3
    BY <1>5
  <1>6. CASE i = 4
    BY <1>6
  <1>7. CASE i = 5
    BY <1>7
  <1>8. CASE i = 6
    BY <1>8
  <1> QED
    BY <1>1, <1>2, <1>3, <1>4, <1>5, <1>6, <1>7, <1>8

----------------------------------------------------------------------------
(* read_uleb128.                                                           *)

Digit(bits, k) == IF WordBits - k \in bits THEN 1 ELSE 0

(* f is the number of bits at its first m digits.                           *)
Reads(f, bits, m) ==
  /\ f \in [0 .. m -> Word]
  /\ f[0] = 0
  /\ \A k \in 1 .. m : f[k] = (2 * f[k - 1] + Digit(bits, k)) % AddrMod

LEMMA DigitIsWord ==
  ASSUME NEW w \in Word, NEW bits, NEW k
  PROVE  (2 * w + Digit(bits, k)) % AddrMod \in Word
  <1>1. Digit(bits, k) \in 0 .. 1
    BY DEF Digit
  <1> HIDE DEF Digit
  <1>2. PICK d \in 0 .. 1 : d = Digit(bits, k)
    BY <1>1
  <1>3. (2 * w + d) % AddrMod \in 0 .. AddrMod - 1
    BY WidthAssumption DEF Word
  <1> QED
    BY <1>2, <1>3 DEF Word

LEMMA ReadingGrows ==
  ASSUME NEW bits, NEW m \in Nat, NEW f, Reads(f, bits, m)
  PROVE  \E g : Reads(g, bits, m + 1)
  <1> DEFINE w == (2 * f[m] + Digit(bits, m + 1)) % AddrMod
             g == [k \in 0 .. m + 1 |-> IF k = m + 1 THEN w ELSE f[k]]
  <1>1. w \in Word
    BY DigitIsWord DEF Reads
  <1> HIDE DEF w
  <1>2. g \in [0 .. m + 1 -> Word] /\ g[0] = 0
    BY <1>1 DEF Reads
  <1>3. ASSUME NEW k \in 1 .. m + 1
        PROVE  g[k] = (2 * g[k - 1] + Digit(bits, k)) % AddrMod
    <2>1. k - 1 \in 0 .. m /\ g[k - 1] = f[k - 1]
      OBVIOUS
    <2>2. CASE k = m + 1
      <3>1. g[k] = w /\ g[k - 1] = f[m]
        BY <2>1, <2>2
      <3> QED
        BY <2>2, <3>1 DEF w
    <2>3. CASE k # m + 1
      <3>1. k \in 1 .. m /\ g[k] = f[k]
        BY <2>3
      <3> QED
        BY <2>1, <3>1 DEF Reads
    <2> QED
      BY <2>2, <2>3
  <1> QED
    BY <1>2, <1>3 DEF Reads

LEMMA ReadingExists ==
  ASSUME NEW bits, NEW m \in Nat
  PROVE  \E f : Reads(f, bits, m)
  <1> DEFINE S == {k \in Nat : \E f : Reads(f, bits, k)}
  <1>1. 0 \in S
    <2>1. Reads([k \in 0 .. 0 |-> 0], bits, 0)
      BY WidthAssumption DEF Reads, Word
    <2> QED
      BY <2>1
  <1>2. ASSUME NEW k \in 1 .. m, k - 1 \in S PROVE k \in S
    <2>1. PICK f : Reads(f, bits, k - 1)
      BY <1>2
    <2>2. \E g : Reads(g, bits, (k - 1) + 1)
      BY <2>1, ReadingGrows
    <2> QED
      BY <2>2
  <1>3. 0 .. m \subseteq S
    <2> HIDE DEF S
    <2> QED
      BY <1>1, <1>2, InductionUpTo
  <1> QED
    BY <1>3

(* The number of any bits is a word.                                        *)
LEMMA NumberIsWord ==
  ASSUME NEW bits
  PROVE  NumberOf(bits) \in Word
  <1> DEFINE Next(f, k) == (2 * f[k - 1] + Digit(bits, k)) % AddrMod
             Is(f) == f = [k \in 0 .. WordBits |-> IF k = 0 THEN 0 ELSE Next(f, k)]
             n == CHOOSE f : Is(f)
  <1>1. NumberOf(bits) = n[WordBits]
    BY DEF NumberOf, Digit
  <1>2. WordBits \in Nat
    BY WordBitsAssumption
  <1>3. PICK f : Reads(f, bits, WordBits)
    BY <1>2, ReadingExists
  <1>4. Is(f)
    BY <1>2, <1>3 DEF Reads
  <1>5. Is(n)
    BY <1>4
  <1> HIDE DEF n
  <1>6. n[0] = 0 /\ \A k \in 1 .. WordBits : n[k] = Next(n, k)
    BY <1>2, <1>5
  <1> DEFINE S == {k \in 0 .. WordBits : n[k] \in Word}
  <1>7. 0 \in S
    BY <1>2, <1>6, WidthAssumption DEF Word
  <1>8. ASSUME NEW k \in 1 .. WordBits, k - 1 \in S PROVE k \in S
    BY <1>6, <1>8, DigitIsWord
  <1>9. 0 .. WordBits \subseteq S
    BY <1>2, <1>7, <1>8, InductionUpTo
  <1> QED
    BY <1>1, <1>2, <1>9

LEMMA UlebIsWord ==
  ASSUME NEW q
  PROVE  Uleb(q) \in Word
  BY NumberIsWord DEF Uleb

(* It leaves the cursor in the stream or just behind it.                    *)
LEMMA UlebEnds ==
  ASSUME Len(stream) \in Nat, NEW q \in 1 .. Len(stream) + 1
  PROVE  AfterUleb(q) \in q .. Len(stream) + 1
  <1>1. UlebBytes(q) \subseteq q .. Len(stream)
    BY DEF UlebBytes
  <1>2. IsFiniteSet(q .. Len(stream)) /\ Cardinality(q .. Len(stream)) <= Len(stream) - q + 1
    <2>1. q \in Int /\ Len(stream) \in Int
      OBVIOUS
    <2>2. Cardinality(q .. Len(stream)) = IF q > Len(stream) THEN 0 ELSE Len(stream) - q + 1
      BY <2>1, FS_Interval
    <2>3. IsFiniteSet(q .. Len(stream))
      BY <2>1, FS_Interval
    <2> HIDE DEF stream
    <2>4. (IF q > Len(stream) THEN 0 ELSE Len(stream) - q + 1) <= Len(stream) - q + 1
      BY <2>1
    <2> QED
      BY <2>2, <2>3, <2>4
  <1>3. /\ Cardinality(UlebBytes(q)) \in Nat
        /\ Cardinality(UlebBytes(q)) <= Cardinality(q .. Len(stream))
    BY <1>1, <1>2, FS_Subset, FS_CardinalityType
  <1>4. Cardinality(q .. Len(stream)) \in Nat
    BY <1>2, FS_CardinalityType
  <1> HIDE DEF stream
  <1>5. Cardinality(UlebBytes(q)) <= Len(stream) - q + 1
    BY <1>2, <1>3, <1>4
  <1> QED
    BY <1>3, <1>5 DEF AfterUleb

----------------------------------------------------------------------------
(* read_uleb128 of a number in groups of seven bits.                        *)

BitsOf(v) == {b \in 0 .. WordBits - 1 : (v \div 2^b) % 2 = 1}

(* The digits of a word, read from the top, make the word. *)
LEMMA NumberOfBits ==
  ASSUME NEW v \in Word
  PROVE  NumberOf(BitsOf(v)) = v
  <1> DEFINE bits == BitsOf(v)
             top(k) == v \div 2^(WordBits - k)
             Next(f, k) == (2 * f[k - 1] + Digit(bits, k)) % AddrMod
             Is(f) == f = [k \in 0 .. WordBits |-> IF k = 0 THEN 0 ELSE Next(f, k)]
             n == CHOOSE f : Is(f)
             f == [k \in 0 .. WordBits |-> top(k)]
  <1>1. WordBits \in Nat /\ v \in Nat /\ v < AddrMod /\ AddrMod \in Nat \ {0}
    BY WordBitsAssumption, WidthAssumption DEF Word
  <1>2. NumberOf(bits) = n[WordBits]
    BY DEF NumberOf, Digit
  <1>3. top(0) = 0
    <2>1. PICK y \in Nat \ {0} : y = 2^WordBits
      BY <1>1, PowerOfTwo
    <2>2. v \div y = 0
      BY <1>1, <2>1, WordBitsAssumption
    <2>3. WordBits - 0 = WordBits
      BY <1>1
    <2> QED
      BY <2>1, <2>2, <2>3
  <1>4. top(WordBits) = v
    <2>1. WordBits - WordBits = 0 /\ v \div 2^0 = v
      BY <1>1
    <2> QED
      BY <2>1
  <1>5. ASSUME NEW k \in 1 .. WordBits
        PROVE  /\ top(k) = (2 * top(k - 1) + Digit(bits, k)) % AddrMod
               /\ top(k) \in Word /\ top(k - 1) \in Nat
    <2> DEFINE e == WordBits - k
    <2>1. e \in Nat /\ e \in 0 .. WordBits - 1 /\ WordBits - (k - 1) = e + 1
      BY <1>1
    <2>2. PICK x \in Nat : x = v \div 2^e
      BY <1>1, <2>1, Halving
    <2>3. top(k) = x /\ top(k - 1) = x \div 2
      <3>1. v \div 2^(e + 1) = (v \div 2^e) \div 2
        BY <1>1, <2>1, Halving
      <3> HIDE DEF e
      <3> QED
        BY <2>1, <2>2, <3>1 DEF e
    <2>4. Digit(bits, k) = x % 2
      <3>1. x % 2 \in {0, 1}
        OBVIOUS
      <3>2. e \in bits <=> x % 2 = 1
        BY <2>1, <2>2 DEF BitsOf
      <3> QED
        BY <3>1, <3>2 DEF Digit
    <2>5. x <= v
      <3>1. PICK y \in Nat \ {0} : y = 2^e
        BY <2>1, PowerOfTwo
      <3>2. v \div y <= v
        BY <1>1
      <3> QED
        BY <2>2, <3>1, <3>2
    <2>6. x % AddrMod = x /\ x \in Word
      BY <1>1, <2>5 DEF Word
    <2> HIDE DEF e, bits, top, f, n
    <2>7. PICK y \in Nat, z \in 0 .. 1 : y = x \div 2 /\ z = x % 2 /\ x = 2 * y + z
      <3>1. x \div 2 \in Nat /\ x % 2 \in 0 .. 1 /\ x = 2 * (x \div 2) + (x % 2)
        OBVIOUS
      <3> QED
        BY <3>1
    <2> QED
      BY <2>3, <2>4, <2>6, <2>7
  <1>6. Is(f)
    <2>1. ASSUME NEW k \in 1 .. WordBits PROVE f[k] = Next(f, k)
      <3>1. f[k] = top(k) /\ f[k - 1] = top(k - 1)
        BY <1>1
      <3> HIDE DEF f, top, bits
      <3> QED
        BY <1>5, <3>1
    <2>2. f[0] = 0
      BY <1>1, <1>3
    <2> HIDE DEF top, bits
    <2>3. f = [k \in 0 .. WordBits |-> f[k]]
      OBVIOUS
    <2> HIDE DEF f
    <2>4. ASSUME NEW k \in 0 .. WordBits PROVE f[k] = IF k = 0 THEN 0 ELSE Next(f, k)
      <3>1. CASE k = 0
        BY <2>2, <3>1
      <3>2. CASE k # 0
        <4>1. k \in 1 .. WordBits
          BY <1>1, <3>2
        <4> QED
          BY <2>1, <3>2, <4>1
      <3> QED
        BY <3>1, <3>2
    <2> QED
      BY <2>3, <2>4
  <1>7. Is(n)
    <2> HIDE DEF f, bits
    <2> QED
      BY <1>6
  <1> HIDE DEF n, bits, top
  <1>8. n[0] = 0 /\ \A k \in 1 .. WordBits : n[k] = Next(n, k)
    BY <1>1, <1>7
  <1> DEFINE S == {k \in 0 .. WordBits : n[k] = top(k)}
  <1>9. 0 \in S
    BY <1>1, <1>3, <1>8
  <1>10. ASSUME NEW k \in 1 .. WordBits, k - 1 \in S PROVE k \in S
    BY <1>5, <1>8, <1>10
  <1>11. 0 .. WordBits \subseteq S
    BY <1>1, <1>9, <1>10, InductionUpTo
  <1>12. n[WordBits] = v
    BY <1>1, <1>4, <1>11
  <1> QED
    BY <1>2, <1>12 DEF bits

(* The bytes of a number are those up to its end.                            *)
LEMMA BytesOfNumber ==
  ASSUME NEW q \in Nat \ {0}, NEW e \in Nat, IsNumber(stream, q, e), stream \in Seq(StreamItem)
  PROVE  UlebBytes(q) = q .. e - 1 /\ AfterUleb(q) = e
  <1>1. Len(stream) \in Nat /\ q < e /\ e <= Len(stream) + 1
    BY DEF IsNumber
  <1>2. \A k \in q .. e - 1 : stream[k].byte \in Nat /\ (stream[k].byte >= 128 <=> k < e - 1)
    <2>1. ASSUME NEW k \in q .. e - 1 PROVE stream[k].byte \in Nat
      <3>1. k \in 1 .. Len(stream)
        BY <1>1
      <3>2. stream[k] \in StreamItem
        BY <3>1
      <3>3. PICK byte \in 0 .. 255 : stream[k].byte = byte
        BY <3>2 DEF StreamItem
      <3>4. byte \in Nat
        OBVIOUS
      <3> QED
        BY <3>3, <3>4, Zenon
    <2> QED
      BY <2>1 DEF IsNumber
  <1> HIDE DEF stream
  <1>3. ASSUME NEW k \in q .. Len(stream)
        PROVE  (\A j \in q .. k - 1 : stream[j].byte >= 128) <=> k <= e - 1
    <2>1. CASE k <= e - 1
      BY <1>1, <1>2, <2>1
    <2>2. CASE k > e - 1
      <3>1. e - 1 \in q .. k - 1 /\ e - 1 \in q .. e - 1
        BY <1>1, <2>2
      <3>2. ~ (stream[e - 1].byte >= 128)
        BY <1>2, <3>1
      <3> QED
        BY <2>2, <3>1, <3>2
    <2> QED
      BY <1>1, <2>1, <2>2
  <1>4. UlebBytes(q) = q .. e - 1
    BY <1>1, <1>3 DEF UlebBytes
  <1>5. Cardinality(q .. e - 1) = e - q
    <2>1. q \in Int /\ e - 1 \in Int
      BY <1>1
    <2>2. Cardinality(q .. e - 1) = IF q > e - 1 THEN 0 ELSE (e - 1) - q + 1
      BY <2>1, FS_Interval
    <2> QED
      BY <1>1, <2>2
  <1> QED
    BY <1>1, <1>4, <1>5 DEF AfterUleb

(* The bits or-ed in are those of the number.                                *)
LEMMA BitsOfUleb ==
  ASSUME NEW q \in Nat \ {0}, NEW e \in Nat, NEW v \in Word, IsUleb(stream, q, e, v),
         stream \in Seq(StreamItem)
  PROVE  UlebBits(q) = BitsOf(v)
  <1>1. Len(stream) \in Nat /\ q < e /\ e <= Len(stream) + 1 /\ UlebBytes(q) = q .. e - 1
    <2>1. IsNumber(stream, q, e)
      BY DEF IsUleb
    <2>2. UlebBytes(q) = q .. e - 1
      BY <2>1, BytesOfNumber, Zenon
    <2>3. Len(stream) \in Nat
      OBVIOUS
    <2> QED
      BY <2>1, <2>2, <2>3, Zenon DEF IsNumber
  <1>2. WordBits \in Nat /\ v \in Nat
    BY WordBitsAssumption DEF Word
  <1>3. ASSUME NEW k \in q .. e - 1
        PROVE  stream[k].byte \in Nat /\ stream[k].byte % 128 = Septet(v, k - q)
    <2>1. k \in 1 .. Len(stream)
      BY <1>1
    <2>2. stream[k] \in StreamItem
      BY <2>1
    <2>3. PICK byte \in 0 .. 255 : stream[k].byte = byte
      BY <2>2 DEF StreamItem
    <2>4. byte \in Nat
      OBVIOUS
    <2>5. stream[k].byte \in Nat
      BY <2>3, <2>4, Zenon
    <2> QED
      BY <2>5 DEF IsUleb
  <1>4. \A j \in e - q .. WordBits : Septet(v, j) = 0
    BY DEF IsUleb
  <1> HIDE DEF stream
  <1>5. ASSUME NEW j \in Nat, 7 * j < WordBits, NEW i \in 0 .. 6
        PROVE  (Septet(v, j) \div 2^i) % 2 = (v \div 2^(7 * j + i)) % 2
    <2>1. 7 * j \in Nat
      OBVIOUS
    <2>2. PICK w \in Nat : w = v \div 2^(7 * j)
      BY <1>2, <2>1, Halving, Zenon
    <2>3. v \div 2^(7 * j + i) = w \div 2^i
      <3>1. v \div 2^(7 * j + i) = (v \div 2^(7 * j)) \div 2^i
        BY <1>2, ShiftedSeptets, Zenon
      <3> QED
        BY <2>2, <3>1, Zenon
    <2>4. Septet(v, j) = w % 128
      BY <1>5, <2>2 DEF Septet
    <2>5. ((w % 128) \div 2^i) % 2 = (w \div 2^i) % 2
      BY LowBits
    <2>6. (Septet(v, j) \div 2^i) % 2 = (w \div 2^i) % 2
      BY <2>4, <2>5, Zenon
    <2> QED
      BY <2>3, <2>6, Zenon
  <1>6. ASSUME NEW i \in 0 .. 6 PROVE (0 \div 2^i) % 2 # 1
    <2>1. PICK y \in Nat \ {0} : y = 2^i
      BY PowerOfTwo
    <2>2. 0 \div y = 0
      OBVIOUS
    <2> QED
      BY <2>1, <2>2
  <1>7. ASSUME NEW k \in q .. e - 1, NEW i \in 0 .. 6
        PROVE  (stream[k].byte \div 2^i) % 2 = (Septet(v, k - q) \div 2^i) % 2
    <2>1. PICK w \in Nat : w = stream[k].byte
      BY <1>3
    <2>2. ((w % 128) \div 2^i) % 2 = (w \div 2^i) % 2
      BY LowBits
    <2> QED
      BY <1>3, <2>1, <2>2
  <1>8. ASSUME NEW b \in 0 .. WordBits - 1, b \in UlebBits(q) PROVE b \in BitsOf(v)
    <2>1. PICK k \in q .. e - 1, i \in 0 .. 6 :
            (stream[k].byte \div 2^i) % 2 = 1 /\ b = ((7 * (k - q)) % WordBits) + i
      BY <1>1, <1>8 DEF UlebBits
    <2>2. PICK j \in Nat : j = k - q
      BY <1>1
    <2>3. (Septet(v, j) \div 2^i) % 2 = 1
      BY <1>7, <2>1, <2>2
    <2>4. 7 * j < WordBits
      <3>1. SUFFICES ASSUME ~(7 * j < WordBits) PROVE FALSE
        OBVIOUS
      <3>2. Septet(v, j) = 0
        BY <3>1 DEF Septet
      <3> QED
        BY <1>6, <2>3, <3>2, Zenon
    <2>5. b = 7 * j + i
      <3>1. PICK x \in Nat : x = 7 * j
        OBVIOUS
      <3>2. x % WordBits = x
        BY <1>2, <2>4, <3>1
      <3>3. b = (x % WordBits) + i
        BY <2>1, <2>2, <3>1, Zenon
      <3> QED
        BY <3>1, <3>2, <3>3, Zenon
    <2>6. (v \div 2^b) % 2 = 1
      BY <1>5, <2>3, <2>4, <2>5
    <2> QED
      BY <2>6 DEF BitsOf
  <1>9. ASSUME NEW b \in BitsOf(v) PROVE b \in UlebBits(q)
    <2>1. b \in 0 .. WordBits - 1 /\ (v \div 2^b) % 2 = 1
      BY DEF BitsOf
    <2>2. PICK j \in Nat, i \in 0 .. 6 : b = 7 * j + i
      <3>1. b \div 7 \in Nat /\ b % 7 \in 0 .. 6 /\ b = 7 * (b \div 7) + (b % 7)
        BY <1>2, <2>1
      <3> QED
        BY <3>1
    <2>3. 7 * j < WordBits /\ j <= WordBits
      BY <1>2, <2>1, <2>2
    <2>4. (Septet(v, j) \div 2^i) % 2 = 1
      BY <1>5, <2>1, <2>2, <2>3
    <2>5. Septet(v, j) # 0
      BY <1>6, <2>4, Zenon
    <2>6. j < e - q
      BY <1>1, <1>2, <1>4, <2>3, <2>5
    <2>7. q + j \in q .. e - 1 /\ (q + j) - q = j
      BY <1>1, <2>6
    <2>8. (stream[q + j].byte \div 2^i) % 2 = 1
      BY <1>7, <2>4, <2>7
    <2>9. b = ((7 * ((q + j) - q)) % WordBits) + i
      BY <1>2, <2>2, <2>3, <2>7
    <2> QED
      BY <1>1, <2>1, <2>7, <2>8, <2>9 DEF UlebBits
  <1> QED
    BY <1>8, <1>9 DEF UlebBits, BitsOf

(* Whatever number the linker wrote at q, in however many bytes, is read    *)
(* there, and the cursor is moved behind it.                                *)
THEOREM UlebDecodes ==
  ASSUME NEW q \in Nat \ {0}, NEW e \in Nat, NEW v \in Word, IsUleb(stream, q, e, v),
         stream \in Seq(StreamItem)
  PROVE  Uleb(q) = v /\ AfterUleb(q) = e
  <1>1. Uleb(q) = v
    BY BitsOfUleb, NumberOfBits DEF Uleb
  <1>2. IsNumber(stream, q, e)
    BY DEF IsUleb
  <1> QED
    BY <1>1, <1>2, BytesOfNumber

----------------------------------------------------------------------------
(* The types.                                                              *)

(* What BindsTypeOK says of the streams and the registers.                  *)
StreamsTyped ==
  /\ streams \in Seq(Seq(StreamItem)) /\ Len(streams) = 2 /\ pass \in {1, 2}
  /\ bpc \in {"begin", "opcode", "times", "return"}
  /\ p \in Nat \ {0} /\ (bpc \in {"opcode", "times"} => p <= Len(stream) + 2)

RegistersTyped ==
  /\ symbol_name \in Names \cup {NoName}
  /\ segment_index \in -1 .. 15 /\ segment_offset \in Word
  /\ count \in Word /\ skip \in Word

LEMMA TypesAre ==
  BindsTypeOK <=> ContextTypeOK /\ StreamsTyped /\ RegistersTyped /\ b_list \in Seq(BindInfo)
  BY DEF BindsTypeOK, StreamsTyped, RegistersTyped

LEMMA StreamType ==
  ASSUME StreamsTyped
  PROVE  stream \in Seq(StreamItem) /\ Len(stream) \in Nat
  <1>1. streams \in Seq(Seq(StreamItem)) /\ pass \in 1 .. Len(streams)
    BY DEF StreamsTyped
  <1>2. stream \in Seq(StreamItem)
    BY <1>1 DEF stream
  <1> QED
    BY <1>2

(* What is at the cursor, when it is at an opcode.                          *)
LEMMA OpcodeType ==
  ASSUME StreamsTyped, bpc = "opcode", p <= Len(stream)
  PROVE  /\ p \in 1 .. Len(stream) /\ p + 1 \in 1 .. Len(stream) + 1
         /\ immediate \in 0 .. 15
         /\ operand \in Word /\ AfterOperand \in p + 1 .. Len(stream) + 1
  <1>1. stream \in Seq(StreamItem) /\ Len(stream) \in Nat
    BY StreamType
  <1>2. p \in 1 .. Len(stream) /\ p + 1 \in 1 .. Len(stream) + 1
    BY <1>1 DEF StreamsTyped
  <1>3. stream[p] \in StreamItem
    BY <1>1, <1>2
  <1>4. PICK byte \in 0 .. 255 : stream[p].byte = byte
    BY <1>3 DEF StreamItem
  <1>5. byte % 16 \in 0 .. 15
    OBVIOUS
  <1>6. immediate \in 0 .. 15
    BY <1>4, <1>5 DEF immediate, ImmediateOf
  <1> QED
    BY <1>1, <1>2, <1>6, UlebIsWord, UlebEnds DEF operand, AfterOperand

LEMMA AddressType ==
  ASSUME ContextTypeOK, NEW index \in Int, NEW offset \in Word
  PROVE  bind_address_for_segment_offset(index, offset) \in Addr
  <1>1. Null \in Addr
    BY WidthAssumption DEF Addr, Word, Null
  <1>2. CASE index \in 0 .. Len(segments) - 1
    <2>1. index + 1 \in 1 .. Len(segments)
      BY <1>2 DEF ContextTypeOK
    <2>2. segments[index + 1] \in SegmentInfo
      BY <2>1 DEF ContextTypeOK
    <2>3. PICK a \in Addr : segments[index + 1].mapped_addr = a
      BY <2>2 DEF SegmentInfo
    <2>4. (a + offset) % AddrMod \in Addr
      BY WidthAssumption DEF Addr, Word
    <2> QED
      BY <1>1, <2>3, <2>4 DEF bind_address_for_segment_offset
  <1> QED
    BY <1>1, <1>2 DEF bind_address_for_segment_offset

LEMMA AppendType ==
  ASSUME BindsTypeOK, append_bind_info
  PROVE  ContextTypeOK' /\ b_list' \in Seq(BindInfo)
  <1>1. ContextTypeOK'
    BY DEF BindsTypeOK, append_bind_info, ContextTypeOK
  <1>2. bind_address_for_segment_offset(segment_index, segment_offset) \in Addr
    BY AddressType DEF BindsTypeOK
  <1> QED
    BY <1>1, <1>2 DEF BindsTypeOK, append_bind_info, BindInfo

(* The sums of the offset stay words.                                       *)
LEMMA OffsetType ==
  ASSUME NEW a \in Word, NEW b \in Nat
  PROVE  (a + b) % AddrMod \in Word
  BY WidthAssumption DEF Word

(* The steps, apart in what they leave alone.                               *)

LEMMA MoveTyped ==
  ASSUME BindsTypeOK, BeginStream \/ EndStream \/ Ignore \/ DropOperand \/ EndTimes
  PROVE  BindsTypeOK'
  <1>1. ContextTypeOK /\ StreamsTyped /\ RegistersTyped /\ b_list \in Seq(BindInfo)
    BY TypesAre
  <1>2. ContextTypeOK' /\ b_list' \in Seq(BindInfo)
    BY <1>1 DEF BeginStream, EndStream, Ignore, DropOperand, EndTimes, ContextTypeOK, context, lists
  <1>3. StreamsTyped' /\ RegistersTyped'
    <2> USE DEF registers, times
    <2>1. CASE BeginStream
      <3>1. stream' = stream
        BY <2>1 DEF BeginStream, stream
      <3>2. Len(stream) \in Nat
        BY <1>1, StreamType
      <3> QED
        BY <1>1, <2>1, <3>1, <3>2, WidthAssumption DEF BeginStream, StreamsTyped, RegistersTyped, Word
    <2>2. CASE EndStream
      <3>1. bpc' \in {"begin", "return"}
        BY <2>2 DEF EndStream
      <3> QED
        BY <1>1, <2>2, <3>1 DEF EndStream, StreamsTyped, RegistersTyped
    <2>3. CASE Ignore \/ DropOperand
      <3>1. stream' = stream /\ bpc' = bpc /\ bpc = "opcode" /\ p <= Len(stream)
        BY <2>3 DEF Ignore, DropOperand, At, stream
      <3>2. p' \in p + 1 .. Len(stream) + 1
        BY <1>1, <2>3, <3>1, OpcodeType DEF Ignore, DropOperand
      <3>3. Len(stream) \in Nat /\ p \in Nat
        BY <1>1, StreamType DEF StreamsTyped
      <3>4. p' \in Nat \ {0} /\ p' <= Len(stream) + 2
        BY <3>2, <3>3
      <3> QED
        BY <1>1, <2>3, <3>1, <3>4 DEF Ignore, DropOperand, StreamsTyped, RegistersTyped
    <2>4. CASE EndTimes
      <3>1. stream' = stream
        BY <2>4 DEF EndTimes, stream
      <3> QED
        BY <1>1, <2>4, <3>1 DEF EndTimes, StreamsTyped, RegistersTyped
    <2> QED
      BY <2>1, <2>2, <2>3, <2>4
  <1> QED
    BY <1>2, <1>3 DEF BindsTypeOK, StreamsTyped, RegistersTyped

LEMMA SetTyped ==
  ASSUME BindsTypeOK, SetSymbol \/ SetSegmentAndOffset \/ AddAddr \/ DoBindTimes
  PROVE  BindsTypeOK'
  <1>1. ContextTypeOK /\ StreamsTyped /\ RegistersTyped /\ b_list \in Seq(BindInfo)
    BY TypesAre
  <1>2. ContextTypeOK' /\ b_list' \in Seq(BindInfo)
    BY <1>1 DEF SetSymbol, SetSegmentAndOffset, AddAddr, DoBindTimes, ContextTypeOK, context, lists
  <1>3. /\ bpc = "opcode" /\ p <= Len(stream)
        /\ streams' = streams /\ pass' = pass /\ stream' = stream
    BY DEF SetSymbol, SetSegmentAndOffset, AddAddr, DoBindTimes, At, stream
  <1>4. /\ immediate \in 0 .. 15 /\ operand \in Word
        /\ AfterOperand \in p + 1 .. Len(stream) + 1
    BY <1>1, <1>3, OpcodeType
  <1>5. Len(stream) \in Nat /\ p \in Nat \ {0}
    BY <1>1, StreamType DEF StreamsTyped
  <1>6. p' \in Nat \ {0} /\ p' <= Len(stream) + 2 /\ bpc' \in {"opcode", "times"}
    <2>1. CASE SetSymbol
      BY <1>3, <1>5, <2>1 DEF SetSymbol
    <2>2. CASE SetSegmentAndOffset \/ AddAddr
      BY <1>3, <1>4, <1>5, <2>2 DEF SetSegmentAndOffset, AddAddr
    <2>3. CASE DoBindTimes
      <3>1. AfterOperand \in 1 .. Len(stream) + 1
        BY <1>4, <1>5
      <3>2. AfterUleb(AfterOperand) \in AfterOperand .. Len(stream) + 1
        BY <1>5, <3>1, UlebEnds
      <3> QED
        BY <1>5, <2>3, <3>1, <3>2 DEF DoBindTimes
    <2> QED
      BY <2>1, <2>2, <2>3
  <1>7. StreamsTyped'
    BY <1>1, <1>3, <1>6 DEF StreamsTyped
  <1>8. RegistersTyped'
    <2> USE DEF registers, times
    <2>1. CASE SetSymbol
      <3>1. NamesAt(p + 1) \subseteq Names \cup {NoName}
        <4>1. stream \in Seq(StreamItem)
          BY <1>1, StreamType
        <4>2. ASSUME NEW q \in DOMAIN stream PROVE stream[q].name \in Names \cup {NoName}
          <5>1. stream[q] \in StreamItem
            BY <4>1
          <5> QED
            BY <5>1 DEF StreamItem
        <4> QED
          BY <4>2 DEF NamesAt
      <3> QED
        BY <1>1, <2>1, <3>1 DEF SetSymbol, RegistersTyped
    <2>2. CASE SetSegmentAndOffset
      BY <1>1, <1>4, <2>2 DEF SetSegmentAndOffset, RegistersTyped
    <2>3. CASE AddAddr
      <3>1. operand \in Nat
        BY <1>4 DEF Word
      <3>2. (segment_offset + operand) % AddrMod \in Word
        BY <1>1, <3>1, OffsetType DEF RegistersTyped
      <3> QED
        BY <1>1, <2>3, <3>2 DEF AddAddr, RegistersTyped
    <2>4. CASE DoBindTimes
      BY <1>1, <1>4, <2>4, UlebIsWord DEF DoBindTimes, RegistersTyped
    <2> QED
      BY <2>1, <2>2, <2>3, <2>4
  <1> QED
    BY <1>2, <1>7, <1>8 DEF BindsTypeOK, StreamsTyped, RegistersTyped

LEMMA BindTyped ==
  ASSUME BindsTypeOK, DoBind \/ BindOneOfTimes
  PROVE  BindsTypeOK'
  <1>1. ContextTypeOK /\ StreamsTyped /\ RegistersTyped /\ b_list \in Seq(BindInfo)
    BY TypesAre
  <1>2. ContextTypeOK' /\ b_list' \in Seq(BindInfo)
    BY AppendType DEF DoBind, BindOneOfTimes
  <1>3. streams' = streams /\ pass' = pass /\ bpc' = bpc /\ stream' = stream
    BY DEF DoBind, BindOneOfTimes, stream
  <1>4. CASE DoBind
    <2>1. bpc = "opcode" /\ p <= Len(stream) /\ opcode \in SingleBinds
      BY <1>4 DEF DoBind, At
    <2>2. /\ immediate \in 0 .. 15 /\ operand \in Word
          /\ AfterOperand \in p + 1 .. Len(stream) + 1
      BY <1>1, <2>1, OpcodeType
    <2>3. Len(stream) \in Nat /\ p \in Nat \ {0}
      BY <1>1, StreamType DEF StreamsTyped
    <2>4. AfterBind \in Nat \ {0} /\ AfterBind <= Len(stream) + 2
      BY <2>1, <2>2, <2>3 DEF AfterBind
    <2>5. BindAdvance \in Nat
      <3>1. PICK i \in Nat, w \in Nat : i = immediate /\ w = operand
        BY <2>2 DEF Word
      <3>2. BindAdvance \in {0, w, i * 8}
        BY <2>1, <3>1, Zenon DEF BindAdvance, SingleBinds, pointer_size
      <3> QED
        BY <3>1, <3>2
    <2>6. ((segment_offset + pointer_size) + BindAdvance) % AddrMod \in Word
      <3>1. PICK n \in Nat : n = BindAdvance
        BY <2>5
      <3>2. PICK o \in Word : o = segment_offset
        BY <1>1 DEF RegistersTyped
      <3>3. ((o + 8) + n) % AddrMod \in Word
        BY WidthAssumption DEF Word
      <3> QED
        BY <3>1, <3>2, <3>3 DEF pointer_size
    <2>7. StreamsTyped'
      BY <1>1, <1>3, <1>4, <2>4 DEF DoBind, StreamsTyped
    <2>8. RegistersTyped'
      BY <1>1, <1>4, <2>6 DEF DoBind, RegistersTyped, times
    <2> QED
      BY <1>2, <2>7, <2>8 DEF BindsTypeOK, StreamsTyped, RegistersTyped
  <1>5. CASE BindOneOfTimes
    <2>1. ((segment_offset + pointer_size) + skip) % AddrMod \in Word
      BY <1>1, WidthAssumption DEF RegistersTyped, Word, pointer_size
    <2>2. count - 1 \in Word
      <3>1. count \in Word /\ count > 0
        BY <1>1, <1>5 DEF BindOneOfTimes, RegistersTyped
      <3> QED
        BY <3>1, WidthAssumption DEF Word
    <2>3. StreamsTyped'
      BY <1>1, <1>3, <1>5 DEF BindOneOfTimes, StreamsTyped
    <2>4. RegistersTyped'
      BY <1>1, <1>5, <2>1, <2>2 DEF BindOneOfTimes, RegistersTyped
    <2> QED
      BY <1>2, <2>3, <2>4 DEF BindsTypeOK, StreamsTyped, RegistersTyped
  <1> QED
    BY <1>4, <1>5

LEMMA BindsStepTyped == BindsTypeOK /\ BindsStep => BindsTypeOK'
  BY MoveTyped, SetTyped, BindTyped DEF BindsStep

LEMMA BindsBeginTyped == BindsInit => BindsTypeOK
  <1> SUFFICES ASSUME BindsInit PROVE BindsTypeOK
    OBVIOUS
  <1>1. PICK im \in BindImages :
          /\ img_addr = im.img_addr /\ segments = im.segments /\ mem = << >>
          /\ streams = im.streams
    BY DEF BindsInit
  <1>2. DOMAIN mem = {}
    BY <1>1
  <1>3. 0 \in Word
    BY WidthAssumption DEF Word
  <1> QED
    BY <1>1, <1>2, <1>3, BindImagesAssumption DEF BindsInit, BindsTypeOK, ContextTypeOK

(* Whatever bytes are in the two streams, however many a ULEB has and       *)
(* wherever it is cut off: the list holds addresses, the offset is a        *)
(* uint64_t, the index is that of an opcode's immediate, and the cursor is  *)
(* never further from the end than a name is.                               *)
THEOREM BindsTypeCorrect == BindsSpec => []BindsTypeOK
  <1>1. BindsTypeOK /\ [BindsNext]_binds_vars => BindsTypeOK'
    <2> SUFFICES ASSUME BindsTypeOK, [BindsNext]_binds_vars PROVE BindsTypeOK'
      OBVIOUS
    <2>1. CASE UNCHANGED binds_vars
      <3>1. stream' = stream
        BY <2>1 DEF binds_vars, binds_state, stream
      <3> QED
        BY <2>1, <3>1 DEF BindsTypeOK, ContextTypeOK, binds_vars, binds_state, registers, times,
           context, lists
    <2> QED
      BY <2>1, BindsStepTyped DEF BindsNext, BindsReturned
  <1> QED
    BY <1>1, BindsBeginTyped, PTL DEF BindsSpec

----------------------------------------------------------------------------
(* The interpreter against the linker's account of the streams.            *)

(* The registers a symbol and a segment are in before opcode k.             *)
RegistersAre(s, code, k, name, seg) ==
  LET symbol == "SET_SYMBOL_TRAILING_FLAGS_IMM"
      segment == "SET_SEGMENT_AND_OFFSET_ULEB"
  IN  /\ \A j \in 1 .. k - 1 : SetBefore(s, code, j, k, symbol) => name = s[code[j].at + 1].name
      /\ (\A j \in 1 .. k - 1 : OpAt(s, code[j]) # symbol) => name = NoName
      /\ \A j \in 1 .. k - 1 : SetBefore(s, code, j, k, segment) => seg = ImmAt(s, code[j])

(* It is before opcode k of the account, or in the run of binds of it.      *)
BeforeOpcode(s, code, k) ==
  /\ p = code[k].at /\ segment_offset = code[k].off /\ Len(b_list) = code[k].n
  /\ RegistersAre(s, code, k, symbol_name, segment_index)

InRun(s, code, k) ==
  /\ OpAt(s, code[k]) = "DO_BIND_ULEB_TIMES_SKIPPING_ULEB"
  /\ p = code[k + 1].at /\ count <= code[k].times /\ skip = code[k].arg
  /\ segment_offset = OffsetOf(s, code[k], code[k].times - count)
  /\ Len(b_list) = code[k].n + (code[k].times - count)
  /\ RegistersAre(s, code, k, symbol_name, segment_index)

InAccount(s, code) ==
  /\ bpc = "begin" => Len(b_list) = code[1].n
  /\ bpc = "opcode" => \E k \in 1 .. Len(code) : BeforeOpcode(s, code, k)
  /\ bpc = "times" => \E k \in 1 .. Len(code) - 1 : InRun(s, code, k)
  /\ bpc = "return" => pass = 2 /\ Len(b_list) = code[Len(code)].n

(* The binds collected are the first of the linker's. *)
ListSoFar ==
  Len(b_list) <= Len(targets) /\ \A n \in 1 .. Len(b_list) : b_list[n] = TargetInfo(targets[n])

Follows(codes) ==
  Encodes(streams, codes, targets) /\ InAccount(stream, codes[pass]) /\ ListSoFar

LEMMA RegistersBegin ==
  ASSUME NEW s, NEW code
  PROVE  RegistersAre(s, code, 1, NoName, -1)
  BY DEF RegistersAre

LEMMA RegistersKept ==
  ASSUME NEW s, NEW code, NEW k \in Nat \ {0}, NEW name, NEW seg,
         RegistersAre(s, code, k, name, seg),
         OpAt(s, code[k]) # "SET_SYMBOL_TRAILING_FLAGS_IMM",
         OpAt(s, code[k]) # "SET_SEGMENT_AND_OFFSET_ULEB"
  PROVE  RegistersAre(s, code, k + 1, name, seg)
  <1>1. ASSUME NEW j \in 1 .. k, NEW op, OpAt(s, code[k]) # op, SetBefore(s, code, j, k + 1, op)
        PROVE  j \in 1 .. k - 1 /\ SetBefore(s, code, j, k, op)
    BY <1>1 DEF SetBefore
  <1>2. (k + 1) - 1 = k /\ 1 .. k - 1 \subseteq 1 .. k
    OBVIOUS
  <1> QED
    BY <1>1, <1>2 DEF RegistersAre

LEMMA RegistersSymbol ==
  ASSUME NEW s, NEW code, NEW k \in Nat \ {0}, NEW name, NEW seg,
         RegistersAre(s, code, k, name, seg),
         OpAt(s, code[k]) = "SET_SYMBOL_TRAILING_FLAGS_IMM"
  PROVE  RegistersAre(s, code, k + 1, s[code[k].at + 1].name, seg)
  <1>1. ASSUME NEW j \in 1 .. k, NEW op, OpAt(s, code[k]) # op, SetBefore(s, code, j, k + 1, op)
        PROVE  j \in 1 .. k - 1 /\ SetBefore(s, code, j, k, op)
    BY <1>1 DEF SetBefore
  <1>2. ASSUME NEW j \in 1 .. k, SetBefore(s, code, j, k + 1, "SET_SYMBOL_TRAILING_FLAGS_IMM")
        PROVE  j = k
    BY <1>2 DEF SetBefore
  <1>3. (k + 1) - 1 = k /\ k \in 1 .. k
    OBVIOUS
  <1> QED
    BY <1>1, <1>2, <1>3 DEF RegistersAre

LEMMA RegistersSegment ==
  ASSUME NEW s, NEW code, NEW k \in Nat \ {0}, NEW name, NEW seg,
         RegistersAre(s, code, k, name, seg),
         OpAt(s, code[k]) = "SET_SEGMENT_AND_OFFSET_ULEB"
  PROVE  RegistersAre(s, code, k + 1, name, ImmAt(s, code[k]))
  <1>1. ASSUME NEW j \in 1 .. k, NEW op, OpAt(s, code[k]) # op, SetBefore(s, code, j, k + 1, op)
        PROVE  j \in 1 .. k - 1 /\ SetBefore(s, code, j, k, op)
    BY <1>1 DEF SetBefore
  <1>2. ASSUME NEW j \in 1 .. k, SetBefore(s, code, j, k + 1, "SET_SEGMENT_AND_OFFSET_ULEB")
        PROVE  j = k
    BY <1>2 DEF SetBefore
  <1>3. (k + 1) - 1 = k /\ 1 .. k - 1 \subseteq 1 .. k
    OBVIOUS
  <1> QED
    BY <1>1, <1>2, <1>3 DEF RegistersAre

(* They are what a bind at opcode k is for.                                 *)
LEMMA RegistersGive ==
  ASSUME NEW s, NEW code, NEW k \in Nat \ {0}, NEW name, NEW seg, NEW x, NEW y,
         RegistersAre(s, code, k, name, seg), SymbolAt(s, code, k, x), SegmentAt(s, code, k, y)
  PROVE  name = x /\ seg = y
  BY DEF RegistersAre, SymbolAt, SegmentAt

(* What the account says of an opcode before the end.                       *)
LEMMA AccountTyped ==
  ASSUME NEW s, NEW code, NEW ts, EncodedAs(s, code, ts), NEW k \in 1 .. Len(code)
  PROVE  /\ Len(code) \in Nat /\ 1 \in 1 .. Len(code) /\ Len(code) \in 1 .. Len(code)
         /\ code[k].at \in Nat /\ code[k].n \in Nat
         /\ code[k].off \in Word /\ code[k].arg \in Word /\ code[k].times \in Word
  <1>1. code \in Seq(Instruction) /\ code # << >>
    BY DEF EncodedAs
  <1>2. code[k] \in Instruction
    BY <1>1
  <1> QED
    BY <1>1, <1>2 DEF Instruction

LEMMA AccountOf ==
  ASSUME NEW codes, Encodes(streams, codes, targets), pass \in {1, 2}
  PROVE  EncodedAs(stream, codes[pass], targets)
  BY DEF Encodes, stream

LEMMA OpcodeRead ==
  ASSUME StreamsTyped, bpc = "opcode", p <= Len(stream),
         NEW code, EncodedAs(stream, code, targets), NEW k \in 1 .. Len(code), p = code[k].at
  PROVE  /\ k \in 1 .. Len(code) - 1 /\ k + 1 \in 1 .. Len(code)
         /\ opcode = OpAt(stream, code[k]) /\ immediate = ImmAt(stream, code[k])
         /\ opcode # "UNKNOWN"
         /\ opcode \in NoEffect \cup {"DO_BIND", "DO_BIND_ADD_ADDR_IMM_SCALED"} =>
              code[k + 1].at = p + 1
         /\ opcode \in Dropped => code[k + 1].at = AfterOperand
         /\ opcode \in {"SET_SEGMENT_AND_OFFSET_ULEB", "ADD_ADDR_ULEB", "DO_BIND_ADD_ADDR_ULEB"} =>
              operand = code[k].arg /\ code[k + 1].at = AfterOperand
         /\ opcode = "DO_BIND_ULEB_TIMES_SKIPPING_ULEB" =>
              /\ operand = code[k].times /\ Uleb(AfterOperand) = code[k].arg
              /\ code[k + 1].at = AfterUleb(AfterOperand)
         /\ opcode = "SET_SYMBOL_TRAILING_FLAGS_IMM" =>
              code[k + 1].at = p + 2 /\ p + 1 \in DOMAIN stream
         /\ code[k + 1].n = code[k].n + Made(stream, code[k])
         /\ code[k + 1].off = Left(stream, code[k]) /\ code[k + 1].n <= Len(targets)
  <1>1. stream \in Seq(StreamItem) /\ Len(stream) \in Nat /\ p \in Nat \ {0}
    BY StreamType DEF StreamsTyped
  <1>2. Len(code) \in Nat /\ code[Len(code)].at = Len(stream) + 1 /\ p # Len(stream) + 1
    BY <1>1, AccountTyped DEF EncodedAs
  <1>3. k \in 1 .. Len(code) - 1 /\ k + 1 \in 1 .. Len(code)
    BY <1>2
  <1>4. /\ Written(stream, code[k], code[k + 1].at)
        /\ code[k + 1].n = code[k].n + Made(stream, code[k])
        /\ code[k + 1].off = Left(stream, code[k]) /\ code[k + 1].n <= Len(targets)
    BY <1>3 DEF EncodedAs
  <1>5. opcode = OpAt(stream, code[k]) /\ immediate = ImmAt(stream, code[k])
    BY DEF opcode, immediate, OpAt, ImmAt
  <1>6. code[k].arg \in Word /\ code[k].times \in Word /\ code[k + 1].at \in Nat /\ p + 1 \in Nat \ {0}
    BY <1>1, <1>3, AccountTyped
  <1> DEFINE e == code[k + 1].at
  <1>7. ASSUME opcode \in Dropped PROVE e = AfterOperand
    <2>1. IsNumber(stream, p + 1, e)
      BY <1>4, <1>5, <1>7 DEF Written, Dropped
    <2> QED
      BY <1>1, <1>6, <2>1, BytesOfNumber DEF AfterOperand
  <1>8. ASSUME opcode \in {"SET_SEGMENT_AND_OFFSET_ULEB", "ADD_ADDR_ULEB", "DO_BIND_ADD_ADDR_ULEB"}
        PROVE  operand = code[k].arg /\ e = AfterOperand
    <2>1. IsUleb(stream, p + 1, e, code[k].arg)
      BY <1>4, <1>5, <1>8 DEF Written, Dropped
    <2> QED
      BY <1>1, <1>6, <2>1, UlebDecodes DEF operand, AfterOperand
  <1>9. ASSUME opcode = "DO_BIND_ULEB_TIMES_SKIPPING_ULEB"
        PROVE  /\ operand = code[k].times /\ Uleb(AfterOperand) = code[k].arg
               /\ e = AfterUleb(AfterOperand)
    <2>1. /\ IsUleb(stream, p + 1, code[k].mid, code[k].times)
          /\ IsUleb(stream, code[k].mid, e, code[k].arg)
      BY <1>4, <1>5, <1>9 DEF Written, Dropped
    <2>2. code[k].mid \in Nat
      <3>1. code[k] \in Instruction
        BY <1>3 DEF EncodedAs
      <3> QED
        BY <3>1 DEF Instruction
    <2>3. operand = code[k].times /\ AfterOperand = code[k].mid
      BY <1>1, <1>6, <2>1, <2>2, UlebDecodes DEF operand, AfterOperand
    <2>4. code[k].mid \in Nat \ {0}
      BY <1>1, <1>6, <2>1, <2>2 DEF IsUleb, IsNumber
    <2>5. Uleb(code[k].mid) = code[k].arg /\ AfterUleb(code[k].mid) = e
      BY <1>1, <1>6, <2>1, <2>4, UlebDecodes
    <2> QED
      BY <2>3, <2>5
  <1>10. ASSUME opcode = "SET_SYMBOL_TRAILING_FLAGS_IMM" PROVE e = p + 2 /\ p + 1 \in DOMAIN stream
    <2>1. e = p + 2 /\ e <= Len(stream) + 1
      BY <1>4, <1>5, <1>10 DEF Written, Dropped
    <2>2. p + 1 \in 1 .. Len(stream)
      BY <1>1, <2>1
    <2>3. p + 1 \in DOMAIN stream
      BY <1>1, <2>2
    <2> QED
      BY <2>1, <2>3
  <1>11. ASSUME opcode \in NoEffect \cup {"DO_BIND", "DO_BIND_ADD_ADDR_IMM_SCALED"}
         PROVE  e = p + 1
    BY <1>4, <1>5, <1>11 DEF Written, Dropped, NoEffect
  <1>12. opcode # "UNKNOWN"
    BY <1>4, <1>5 DEF Written, Dropped
  <1> QED
    BY <1>3, <1>4, <1>5, <1>7, <1>8, <1>9, <1>10, <1>11, <1>12

LEMMA RestOfSum ==
  ASSUME NEW a \in Int, NEW b \in Int, NEW d \in Nat \ {0}
  PROVE  ((a % d) + b) % d = (a + b) % d
  <1>1. PICK m \in Int, r \in 0 .. d - 1 : a = d * m + r /\ r = a % d
    <2>1. a \div d \in Int /\ a % d \in 0 .. d - 1 /\ a = d * (a \div d) + (a % d)
      OBVIOUS
    <2> QED
      BY <2>1
  <1>2. PICK x \in Int : x = r + b
    OBVIOUS
  <1>3. PICK w \in Int, t \in 0 .. d - 1 : x = d * w + t /\ t = x % d
    <2>1. x \div d \in Int /\ x % d \in 0 .. d - 1 /\ x = d * (x \div d) + (x % d)
      OBVIOUS
    <2> QED
      BY <2>1
  <1>4. PICK y \in Int : y = a + b
    OBVIOUS
  <1>5. y = d * (m + w) + t /\ m + w \in Int
    <2>1. PICK u \in Int, v \in Int : u = d * m /\ v = d * w
      OBVIOUS
    <2>2. d * (m + w) = u + v
      BY <2>1
    <2>3. a = u + r /\ x = v + t
      BY <1>1, <1>3, <2>1
    <2> QED
      BY <1>2, <1>4, <2>2, <2>3
  <1>6. y \div d = m + w
    BY <1>5, QuotientUnique
  <1>7. y = d * (y \div d) + (y % d) /\ y % d \in Int
    OBVIOUS
  <1>8. y % d = t
    <2>1. d * (m + w) \in Int
      BY <1>5
    <2> QED
      BY <1>5, <1>6, <1>7, <2>1
  <1> QED
    BY <1>1, <1>2, <1>3, <1>4, <1>8

(* An opcode's offset is a word, its stride a number of bytes.              *)
LEMMA StrideTyped ==
  ASSUME NEW s, NEW code, EncodedAs(s, code, targets), NEW k \in 1 .. Len(code) - 1,
         OpAt(s, code[k]) = "DO_BIND_ADD_ADDR_IMM_SCALED" => ImmAt(s, code[k]) \in Nat
  PROVE  code[k].off \in Word /\ Stride(s, code[k]) \in Nat
  <1>1. k \in 1 .. Len(code)
    <2>1. Len(code) \in Nat
      BY DEF EncodedAs
    <2> QED
      BY <2>1
  <1>2. code[k].off \in Word /\ code[k].arg \in Nat
    BY <1>1, AccountTyped DEF Word
  <1>3. PICK arg \in Nat : arg = code[k].arg
    BY <1>2
  <1>4. Stride(s, code[k]) \in Nat
    <2>1. CASE OpAt(s, code[k]) = "DO_BIND"
      BY <2>1 DEF Stride, pointer_size
    <2>2. CASE OpAt(s, code[k]) = "DO_BIND_ADD_ADDR_IMM_SCALED"
      BY <2>2 DEF Stride, pointer_size
    <2>3. CASE OpAt(s, code[k]) \notin {"DO_BIND", "DO_BIND_ADD_ADDR_IMM_SCALED"}
      BY <1>3, <2>3 DEF Stride, pointer_size
    <2> QED
      BY <2>1, <2>2, <2>3
  <1> QED
    BY <1>2, <1>4

(* The first bind is where the segment offset stood before the opcode.      *)
LEMMA FirstBind ==
  ASSUME NEW s, NEW code, EncodedAs(s, code, targets), NEW k \in 1 .. Len(code) - 1,
         OpAt(s, code[k]) = "DO_BIND_ADD_ADDR_IMM_SCALED" => ImmAt(s, code[k]) \in Nat
  PROVE  OffsetOf(s, code[k], 0) = code[k].off
  <1>1. PICK o \in Word : o = code[k].off
    BY StrideTyped
  <1>2. PICK d \in Nat : d = Stride(s, code[k])
    BY StrideTyped
  <1>3. PICK M \in Nat \ {0} : M = AddrMod /\ o < M /\ o \in Nat
    BY WidthAssumption DEF Word
  <1>4. (o + 0 * d) % M = o
    BY <1>2, <1>3
  <1> QED
    BY <1>1, <1>2, <1>3, <1>4 DEF OffsetOf

(* The next one is a stride further on.                                     *)
LEMMA StrideOn ==
  ASSUME NEW s, NEW code, EncodedAs(s, code, targets), NEW k \in 1 .. Len(code) - 1,
         OpAt(s, code[k]) = "DO_BIND_ADD_ADDR_IMM_SCALED" => ImmAt(s, code[k]) \in Nat,
         NEW m \in Nat
  PROVE  OffsetOf(s, code[k], m + 1) = (OffsetOf(s, code[k], m) + Stride(s, code[k])) % AddrMod
  <1>1. PICK o \in Word : o = code[k].off
    BY StrideTyped
  <1>2. PICK d \in Nat : d = Stride(s, code[k])
    BY StrideTyped
  <1>3. PICK M \in Nat \ {0} : M = AddrMod /\ o \in Nat
    BY WidthAssumption DEF Word
  <1>4. (((o + m * d) % M) + d) % M = (o + (m + 1) * d) % M
    <2>1. o + m * d \in Nat /\ o + (m + 1) * d = (o + m * d) + d
      BY <1>2, <1>3
    <2>2. PICK y \in Nat : y = o + m * d
      BY <2>1
    <2>3. y \in Int /\ d \in Int
      BY <1>2, <2>2
    <2>4. ((y % M) + d) % M = (y + d) % M
      BY <1>3, <2>3, RestOfSum, Zenon
    <2> QED
      BY <2>1, <2>2, <2>4, Zenon
  <1> QED
    BY <1>1, <1>2, <1>3, <1>4 DEF OffsetOf

(* The bind appended is the next of the linker's.                           *)
LEMMA BindIsNext ==
  ASSUME BindsTypeOK, ListSoFar, NEW s, NEW code, EncodedAs(s, code, targets),
         NEW k \in 1 .. Len(code) - 1, NEW m \in 1 .. Made(s, code[k]), Made(s, code[k]) \in Nat,
         Len(b_list) = code[k].n + (m - 1), segment_offset = OffsetOf(s, code[k], m - 1),
         RegistersAre(s, code, k, symbol_name, segment_index),
         append_bind_info, targets' = targets
  PROVE  /\ Len(b_list') = Len(b_list) + 1 /\ ListSoFar'
         /\ b_list' = Append(b_list, TargetInfo(targets[Len(b_list) + 1]))
         /\ Len(b_list) + 1 <= Len(targets)
  <1> DEFINE t == targets[code[k].n + m]
  <1>1. k \in 1 .. Len(code) /\ k \in Nat \ {0} /\ code[k].n \in Nat /\ Len(code) \in Nat
    <2>1. Len(code) \in Nat
      BY DEF EncodedAs
    <2>2. k \in 1 .. Len(code)
      BY <2>1
    <2> QED
      BY <2>1, <2>2, AccountTyped
  <1>2. /\ SymbolAt(s, code, k, t.name) /\ SegmentAt(s, code, k, t.seg)
        /\ t.off = OffsetOf(s, code[k], m - 1)
        /\ code[k].n + Made(s, code[k]) <= Len(targets)
    BY DEF EncodedAs
  <1>3. symbol_name = t.name /\ segment_index = t.seg
    BY <1>1, <1>2, RegistersGive
  <1>4. code[k].n + m = Len(b_list) + 1
    BY <1>1
  <1>5. b_list \in Seq(BindInfo)
    BY DEF BindsTypeOK
  <1>6. b_list' = Append(b_list, TargetInfo(t))
    BY <1>2, <1>3 DEF append_bind_info, TargetInfo
  <1>7. Len(b_list) + 1 <= Len(targets)
    BY <1>1, <1>2, <1>4
  <1>8. segments' = segments
    BY DEF append_bind_info
  <1>9. Len(b_list') = Len(b_list) + 1 /\ \A n \in 1 .. Len(b_list) : b_list'[n] = b_list[n]
    BY <1>5, <1>6
  <1>10. b_list'[Len(b_list) + 1] = TargetInfo(t)
    BY <1>5, <1>6
  <1> HIDE DEF t
  <1>11. ASSUME NEW n \in 1 .. Len(b_list) + 1 PROVE b_list'[n] = TargetInfo(targets[n])
    <2>1. CASE n = Len(b_list) + 1
      BY <1>4, <1>10, <2>1 DEF t
    <2>2. CASE n # Len(b_list) + 1
      BY <1>5, <1>9, <2>2 DEF ListSoFar
    <2> QED
      BY <2>1, <2>2
  <1>12. ListSoFar'
    BY <1>7, <1>8, <1>9, <1>11 DEF ListSoFar, TargetInfo, bind_address_for_segment_offset
  <1> QED
    BY <1>4, <1>6, <1>7, <1>9, <1>12 DEF t

(* A step that appends nothing leaves the list the first of the linker's.   *)
LEMMA ListKept ==
  ASSUME ListSoFar, b_list' = b_list, segments' = segments, targets' = targets
  PROVE  ListSoFar'
  BY DEF ListSoFar, TargetInfo, bind_address_for_segment_offset

(* What a step adds to the list. *)
Adds ==
  \/ b_list' = b_list
  \/ /\ Len(b_list) + 1 <= Len(targets)
     /\ b_list' = Append(b_list, TargetInfo(targets[Len(b_list) + 1]))

(* At an opcode the interpreter is at one of the account.                   *)
LEMMA AtAccount ==
  ASSUME BindsTypeOK, NEW codes, Follows(codes), bpc = "opcode"
  PROVE  /\ EncodedAs(stream, codes[pass], targets) /\ StreamsTyped
         /\ \E k \in 1 .. Len(codes[pass]) : BeforeOpcode(stream, codes[pass], k)
  BY TypesAre, AccountOf DEF Follows, InAccount, StreamsTyped

(* From one opcode to the next.                                             *)
LEMMA Onward ==
  ASSUME NEW s, NEW code, NEW k \in 1 .. Len(code) - 1, Len(code) \in Nat,
         bpc' = "opcode", p' = code[k + 1].at, segment_offset' = code[k + 1].off,
         Len(b_list') = code[k + 1].n, RegistersAre(s, code, k + 1, symbol_name', segment_index')
  PROVE  InAccount(s, code)'
  <1>1. k + 1 \in 1 .. Len(code)
    OBVIOUS
  <1>2. BeforeOpcode(s, code, k + 1)'
    BY DEF BeforeOpcode
  <1> QED
    BY <1>1, <1>2 DEF InAccount

(* The opcodes that bind nothing.                                           *)
LEMMA SettingFollows ==
  ASSUME BindsTypeOK, NEW codes, Follows(codes),
         Ignore \/ DropOperand \/ SetSymbol \/ SetSegmentAndOffset \/ AddAddr
  PROVE  InAccount(stream, codes[pass])' /\ ListSoFar' /\ Adds
  <1> USE DEF registers, times, context, lists
  <1>1. /\ bpc = "opcode" /\ p <= Len(stream) /\ bpc' = bpc /\ stream' = stream /\ pass' = pass
        /\ b_list' = b_list /\ segments' = segments /\ targets' = targets
    BY DEF Ignore, DropOperand, SetSymbol, SetSegmentAndOffset, AddAddr, At, stream
  <1>2. ListSoFar' /\ Adds
    BY <1>1, ListKept DEF Follows, Adds
  <1>3. PICK s, code : s = stream /\ code = codes[pass]
    OBVIOUS
  <1>4. PICK k \in 1 .. Len(code) : BeforeOpcode(s, code, k)
    BY <1>1, <1>3, AtAccount
  <1>5. EncodedAs(s, code, targets) /\ StreamsTyped
    BY <1>1, <1>3, AtAccount
  <1>6. /\ k \in 1 .. Len(code) - 1 /\ Len(code) \in Nat /\ k \in Nat \ {0}
        /\ code[k].off \in Word
    BY <1>1, <1>3, <1>4, <1>5, OpcodeRead, AccountTyped DEF BeforeOpcode
  <1>7. /\ opcode = OpAt(s, code[k]) /\ immediate = ImmAt(s, code[k]) /\ opcode # "UNKNOWN"
        /\ opcode \in NoEffect => code[k + 1].at = p + 1
        /\ opcode \in Dropped => code[k + 1].at = AfterOperand
        /\ opcode \in {"SET_SEGMENT_AND_OFFSET_ULEB", "ADD_ADDR_ULEB"} =>
             operand = code[k].arg /\ code[k + 1].at = AfterOperand
        /\ opcode = "SET_SYMBOL_TRAILING_FLAGS_IMM" =>
             code[k + 1].at = p + 2 /\ p + 1 \in DOMAIN stream
        /\ code[k + 1].n = code[k].n + Made(s, code[k])
        /\ code[k + 1].off = Left(s, code[k])
    BY <1>1, <1>3, <1>4, <1>5, OpcodeRead DEF BeforeOpcode
  <1>8. RegistersAre(s, code, k, symbol_name, segment_index)
    BY <1>4 DEF BeforeOpcode
  <1>9. opcode \notin SingleBinds /\ opcode # "DO_BIND_ULEB_TIMES_SKIPPING_ULEB"
    BY DEF Ignore, DropOperand, SetSymbol, SetSegmentAndOffset, AddAddr, At, NoEffect, Dropped,
           SingleBinds
  <1>10. Len(b_list') = code[k + 1].n
    <2>1. Made(s, code[k]) = 0
      BY <1>7, <1>9 DEF Made
    <2>2. code[k].n \in Nat /\ Len(b_list) = code[k].n
      BY <1>4, <1>5, AccountTyped DEF BeforeOpcode
    <2> QED
      BY <1>1, <1>7, <2>1, <2>2
  <1>11. OffsetOf(s, code[k], 0) = code[k].off
    <2>1. OpAt(s, code[k]) # "DO_BIND_ADD_ADDR_IMM_SCALED"
      BY <1>7, <1>9 DEF SingleBinds
    <2>2. k \in 1 .. Len(code) - 1 /\ EncodedAs(s, code, targets)
      BY <1>5, <1>6
    <2> QED
      BY <2>1, <2>2, FirstBind, Zenon
  <1>12. /\ p' = code[k + 1].at /\ segment_offset' = code[k + 1].off
         /\ RegistersAre(s, code, k + 1, symbol_name', segment_index')
    <2>0. segment_offset = code[k].off
      BY <1>4 DEF BeforeOpcode
    <2>1. CASE Ignore \/ DropOperand
      <3>1. opcode \in NoEffect \cup Dropped
        BY <2>1 DEF Ignore, DropOperand, At
      <3>2. Left(s, code[k]) = code[k].off
        BY <1>7, <1>11, <3>1 DEF Left, Made, NoEffect, Dropped, SingleBinds
      <3>3. RegistersAre(s, code, k + 1, symbol_name, segment_index)
        BY <1>6, <1>7, <1>8, <3>1, RegistersKept DEF NoEffect, Dropped
      <3> QED
        BY <1>7, <2>0, <2>1, <3>2, <3>3 DEF Ignore, DropOperand, At
    <2>2. CASE SetSymbol
      <3>1. opcode = "SET_SYMBOL_TRAILING_FLAGS_IMM"
        BY <2>2 DEF SetSymbol, At
      <3>2. Left(s, code[k]) = code[k].off
        BY <1>7, <1>11, <3>1 DEF Left, Made, SingleBinds
      <3>3. symbol_name' = s[code[k].at + 1].name
        BY <1>3, <1>4, <1>7, <2>2, <3>1 DEF SetSymbol, NamesAt, BeforeOpcode
      <3>4. RegistersAre(s, code, k + 1, symbol_name', segment_index)
        BY <1>6, <1>7, <1>8, <3>1, <3>3, RegistersSymbol
      <3> QED
        BY <1>7, <2>0, <2>2, <3>1, <3>2, <3>4 DEF SetSymbol
    <2>3. CASE SetSegmentAndOffset
      <3>1. opcode = "SET_SEGMENT_AND_OFFSET_ULEB"
        BY <2>3 DEF SetSegmentAndOffset, At
      <3>2. Left(s, code[k]) = code[k].arg
        BY <1>7, <3>1 DEF Left
      <3>3. RegistersAre(s, code, k + 1, symbol_name, immediate)
        BY <1>6, <1>7, <1>8, <3>1, RegistersSegment
      <3> QED
        BY <1>7, <2>3, <3>1, <3>2, <3>3 DEF SetSegmentAndOffset
    <2>4. CASE AddAddr
      <3>1. opcode = "ADD_ADDR_ULEB"
        BY <2>4 DEF AddAddr, At
      <3>2. Left(s, code[k]) = (code[k].off + code[k].arg) % AddrMod
        BY <1>7, <3>1 DEF Left
      <3>3. RegistersAre(s, code, k + 1, symbol_name, segment_index)
        BY <1>6, <1>7, <1>8, <3>1, RegistersKept
      <3> QED
        BY <1>7, <2>0, <2>4, <3>1, <3>2, <3>3 DEF AddAddr
    <2> QED
      BY <2>1, <2>2, <2>3, <2>4
  <1>13. InAccount(s, code)'
    BY <1>1, <1>6, <1>10, <1>12, Onward
  <1> QED
    BY <1>1, <1>2, <1>3, <1>13

(* The opcodes that bind.                                                   *)
LEMMA DoBindFollows ==
  ASSUME BindsTypeOK, NEW codes, Follows(codes), DoBind
  PROVE  InAccount(stream, codes[pass])' /\ ListSoFar' /\ Adds
  <1>1. /\ bpc = "opcode" /\ p <= Len(stream) /\ bpc' = bpc /\ stream' = stream /\ pass' = pass
        /\ append_bind_info /\ targets' = targets /\ opcode \in SingleBinds
        /\ symbol_name' = symbol_name /\ segment_index' = segment_index
    BY DEF DoBind, At, stream
  <1>2. PICK s, code : s = stream /\ code = codes[pass]
    OBVIOUS
  <1>3. PICK k \in 1 .. Len(code) : BeforeOpcode(s, code, k)
    BY <1>1, <1>2, AtAccount
  <1>4. EncodedAs(s, code, targets) /\ StreamsTyped /\ ListSoFar
    BY <1>1, <1>2, AtAccount DEF Follows
  <1>5. /\ k \in 1 .. Len(code) - 1 /\ Len(code) \in Nat /\ k \in Nat \ {0}
        /\ code[k].n \in Nat /\ code[k].off \in Word
    BY <1>1, <1>2, <1>3, <1>4, OpcodeRead, AccountTyped DEF BeforeOpcode
  <1>6. /\ opcode = OpAt(s, code[k]) /\ immediate = ImmAt(s, code[k])
        /\ opcode \in {"DO_BIND", "DO_BIND_ADD_ADDR_IMM_SCALED"} => code[k + 1].at = p + 1
        /\ opcode = "DO_BIND_ADD_ADDR_ULEB" =>
             operand = code[k].arg /\ code[k + 1].at = AfterOperand
        /\ code[k + 1].n = code[k].n + Made(s, code[k])
        /\ code[k + 1].off = Left(s, code[k])
    BY <1>1, <1>2, <1>3, <1>4, OpcodeRead DEF BeforeOpcode
  <1>7. Made(s, code[k]) = 1
    BY <1>1, <1>6 DEF Made, SingleBinds
  <1>8. ImmAt(s, code[k]) \in Nat
    <2>1. immediate \in 0 .. 15
      BY <1>1, <1>4, OpcodeType
    <2>2. immediate \in Nat
      BY <2>1
    <2> QED
      BY <1>6, <2>2
  <1>9. /\ Stride(s, code[k]) \in Nat /\ OffsetOf(s, code[k], 0) = code[k].off
        /\ OffsetOf(s, code[k], 0 + 1) = (OffsetOf(s, code[k], 0) + Stride(s, code[k])) % AddrMod
    <2>1. 0 \in Nat /\ k \in 1 .. Len(code) - 1 /\ EncodedAs(s, code, targets)
      BY <1>4, <1>5
    <2>2. Stride(s, code[k]) \in Nat
      BY <1>8, <2>1, StrideTyped, Zenon
    <2>3. OffsetOf(s, code[k], 0) = code[k].off
      BY <1>8, <2>1, FirstBind, Zenon
    <2>4. OffsetOf(s, code[k], 0 + 1) = (OffsetOf(s, code[k], 0) + Stride(s, code[k])) % AddrMod
      BY <1>8, <2>1, StrideOn, Zenon
    <2> QED
      BY <2>2, <2>3, <2>4
  <1>10. RegistersAre(s, code, k, symbol_name, segment_index) /\ p = code[k].at
         /\ segment_offset = code[k].off /\ Len(b_list) = code[k].n
    BY <1>3 DEF BeforeOpcode
  <1>11. Len(b_list') = Len(b_list) + 1 /\ ListSoFar' /\ Adds
    <2>1. 1 \in 1 .. Made(s, code[k]) /\ Made(s, code[k]) \in Nat /\ 1 - 1 = 0
      BY <1>7
    <2>2. Len(b_list) = code[k].n + (1 - 1) /\ segment_offset = OffsetOf(s, code[k], 1 - 1)
      BY <1>5, <1>9, <1>10
    <2> QED
      BY <1>1, <1>4, <1>5, <1>10, <2>1, <2>2, BindIsNext DEF Adds
  <1>12. segment_offset' = code[k + 1].off
    <2>1. pointer_size + BindAdvance = Stride(s, code[k])
      BY <1>1, <1>6 DEF BindAdvance, Stride, SingleBinds
    <2>2. BindAdvance \in Nat
      <3>1. operand \in Nat
        BY <1>1, <1>4, OpcodeType DEF Word
      <3> QED
        BY <1>1, <1>6, <1>8, <3>1 DEF BindAdvance, SingleBinds, pointer_size
    <2>3. (segment_offset + pointer_size) + BindAdvance = segment_offset + Stride(s, code[k])
      BY <1>5, <1>10, <2>1, <2>2 DEF Word, pointer_size
    <2>4. Left(s, code[k]) = OffsetOf(s, code[k], 1)
      BY <1>1, <1>6, <1>7 DEF Left, SingleBinds
    <2>5. segment_offset' = (code[k].off + Stride(s, code[k])) % AddrMod
      BY <1>10, <2>3 DEF DoBind
    <2> QED
      BY <1>6, <1>9, <2>4, <2>5
  <1>13. p' = code[k + 1].at
    BY <1>1, <1>6 DEF DoBind, AfterBind, SingleBinds
  <1>14. RegistersAre(s, code, k + 1, symbol_name', segment_index')
    BY <1>1, <1>5, <1>6, <1>10, RegistersKept DEF SingleBinds
  <1>15. InAccount(s, code)'
    BY <1>1, <1>5, <1>6, <1>7, <1>10, <1>11, <1>12, <1>13, <1>14, Onward
  <1> QED
    BY <1>1, <1>2, <1>11, <1>15

LEMMA RunBegins ==
  ASSUME BindsTypeOK, NEW codes, Follows(codes), DoBindTimes
  PROVE  InAccount(stream, codes[pass])' /\ ListSoFar' /\ Adds
  <1> USE DEF registers, context, lists
  <1>1. /\ bpc = "opcode" /\ p <= Len(stream) /\ bpc' = "times" /\ stream' = stream /\ pass' = pass
        /\ b_list' = b_list /\ segments' = segments /\ targets' = targets
        /\ opcode = "DO_BIND_ULEB_TIMES_SKIPPING_ULEB"
        /\ symbol_name' = symbol_name /\ segment_index' = segment_index
        /\ segment_offset' = segment_offset
    BY DEF DoBindTimes, At, stream
  <1>2. ListSoFar' /\ Adds
    BY <1>1, ListKept DEF Follows, Adds
  <1>3. PICK s, code : s = stream /\ code = codes[pass]
    OBVIOUS
  <1>4. PICK k \in 1 .. Len(code) : BeforeOpcode(s, code, k)
    BY <1>1, <1>3, AtAccount
  <1>5. EncodedAs(s, code, targets) /\ StreamsTyped
    BY <1>1, <1>3, AtAccount
  <1>6. /\ k \in 1 .. Len(code) - 1 /\ code[k].n \in Nat /\ code[k].times \in Nat
        /\ opcode = OpAt(s, code[k])
        /\ operand = code[k].times /\ Uleb(AfterOperand) = code[k].arg
        /\ code[k + 1].at = AfterUleb(AfterOperand)
    BY <1>1, <1>3, <1>4, <1>5, OpcodeRead, AccountTyped DEF BeforeOpcode, Word
  <1>7. OffsetOf(s, code[k], 0) = code[k].off
    <2>1. OpAt(s, code[k]) # "DO_BIND_ADD_ADDR_IMM_SCALED"
      BY <1>1, <1>6
    <2>2. k \in 1 .. Len(code) - 1 /\ EncodedAs(s, code, targets)
      BY <1>5, <1>6
    <2> QED
      BY <2>1, <2>2, FirstBind, Zenon
  <1>8. count' = code[k].times /\ skip' = code[k].arg /\ p' = code[k + 1].at
    BY <1>6 DEF DoBindTimes
  <1>9. code[k].times - code[k].times = 0 /\ code[k].n + 0 = code[k].n
    BY <1>6
  <1>10. InRun(s, code, k)'
    BY <1>1, <1>4, <1>6, <1>7, <1>8, <1>9 DEF InRun, BeforeOpcode
  <1>11. InAccount(s, code)'
    BY <1>1, <1>6, <1>10 DEF InAccount
  <1> QED
    BY <1>1, <1>2, <1>3, <1>11

LEMMA RunFollows ==
  ASSUME BindsTypeOK, NEW codes, Follows(codes), BindOneOfTimes \/ EndTimes
  PROVE  InAccount(stream, codes[pass])' /\ ListSoFar' /\ Adds
  <1> USE DEF registers, context, lists
  <1>1. /\ bpc = "times" /\ stream' = stream /\ pass' = pass /\ targets' = targets
        /\ symbol_name' = symbol_name /\ segment_index' = segment_index /\ p' = p
    BY DEF BindOneOfTimes, EndTimes, stream
  <1>2. PICK s, code : s = stream /\ code = codes[pass]
    OBVIOUS
  <1>3. PICK k \in 1 .. Len(code) - 1 : InRun(s, code, k)
    BY <1>1, <1>2 DEF Follows, InAccount
  <1>4. EncodedAs(s, code, targets) /\ ListSoFar
    BY <1>2, TypesAre, AccountOf DEF Follows, StreamsTyped
  <1>5. /\ Len(code) \in Nat /\ k \in Nat \ {0} /\ k \in 1 .. Len(code)
        /\ code[k].n \in Nat /\ code[k].times \in Nat /\ code[k].arg \in Nat
    <2>1. Len(code) \in Nat
      BY <1>4 DEF EncodedAs
    <2>2. k \in 1 .. Len(code) /\ k \in Nat \ {0}
      BY <2>1
    <2> QED
      BY <1>4, <2>1, <2>2, AccountTyped DEF Word
  <1>6. /\ OpAt(s, code[k]) = "DO_BIND_ULEB_TIMES_SKIPPING_ULEB"
        /\ p = code[k + 1].at /\ count <= code[k].times /\ skip = code[k].arg
        /\ segment_offset = OffsetOf(s, code[k], code[k].times - count)
        /\ Len(b_list) = code[k].n + (code[k].times - count)
        /\ RegistersAre(s, code, k, symbol_name, segment_index)
    BY <1>3 DEF InRun
  <1>7. Made(s, code[k]) = code[k].times
    BY <1>6 DEF Made, SingleBinds
  <1>8. count \in Nat
    BY DEF BindsTypeOK, Word
  <1>9. PICK m \in Nat : m = code[k].times - count
    BY <1>5, <1>6, <1>8
  <1>10. CASE BindOneOfTimes
    <2>1. /\ count > 0 /\ count' = count - 1 /\ skip' = skip /\ bpc' = bpc /\ append_bind_info
          /\ segment_offset' = (segment_offset + pointer_size + skip) % AddrMod
      BY <1>10 DEF BindOneOfTimes
    <2>2. m + 1 \in 1 .. Made(s, code[k]) /\ (m + 1) - 1 = m /\ code[k].times - count' = m + 1
      BY <1>5, <1>7, <1>8, <1>9, <2>1
    <2>3. Len(b_list') = Len(b_list) + 1 /\ ListSoFar' /\ Adds
      BY <1>1, <1>4, <1>5, <1>6, <1>7, <1>9, <2>1, <2>2, BindIsNext DEF Adds
    <2>4. segment_offset' = OffsetOf(s, code[k], m + 1)
      <3>1. /\ Stride(s, code[k]) \in Nat
            /\ OffsetOf(s, code[k], m + 1) = (OffsetOf(s, code[k], m) + Stride(s, code[k])) % AddrMod
        <4>1. OpAt(s, code[k]) # "DO_BIND_ADD_ADDR_IMM_SCALED"
          BY <1>6
        <4>2. Stride(s, code[k]) \in Nat
          BY <1>4, <4>1, StrideTyped, Zenon
        <4> QED
          BY <1>4, <4>1, <4>2, StrideOn, Zenon
      <3>2. Stride(s, code[k]) = pointer_size + skip
        BY <1>6 DEF Stride
      <3>3. segment_offset + pointer_size + skip = segment_offset + (pointer_size + skip)
        <4>1. segment_offset \in Nat /\ skip \in Nat
          BY DEF BindsTypeOK, Word
        <4> QED
          BY <4>1 DEF pointer_size
      <3>4. OffsetOf(s, code[k], m) = segment_offset
        BY <1>6, <1>9
      <3> QED
        BY <2>1, <3>1, <3>2, <3>3, <3>4
    <2>5. Len(b_list') = code[k].n + (m + 1) /\ count' <= code[k].times
      <3>1. Len(b_list) = code[k].n + m
        BY <1>6, <1>9
      <3>2. count - 1 <= code[k].times
        BY <1>5, <1>6, <1>8
      <3>3. Len(b_list') = Len(b_list) + 1
        BY <2>3
      <3>4. Len(b_list') = (code[k].n + m) + 1
        BY <3>1, <3>3
      <3>5. (code[k].n + m) + 1 = code[k].n + (m + 1)
        BY <1>5
      <3>6. count' <= code[k].times
        BY <2>1, <3>2
      <3> QED
        BY <3>4, <3>5, <3>6
    <2>6. InRun(s, code, k)'
      BY <1>1, <1>6, <2>1, <2>2, <2>4, <2>5 DEF InRun
    <2>7. InAccount(s, code)'
      BY <1>1, <2>1, <2>6 DEF InAccount
    <2> QED
      BY <1>1, <1>2, <2>3, <2>7
  <1>11. CASE EndTimes
    <2>1. /\ count = 0 /\ bpc' = "opcode" /\ b_list' = b_list /\ segments' = segments
          /\ segment_offset' = segment_offset
      BY <1>11 DEF EndTimes
    <2>2. ListSoFar' /\ Adds
      BY <1>1, <1>4, <2>1, ListKept DEF Adds
    <2>3. m = code[k].times
      BY <1>5, <1>9, <2>1
    <2>4. /\ code[k + 1].n = code[k].n + Made(s, code[k])
          /\ code[k + 1].off = Left(s, code[k])
      BY <1>4 DEF EncodedAs
    <2>5. Left(s, code[k]) = OffsetOf(s, code[k], Made(s, code[k]))
      BY <1>6 DEF Left
    <2>6. RegistersAre(s, code, k + 1, symbol_name, segment_index)
      BY <1>5, <1>6, RegistersKept
    <2>7. InAccount(s, code)'
      BY <1>1, <1>5, <1>6, <1>7, <1>9, <2>1, <2>3, <2>4, <2>5, <2>6, Onward
    <2> QED
      BY <1>1, <1>2, <2>2, <2>7
  <1> QED
    BY <1>10, <1>11

(* The ends of the streams.                                                 *)
LEMMA StreamFollows ==
  ASSUME BindsTypeOK, NEW codes, Follows(codes), BeginStream \/ EndStream
  PROVE  InAccount(stream, codes[pass])' /\ ListSoFar' /\ Adds
  <1> USE DEF registers, context, lists
  <1>1. b_list' = b_list /\ segments' = segments /\ targets' = targets /\ streams' = streams
    BY DEF BeginStream, EndStream
  <1>2. ListSoFar' /\ Adds
    BY <1>1, ListKept DEF Follows, Adds
  <1>3. Encodes(streams, codes, targets) /\ pass \in {1, 2} /\ StreamsTyped
    BY TypesAre DEF Follows, StreamsTyped
  <1>4. CASE BeginStream
    <2>1. PICK s, code : s = stream /\ code = codes[pass]
      OBVIOUS
    <2>2. /\ bpc = "begin" /\ bpc' = "opcode" /\ p' = 1 /\ pass' = pass /\ stream' = stream
          /\ symbol_name' = NoName /\ segment_index' = -1 /\ segment_offset' = 0
      BY <1>4 DEF BeginStream, stream
    <2>3. EncodedAs(s, code, targets) /\ Len(b_list) = code[1].n
      BY <1>3, <2>1, <2>2, AccountOf DEF Follows, InAccount
    <2>4. 1 \in 1 .. Len(code)
      <3>1. code \in Seq(Instruction) /\ code # << >>
        BY <2>3 DEF EncodedAs
      <3> QED
        BY <3>1
    <2>5. BeforeOpcode(s, code, 1)'
      BY <1>1, <2>2, <2>3, RegistersBegin DEF BeforeOpcode, EncodedAs
    <2>6. InAccount(s, code)'
      BY <2>2, <2>4, <2>5 DEF InAccount
    <2> QED
      BY <1>2, <2>1, <2>2, <2>6
  <1>5. CASE EndStream
    <2>1. bpc = "opcode" /\ p > Len(stream)
      BY <1>5 DEF EndStream
    <2>2. PICK s, code : s = stream /\ code = codes[pass]
      OBVIOUS
    <2>3. EncodedAs(s, code, targets)
      BY <2>1, <2>2, AtAccount
    <2>4. PICK k \in 1 .. Len(code) : BeforeOpcode(s, code, k)
      BY <2>1, <2>2, AtAccount
    <2>5. k = Len(code)
      <3>1. Len(code) \in Nat /\ Len(s) \in Nat /\ p = code[k].at /\ p \in Nat /\ p > Len(s)
        BY <1>3, <2>1, <2>2, <2>3, <2>4, AccountTyped, StreamType DEF BeforeOpcode, StreamsTyped
      <3>2. k \in 1 .. Len(code) - 1 => code[k].at <= Len(s)
        BY <2>3 DEF EncodedAs
      <3> QED
        BY <3>1, <3>2
    <2>6. Len(b_list) = code[Len(code)].n
      BY <2>4, <2>5 DEF BeforeOpcode
    <2>7. CASE pass = 1
      <3>1. pass' = 2 /\ bpc' = "begin"
        BY <1>5, <2>7 DEF EndStream
      <3>2. Len(b_list') = codes[2][1].n
        BY <1>1, <1>3, <2>2, <2>6, <2>7 DEF Encodes
      <3> QED
        BY <1>2, <3>1, <3>2 DEF InAccount
    <2>8. CASE pass = 2
      <3>1. pass' = 2 /\ bpc' = "return"
        BY <1>5, <2>8 DEF EndStream
      <3>2. Len(b_list') = codes[2][Len(codes[2])].n
        BY <1>1, <2>2, <2>6, <2>8
      <3> QED
        BY <1>2, <3>1, <3>2 DEF InAccount
    <2> QED
      BY <1>3, <2>7, <2>8
  <1> QED
    BY <1>4, <1>5

(* Every step of the interpreter follows the account.                       *)
LEMMA AccountFollowed ==
  ASSUME BindsTypeOK, NEW codes, Follows(codes), BindsStep
  PROVE  Follows(codes)' /\ Adds
  <1>1. streams' = streams /\ targets' = targets
    BY DEF BindsStep, BeginStream, EndStream, Ignore, DropOperand, SetSymbol, SetSegmentAndOffset,
           AddAddr, DoBind, DoBindTimes, BindOneOfTimes, EndTimes
  <1>2. InAccount(stream, codes[pass])' /\ ListSoFar' /\ Adds
    BY SettingFollows, DoBindFollows, RunBegins, RunFollows, StreamFollows DEF BindsStep
  <1> QED
    BY <1>1, <1>2 DEF Follows

LEMMA AccountStays ==
  ASSUME NEW codes, Follows(codes), UNCHANGED binds_vars
  PROVE  Follows(codes)'
  <1>1. stream' = stream
    BY DEF binds_vars, binds_state, stream
  <1> QED
    BY <1>1 DEF Follows, InAccount, BeforeOpcode, InRun, ListSoFar, TargetInfo,
       bind_address_for_segment_offset, binds_vars, binds_state, registers, times, context, lists

LEMMA TargetsLength ==
  ASSUME NEW codes, Encodes(streams, codes, targets)
  PROVE  Len(targets) \in Nat
  <1>1. codes[2][Len(codes[2])].n = Len(targets) /\ EncodedAs(streams[2], codes[2], targets)
    BY DEF Encodes
  <1>2. Len(codes[2]) \in 1 .. Len(codes[2])
    <2>1. codes[2] \in Seq(Instruction) /\ codes[2] # << >>
      BY <1>1 DEF EncodedAs
    <2> QED
      BY <2>1
  <1> QED
    BY <1>1, <1>2, AccountTyped

(* Whatever streams a linker writes for its binds, in whatever opcodes and  *)
(* with numbers of whatever length, if none of them has an addend: the list *)
(* the interpreter makes of them grows through the binds in order and ends  *)
(* with all of them.                                                        *)
THEOREM BindListMatchesHolds ==
  ASSUME NEW CONSTANT codes
  PROVE  BindsSpec /\ Encodes(streams, codes, targets) /\ NoAddends(targets) => []BindListMatches
  <1> DEFINE Inv == BindsTypeOK /\ Follows(codes) /\ NoAddends(targets)
  <1>1. BindsInit /\ Encodes(streams, codes, targets) /\ NoAddends(targets) => Inv
    <2> SUFFICES ASSUME BindsInit, Encodes(streams, codes, targets) PROVE Follows(codes)
      BY BindsBeginTyped
    <2>1. /\ bpc = "begin" /\ pass = 1 /\ b_list = << >>
          /\ codes[1][1].n = 0 /\ EncodedAs(streams[1], codes[1], targets)
          /\ codes[2][Len(codes[2])].n = Len(targets) /\ EncodedAs(streams[2], codes[2], targets)
      BY DEF BindsInit, Encodes
    <2>2. Len(b_list) = 0
      BY <2>1
    <2>3. Len(targets) \in Nat
      BY TargetsLength
    <2>4. ListSoFar
      BY <2>2, <2>3 DEF ListSoFar
    <2> QED
      BY <2>1, <2>2, <2>4 DEF Follows, InAccount
  <1>2. Inv /\ [BindsNext]_binds_vars => Inv'
    <2>0. ASSUME Inv, [BindsNext]_binds_vars PROVE targets' = targets
      BY <2>0 DEF BindsNext, BindsReturned, BindsStep, BeginStream, EndStream, Ignore, DropOperand,
         SetSymbol, SetSegmentAndOffset, AddAddr, DoBind, DoBindTimes, BindOneOfTimes, EndTimes,
         binds_vars, binds_state
    <2> SUFFICES ASSUME Inv, [BindsNext]_binds_vars PROVE Follows(codes)' /\ BindsTypeOK'
      BY <2>0 DEF NoAddends
    <2>1. CASE UNCHANGED binds_vars
      <3>1. stream' = stream
        BY <2>1 DEF binds_vars, binds_state, stream
      <3>2. BindsTypeOK'
        BY <2>1, <3>1 DEF BindsTypeOK, ContextTypeOK, binds_vars, binds_state, registers, times,
           context, lists
      <3>3. Follows(codes)'
        BY <2>1, AccountStays
      <3> QED
        BY <3>2, <3>3
    <2>2. CASE BindsStep
      BY <2>2, BindsStepTyped, AccountFollowed
    <2> QED
      BY <2>1, <2>2 DEF BindsNext, BindsReturned
  <1>3. Inv => BindListMatches
    <2> SUFFICES ASSUME Inv PROVE BindListMatches
      OBVIOUS
    <2>1. bpc = "return" => Len(b_list) = Len(targets)
      BY DEF Follows, InAccount, Encodes
    <2>2. \A n \in 1 .. Len(b_list) : n \in 1 .. Len(targets)
      <3>1. b_list \in Seq(BindInfo)
        BY DEF BindsTypeOK
      <3>2. Len(b_list) \in Nat /\ Len(b_list) <= Len(targets)
        BY <3>1 DEF Follows, ListSoFar
      <3> QED
        BY <3>2, TargetsLength
    <2> QED
      BY <2>1, <2>2 DEF Follows, ListSoFar, NoAddends, BindListMatches
  <1> QED
    BY <1>1, <1>2, <1>3, PTL DEF BindsSpec
=============================================================================
