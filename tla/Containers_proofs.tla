-------------------------- MODULE Containers_proofs --------------------------
(***************************************************************************)
(* Proofs about utilities: the arithmetic that reports overflow, for every *)
(* width, and the lives of the elements of vectors and arrays, for any     *)
(* static capacity and any number of calls.                                *)
(***************************************************************************)
EXTENDS Containers, Overflow, FiniteSetTheorems, FunctionTheorems, SequenceTheorems, WellFoundedInduction, TLAPS

-----------------------------------------------------------------------------
(* Powers of two: they count the subsets of an interval.                   *)

\* The smallest number of a set: what stands for an induction.
LEMMA SmallestOf ==
    ASSUME NEW T, T \subseteq Nat, T # {}
    PROVE  \E x \in T : \A y \in T : x <= y
<1> DEFINE below == {ss \in Nat \X Nat : ss[1] < ss[2]}
<1>1. IsWellFoundedOn(below, Nat)
  BY NatLessThanWellFounded, Zenon DEF OpToRel
<1>2. PICK x \in T : \A y \in T : ~ (<<y, x>> \in below)
  <2> HIDE DEF below
  <2> QED
    BY <1>1, WFMin
<1>3. \A y \in T : ~ (y < x)
  BY <1>2
<1> QED
  BY <1>3

LEMMA PowersMultiply ==
    ASSUME NEW m \in Nat, NEW n \in Nat
    PROVE  2^(m + n) = 2^m * 2^n
<1> DEFINE A == 1 .. m
           B == m + 1 .. m + n
           f == [p \in (SUBSET A) \X (SUBSET B) |-> p[1] \cup p[2]]
<1>1. /\ IsFiniteSet(A) /\ Cardinality(A) = m
      /\ IsFiniteSet(B) /\ Cardinality(B) = n
      /\ IsFiniteSet(1 .. m + n) /\ Cardinality(1 .. m + n) = m + n
  <2>1. IsFiniteSet(1 .. m) /\ Cardinality(1 .. m) = m
    BY FS_Interval
  <2>2. IsFiniteSet(m + 1 .. m + n) /\ Cardinality(m + 1 .. m + n) = n
    BY FS_Interval
  <2>3. IsFiniteSet(1 .. m + n) /\ Cardinality(1 .. m + n) = m + n
    <3> DEFINE k == m + n
    <3>1. k \in Nat
      OBVIOUS
    <3> HIDE DEF k
    <3>2. IsFiniteSet(1 .. k) /\ Cardinality(1 .. k) = k
      BY <3>1, FS_Interval
    <3> QED BY <3>2 DEF k
  <2> QED BY <2>1, <2>2, <2>3
<1>2. /\ IsFiniteSet(SUBSET A) /\ Cardinality(SUBSET A) = 2^m
      /\ IsFiniteSet(SUBSET B) /\ Cardinality(SUBSET B) = 2^n
      /\ IsFiniteSet(SUBSET (1 .. m + n)) /\ Cardinality(SUBSET (1 .. m + n)) = 2^(m + n)
  <2> HIDE DEF A, B
  <2> QED BY <1>1, FS_SUBSET
<1>3. /\ IsFiniteSet((SUBSET A) \X (SUBSET B))
      /\ Cardinality((SUBSET A) \X (SUBSET B)) = 2^m * 2^n
  <2> DEFINE SA == SUBSET A
             SB == SUBSET B
  <2>1. IsFiniteSet(SA) /\ IsFiniteSet(SB) /\ Cardinality(SA) = 2^m /\ Cardinality(SB) = 2^n
    BY <1>2
  <2> HIDE DEF SA, SB
  <2>2. IsFiniteSet(SA \X SB) /\ Cardinality(SA \X SB) = 2^m * 2^n
    BY <2>1, FS_Product
  <2> QED BY <2>2 DEF SA, SB
<1>4. f \in Bijection((SUBSET A) \X (SUBSET B), SUBSET (1 .. m + n))
  <2>1. f \in [(SUBSET A) \X (SUBSET B) -> SUBSET (1 .. m + n)]
    OBVIOUS
  <2>2. ASSUME NEW p \in (SUBSET A) \X (SUBSET B), NEW q \in (SUBSET A) \X (SUBSET B), f[p] = f[q]
        PROVE  p = q
    <3>1. A \cap B = {}
      OBVIOUS
    <3>2. p[1] \cup p[2] = q[1] \cup q[2] /\ p[1] \subseteq A /\ q[1] \subseteq A /\ p[2] \subseteq B /\ q[2] \subseteq B
      BY <2>2
    <3>3. p[1] = q[1] /\ p[2] = q[2]
      <4> HIDE DEF A, B
      <4> QED BY <3>1, <3>2
    <3> QED BY <3>3
  <2>3. ASSUME NEW t \in SUBSET (1 .. m + n)
        PROVE  \E s \in (SUBSET A) \X (SUBSET B) : f[s] = t
    <3>1. <<t \cap A, t \cap B>> \in (SUBSET A) \X (SUBSET B)
      OBVIOUS
    <3>2. (t \cap A) \cup (t \cap B) = t
      <4>1. \A x \in t : x \in A \/ x \in B
        OBVIOUS
      <4> HIDE DEF A, B
      <4> QED BY <4>1, Zenon
    <3> QED BY <3>1, <3>2
  <2> QED BY <2>1, <2>2, <2>3, Fun_IsBij
<1>5. Cardinality((SUBSET A) \X (SUBSET B)) = Cardinality(SUBSET (1 .. m + n))
  <2> HIDE DEF A, B, f
  <2> QED BY <1>3, <1>4, FS_Bijection DEF ExistsBijection
<1> QED BY <1>2, <1>3, <1>5

LEMMA PowersPositive ==
    ASSUME NEW n \in Nat
    PROVE  2^n \in Nat /\ 2^n > n
<1>1. IsFiniteSet(1 .. n) /\ Cardinality(1 .. n) = n
  BY FS_Interval
<1>2. IsFiniteSet(SUBSET (1 .. n)) /\ Cardinality(SUBSET (1 .. n)) = 2^n
  BY <1>1, FS_SUBSET
<1>3. 2^n \in Nat
  BY <1>2, FS_CardinalityType
<1>4. n < 2^n
  <2> DEFINE f == [i \in 1 .. n |-> {i}]
             R == {{i} : i \in 1 .. n}
  <2>1. f \in Bijection(1 .. n, R)
    BY Fun_IsBij
  <2>2. IsFiniteSet(R) /\ Cardinality(R) = n
    BY <1>1, <2>1, FS_Bijection DEF ExistsBijection
  <2>3. R \subseteq SUBSET (1 .. n) /\ {} \in SUBSET (1 .. n) /\ {} \notin R
    OBVIOUS
  <2>4. Cardinality(R) < Cardinality(SUBSET (1 .. n))
    <3> DEFINE S == SUBSET (1 .. n)
    <3>1. IsFiniteSet(S) /\ R \subseteq S /\ R # S
      BY <1>2, <2>3
    <3> HIDE DEF R, S
    <3>2. Cardinality(R) <= Cardinality(S) /\ (Cardinality(R) = Cardinality(S) => R = S)
      BY <3>1, FS_Subset, Zenon
    <3>3. Cardinality(R) \in Nat /\ Cardinality(S) \in Nat
      BY <2>2, <3>1, FS_CardinalityType
    <3>4. Cardinality(R) < Cardinality(S)
      BY <3>1, <3>2, <3>3
    <3> QED BY <3>4 DEF S
  <2> QED BY <1>2, <2>2, <2>4
<1> QED BY <1>3, <1>4

-----------------------------------------------------------------------------
(* Overflow.                                                               *)

LEMMA DivisionIs ==
    ASSUME NEW x \in Int, NEW m \in Nat, NEW q \in Int, NEW r \in Nat, r < m, x = q * m + r
    PROVE  x \div m = q /\ x % m = r
OBVIOUS

\* The powers of two: the width, the weight of the top bit, and half the width.
Wide == 2^W
Sign == 2^Top
Half == 2^(W \div 2)

LEMMA OverflowPowers ==
    /\ W \in Nat /\ W >= 2
    /\ Wide \in Nat /\ Sign \in Nat /\ Half \in Nat
    /\ Wide = 2 * Sign /\ Wide = Half * Half /\ Sign >= 2 /\ Half >= 2
<1>1. W \in Nat /\ W >= 2 /\ W \div 2 \in Nat /\ W \div 2 >= 1 /\ W = (W \div 2) + (W \div 2)
  BY OverflowBitsAssumption DEF W
<1>2. Top \in Nat /\ Top >= 1 /\ W = 1 + Top
  BY <1>1 DEF Top
<1>3. Wide \in Nat /\ Sign \in Nat /\ Sign > Top /\ Half \in Nat /\ Half > W \div 2
  BY <1>1, <1>2, PowersPositive DEF Wide, Sign, Half
<1>4. 2^1 = 2
  OBVIOUS
<1>5. Wide = 2 * Sign
  <2>1. 2^(1 + Top) = 2^1 * 2^Top
    BY <1>2, PowersMultiply
  <2> QED BY <1>2, <1>4, <2>1 DEF Wide, Sign
<1>6. Wide = Half * Half
  <2>1. 2^((W \div 2) + (W \div 2)) = 2^(W \div 2) * 2^(W \div 2)
    BY <1>1, PowersMultiply
  <2> QED BY <1>1, <2>1 DEF Wide, Half
<1> QED BY <1>1, <1>2, <1>3, <1>5, <1>6

(* Unsigned and Signed of a number are what differs from it by a multiple  *)
(* of the width and is in the range.                                       *)
LEMMA UnsignedIs ==
    ASSUME NEW x \in Int, NEW q \in Int, NEW r \in Nat, r < Wide, x = q * Wide + r
    PROVE  Unsigned(W, x) = r /\ ShiftRight(x, W) = q
BY OverflowPowers, DivisionIs DEF Unsigned, ShiftRight, Wide

LEMMA SignedIs ==
    ASSUME NEW x \in Int, NEW q \in Int, NEW s \in SignedRange(W), x = q * Wide + s
    PROVE  Signed(W, x) = s
<1>1. s \in Int /\ -Sign <= s /\ s < Sign
  BY OverflowPowers DEF SignedRange, Sign, Top
<1>2. CASE s >= 0
  <2>2. s \in Nat /\ s < Wide
    BY <1>1, <1>2, OverflowPowers
  <2>1. Unsigned(W, x) = s
    BY <2>2, UnsignedIs
  <2> QED BY <1>1, <2>1 DEF Signed, Sign, Top
<1>3. CASE s < 0
  <2>1. x = (q - 1) * Wide + (s + Wide)
    BY <1>1, OverflowPowers
  <2>2. s + Wide \in Nat /\ s + Wide < Wide /\ s + Wide >= Sign
    BY <1>1, <1>3, OverflowPowers
  <2>3. Unsigned(W, x) = s + Wide
    BY <2>1, <2>2, UnsignedIs
  <2>4. ~(s + Wide < 2^(W - 1)) /\ (s + Wide) - 2^W = s
    BY <1>1, <2>2, OverflowPowers DEF Sign, Top, Wide
  <2> QED BY <2>3, <2>4 DEF Signed
<1> QED BY <1>1, <1>2, <1>3

(* Every number has an Unsigned and a Signed one.                          *)
LEMMA Wraps ==
    ASSUME NEW x \in Int
    PROVE  /\ \E q \in Int : x = q * Wide + Unsigned(W, x) /\ ShiftRight(x, W) = q
           /\ Unsigned(W, x) \in Nat /\ Unsigned(W, x) < Wide
           /\ \E k \in Int : x = k * Wide + Signed(W, x)
           /\ Signed(W, x) \in Int /\ -Sign <= Signed(W, x) /\ Signed(W, x) < Sign
<1>1. x = (x \div Wide) * Wide + (x % Wide) /\ x \div Wide \in Int /\ x % Wide \in 0 .. Wide - 1
  BY OverflowPowers
<1>2. Unsigned(W, x) = x % Wide /\ ShiftRight(x, W) = x \div Wide
  BY DEF Unsigned, ShiftRight, Wide
<1>3. Signed(W, x) = IF x % Wide < Sign THEN x % Wide ELSE (x % Wide) - Wide
  BY <1>2 DEF Signed, Sign, Wide, Top
<1>4. \E k \in Int : x = k * Wide + Signed(W, x)
  <2>1. ASSUME NEW d \in Int, NEW r \in Int, x = d * Wide + r
        PROVE  x = (d + 1) * Wide + (r - Wide)
    BY <2>1, OverflowPowers
  <2>2. x = ((x \div Wide) + 1) * Wide + ((x % Wide) - Wide)
    BY <1>1, <2>1
  <2> QED BY <1>1, <1>3, <2>2
<1>5. \E q \in Int : x = q * Wide + Unsigned(W, x) /\ ShiftRight(x, W) = q
  BY <1>1, <1>2
<1>6. Unsigned(W, x) \in Nat /\ Unsigned(W, x) < Wide
  BY <1>1, <1>2, OverflowPowers
<1>7. Signed(W, x) \in Int /\ -Sign <= Signed(W, x) /\ Signed(W, x) < Sign
  BY <1>1, <1>3, OverflowPowers
<1> QED BY <1>4, <1>5, <1>6, <1>7

LEMMA WrapsInside ==
    ASSUME NEW x \in Int
    PROVE  /\ Unsigned(W, x) \in Nat /\ Unsigned(W, x) < Wide
           /\ Signed(W, x) \in Int /\ -Sign <= Signed(W, x) /\ Signed(W, x) < Sign
BY Wraps

(* The bit of weight Sign.                                                 *)
LEMMA TopBit ==
    ASSUME NEW s \in Int
    PROVE  /\ -Sign <= s /\ s < Sign => ShiftRight(s, Top) = IF s < 0 THEN -1 ELSE 0
           /\ 0 <= s /\ s < Wide => ShiftRight(s, Top) = IF s < Sign THEN 0 ELSE 1
<1>1. ShiftRight(s, Top) = s \div Sign
  BY DEF ShiftRight, Sign
<1>2. s \in 0 .. Sign - 1 => s \div Sign = 0
  BY OverflowPowers, DivisionIs
<1>3. ASSUME -Sign <= s, s < 0
      PROVE  s \div Sign = -1
  <2>1. s = (-1) * Sign + (s + Sign) /\ s + Sign \in Nat /\ s + Sign < Sign
    BY <1>3, OverflowPowers
  <2> QED BY <2>1, OverflowPowers, DivisionIs
<1>4. ASSUME Sign <= s, s < Wide
      PROVE  s \div Sign = 1
  <2>1. s = 1 * Sign + (s - Sign) /\ s - Sign \in Nat /\ s - Sign < Sign
    BY <1>4, OverflowPowers
  <2> QED BY <2>1, OverflowPowers, DivisionIs
<1> QED BY <1>1, <1>2, <1>3, <1>4, OverflowPowers

(* What OverflowReported asks of one answer.                               *)
Reports(answer, result, representable) == answer.result = result /\ (answer.overflow <=> ~representable)

LEMMA AnswerParts ==
    ASSUME NEW answer, NEW result, NEW overflow, answer = Answer(result, overflow)
    PROVE  answer.result = result /\ answer.overflow = overflow
BY DEF Answer

LEMMA AnswerReports ==
    ASSUME NEW answer, NEW result, NEW overflow, NEW representable, answer = Answer(result, overflow), overflow <=> ~representable
    PROVE  Reports(answer, result, representable)
<1>1. answer.result = result
  BY DEF Answer
<1>2. answer.overflow = overflow
  BY DEF Answer
<1> QED BY <1>1, <1>2, Zenon DEF Reports

LEMMA RangesOfOverflow ==
    /\ \A x \in Int : x \in SignedRange(W) <=> -Sign <= x /\ x < Sign
    /\ \A x \in Int : x \in UnsignedRange(W) <=> 0 <= x /\ x < Wide
    /\ SignedRange(W) \subseteq Int /\ UnsignedRange(W) \subseteq Int
BY OverflowPowers DEF SignedRange, UnsignedRange, Sign, Wide, Top

-----------------------------------------------------------------------------
(* Overflow: sums.                                                         *)

LEMMA AddSignedCarry ==
    ASSUME NEW a \in SignedRange(W), NEW b \in SignedRange(W)
    PROVE  Reports(add_signed_carry(a, b), Signed(W, a + b), a + b \in SignedRange(W))
<1>0. a \in Int /\ b \in Int /\ -Sign <= a /\ a < Sign /\ -Sign <= b /\ b < Sign
  BY RangesOfOverflow
<1>1. ASSUME NEW x \in Int, -Sign <= x, x < Sign
      PROVE  FlipSign(x) = x + Sign
  <2>1. CASE x >= 0
    <3>1. Unsigned(W, x) = x
      <4>1. x \in Nat /\ x < Wide /\ x = 0 * Wide + x
        BY <1>1, <2>1, OverflowPowers
      <4> QED BY <4>1, UnsignedIs
    <3>2. x + Sign \in Nat /\ x + Sign < Wide /\ x + Sign = 0 * Wide + (x + Sign)
      BY <1>1, <2>1, OverflowPowers
    <3>3. Unsigned(W, x + Sign) = x + Sign
      BY <3>2, UnsignedIs
    <3> QED BY <3>1, <3>3 DEF FlipSign, Sign
  <2>2. CASE x < 0
    <3>1. Unsigned(W, x) = x + Wide
      <4>1. x + Wide \in Nat /\ x + Wide < Wide /\ x = (-1) * Wide + (x + Wide)
        BY <1>1, <2>2, OverflowPowers
      <4> QED BY <4>1, UnsignedIs
    <3>2. x + Sign \in Nat /\ x + Sign < Wide /\ (x + Wide) + Sign = 1 * Wide + (x + Sign) /\ (x + Wide) + Sign \in Int
      BY <1>1, <2>2, OverflowPowers
    <3>3. Unsigned(W, (x + Wide) + Sign) = x + Sign
      BY <3>2, UnsignedIs
    <3> QED BY <3>1, <3>3 DEF FlipSign, Sign
  <2> QED BY <2>1, <2>2, <1>1
<1> DEFINE t == (a + Sign) + (b + Sign)
           c == addcarry(FlipSign(a), FlipSign(b))
<1>2. c = [sum |-> Unsigned(W, t), carry |-> ShiftRight(t, W)]
  BY <1>0, <1>1 DEF addcarry
<1>3. t = (a + b) + Wide /\ t \in Int
  BY <1>0, OverflowPowers
<1>4. CASE a + b >= 0
  <2>1. a + b \in Nat /\ a + b < Wide /\ t = 1 * Wide + (a + b)
    BY <1>0, <1>3, <1>4, OverflowPowers
  <2>2. c.sum = a + b /\ c.carry = 1
    BY <1>2, <1>3, <2>1, UnsignedIs
  <2>3. ShiftRight(c.sum, Top) = IF a + b < Sign THEN 0 ELSE 1
    BY <2>1, <2>2, TopBit
  <2>4. add_signed_carry(a, b) = Answer(Signed(W, a + b), 1 = (IF a + b < Sign THEN 0 ELSE 1))
    BY <2>2, <2>3 DEF add_signed_carry, Answer
  <2>5. a + b \in SignedRange(W) <=> a + b < Sign
    BY <1>0, <1>4, RangesOfOverflow, OverflowPowers
  <2>6. (1 = (IF a + b < Sign THEN 0 ELSE 1)) <=> ~(a + b \in SignedRange(W))
    BY <2>5
  <2> QED BY <2>4, <2>6, AnswerReports, Zenon
<1>5. CASE a + b < 0
  <2>1. t \in Nat /\ t < Wide /\ t = 0 * Wide + t
    BY <1>0, <1>3, <1>5, OverflowPowers
  <2>2. c.sum = t /\ c.carry = 0
    BY <1>2, <2>1, UnsignedIs
  <2>3. ShiftRight(c.sum, Top) = IF t < Sign THEN 0 ELSE 1
    BY <2>1, <2>2, TopBit
  <2>4. Signed(W, t) = Signed(W, a + b)
    <3>0. a + b \in Int
      BY <1>0
    <3>1. PICK k \in Int : a + b = k * Wide + Signed(W, a + b)
      BY <3>0, Wraps
    <3>2. Signed(W, a + b) \in SignedRange(W)
      BY <3>0, WrapsInside, RangesOfOverflow
    <3>3. t = (k + 1) * Wide + Signed(W, a + b)
      BY <1>3, <3>1, <3>2, RangesOfOverflow, OverflowPowers
    <3> QED BY <1>3, <3>2, <3>3, SignedIs
  <2>5. add_signed_carry(a, b) = Answer(Signed(W, a + b), 0 = (IF t < Sign THEN 0 ELSE 1))
    BY <2>2, <2>3, <2>4 DEF add_signed_carry, Answer
  <2>6. a + b \in SignedRange(W) <=> ~(t < Sign)
    BY <1>0, <1>3, <1>5, RangesOfOverflow, OverflowPowers
  <2>7. (0 = (IF t < Sign THEN 0 ELSE 1)) <=> ~(a + b \in SignedRange(W))
    BY <2>6
  <2> HIDE DEF t
  <2> QED BY <2>5, <2>7, AnswerReports, Zenon
<1> QED BY <1>0, <1>4, <1>5

LEMMA AddSignedBits ==
    ASSUME NEW a \in SignedRange(W), NEW b \in SignedRange(W)
    PROVE  Reports(add_signed_bits(a, b), Signed(W, a + b), a + b \in SignedRange(W))
<1>0. a \in Int /\ b \in Int /\ -Sign <= a /\ a < Sign /\ -Sign <= b /\ b < Sign
  BY RangesOfOverflow
<1> DEFINE c == Unsigned(W, a + b)
           Bit(x) == ShiftRight(Unsigned(W, x), Top)
<1>1. ASSUME NEW x \in Int, -Sign <= x, x < Sign
      PROVE  Bit(x) = IF x < 0 THEN 1 ELSE 0
  <2>1. CASE x >= 0
    <3>1. x \in Nat /\ x < Wide /\ x = 0 * Wide + x
      BY <1>1, <2>1, OverflowPowers
    <3>2. Unsigned(W, x) = x
      BY <3>1, UnsignedIs
    <3> QED BY <1>1, <2>1, <3>1, <3>2, TopBit
  <2>2. CASE x < 0
    <3>1. x + Wide \in Nat /\ x + Wide < Wide /\ x = (-1) * Wide + (x + Wide) /\ ~(x + Wide < Sign)
      BY <1>1, <2>2, OverflowPowers
    <3>2. Unsigned(W, x) = x + Wide
      BY <3>1, UnsignedIs
    <3> QED BY <1>1, <2>2, <3>1, <3>2, TopBit
  <2> QED BY <2>1, <2>2, <1>1
<1>2. c \in Nat /\ c < Wide
  <2>1. a + b \in Int
    BY <1>0
  <2> QED BY <2>1, WrapsInside
<1>3. Unsigned(W, c) = c
  <2>1. c = 0 * Wide + c
    BY <1>2, OverflowPowers
  <2> QED BY <1>2, <2>1, UnsignedIs
<1>4. PICK q \in Int : a + b = q * Wide + c
  <2>1. a + b \in Int
    BY <1>0
  <2> QED BY <2>1, Wraps
<1>5. Bit(c) = IF c < Sign THEN 0 ELSE 1
  BY <1>2, <1>3, TopBit
<1>6. Signed(W, c) = Signed(W, a + b)
  BY <1>3 DEF Signed
<1>7. add_signed_bits(a, b) = Answer(Signed(W, a + b), Bit(a) = Bit(b) /\ Bit(c) # Bit(a))
  BY <1>6 DEF add_signed_bits, Answer
<1>8. (Bit(a) = Bit(b) /\ Bit(c) # Bit(a)) <=> ~(a + b \in SignedRange(W))
  <2>1. q \in {-1, 0}
    <3>1. -Wide <= a + b /\ a + b < Wide
      BY <1>0, OverflowPowers
    <3>2. q >= 1 => q * Wide >= Wide
      BY OverflowPowers
    <3>3. q <= -2 => q * Wide <= -2 * Wide
      BY OverflowPowers
    <3> QED BY <1>2, <1>4, <3>1, <3>2, <3>3, OverflowPowers
  <2>2. a + b \in SignedRange(W) <=> -Sign <= a + b /\ a + b < Sign
    BY <1>0, RangesOfOverflow
  <2>3. Bit(a) = (IF a < 0 THEN 1 ELSE 0) /\ Bit(b) = IF b < 0 THEN 1 ELSE 0
    BY <1>0, <1>1
  <2>4. a + b = (IF q = 0 THEN 0 ELSE -Wide) + c
    BY <1>2, <1>4, <2>1, OverflowPowers
  <2> HIDE DEF Bit, c
  <2> QED BY <1>0, <1>2, <1>5, <2>1, <2>2, <2>3, <2>4, OverflowPowers
<1> HIDE DEF Bit, c
<1> QED BY <1>7, <1>8, AnswerReports, Zenon

LEMMA AddUnsigned ==
    ASSUME NEW a \in UnsignedRange(W), NEW b \in UnsignedRange(W)
    PROVE  /\ Reports(add_unsigned_carry(a, b), Unsigned(W, a + b), a + b \in UnsignedRange(W))
           /\ Reports(add_unsigned_compare(a, b), Unsigned(W, a + b), a + b \in UnsignedRange(W))
<1>0. a \in Int /\ b \in Int /\ 0 <= a /\ a < Wide /\ 0 <= b /\ b < Wide
  BY RangesOfOverflow
<1>1. a + b \in UnsignedRange(W) <=> a + b < Wide
  BY <1>0, RangesOfOverflow
<1>2. CASE a + b < Wide
  <2>1. a + b \in Nat /\ a + b = 0 * Wide + (a + b)
    BY <1>0, <1>2, OverflowPowers
  <2>2. Unsigned(W, a + b) = a + b /\ ShiftRight(a + b, W) = 0
    BY <1>2, <2>1, UnsignedIs
  <2>3. ~(a + b < a)
    BY <1>0
  <2>4. add_unsigned_carry(a, b) = Answer(Unsigned(W, a + b), 0 # 0) /\ add_unsigned_compare(a, b) = Answer(Unsigned(W, a + b), a + b < a)
    BY <2>2 DEF add_unsigned_carry, add_unsigned_compare, addcarry
  <2>5. ((0 # 0) <=> ~(a + b \in UnsignedRange(W))) /\ ((a + b < a) <=> ~(a + b \in UnsignedRange(W)))
    BY <1>1, <1>2, <2>3
  <2>6. Reports(add_unsigned_carry(a, b), Unsigned(W, a + b), a + b \in UnsignedRange(W))
    BY <2>4, <2>5, AnswerReports, Zenon
  <2>7. Reports(add_unsigned_compare(a, b), Unsigned(W, a + b), a + b \in UnsignedRange(W))
    <3> DEFINE wrapped == (a + b < a)
    <3>1. add_unsigned_compare(a, b) = Answer(Unsigned(W, a + b), wrapped)
      BY <2>4
    <3>2. wrapped <=> ~(a + b \in UnsignedRange(W))
      BY <2>5
    <3> HIDE DEF wrapped
    <3> QED BY <3>1, <3>2, AnswerReports, Zenon
  <2> QED BY <2>6, <2>7
<1>3. CASE a + b >= Wide
  <2>1. (a + b) - Wide \in Nat /\ (a + b) - Wide < Wide /\ a + b = 1 * Wide + ((a + b) - Wide) /\ a + b \in Int
    BY <1>0, <1>3, OverflowPowers
  <2>2. Unsigned(W, a + b) = (a + b) - Wide /\ ShiftRight(a + b, W) = 1
    BY <2>1, UnsignedIs
  <2>3. (a + b) - Wide < a /\ ~(a + b < Wide)
    BY <1>0, <1>3, OverflowPowers
  <2>4. /\ add_unsigned_carry(a, b) = Answer(Unsigned(W, a + b), 1 # 0)
        /\ add_unsigned_compare(a, b) = Answer(Unsigned(W, a + b), (a + b) - Wide < a)
    BY <2>2 DEF add_unsigned_carry, add_unsigned_compare, addcarry
  <2>5. ((1 # 0) <=> ~(a + b \in UnsignedRange(W))) /\ (((a + b) - Wide < a) <=> ~(a + b \in UnsignedRange(W)))
    BY <1>1, <2>3
  <2>6. Reports(add_unsigned_carry(a, b), Unsigned(W, a + b), a + b \in UnsignedRange(W))
    BY <2>4, <2>5, AnswerReports, Zenon
  <2>7. Reports(add_unsigned_compare(a, b), Unsigned(W, a + b), a + b \in UnsignedRange(W))
    <3> DEFINE wrapped == ((a + b) - Wide < a)
    <3>1. add_unsigned_compare(a, b) = Answer(Unsigned(W, a + b), wrapped)
      BY <2>4
    <3>2. wrapped <=> ~(a + b \in UnsignedRange(W))
      BY <2>5
    <3> HIDE DEF wrapped
    <3> QED BY <3>1, <3>2, AnswerReports, Zenon
  <2> QED BY <2>6, <2>7
<1> QED BY <1>0, <1>2, <1>3, OverflowPowers

-----------------------------------------------------------------------------
(* Overflow: products.                                                     *)

(* A product is as far from its Signed as its high part is from the sign.  *)
LEMMA HighOfSigned ==
    ASSUME NEW x \in Int
    PROVE  \E k \in Int : /\ x = k * Wide + Signed(W, x)
                          /\ ShiftRight(Signed(W, x), Top) \in {-1, 0}
                          /\ ShiftRight(x, W) = k + ShiftRight(Signed(W, x), Top)
                          /\ k = 0 <=> x \in SignedRange(W)
<1> DEFINE s == Signed(W, x)
<1>1. PICK k \in Int : x = k * Wide + s
  BY Wraps
<1>2. s \in Int /\ -Sign <= s /\ s < Sign
  BY WrapsInside
<1>3. ShiftRight(s, Top) = IF s < 0 THEN -1 ELSE 0
  BY <1>2, TopBit
<1> HIDE DEF s
<1>4. ShiftRight(x, W) = k + ShiftRight(s, Top)
  <2>1. CASE s < 0
    <3>1. s + Wide \in Nat /\ s + Wide < Wide /\ k - 1 \in Int
      BY <1>2, <2>1, OverflowPowers
    <3>2. x = (k - 1) * Wide + (s + Wide)
      BY <1>1, <1>2, OverflowPowers
    <3>3. ShiftRight(x, W) = k - 1
      BY <3>1, <3>2, UnsignedIs
    <3> QED BY <1>3, <2>1, <3>3
  <2>2. CASE s >= 0
    <3>1. s \in Nat /\ s < Wide
      BY <1>2, <2>2, OverflowPowers
    <3>2. ShiftRight(x, W) = k
      BY <1>1, <3>1, UnsignedIs
    <3> QED BY <1>2, <1>3, <2>2, <3>2
  <2> QED BY <1>2, <2>1, <2>2
<1>5. k = 0 <=> x \in SignedRange(W)
  <2>1. k = 0 => x = s
    BY <1>1, <1>2, OverflowPowers
  <2>2. k >= 1 => x >= Sign
    <3>1. k >= 1 => k * Wide >= Wide
      BY OverflowPowers
    <3> QED BY <1>1, <1>2, <3>1, OverflowPowers
  <2>3. k <= -1 => x < -Sign
    <3>1. k <= -1 => k * Wide <= -Wide
      BY OverflowPowers
    <3> QED BY <1>1, <1>2, <3>1, OverflowPowers
  <2>4. x \in SignedRange(W) <=> -Sign <= x /\ x < Sign
    BY RangesOfOverflow
  <2>5. k \in Int /\ Sign \in Int
    BY OverflowPowers
  <2> QED BY <1>2, <2>1, <2>2, <2>3, <2>4, <2>5
<1> QED BY <1>1, <1>3, <1>4, <1>5 DEF s

LEMMA ProductOfSigned ==
    ASSUME NEW a \in SignedRange(W), NEW b \in SignedRange(W)
    PROVE  a * b \in Int /\ -(Sign * Sign) <= a * b /\ a * b <= Sign * Sign
<1>1. a \in Int /\ b \in Int /\ -Sign <= a /\ a < Sign /\ -Sign <= b /\ b < Sign
  BY RangesOfOverflow
<1>2. ASSUME NEW x \in Nat, NEW y \in Nat, x <= Sign, y <= Sign
      PROVE  0 <= x * y /\ x * y <= Sign * Sign
  <2>1. x * y <= Sign * y
    BY <1>2, OverflowPowers
  <2>2. Sign * y <= Sign * Sign
    BY <1>2, OverflowPowers
  <2> QED BY <2>1, <2>2, OverflowPowers
<1>a. a >= 0 => a \in Nat /\ a <= Sign
  BY <1>1, OverflowPowers
<1>b. b >= 0 => b \in Nat /\ b <= Sign
  BY <1>1, OverflowPowers
<1>c. a < 0 => -a \in Nat /\ -a <= Sign
  BY <1>1, OverflowPowers
<1>d. b < 0 => -b \in Nat /\ -b <= Sign
  BY <1>1, OverflowPowers
<1>3. CASE a >= 0 /\ b >= 0
  <2>1. 0 <= a * b /\ a * b <= Sign * Sign
    BY <1>2, <1>a, <1>b, <1>3
  <2> QED BY <1>1, <2>1, OverflowPowers
<1>4. CASE a < 0 /\ b >= 0
  <2>1. a * b = -((-a) * b)
    BY <1>1
  <2>2. 0 <= (-a) * b /\ (-a) * b <= Sign * Sign
    BY <1>2, <1>4, <1>b, <1>c
  <2> QED BY <1>1, <2>1, <2>2, OverflowPowers
<1>5. CASE a >= 0 /\ b < 0
  <2>1. a * b = -(a * (-b))
    BY <1>1
  <2>2. 0 <= a * (-b) /\ a * (-b) <= Sign * Sign
    BY <1>2, <1>5, <1>a, <1>d
  <2> QED BY <1>1, <2>1, <2>2, OverflowPowers
<1>6. CASE a < 0 /\ b < 0
  <2>1. a * b = (-a) * (-b)
    BY <1>1
  <2>2. 0 <= (-a) * (-b) /\ (-a) * (-b) <= Sign * Sign
    BY <1>2, <1>6, <1>c, <1>d
  <2> QED BY <1>1, <2>1, <2>2, OverflowPowers
<1> QED BY <1>1, <1>3, <1>4, <1>5, <1>6

(* The high part of a signed product is in the range of a signed number.   *)
LEMMA HighFits ==
    ASSUME NEW a \in SignedRange(W), NEW b \in SignedRange(W)
    PROVE  ShiftRight(a * b, W) \in SignedRange(W)
<1>1. a * b \in Int /\ -(Sign * Sign) <= a * b /\ a * b <= Sign * Sign
  BY ProductOfSigned
<1>2. PICK q \in Int : a * b = q * Wide + Unsigned(W, a * b) /\ ShiftRight(a * b, W) = q
  BY <1>1, Wraps
<1>3. Unsigned(W, a * b) \in Nat /\ Unsigned(W, a * b) < Wide
  BY <1>1, WrapsInside
<1>4. Sign <= q => Sign * Wide <= q * Wide
  BY OverflowPowers
<1>5. q <= -Sign - 1 => q * Wide <= (-Sign - 1) * Wide
  BY OverflowPowers
<1>6. Sign * Wide = 2 * (Sign * Sign) /\ (-Sign - 1) * Wide = -(2 * (Sign * Sign)) - Wide /\ Sign * Sign > 0
  BY OverflowPowers
<1>7. ~(Sign <= q)
  BY <1>1, <1>2, <1>3, <1>4, <1>6, OverflowPowers
<1>8. ~(q <= -Sign - 1)
  BY <1>1, <1>2, <1>3, <1>5, <1>6, OverflowPowers
<1> QED BY <1>2, <1>7, <1>8, RangesOfOverflow, OverflowPowers

LEMMA MulSigned ==
    ASSUME NEW a \in SignedRange(W), NEW b \in SignedRange(W)
    PROVE  /\ Reports(mul_signed_wide(a, b), Signed(W, a * b), a * b \in SignedRange(W))
           /\ Reports(mul_signed_mul128(a, b), Signed(W, a * b), a * b \in SignedRange(W))
<1> DEFINE high == ShiftRight(a * b, W)
           s == ShiftRight(Signed(W, a * b), Top)
<1>1. a * b \in Int
  BY ProductOfSigned
<1>2. PICK k \in Int : s \in {-1, 0} /\ high = k + s /\ (k = 0 <=> a * b \in SignedRange(W))
  BY <1>1, HighOfSigned
<1>3. Signed(W, high) = high
  <2>1. high \in SignedRange(W)
    BY HighFits
  <2>2. high \in Int /\ high = 0 * Wide + high
    BY <2>1, RangesOfOverflow, OverflowPowers
  <2> HIDE DEF high
  <2> QED BY <2>1, <2>2, SignedIs
<1>4. mul_signed_wide(a, b) = Answer(Signed(W, a * b), high # s)
  BY <1>3 DEF mul_signed_wide
<1>5. mul_signed_mul128(a, b) = Answer(Signed(W, a * b), high # s)
  BY DEF mul_signed_mul128
<1>6. (high # s) <=> ~(a * b \in SignedRange(W))
  <2> HIDE DEF high, s
  <2> QED BY <1>2
<1> HIDE DEF high, s
<1> QED BY <1>4, <1>5, <1>6, AnswerReports, Zenon

LEMMA ProductOfUnsigned ==
    ASSUME NEW a \in UnsignedRange(W), NEW b \in UnsignedRange(W)
    PROVE  /\ a * b \in Nat
           /\ ShiftRight(a * b, W) \in UnsignedRange(W)
           /\ ShiftRight(a * b, W) = 0 <=> a * b \in UnsignedRange(W)
<1>1. a \in Nat /\ b \in Nat /\ a < Wide /\ b < Wide
  BY RangesOfOverflow
<1>2. a * b \in Nat /\ a * b <= a * Wide /\ a * Wide <= (Wide - 1) * Wide /\ (Wide - 1) * Wide = Wide * Wide - Wide
  <2>1. a * b \in Nat /\ a * b <= a * Wide
    BY <1>1, OverflowPowers
  <2>2. a <= Wide - 1
    BY <1>1, OverflowPowers
  <2>3. a * Wide <= (Wide - 1) * Wide
    BY <1>1, <2>2, OverflowPowers
  <2> QED BY <2>1, <2>3, OverflowPowers
<1>3. PICK q \in Int : a * b = q * Wide + Unsigned(W, a * b) /\ ShiftRight(a * b, W) = q
  BY <1>2, Wraps
<1>4. Unsigned(W, a * b) \in Nat /\ Unsigned(W, a * b) < Wide
  BY <1>2, WrapsInside
<1>5. q >= Wide => q * Wide >= Wide * Wide
  BY OverflowPowers
<1>6. q <= -1 => q * Wide <= -Wide
  BY OverflowPowers
<1>7. q >= 1 => q * Wide >= Wide
  BY OverflowPowers
<1>8. 0 <= q /\ q < Wide
  BY <1>1, <1>2, <1>3, <1>4, <1>5, <1>6, OverflowPowers
<1>9. q = 0 <=> a * b < Wide
  BY <1>2, <1>3, <1>4, <1>7, <1>8, OverflowPowers
<1> QED BY <1>2, <1>3, <1>8, <1>9, RangesOfOverflow

LEMMA MulUnsigned ==
    ASSUME NEW a \in UnsignedRange(W), NEW b \in UnsignedRange(W)
    PROVE  /\ Reports(mul_unsigned_wide(a, b), Unsigned(W, a * b), a * b \in UnsignedRange(W))
           /\ Reports(mul_unsigned_umul128(a, b), Unsigned(W, a * b), a * b \in UnsignedRange(W))
<1> DEFINE high == ShiftRight(a * b, W)
<1>1. high \in UnsignedRange(W) /\ (high = 0 <=> a * b \in UnsignedRange(W))
  BY ProductOfUnsigned
<1> HIDE DEF high
<1>2. Unsigned(W, high) = high
  <2>1. high \in Nat /\ high < Wide /\ high = 0 * Wide + high
    BY <1>1, RangesOfOverflow, OverflowPowers
  <2> QED BY <2>1, UnsignedIs
<1>3. mul_unsigned_wide(a, b) = Answer(Unsigned(W, a * b), high # 0)
  BY <1>2 DEF mul_unsigned_wide, high
<1>4. mul_unsigned_umul128(a, b) = Answer(Unsigned(W, a * b), high # 0)
  BY DEF mul_unsigned_umul128, high
<1> QED BY <1>1, <1>3, <1>4, AnswerReports, Zenon

LEMMA Halves ==
    ASSUME NEW x \in Nat
    PROVE  /\ x = HighHalf(x) * Half + LowHalf(x)
           /\ HighHalf(x) \in Nat /\ LowHalf(x) \in Nat /\ LowHalf(x) < Half
<1>1. HighHalf(x) = x \div Half /\ LowHalf(x) = x % Half
  BY DEF HighHalf, LowHalf, Half, W
<1>2. x = (x \div Half) * Half + (x % Half) /\ x \div Half \in Int /\ x % Half \in 0 .. Half - 1
  BY OverflowPowers
<1>3. x \div Half >= 0
  <2>1. ASSUME NEW d \in Int, d <= -1 PROVE d * Half <= -Half
    BY <2>1, OverflowPowers
  <2> QED BY <1>2, <2>1, OverflowPowers
<1> QED BY <1>1, <1>2, <1>3, OverflowPowers

(* The four products of halves make up the product.                        *)
LEMMA HalfProductsMultiply ==
    ASSUME NEW a \in UnsignedRange(W), NEW b \in UnsignedRange(W)
    PROVE  HalfProducts(a, b).low = Unsigned(W, a * b) /\ HalfProducts(a, b).high = ShiftRight(a * b, W)
<1> DEFINE x == LowHalf(a) * LowHalf(b)
           y == HighHalf(a) * LowHalf(b)
           z == LowHalf(a) * HighHalf(b)
           w == HighHalf(a) * HighHalf(b)
           carry_sum == HighHalf(x) + LowHalf(y) + LowHalf(z)
           high == HighHalf(carry_sum) + HighHalf(y) + HighHalf(z) + w
           low == LowHalf(carry_sum) * Half + LowHalf(x)
<1>1. HalfProducts(a, b) = [high |-> Unsigned(W, high), low |-> Unsigned(W, carry_sum * Half) + LowHalf(x)]
  BY DEF HalfProducts, Half
<1>2. a \in Nat /\ b \in Nat
  BY RangesOfOverflow
<1>3. /\ a = HighHalf(a) * Half + LowHalf(a) /\ HighHalf(a) \in Nat /\ LowHalf(a) \in Nat
      /\ b = HighHalf(b) * Half + LowHalf(b) /\ HighHalf(b) \in Nat /\ LowHalf(b) \in Nat
  BY <1>2, Halves
<1>4. x \in Nat /\ y \in Nat /\ z \in Nat /\ w \in Nat
  BY <1>3
<1>5. a * b = w * Wide + (y + z) * Half + x
  <2> DEFINE a1 == HighHalf(a)
             a0 == LowHalf(a)
             b1 == HighHalf(b)
             b0 == LowHalf(b)
  <2>1. a1 \in Int /\ a0 \in Int /\ b1 \in Int /\ b0 \in Int /\ Half \in Int
    BY <1>3, OverflowPowers
  <2>2. a * b = (a1 * Half + a0) * (b1 * Half + b0)
    BY <1>3
  <2>3. w * Wide + (y + z) * Half + x = (a1 * b1) * (Half * Half) + (a1 * b0 + a0 * b1) * Half + a0 * b0
    BY OverflowPowers
  <2> HIDE DEF a1, a0, b1, b0
  <2>4. (a1 * Half + a0) * (b1 * Half + b0) = (a1 * b1) * (Half * Half) + (a1 * b0 + a0 * b1) * Half + a0 * b0
    BY <2>1
  <2> QED BY <2>2, <2>3, <2>4
<1> HIDE DEF x, y, z, w
<1>6. /\ x = HighHalf(x) * Half + LowHalf(x) /\ HighHalf(x) \in Nat /\ LowHalf(x) \in Nat /\ LowHalf(x) < Half
      /\ y = HighHalf(y) * Half + LowHalf(y) /\ HighHalf(y) \in Nat /\ LowHalf(y) \in Nat /\ LowHalf(y) < Half
      /\ z = HighHalf(z) * Half + LowHalf(z) /\ HighHalf(z) \in Nat /\ LowHalf(z) \in Nat /\ LowHalf(z) < Half
  BY <1>4, Halves
<1>7. carry_sum \in Nat
  BY <1>6
<1>8. carry_sum = HighHalf(carry_sum) * Half + LowHalf(carry_sum) /\ HighHalf(carry_sum) \in Nat
      /\ LowHalf(carry_sum) \in Nat /\ LowHalf(carry_sum) < Half
  <2> HIDE DEF carry_sum
  <2> QED BY <1>7, Halves
<1>9. low \in Nat /\ low < Wide /\ LowHalf(carry_sum) * Half \in Nat /\ LowHalf(carry_sum) * Half < Wide
  <2>1. ASSUME NEW l \in Nat, l < Half, NEW r \in Nat, r < Half
        PROVE  l * Half + r \in Nat /\ l * Half + r < Wide /\ l * Half \in Nat /\ l * Half < Wide
    <3>1. l * Half <= (Half - 1) * Half /\ (Half - 1) * Half = Wide - Half
      BY <2>1, OverflowPowers
    <3>2. l * Half \in Nat
      BY <2>1, OverflowPowers
    <3> QED BY <2>1, <3>1, <3>2, OverflowPowers
  <2> HIDE DEF carry_sum
  <2> QED BY <1>6, <1>8, <2>1
<1>10. a * b = high * Wide + low /\ high \in Nat
  <2>2. HighHalf(x) + LowHalf(y) + LowHalf(z) = HighHalf(carry_sum) * Half + LowHalf(carry_sum)
    BY <1>8
  <2> DEFINE c1 == HighHalf(carry_sum)
             c0 == LowHalf(carry_sum)
  <2>3. c1 \in Nat /\ c0 \in Nat
    BY <1>8
  <2> HIDE DEF c1, c0
  <2> DEFINE x1 == HighHalf(x)
             x0 == LowHalf(x)
             y1 == HighHalf(y)
             y0 == LowHalf(y)
             z1 == HighHalf(z)
             z0 == LowHalf(z)
  <2>8. x1 + y0 + z0 = c1 * Half + c0
    BY <2>2 DEF c1, c0
  <2>9. x1 \in Int /\ x0 \in Int /\ y1 \in Int /\ y0 \in Int /\ z1 \in Int /\ z0 \in Int /\ w \in Int /\ Half \in Int /\ c1 \in Int /\ c0 \in Int
    BY <1>4, <1>6, <2>3, OverflowPowers
  <2>10. w * (Half * Half) + (y + z) * Half + x = w * (Half * Half) + ((y1 * Half + y0) + (z1 * Half + z0)) * Half + (x1 * Half + x0)
    BY <1>6
  <2> HIDE DEF x1, x0, y1, y0, z1, z0
  <2>11. w * (Half * Half) + ((y1 * Half + y0) + (z1 * Half + z0)) * Half + (x1 * Half + x0)
           = (y1 + z1 + w) * (Half * Half) + (x1 + y0 + z0) * Half + x0
    BY <2>9
  <2>12. (x1 + y0 + z0) * Half = (c1 * Half + c0) * Half
    BY <2>8
  <2>13. (c1 * Half + c0) * Half = c1 * (Half * Half) + c0 * Half
    BY <2>9
  <2>14. (y1 + z1 + w) * (Half * Half) + (c1 * (Half * Half) + c0 * Half) + x0 = (c1 + y1 + z1 + w) * (Half * Half) + (c0 * Half + x0)
    BY <2>9
  <2>5. w * (Half * Half) + (y + z) * Half + x = (c1 + HighHalf(y) + HighHalf(z) + w) * (Half * Half) + (c0 * Half + LowHalf(x))
    BY <2>10, <2>11, <2>12, <2>13, <2>14 DEF x0, y1, z1
  <2>6. w * Wide + (y + z) * Half + x = (c1 + HighHalf(y) + HighHalf(z) + w) * Wide + (c0 * Half + LowHalf(x))
    BY <2>5, OverflowPowers
  <2>7. c1 + HighHalf(y) + HighHalf(z) + w \in Nat
    BY <1>4, <1>6, <2>3
  <2> QED BY <1>5, <2>6, <2>7 DEF c1, c0
<1> HIDE DEF high, low
<1>11. a * b \in Int /\ Unsigned(W, a * b) = low /\ ShiftRight(a * b, W) = high
  <2>1. a * b \in Int
    BY <1>2
  <2>2. Unsigned(W, a * b) = low /\ ShiftRight(a * b, W) = high
    BY <1>9, <1>10, <2>1, UnsignedIs
  <2> QED BY <2>1, <2>2
<1>12. Unsigned(W, high) = high
  <2>1. high \in Nat /\ high < Wide
    BY <1>11, ProductOfUnsigned, RangesOfOverflow
  <2>2. high = 0 * Wide + high
    BY <2>1, OverflowPowers
  <2> QED BY <2>1, <2>2, UnsignedIs
<1>13. Unsigned(W, carry_sum * Half) + LowHalf(x) = low
  <2>1. carry_sum * Half = HighHalf(carry_sum) * Wide + LowHalf(carry_sum) * Half
    <3>1. ASSUME NEW c \in Int, NEW c1 \in Int, NEW c0 \in Int, NEW h \in Int, c = c1 * h + c0
          PROVE  c * h = c1 * (h * h) + c0 * h
      BY <3>1
    <3>2. carry_sum * Half = HighHalf(carry_sum) * (Half * Half) + LowHalf(carry_sum) * Half
      <4> HIDE DEF carry_sum
      <4> QED BY <1>7, <1>8, <3>1, OverflowPowers
    <3> QED BY <3>2, OverflowPowers
  <2>2. carry_sum * Half \in Int
    BY <1>7, OverflowPowers
  <2> HIDE DEF carry_sum
  <2>3. Unsigned(W, carry_sum * Half) = LowHalf(carry_sum) * Half
    BY <1>8, <1>9, <2>1, <2>2, UnsignedIs
  <2> QED BY <2>3 DEF low
<1> QED BY <1>1, <1>11, <1>12, <1>13

LEMMA MulUnsignedHalves ==
    ASSUME NEW a \in UnsignedRange(W), NEW b \in UnsignedRange(W)
    PROVE  Reports(mul_unsigned_halves(a, b), Unsigned(W, a * b), a * b \in UnsignedRange(W))
<1> DEFINE high == ShiftRight(a * b, W)
<1>1. mul_unsigned_halves(a, b) = Answer(Unsigned(W, a * b), high # 0)
  BY HalfProductsMultiply DEF mul_unsigned_halves
<1>2. high = 0 <=> a * b \in UnsignedRange(W)
  BY ProductOfUnsigned
<1> HIDE DEF high
<1> QED BY <1>1, <1>2, AnswerReports, Zenon

(* What the signed product of halves takes for the high half is too large  *)
(* by e, which depends on the signs of the operands.                       *)
LEMMA ExcessOfHalves ==
    ASSUME NEW a \in SignedRange(W), NEW b \in SignedRange(W), NEW e \in Int,
           e = IF a < 0 THEN IF b < 0 THEN a + b + Wide ELSE b ELSE IF b < 0 THEN a ELSE 0
    PROVE  LET p == HalfProducts(Unsigned(W, a), Unsigned(W, b))
           IN  /\ p.low = Unsigned(W, a * b)
               /\ p.high = ShiftRight(a * b, W) + e
               /\ p.high \in UnsignedRange(W)
<1> DEFINE ua == Unsigned(W, a)
           ub == Unsigned(W, b)
<1>0. a \in Int /\ b \in Int /\ -Sign <= a /\ a < Sign /\ -Sign <= b /\ b < Sign
  BY RangesOfOverflow
<1>1. ASSUME NEW x \in Int, -Sign <= x, x < Sign
      PROVE  Unsigned(W, x) = IF x < 0 THEN x + Wide ELSE x
  <2>1. CASE x >= 0
    <3>1. x \in Nat /\ x < Wide /\ x = 0 * Wide + x
      BY <1>1, <2>1, OverflowPowers
    <3> QED BY <2>1, <3>1, UnsignedIs
  <2>2. CASE x < 0
    <3>1. x + Wide \in Nat /\ x + Wide < Wide /\ x = (-1) * Wide + (x + Wide)
      BY <1>1, <2>2, OverflowPowers
    <3> QED BY <2>2, <3>1, UnsignedIs
  <2> QED BY <2>1, <2>2, <1>1
<1>2. ua = (IF a < 0 THEN a + Wide ELSE a) /\ ub = (IF b < 0 THEN b + Wide ELSE b)
  BY <1>0, <1>1
<1>3. ua \in UnsignedRange(W) /\ ub \in UnsignedRange(W)
  BY <1>0, <1>2, RangesOfOverflow, OverflowPowers
<1> HIDE DEF ua, ub
<1>4. HalfProducts(ua, ub).low = Unsigned(W, ua * ub) /\ HalfProducts(ua, ub).high = ShiftRight(ua * ub, W)
  BY <1>3, HalfProductsMultiply
<1>5. ua * ub = a * b + e * Wide
  <2>1. CASE a < 0 /\ b < 0
    <3>1. (a + Wide) * (b + Wide) = a * b + (a + b + Wide) * Wide
      BY <1>0, OverflowPowers
    <3> QED BY <1>2, <2>1, <3>1
  <2>2. CASE a < 0 /\ ~(b < 0)
    <3>1. (a + Wide) * b = a * b + b * Wide
      BY <1>0, OverflowPowers
    <3> QED BY <1>2, <2>2, <3>1
  <2>3. CASE ~(a < 0) /\ b < 0
    <3>1. a * (b + Wide) = a * b + a * Wide
      BY <1>0, OverflowPowers
    <3> QED BY <1>2, <2>3, <3>1
  <2>4. CASE ~(a < 0) /\ ~(b < 0)
    <3>1. a * b = a * b + 0 * Wide
      BY <1>0, OverflowPowers
    <3> QED BY <1>2, <2>4, <3>1
  <2> QED BY <2>1, <2>2, <2>3, <2>4
<1>6. a * b \in Int /\ ua * ub \in Int
  BY <1>0, <1>3, RangesOfOverflow
<1>7. PICK q \in Int : a * b = q * Wide + Unsigned(W, a * b) /\ ShiftRight(a * b, W) = q
  BY <1>6, Wraps
<1>8. Unsigned(W, a * b) \in Nat /\ Unsigned(W, a * b) < Wide
  BY <1>6, WrapsInside
<1>9. Unsigned(W, ua * ub) = Unsigned(W, a * b) /\ ShiftRight(ua * ub, W) = q + e
  <2>1. ua * ub = (q + e) * Wide + Unsigned(W, a * b)
    BY <1>5, <1>7, <1>8, OverflowPowers
  <2> QED BY <1>6, <1>8, <2>1, UnsignedIs
<1>10. ShiftRight(ua * ub, W) \in UnsignedRange(W)
  BY <1>3, ProductOfUnsigned
<1> QED BY <1>4, <1>7, <1>9, <1>10 DEF ua, ub

LEMMA MulSignedHalves ==
    ASSUME NEW a \in SignedRange(W), NEW b \in SignedRange(W)
    PROVE  LET r == mul_signed_halves(a, b)
           IN  /\ r.result = Signed(W, a * b)
               /\ a * b \notin SignedRange(W) => r.overflow
               /\ r.overflow => a * b \notin SignedRange(W) \/ a < 0 \/ b < 0
<1> DEFINE p == HalfProducts(Unsigned(W, a), Unsigned(W, b))
           s == ShiftRight(Signed(W, a * b), Top)
           e == IF a < 0 THEN IF b < 0 THEN a + b + Wide ELSE b ELSE IF b < 0 THEN a ELSE 0
           cl == Signed(W, a * b)
<1>0. a \in Int /\ b \in Int /\ -Sign <= a /\ a < Sign /\ -Sign <= b /\ b < Sign /\ a * b \in Int
  BY RangesOfOverflow
<1>1. e \in Int
  BY <1>0, OverflowPowers
<1>2. p.low = Unsigned(W, a * b) /\ p.high = ShiftRight(a * b, W) + e /\ p.high \in UnsignedRange(W)
  BY <1>1, ExcessOfHalves
<1>3. PICK k \in Int : a * b = k * Wide + cl /\ s \in {-1, 0} /\ ShiftRight(a * b, W) = k + s /\ (k = 0 <=> a * b \in SignedRange(W))
  BY <1>0, HighOfSigned
<1>4. cl \in Int /\ -Sign <= cl /\ cl < Sign /\ s = IF cl < 0 THEN -1 ELSE 0
  <2>1. cl \in Int /\ -Sign <= cl /\ cl < Sign
    BY <1>0, WrapsInside
  <2> QED BY <2>1, TopBit
<1>5. Signed(W, Unsigned(W, a * b)) = cl
  <2>1. Unsigned(W, a * b) \in Nat /\ Unsigned(W, a * b) < Wide
    BY <1>0, WrapsInside
  <2>2. Unsigned(W, a * b) = 0 * Wide + Unsigned(W, a * b)
    BY <2>1, OverflowPowers
  <2>3. Unsigned(W, Unsigned(W, a * b)) = Unsigned(W, a * b)
    BY <2>1, <2>2, UnsignedIs
  <2> QED BY <2>3 DEF Signed
<1>6. mul_signed_halves(a, b) = Answer(cl, Signed(W, p.high) # s)
  BY <1>2, <1>5 DEF mul_signed_halves
<1> DEFINE high == p.high
<1>7. high = k + s + e /\ 0 <= high /\ high < Wide
  BY <1>1, <1>2, <1>3, RangesOfOverflow
<1>8. Signed(W, high) = IF high < Sign THEN high ELSE high - Wide
  <2> HIDE DEF high
  <2>1. high \in Int /\ high = 0 * Wide + high /\ high = 1 * Wide + (high - Wide)
    BY <1>1, <1>3, <1>4, <1>7, OverflowPowers
  <2>2. high < Sign => high \in SignedRange(W)
    BY <1>7, <2>1, RangesOfOverflow, OverflowPowers
  <2>3. ~(high < Sign) => high - Wide \in SignedRange(W)
    BY <1>7, <2>1, RangesOfOverflow, OverflowPowers
  <2> QED BY <2>1, <2>2, <2>3, SignedIs
<1>9. ASSUME a >= 0, b >= 0
      PROVE  Signed(W, high) = k + s
  <2>1. e = 0
    BY <1>0, <1>9
  <2>2. k + s \in SignedRange(W)
    BY <1>3, HighFits
  <2> HIDE DEF high, e, s
  <2> QED BY <1>3, <1>4, <1>7, <1>8, <2>1, <2>2, RangesOfOverflow, OverflowPowers
<1>10. ASSUME k # 0, ~(a >= 0 /\ b >= 0), Signed(W, high) = s
       PROVE  FALSE
  <2>1. k + e = IF cl < 0 THEN Wide ELSE 0
    <3> HIDE DEF high, e, cl, s
    <3> QED BY <1>1, <1>3, <1>4, <1>7, <1>8, <1>10, OverflowPowers
  <2> HIDE DEF high, cl, s
  <2>2. k >= 1 => k * Wide >= Wide
    BY OverflowPowers
  <2>3. k <= -1 => k * Wide <= -Wide
    BY OverflowPowers
  <2>4. ASSUME NEW x \in Int, NEW y \in Int, x < 0, y >= 0, -Sign <= x, y < Sign, x * y = a * b, k + y = IF cl < 0 THEN Wide ELSE 0
        PROVE  FALSE
    <3>1. x * y <= 0
      BY <2>4
    <3>2. CASE cl < 0
      <4>1. k >= 1
        BY <2>4, <3>2, OverflowPowers
      <4> QED BY <1>3, <1>4, <2>2, <2>4, <3>1, <4>1, OverflowPowers
    <3>3. CASE cl >= 0
      <4>1. k = -y /\ y >= 1
        BY <1>4, <1>10, <2>4, <3>3
      <4>2. x * y = (-y) * Wide + cl
        BY <1>3, <2>4, <4>1
      <4>3. y * (x + Wide) = cl
        <5>1. y * (x + Wide) = x * y + y * Wide
          BY <2>4, OverflowPowers
        <5>2. (-y) * Wide = -(y * Wide) /\ y * Wide \in Int
          BY <2>4, OverflowPowers
        <5> QED BY <1>4, <4>2, <5>1, <5>2, <2>4
      <4>4. x + Wide \in Int /\ x + Wide >= Sign
        BY <2>4, OverflowPowers
      <4>5. y * (x + Wide) >= Sign
        <5>1. ASSUME NEW m \in Int, m >= Sign PROVE y * m >= Sign
          <6>1. y * m >= m
            BY <2>4, <4>1, <5>1, OverflowPowers
          <6> QED BY <2>4, <5>1, <6>1, OverflowPowers
        <5> QED BY <4>4, <5>1
      <4> QED BY <1>4, <4>3, <4>5, OverflowPowers
    <3> QED BY <1>4, <3>2, <3>3
  <2>5. CASE a < 0 /\ b >= 0
    BY <1>0, <2>1, <2>4, <2>5
  <2>6. CASE a >= 0 /\ b < 0
    <3>1. b * a = a * b
      BY <1>0
    <3> QED BY <1>0, <2>1, <2>4, <2>6, <3>1
  <2>7. CASE a < 0 /\ b < 0
    <3>1. e = a + b + Wide
      BY <2>7
    <3> HIDE DEF e
    <3>2. a * b > 0
      BY <1>0, <2>7
    <3>3. CASE cl >= 0
      <4>1. k <= -1
        BY <1>0, <1>4, <1>10, <2>1, <3>1, <3>3, OverflowPowers
      <4> QED BY <1>3, <1>4, <2>3, <3>2, <4>1, OverflowPowers
    <3>4. CASE cl < 0
      <4>1. k = -(a + b)
        BY <1>0, <1>4, <2>1, <3>1, <3>4, OverflowPowers
      <4>2. (a + Wide) * (b + Wide) = a * b + (a + b) * Wide + Wide * Wide
        BY <1>0, OverflowPowers
      <4>3. (-(a + b)) * Wide = -((a + b) * Wide) /\ (a + b) * Wide \in Int
        BY <1>0, OverflowPowers
      <4>4. (a + Wide) * (b + Wide) = cl + Wide * Wide
        <5>1. a * b = (-(a + b)) * Wide + cl
          BY <1>3, <4>1
        <5>2. Wide * Wide \in Int
          BY OverflowPowers
        <5> QED BY <1>0, <1>4, <4>2, <4>3, <5>1, <5>2
      <4>5. (a + Wide) * (b + Wide) <= (Wide - 1) * (Wide - 1)
        <5>1. ASSUME NEW x \in Nat, NEW y \in Nat, NEW m \in Nat, x <= m, y <= m
              PROVE  x * y <= m * m
          <6>1. x * y <= m * y
            BY <5>1
          <6>2. m * y <= m * m
            BY <5>1
          <6> QED BY <6>1, <6>2
        <5>2. a + Wide \in Nat /\ b + Wide \in Nat /\ Wide - 1 \in Nat /\ a + Wide <= Wide - 1 /\ b + Wide <= Wide - 1
          BY <1>0, <2>7, OverflowPowers
        <5> QED BY <5>1, <5>2
      <4>6. (Wide - 1) * (Wide - 1) = Wide * Wide - 2 * Wide + 1 /\ Wide * Wide \in Int
        BY OverflowPowers
      <4> QED BY <1>4, <4>4, <4>5, <4>6, OverflowPowers
    <3> QED BY <1>4, <3>3, <3>4
  <2> QED BY <1>0, <1>10, <2>5, <2>6, <2>7
<1>11. a * b \notin SignedRange(W) => Signed(W, high) # s
  <2>1. ASSUME a >= 0, b >= 0, k # 0 PROVE Signed(W, high) # s
    <3> HIDE DEF high, s
    <3> QED BY <1>3, <1>9, <2>1
  <2> HIDE DEF high, s
  <2> QED BY <1>3, <1>10, <2>1
<1>12. Signed(W, high) # s => a * b \notin SignedRange(W) \/ a < 0 \/ b < 0
  <2> HIDE DEF high, s
  <2> QED BY <1>0, <1>3, <1>9
<1> DEFINE over == Signed(W, high) # s
<1>13. mul_signed_halves(a, b) = Answer(Signed(W, a * b), over)
  BY <1>6
<1>14. (a * b \notin SignedRange(W) => over) /\ (over => a * b \notin SignedRange(W) \/ a < 0 \/ b < 0)
  BY <1>11, <1>12
<1> HIDE DEF over
<1>15. mul_signed_halves(a, b).result = Signed(W, a * b)
  BY <1>13 DEF Answer
<1>16. mul_signed_halves(a, b).overflow = over
  BY <1>13, AnswerParts, Zenon
<1> QED BY <1>14, <1>15, <1>16, Zenon

LEMMA Builtins ==
    ASSUME NEW exact
    PROVE  /\ Reports(builtin_signed(exact), Signed(W, exact), exact \in SignedRange(W))
           /\ Reports(builtin_unsigned(exact), Unsigned(W, exact), exact \in UnsignedRange(W))
<1>1. Reports(builtin_signed(exact), Signed(W, exact), exact \in SignedRange(W))
  BY AnswerReports, Zenon DEF builtin_signed
<1>2. Reports(builtin_unsigned(exact), Unsigned(W, exact), exact \in UnsignedRange(W))
  BY AnswerReports, Zenon DEF builtin_unsigned
<1> QED BY <1>1, <1>2

\* At every even width, every way to add or multiply gives the exact result if it fits
\* and its remainder otherwise, and reports overflow exactly if it does not fit; except
\* that the product of halves also reports overflow of some that fit, when an operand
\* is negative (overflow.hpp).
THEOREM OverflowCorrect == OverflowSpec => []OverflowReported
<1>1. OverflowInit => OverflowReported
  BY DEF OverflowInit, OverflowReported, Computed
<1>2. ASSUME OverflowReported, [OverflowNext]_sum
      PROVE  OverflowReported'
  <2>1. CASE UNCHANGED sum
    BY <1>2, <2>1 DEF OverflowReported, Exact, Fits
  <2>2. ASSUME NEW how \in SignedWays, NEW a \in SignedRange(W), NEW b \in SignedRange(W),
               sum' = Computed("signed", how, a, b, ComputeSigned(how, a, b))
        PROVE  OverflowReported'
    <3> DEFINE x == IF IsSum(how) THEN a + b ELSE a * b
               r == ComputeSigned(how, a, b)
    <3>1. /\ r.result = Signed(W, x)
          /\ x \notin SignedRange(W) => r.overflow
          /\ r.overflow => x \notin SignedRange(W) \/ (how = "mul halves" /\ (a < 0 \/ b < 0))
      <4>1. CASE how = "add carry"
        <5>1. r = add_signed_carry(a, b) /\ x = a + b
          BY <4>1 DEF ComputeSigned, IsSum
        <5> QED BY <5>1, AddSignedCarry DEF Reports
      <4>2. CASE how = "add bits"
        <5>1. r = add_signed_bits(a, b) /\ x = a + b
          BY <4>2 DEF ComputeSigned, IsSum
        <5> QED BY <5>1, AddSignedBits DEF Reports
      <4>3. CASE how = "add builtin"
        <5>1. r = builtin_signed(a + b) /\ x = a + b
          BY <4>3 DEF ComputeSigned, IsSum, add_signed_builtin
        <5> QED BY <5>1, Builtins DEF Reports
      <4>4. CASE how = "mul wide"
        <5>1. r = mul_signed_wide(a, b) /\ x = a * b
          BY <4>4 DEF ComputeSigned, IsSum
        <5> QED BY <5>1, MulSigned DEF Reports
      <4>5. CASE how = "mul 128"
        <5>1. r = mul_signed_mul128(a, b) /\ x = a * b
          BY <4>5 DEF ComputeSigned, IsSum
        <5> QED BY <5>1, MulSigned DEF Reports
      <4>6. CASE how = "mul halves"
        <5>1. r = mul_signed_halves(a, b) /\ x = a * b
          BY <4>6 DEF ComputeSigned, IsSum
        <5> QED BY <4>6, <5>1, MulSignedHalves
      <4>7. CASE how = "mul builtin"
        <5>1. r = builtin_signed(a * b) /\ x = a * b
          BY <4>7 DEF ComputeSigned, IsSum, mul_signed_builtin
        <5> QED BY <5>1, Builtins DEF Reports
      <4> QED BY <2>2, <4>1, <4>2, <4>3, <4>4, <4>5, <4>6, <4>7 DEF SignedWays
    <3> HIDE DEF r
    <3>2. /\ sum'.sign = "signed" /\ sum'.how = how /\ sum'.a = a /\ sum'.b = b /\ sum'.answer = r
      BY <2>2 DEF Computed, r
    <3>3. Exact' = x /\ (Fits' <=> x \in SignedRange(W))
      BY <3>2 DEF Exact, Fits
    <3> HIDE DEF x
    <3> QED BY <3>1, <3>2, <3>3 DEF OverflowReported
  <2>3. ASSUME NEW how \in UnsignedWays, NEW a \in UnsignedRange(W), NEW b \in UnsignedRange(W),
               sum' = Computed("unsigned", how, a, b, ComputeUnsigned(how, a, b))
        PROVE  OverflowReported'
    <3> DEFINE x == IF IsSum(how) THEN a + b ELSE a * b
               r == ComputeUnsigned(how, a, b)
    <3>1. Reports(r, Unsigned(W, x), x \in UnsignedRange(W))
      <4>1. CASE how = "add carry"
        <5>1. r = add_unsigned_carry(a, b) /\ x = a + b
          BY <4>1 DEF ComputeUnsigned, IsSum
        <5> QED BY <5>1, AddUnsigned
      <4>2. CASE how = "add compare"
        <5>1. r = add_unsigned_compare(a, b) /\ x = a + b
          BY <4>2 DEF ComputeUnsigned, IsSum
        <5> QED BY <5>1, AddUnsigned
      <4>3. CASE how = "add builtin"
        <5>1. r = builtin_unsigned(a + b) /\ x = a + b
          BY <4>3 DEF ComputeUnsigned, IsSum, add_unsigned_builtin
        <5> QED BY <5>1, Builtins
      <4>4. CASE how = "mul wide"
        <5>1. r = mul_unsigned_wide(a, b) /\ x = a * b
          BY <4>4 DEF ComputeUnsigned, IsSum
        <5> QED BY <5>1, MulUnsigned
      <4>5. CASE how = "mul 128"
        <5>1. r = mul_unsigned_umul128(a, b) /\ x = a * b
          BY <4>5 DEF ComputeUnsigned, IsSum
        <5> QED BY <5>1, MulUnsigned
      <4>6. CASE how = "mul halves"
        <5>1. r = mul_unsigned_halves(a, b) /\ x = a * b
          BY <4>6 DEF ComputeUnsigned, IsSum
        <5> QED BY <5>1, MulUnsignedHalves
      <4>7. CASE how = "mul builtin"
        <5>1. r = builtin_unsigned(a * b) /\ x = a * b
          BY <4>7 DEF ComputeUnsigned, IsSum, mul_unsigned_builtin
        <5> QED BY <5>1, Builtins
      <4> QED BY <2>3, <4>1, <4>2, <4>3, <4>4, <4>5, <4>6, <4>7 DEF UnsignedWays
    <3> HIDE DEF r
    <3>2. /\ sum'.sign = "unsigned" /\ sum'.how = how /\ sum'.a = a /\ sum'.b = b /\ sum'.answer = r
      BY <2>3 DEF Computed, r
    <3>3. Exact' = x /\ (Fits' <=> x \in UnsignedRange(W))
      BY <3>2 DEF Exact, Fits
    <3> HIDE DEF x
    <3> QED BY <3>1, <3>2, <3>3 DEF OverflowReported, Reports
  <2> QED BY <1>2, <2>1, <2>2, <2>3 DEF OverflowNext
<1> QED BY <1>1, <1>2, PTL DEF OverflowSpec

-----------------------------------------------------------------------------
(* Containers: one step on one of them.                                    *)

\* A container, the two of them with what is beside them, and what may be in a cell.
Box == [kind : {"vector", "array"}, static : BOOLEAN, cells : Seq(Int), end : Nat]
BoxState == [a : Box, b : Box, broken : BOOLEAN, memory : BOOLEAN, result : BOOLEAN]
Elements == Int \ {RawCell}

\* The cells are q and then raw ones.
Shape(x, q) ==
    /\ q \in Seq(Elements)
    /\ Len(q) <= Len(x.cells)
    /\ \A i \in 1 .. Len(x.cells) : x.cells[i] = IF i <= Len(q) THEN q[i] ELSE RawCell

\* x holds q: what is in its cells is q, and it knows how long it is.
Holds(x, q) == Shape(x, q) /\ x.end = Len(q) /\ (x.kind = "array" => Len(q) = Len(x.cells))

\* What an operation on c leaves alone.
Touched(w, u, c) ==
    /\ u \in BoxState
    /\ u.memory = w.memory
    /\ u[c].kind = w[c].kind /\ u[c].static = w[c].static
    /\ \A d \in Names : d # c => u[d] = w[d]

\* A function that was made a sequence.
LEMMA EmptyFirst ==
    ASSUME NEW S, NEW s \in Seq(S)
    PROVE  <<>> \o s = s
BY ConcatEmptySeq

\* What is known of a container.
LEMMA NamesOfBoxes ==
    ASSUME NEW w \in BoxState, NEW c \in Names
    PROVE  /\ w[c] \in Box /\ w[c].cells \in Seq(Int) /\ w[c].end \in Nat /\ Cap(w[c]) = Len(w[c].cells) /\ Cap(w[c]) \in Nat
           /\ w[c].kind \in {"vector", "array"} /\ w[c].static \in BOOLEAN
BY DEF BoxState, Box, Names, Cap

PutEnd(w, c, n) == [w EXCEPT ![c].end = n]
PutBoth(w, c, s, n) == [w EXCEPT ![c].cells = s, ![c].end = n]

\* What a change of one container changes, and what it does not.
LEMMA EndChanged ==
    ASSUME NEW w \in BoxState, NEW c \in Names, NEW n \in Nat, NEW u, u = PutEnd(w, c, n)
    PROVE  /\ Touched(w, u, c)
           /\ u[c].cells = w[c].cells /\ u[c].end = n /\ u.broken = w.broken /\ u.result = w.result
<1>1. CASE c = "a"
  BY <1>1 DEF BoxState, Box, Names, Touched, PutEnd
<1>2. CASE c = "b"
  BY <1>2 DEF BoxState, Box, Names, Touched, PutEnd
<1> QED BY <1>1, <1>2 DEF Names

LEMMA CellsAndEndChanged ==
    ASSUME NEW w \in BoxState, NEW c \in Names, NEW s \in Seq(Int), NEW n \in Nat, NEW u,
           u = PutBoth(w, c, s, n)
    PROVE  /\ Touched(w, u, c)
           /\ u[c].cells = s /\ u[c].end = n /\ u.broken = w.broken /\ u.result = w.result
<1>1. CASE c = "a"
  BY <1>1 DEF BoxState, Box, Names, Touched, PutBoth
<1>2. CASE c = "b"
  BY <1>2 DEF BoxState, Box, Names, Touched, PutBoth
<1> QED BY <1>1, <1>2 DEF Names

LEMMA TouchedTwice ==
    ASSUME NEW w \in BoxState, NEW u, NEW v, NEW c \in Names, Touched(w, u, c), Touched(u, v, c)
    PROVE  Touched(w, v, c)
BY DEF Touched

Put(w, c, s) == [w EXCEPT ![c].cells = s]

LEMMA CellsOnly ==
    ASSUME NEW w \in BoxState, NEW c \in Names, NEW s \in Seq(Int), NEW u, u = Put(w, c, s)
    PROVE  /\ Touched(w, u, c)
           /\ u[c].cells = s /\ u[c].end = w[c].end /\ u.broken = w.broken /\ u.result = w.result
<1>1. CASE c = "a"
  BY <1>1 DEF BoxState, Box, Names, Touched, Put
<1>2. CASE c = "b"
  BY <1>2 DEF BoxState, Box, Names, Touched, Put
<1> QED BY <1>1, <1>2 DEF Names

\* What an operation on the cells of c does when it breaks nothing.
Gets(w, u, c, q) ==
    /\ Touched(w, u, c)
    /\ Shape(u[c], q) /\ Cap(u[c]) = Cap(w[c])
    /\ u[c].end = w[c].end /\ u.broken = w.broken /\ u.result = w.result

\* One cell, and only that, is another.
LEMMA OneCell ==
    ASSUME NEW w \in BoxState, NEW c \in Names, NEW i \in 1 .. Cap(w[c]), NEW value \in Int, NEW u,
           u = [w EXCEPT ![c].cells[i] = value]
    PROVE  u = Put(w, c, [w[c].cells EXCEPT ![i] = value]) /\ [w[c].cells EXCEPT ![i] = value] \in Seq(Int)
<1>1. i \in 1 .. Len(w[c].cells) /\ w[c].cells \in Seq(Int)
  BY NamesOfBoxes
<1>3. CASE c = "a"
  BY <1>1, <1>3 DEF BoxState, Box, Put
<1>4. CASE c = "b"
  BY <1>1, <1>4 DEF BoxState, Box, Put
<1> QED BY <1>3, <1>4 DEF Names

LEMMA PrefixIs ==
    ASSUME NEW S, NEW s \in Seq(S), NEW n \in Nat, n <= Len(s)
    PROVE  /\ SubSeq(s, 1, n) \in Seq(S) /\ Len(SubSeq(s, 1, n)) = n
           /\ \A k \in 1 .. n : SubSeq(s, 1, n)[k] = s[k]
OBVIOUS

LEMMA SuffixIs ==
    ASSUME NEW S, NEW s \in Seq(S), NEW n \in Nat \ {0}, n <= Len(s)
    PROVE  /\ SubSeq(s, n, Len(s)) \in Seq(S) /\ Len(SubSeq(s, n, Len(s))) = Len(s) - n + 1
           /\ \A k \in 1 .. Len(s) - n + 1 : SubSeq(s, n, Len(s))[k] = s[n + k - 1]
OBVIOUS

LEMMA AppendIs ==
    ASSUME NEW q \in Seq(Elements), NEW value \in Elements
    PROVE  /\ Append(q, value) \in Seq(Elements) /\ Len(Append(q, value)) = Len(q) + 1
           /\ \A i \in 1 .. Len(q) + 1 : Append(q, value)[i] = IF i <= Len(q) THEN q[i] ELSE value
OBVIOUS

\* One more element is constructed behind the others.
LEMMA ConstructAt ==
    ASSUME NEW w \in BoxState, NEW c \in Names, NEW q, Shape(w[c], q), NEW value \in Elements, Len(q) < Cap(w[c]),
           NEW u, u = construct_at(w, c, Len(q) + 1, value)
    PROVE  Gets(w, u, c, Append(q, value))
<1> DEFINE i == Len(q) + 1
           cells == [w[c].cells EXCEPT ![i] = value]
<1>1. q \in Seq(Elements) /\ Len(q) \in Nat /\ i \in 1 .. Cap(w[c]) /\ ~(i <= Len(q)) /\ Cap(w[c]) = Len(w[c].cells)
      /\ w[c].cells \in Seq(Int) /\ value \in Int
  BY NamesOfBoxes DEF Shape, Elements
<1>2. w[c].cells[i] = RawCell /\ value # RawCell
  BY <1>1 DEF Shape, Elements
<1>3. ~(i > Cap(w[c]))
  BY <1>1
<1>4. u = [w EXCEPT ![c].cells[i] = value]
  <2>1. u = [w EXCEPT ![c].cells[i] = value, !.broken = @ \/ w[c].cells[i] # RawCell \/ value = RawCell]
    BY <1>3 DEF construct_at
  <2>2. CASE c = "a"
    BY <1>2, <2>1, <2>2 DEF BoxState, Box
  <2>3. CASE c = "b"
    BY <1>2, <2>1, <2>3 DEF BoxState, Box
  <2> QED BY <2>2, <2>3 DEF Names
<1>5. u = Put(w, c, cells) /\ cells \in Seq(Int)
  BY <1>1, <1>4, OneCell
<1>6. Len(cells) = Len(w[c].cells) /\ \A j \in 1 .. Len(cells) : cells[j] = IF j = i THEN value ELSE w[c].cells[j]
  BY <1>1
<1> HIDE DEF cells
<1>7. /\ Touched(w, u, c)
      /\ u[c].cells = cells /\ u[c].end = w[c].end /\ u.broken = w.broken /\ u.result = w.result
  BY <1>5, CellsOnly
<1>8. Shape(u[c], Append(q, value))
  <2>1. Append(q, value) \in Seq(Elements) /\ Len(Append(q, value)) = i
        /\ \A j \in 1 .. i : Append(q, value)[j] = IF j <= Len(q) THEN q[j] ELSE value
    BY <1>1, AppendIs
  <2>2. \A j \in 1 .. Len(w[c].cells) : w[c].cells[j] = IF j <= Len(q) THEN q[j] ELSE RawCell
    BY DEF Shape
  <2>3. ASSUME NEW j \in 1 .. Len(u[c].cells)
        PROVE  u[c].cells[j] = IF j <= i THEN Append(q, value)[j] ELSE RawCell
    <3>1. j \in 1 .. Len(w[c].cells) /\ u[c].cells[j] = IF j = i THEN value ELSE w[c].cells[j]
      BY <1>6, <1>7, <2>3
    <3>2. CASE j <= Len(q)
      BY <1>1, <2>1, <2>2, <3>1, <3>2
    <3>3. CASE j = i
      BY <1>1, <2>1, <3>1, <3>3
    <3>4. CASE ~(j <= i)
      BY <1>1, <2>2, <3>1, <3>4
    <3> QED BY <1>1, <3>2, <3>3, <3>4
  <2> QED BY <1>1, <1>6, <1>7, <2>1, <2>3 DEF Shape
<1> QED BY <1>6, <1>7, <1>8 DEF Cap, Gets

\* The cells of c are f, and nothing is broken.
LEMMA CellsAre ==
    ASSUME NEW w \in BoxState, NEW c \in Names, NEW q, Shape(w[c], q), NEW q2 \in Seq(Elements), NEW f,
           f = [i \in 1 .. Cap(w[c]) |-> IF i <= Len(q2) THEN q2[i] ELSE RawCell], Len(q2) <= Cap(w[c]),
           NEW u, u = Put(w, c, <<>> \o f)
    PROVE  Gets(w, u, c, q2)
<1>1. Cap(w[c]) = Len(w[c].cells) /\ Cap(w[c]) \in Nat /\ Len(q2) \in Nat
  BY NamesOfBoxes
<1>2. f \in Seq(Int) /\ Len(f) = Cap(w[c]) /\ \A i \in 1 .. Len(f) : f[i] = IF i <= Len(q2) THEN q2[i] ELSE RawCell
  BY <1>1 DEF Elements, RawCell
<1>3. u = Put(w, c, f)
  BY <1>2, EmptyFirst
<1>4. /\ Touched(w, u, c)
      /\ u[c].cells = f /\ u[c].end = w[c].end /\ u.broken = w.broken /\ u.result = w.result
  BY <1>2, <1>3, CellsOnly
<1> QED BY <1>1, <1>2, <1>4 DEF Gets, Shape, Cap

\* From one sequence of cells to another.
LEMMA ConstructRange ==
    ASSUME NEW w \in BoxState, NEW c \in Names, Shape(w[c], <<>>), NEW values \in Seq(Elements), Len(values) <= Cap(w[c]),
           NEW u, u = construct_range(w, c, values)
    PROVE  Gets(w, u, c, values)
<1> DEFINE cells == w[c].cells
           n == Len(values)
           f == [i \in 1 .. Cap(w[c]) |-> IF i <= n THEN values[i] ELSE cells[i]]
           P == n > Cap(w[c]) \/ \E i \in 1 .. n : values[i] = RawCell \/ (i <= Cap(w[c]) /\ cells[i] # RawCell)
<1>1. n \in Nat /\ Cap(w[c]) = Len(cells) /\ Len(cells) \in Nat /\ cells \in Seq(Int)
  BY NamesOfBoxes
<1>2. \A i \in 1 .. Len(cells) : cells[i] = RawCell
  BY <1>1 DEF Shape
<1>3. f = [i \in 1 .. Cap(w[c]) |-> IF i <= n THEN values[i] ELSE RawCell]
  BY <1>1, <1>2
<1>4. ~P
  BY <1>1, <1>2 DEF Elements
<1>5. u = [w EXCEPT ![c].cells = <<>> \o f, !.broken = @ \/ P]
  BY Zenon DEF construct_range
<1> HIDE DEF f, P, cells
<1>6. u = Put(w, c, <<>> \o f)
  <2>1. CASE c = "a"
    BY <1>4, <1>5, <2>1 DEF BoxState, Box, Put
  <2>2. CASE c = "b"
    BY <1>4, <1>5, <2>2 DEF BoxState, Box, Put
  <2> QED BY <2>1, <2>2 DEF Names
<1> QED BY <1>3, <1>6, CellsAre

LEMMA FreshIs ==
    ASSUME NEW n \in Nat
    PROVE  FreshOnes(n) \in Seq(Elements) /\ Len(FreshOnes(n)) = n /\ \A i \in 1 .. n : FreshOnes(n)[i] = Fresh
<1> DEFINE f == [i \in 1 .. n |-> Fresh]
<1>1. f \in Seq(Elements) /\ Len(f) = n /\ \A i \in 1 .. n : f[i] = Fresh
  BY DEF Fresh, Elements, RawCell
<1> HIDE DEF f
<1>2. FreshOnes(n) = f
  BY <1>1, EmptyFirst DEF FreshOnes, f
<1> QED BY <1>1, <1>2

LEMMA ConcatIs ==
    ASSUME NEW S, NEW p \in Seq(S), NEW q \in Seq(S)
    PROVE  /\ p \o q \in Seq(S) /\ Len(p \o q) = Len(p) + Len(q)
           /\ \A i \in 1 .. Len(p) + Len(q) : (p \o q)[i] = IF i <= Len(p) THEN p[i] ELSE q[i - Len(p)]
OBVIOUS

LEMMA FreshAfter ==
    ASSUME NEW q \in Seq(Elements), NEW n \in Nat
    PROVE  /\ q \o FreshOnes(n) \in Seq(Elements) /\ Len(q \o FreshOnes(n)) = Len(q) + n
           /\ \A i \in 1 .. Len(q) + n : (q \o FreshOnes(n))[i] = IF i <= Len(q) THEN q[i] ELSE Fresh
<1>1. PICK fresh : fresh = FreshOnes(n) /\ fresh \in Seq(Elements) /\ Len(fresh) = n /\ \A i \in 1 .. n : fresh[i] = Fresh
  BY FreshIs
<1>2. /\ q \o fresh \in Seq(Elements) /\ Len(q \o fresh) = Len(q) + n
      /\ \A i \in 1 .. Len(q) + n : (q \o fresh)[i] = IF i <= Len(q) THEN q[i] ELSE Fresh
  BY <1>1
<1> QED BY <1>1, <1>2

LEMMA InFilled ==
    ASSUME NEW a \in Nat, NEW n \in Nat, NEW cap \in Nat, a + n <= cap, NEW i \in a + 1 .. a + 1 + n - 1
    PROVE  i \in 1 .. cap /\ ~(i <= a) /\ ~(i > cap)
OBVIOUS

\* Elements are constructed behind the others, up to a length.
LEMMA ConstructFill ==
    ASSUME NEW w \in BoxState, NEW c \in Names, NEW q, Shape(w[c], q), NEW n \in Nat, Len(q) + n <= Cap(w[c]),
           NEW u, u = construct_fill(w, c, Len(q) + 1, n)
    PROVE  Gets(w, u, c, q \o FreshOnes(n))
<1> DEFINE cells == w[c].cells
           filled == Len(q) + 1 .. Len(q) + 1 + n - 1
           f == [i \in 1 .. Cap(w[c]) |-> IF i \in filled THEN Fresh ELSE cells[i]]
           P == \E i \in filled : i > Cap(w[c]) \/ cells[i] # RawCell
           q2 == q \o FreshOnes(n)
<1>1. Cap(w[c]) = Len(cells) /\ Len(cells) \in Nat /\ cells \in Seq(Int) /\ q \in Seq(Elements) /\ Len(q) \in Nat
  BY NamesOfBoxes DEF Shape
<1>2. \A i \in 1 .. Len(cells) : cells[i] = IF i <= Len(q) THEN q[i] ELSE RawCell
  BY <1>1 DEF Shape
<1>3. /\ q2 \in Seq(Elements) /\ Len(q2) = Len(q) + n
      /\ \A i \in 1 .. Len(q) + n : q2[i] = IF i <= Len(q) THEN q[i] ELSE Fresh
  BY <1>1, FreshAfter
<1> HIDE DEF q2
<1>4. f = [i \in 1 .. Cap(w[c]) |-> IF i <= Len(q2) THEN q2[i] ELSE RawCell]
  <2>1. ASSUME NEW i \in 1 .. Cap(w[c])
        PROVE  (IF i \in filled THEN Fresh ELSE cells[i]) = IF i <= Len(q2) THEN q2[i] ELSE RawCell
    <3>1. i \in 1 .. Len(cells) /\ (i \in filled <=> Len(q) < i /\ i <= Len(q) + n)
      BY <1>1
    <3> HIDE DEF cells, filled
    <3>2. CASE i \in filled
      <4>1. i \in 1 .. Len(q) + n /\ ~(i <= Len(q)) /\ i <= Len(q2)
        BY <1>1, <1>3, <3>1, <3>2
      <4> QED BY <1>3, <3>2, <4>1
    <3>3. CASE ~(i \in filled) /\ i <= Len(q)
      <4>1. i \in 1 .. Len(q) + n /\ i <= Len(q2)
        BY <1>1, <1>3, <3>1, <3>3
      <4> QED BY <1>2, <1>3, <3>1, <3>3, <4>1
    <3>4. CASE ~(i \in filled) /\ ~(i <= Len(q))
      <4>1. ~(i <= Len(q2))
        BY <1>1, <1>3, <3>1, <3>4
      <4> QED BY <1>2, <3>1, <3>4, <4>1
    <3> QED BY <3>2, <3>3, <3>4
  <2> QED BY <2>1, Zenon
<1>5. ~P
  <2>1. ASSUME NEW i \in filled
        PROVE  ~(i > Cap(w[c])) /\ cells[i] = RawCell
    <3>1. i \in Len(q) + 1 .. Len(q) + 1 + n - 1
      BY DEF filled
    <3>2. i \in 1 .. Len(cells) /\ ~(i <= Len(q)) /\ ~(i > Cap(w[c]))
      BY <1>1, <3>1, InFilled
    <3> HIDE DEF cells, filled
    <3> QED BY <1>2, <3>2
  <2> QED BY <2>1
<1>6. u = [w EXCEPT ![c].cells = <<>> \o f, !.broken = @ \/ P]
  BY Zenon DEF construct_fill
<1> HIDE DEF f, P, cells
<1>7. u = Put(w, c, <<>> \o f)
  <2>1. CASE c = "a"
    BY <1>5, <1>6, <2>1 DEF BoxState, Box, Put
  <2>2. CASE c = "b"
    BY <1>5, <1>6, <2>2 DEF BoxState, Box, Put
  <2> QED BY <2>1, <2>2 DEF Names
<1>8. Len(q2) <= Cap(w[c])
  BY <1>3
<1> QED BY <1>3, <1>4, <1>7, <1>8, CellsAre DEF q2

\* From the n + 1st element to the last.
LEMMA DestructRange ==
    ASSUME NEW w \in BoxState, NEW c \in Names, NEW q, Shape(w[c], q), NEW n \in 0 .. Len(q),
           NEW u, u = destruct_range(w, c, n + 1, Len(q))
    PROVE  Gets(w, u, c, SubSeq(q, 1, n))
<1> DEFINE cells == w[c].cells
           f == [i \in 1 .. Cap(w[c]) |-> IF i \in n + 1 .. Len(q) THEN RawCell ELSE cells[i]]
           P == \E i \in n + 1 .. Len(q) : cells[i] = RawCell
           q2 == SubSeq(q, 1, n)
<1>1. Cap(w[c]) = Len(cells) /\ Len(cells) \in Nat /\ cells \in Seq(Int) /\ q \in Seq(Elements) /\ Len(q) \in Nat /\ n \in Nat
      /\ Len(q) <= Len(cells)
  BY NamesOfBoxes DEF Shape
<1>2. \A i \in 1 .. Len(cells) : cells[i] = IF i <= Len(q) THEN q[i] ELSE RawCell
  BY <1>1 DEF Shape
<1>3. q2 \in Seq(Elements) /\ Len(q2) = n /\ \A i \in 1 .. n : q2[i] = q[i]
  BY <1>1
<1> HIDE DEF q2
<1>4. f = [i \in 1 .. Cap(w[c]) |-> IF i <= Len(q2) THEN q2[i] ELSE RawCell]
  <2>1. ASSUME NEW i \in 1 .. Cap(w[c])
        PROVE  (IF i \in n + 1 .. Len(q) THEN RawCell ELSE cells[i]) = IF i <= Len(q2) THEN q2[i] ELSE RawCell
    <3> HIDE DEF cells
    <3>1. i \in 1 .. Len(cells)
      BY <1>1
    <3>2. CASE i <= n
      <4>1. i \in 1 .. n /\ ~(i \in n + 1 .. Len(q)) /\ i <= Len(q) /\ i <= Len(q2)
        BY <1>1, <1>3, <3>2
      <4> QED BY <1>2, <1>3, <3>1, <4>1
    <3>3. CASE ~(i <= n)
      <4>1. ~(i <= Len(q2)) /\ (i \in n + 1 .. Len(q) <=> i <= Len(q))
        BY <1>1, <1>3, <3>3
      <4> QED BY <1>2, <3>1, <4>1
    <3> QED BY <3>2, <3>3
  <2> QED BY <2>1, Zenon
<1>5. ~P
  <2>1. ASSUME NEW i \in n + 1 .. Len(q)
        PROVE  cells[i] # RawCell
    <3>1. i \in 1 .. Len(cells) /\ i <= Len(q) /\ i \in 1 .. Len(q)
      BY <1>1
    <3>2. q[i] \in Elements
      BY <1>1, <3>1
    <3> HIDE DEF cells
    <3> QED BY <1>2, <3>1, <3>2 DEF Elements
  <2> QED BY <2>1
<1>6. u = [w EXCEPT ![c].cells = <<>> \o f, !.broken = @ \/ P]
  BY Zenon DEF destruct_range
<1> HIDE DEF f, P, cells
<1>7. u = Put(w, c, <<>> \o f)
  <2>1. CASE c = "a"
    BY <1>5, <1>6, <2>1 DEF BoxState, Box, Put
  <2>2. CASE c = "b"
    BY <1>5, <1>6, <2>2 DEF BoxState, Box, Put
  <2> QED BY <2>1, <2>2 DEF Names
<1>8. Len(q2) <= Cap(w[c])
  BY <1>1, <1>3
<1> QED BY <1>3, <1>4, <1>7, <1>8, CellsAre DEF q2

\* What an operation does when it breaks nothing.
Becomes(w, u, c, q) ==
    /\ Touched(w, u, c)
    /\ Holds(u[c], q)
    /\ u.broken = w.broken
    /\ w[c].static => Cap(u[c]) = Cap(w[c])

LEMMA SetEndIs ==
    ASSUME NEW w \in BoxState, NEW c \in Names, NEW q, Shape(w[c], q), w[c].kind = "array" => Len(q) = Cap(w[c]),
           NEW u, u = SetEnd(w, c, Len(q))
    PROVE  Becomes(w, u, c, q) /\ Cap(u[c]) = Cap(w[c]) /\ u.result = w.result
<1>1. Len(q) \in Nat
  BY DEF Shape
<1>2. u = PutEnd(w, c, Len(q))
  BY DEF SetEnd, PutEnd
<1>3. Touched(w, u, c) /\ u[c].cells = w[c].cells /\ u[c].end = Len(q) /\ u.broken = w.broken /\ u.result = w.result
  BY <1>1, <1>2, EndChanged
<1>4. u[c].kind = w[c].kind
  BY <1>3 DEF Touched
<1> QED BY <1>3, <1>4 DEF Becomes, Holds, Shape, Cap

LEMMA NoneFresh ==
    ASSUME NEW q \in Seq(Elements)
    PROVE  q \o FreshOnes(0) = q
<1>1. /\ q \o FreshOnes(0) \in Seq(Elements) /\ Len(q \o FreshOnes(0)) = Len(q) + 0
      /\ \A i \in 1 .. Len(q) + 0 : (q \o FreshOnes(0))[i] = IF i <= Len(q) THEN q[i] ELSE Fresh
  BY FreshAfter
<1> DEFINE s == q \o FreshOnes(0)
<1> HIDE DEF s
<1>2. s \in Seq(Elements) /\ Len(s) = Len(q) /\ \A i \in 1 .. Len(q) : s[i] = q[i]
  BY <1>1 DEF s
<1>3. s = q
  BY <1>2, SeqEqual
<1> QED BY <1>3 DEF s

\* What a container holds that gets q: an array is filled up.
FullTo(kind, n, q) == IF kind = "array" THEN q \o FreshOnes(n - Len(q)) ELSE q

\* Elements are copied into raw cells; the rest of an array is filled.
LEMMA CopyIs ==
    ASSUME NEW w \in BoxState, NEW c \in Names, Shape(w[c], <<>>), NEW q \in Seq(Elements), Len(q) <= Cap(w[c]),
           NEW u, u = copy(w, c, q)
    PROVE  Becomes(w, u, c, FullTo(w[c].kind, Cap(w[c]), q)) /\ Cap(u[c]) = Cap(w[c]) /\ u.result = w.result
<1> DEFINE v1 == construct_range(w, c, q)
           v2 == FilledUp(v1, c, Len(q))
           n == Cap(w[c]) - Len(q)
<1>1. Gets(w, v1, c, q)
  BY ConstructRange
<1>2. /\ v1 \in BoxState /\ Shape(v1[c], q) /\ v1[c].kind = w[c].kind /\ Cap(v1[c]) = Cap(w[c])
      /\ v1.broken = w.broken /\ v1.result = w.result /\ Touched(w, v1, c)
  BY <1>1 DEF Gets, Touched
<1>3. Cap(w[c]) \in Nat /\ Len(q) \in Nat /\ n \in Nat /\ Len(q) + n = Cap(w[c]) /\ Len(q) + n <= Cap(w[c])
  BY NamesOfBoxes
<1>4. u = SetEnd(v2, c, Len(q))
  BY DEF copy
<1> HIDE DEF v1, v2, n
<1>5. CASE w[c].kind = "array"
  <2>1. v2 = construct_fill(v1, c, Len(q) + 1, n)
    BY <1>2, <1>5 DEF v2, FilledUp, n
  <2>2. Gets(v1, v2, c, q \o FreshOnes(n))
    BY <1>2, <1>3, <2>1, ConstructFill
  <2>3. Len(q \o FreshOnes(n)) = Cap(w[c])
    BY <1>3, FreshAfter
  <2>4. /\ v2 \in BoxState /\ Shape(v2[c], q \o FreshOnes(n)) /\ v2[c].kind = w[c].kind /\ Cap(v2[c]) = Cap(w[c])
        /\ v2.broken = w.broken /\ v2.result = w.result /\ Touched(v1, v2, c)
    BY <1>2, <2>2 DEF Gets, Touched
  <2>5. Touched(w, v2, c)
    BY <1>2, <2>4, TouchedTwice
  <2>6. u = SetEnd(v2, c, Len(q \o FreshOnes(n)))
    BY <1>4, <1>5, <2>3, <2>4 DEF SetEnd
  <2>7. Becomes(v2, u, c, q \o FreshOnes(n)) /\ Cap(u[c]) = Cap(v2[c]) /\ u.result = v2.result
    <3> DEFINE q2 == q \o FreshOnes(n)
    <3>1. Shape(v2[c], q2) /\ Len(q2) = Cap(v2[c]) /\ u = SetEnd(v2, c, Len(q2)) /\ v2 \in BoxState
      BY <2>3, <2>4, <2>6
    <3> HIDE DEF q2
    <3>2. Becomes(v2, u, c, q2) /\ Cap(u[c]) = Cap(v2[c]) /\ u.result = v2.result
      BY <3>1, SetEndIs
    <3> QED BY <3>2 DEF q2
  <2>8. FullTo(w[c].kind, Cap(w[c]), q) = q \o FreshOnes(n)
    BY <1>5 DEF FullTo, n
  <2>9. Touched(w, u, c)
    BY <2>5, <2>7, TouchedTwice DEF Becomes
  <2> QED BY <2>4, <2>7, <2>8, <2>9 DEF Becomes
<1>6. CASE w[c].kind # "array"
  <2>1. v2 = v1
    BY <1>2, <1>6 DEF v2, FilledUp
  <2>2. Becomes(v1, u, c, q) /\ Cap(u[c]) = Cap(v1[c]) /\ u.result = v1.result
    BY <1>2, <1>4, <1>6, <2>1, SetEndIs
  <2>3. FullTo(w[c].kind, Cap(w[c]), q) = q
    BY <1>6 DEF FullTo
  <2>4. Touched(w, u, c)
    BY <1>2, <2>2, TouchedTwice DEF Becomes
  <2> QED BY <1>2, <2>2, <2>3, <2>4 DEF Becomes
<1> QED BY <1>5, <1>6

LEMMA RawIs ==
    ASSUME NEW n \in Nat
    PROVE  RawCells(n) \in Seq(Int) /\ Len(RawCells(n)) = n /\ \A i \in 1 .. n : RawCells(n)[i] = RawCell
<1> DEFINE f == [i \in 1 .. n |-> RawCell]
<1>1. f \in Seq(Int) /\ Len(f) = n /\ \A i \in 1 .. n : f[i] = RawCell
  BY DEF RawCell
<1> HIDE DEF f
<1>2. RawCells(n) = f
  BY <1>1, EmptyFirst DEF RawCells, f
<1> QED BY <1>1, <1>2

\* c has new cells, and nothing in them.
Emptied(w, u, c, n) ==
    /\ Touched(w, u, c)
    /\ Shape(u[c], <<>>) /\ Cap(u[c]) = n /\ u[c].end = 0
    /\ u.broken = w.broken /\ u.result = w.result

LEMMA EmptyShape ==
    ASSUME NEW x, Len(x.cells) \in Nat, \A i \in 1 .. Len(x.cells) : x.cells[i] = RawCell
    PROVE  Shape(x, <<>>)
<1>1. <<>> \in Seq(Elements) /\ Len(<<>>) = 0
  OBVIOUS
<1> QED BY <1>1 DEF Shape

LEMMA NewCells ==
    ASSUME NEW w \in BoxState, NEW c \in Names, NEW n \in Nat, NEW u, u = PutBoth(w, c, RawCells(n), 0)
    PROVE  Emptied(w, u, c, n)
<1>1. RawCells(n) \in Seq(Int) /\ Len(RawCells(n)) = n /\ \A i \in 1 .. n : RawCells(n)[i] = RawCell
  BY RawIs
<1>2. /\ Touched(w, u, c)
      /\ u[c].cells = RawCells(n) /\ u[c].end = 0 /\ u.broken = w.broken /\ u.result = w.result
  BY <1>1, CellsAndEndChanged
<1>3. Shape(u[c], <<>>)
  BY <1>1, <1>2, EmptyShape
<1> QED BY <1>1, <1>2, <1>3 DEF Emptied, Cap

LEMMA NoCells ==
    ASSUME NEW w \in BoxState, NEW c \in Names, NEW u, u = PutBoth(w, c, <<>>, 0)
    PROVE  Emptied(w, u, c, 0)
<1> DEFINE none == <<>>
<1>1. none \in Seq(Int) /\ u = PutBoth(w, c, none, 0)
  OBVIOUS
<1>2. Len(none) = 0
  OBVIOUS
<1> HIDE DEF none
<1>3. /\ Touched(w, u, c)
      /\ u[c].cells = none /\ u[c].end = 0 /\ u.broken = w.broken /\ u.result = w.result
  BY <1>1, CellsAndEndChanged
<1>4. Shape(u[c], <<>>)
  BY <1>2, <1>3, EmptyShape
<1> QED BY <1>2, <1>3, <1>4 DEF Emptied, Cap

LEMMA AllocateIs ==
    ASSUME NEW w \in BoxState, NEW c \in Names, NEW n \in Nat, NEW u, u = allocate(w, c, n)
    PROVE  Emptied(w, u, c, IF Allocates(w, c) THEN n ELSE 0)
<1>1. CASE Allocates(w, c)
  <2>1. u = PutBoth(w, c, RawCells(n), 0)
    BY <1>1 DEF Allocates, allocate, PutBoth
  <2> QED BY <1>1, <2>1, NewCells
<1>2. CASE ~Allocates(w, c)
  <2>1. u = PutBoth(w, c, <<>>, 0)
    BY <1>2 DEF Allocates, allocate, PutBoth
  <2> QED BY <1>2, <2>1, NoCells
<1> QED BY <1>1, <1>2

\* All elements are destructed.
LEMMA Destructed ==
    ASSUME NEW w \in BoxState, NEW c \in Names, NEW q, Holds(w[c], q), NEW u, u = destruct_range(w, c, 1, w[c].end)
    PROVE  Gets(w, u, c, <<>>)
<1>1. q \in Seq(Elements) /\ Len(q) \in Nat /\ 0 \in 0 .. Len(q) /\ Shape(w[c], q) /\ SubSeq(q, 1, 0) = <<>>
  BY DEF Holds, Shape
<1>2. u = destruct_range(w, c, 0 + 1, Len(q))
  BY DEF Holds
<1>3. Gets(w, u, c, SubSeq(q, 1, 0))
  BY <1>1, <1>2, DestructRange
<1> QED BY <1>1, <1>3

\* purge leaves no element, and no cells on the heap.
LEMMA PurgeIs ==
    ASSUME NEW w \in BoxState, NEW c \in Names, NEW q, Holds(w[c], q), NEW u, u = purge(w, c)
    PROVE  Emptied(w, u, c, IF w[c].static THEN Cap(w[c]) ELSE 0)
<1> DEFINE v == destruct_range(w, c, 1, w[c].end)
<1>1. Gets(w, v, c, <<>>)
  BY Destructed
<1>2. /\ v \in BoxState /\ Shape(v[c], <<>>) /\ Cap(v[c]) = Cap(w[c]) /\ v[c].static = w[c].static
      /\ v.broken = w.broken /\ v.result = w.result /\ Touched(w, v, c)
  BY <1>1 DEF Gets, Touched
<1>3. u = PutBoth(v, c, IF w[c].static THEN v[c].cells ELSE <<>>, 0)
  <2>1. CASE c = "a"
    BY <1>2, <2>1 DEF BoxState, Box, PutBoth, purge
  <2>2. CASE c = "b"
    BY <1>2, <2>2 DEF BoxState, Box, PutBoth, purge
  <2> QED BY <2>1, <2>2 DEF Names
<1> HIDE DEF v
<1>4. CASE w[c].static
  <2>1. u = PutBoth(v, c, v[c].cells, 0) /\ v[c].cells \in Seq(Int) /\ 0 \in Nat
    BY <1>2, <1>3, <1>4, NamesOfBoxes
  <2>2. /\ Touched(v, u, c)
        /\ u[c].cells = v[c].cells /\ u[c].end = 0 /\ u.broken = v.broken /\ u.result = v.result
    BY <1>2, <2>1, CellsAndEndChanged
  <2>3. Touched(w, u, c)
    BY <1>2, <2>2, TouchedTwice
  <2>4. Shape(u[c], <<>>) /\ Cap(u[c]) = Cap(v[c])
    BY <1>2, <2>2 DEF Shape, Cap
  <2> QED BY <1>2, <1>4, <2>2, <2>3, <2>4 DEF Emptied
<1>5. CASE ~w[c].static
  <2>1. Emptied(v, u, c, 0)
    BY <1>2, <1>3, <1>5, NoCells
  <2>2. Touched(w, u, c)
    BY <1>2, <2>1, TouchedTwice DEF Emptied
  <2> QED BY <1>2, <1>5, <2>1, <2>2 DEF Emptied
<1> QED BY <1>4, <1>5

-----------------------------------------------------------------------------
(* Capacities.                                                             *)

\* Between n and 2 n there is a power of two.
LEMMA PowerAbove ==
    ASSUME NEW n \in Nat, n # 0
    PROVE  \E k \in 0 .. n : n <= 2 ^ k /\ 2 ^ k < 2 * n
<1> DEFINE T == {k \in Nat : n <= 2 ^ k}
<1>1. n \in T
  BY PowersPositive
<1>2. PICK k \in T : \A j \in T : k <= j
  BY <1>1, SmallestOf
<1>3. k \in Nat /\ k <= n /\ n <= 2 ^ k
  BY <1>1, <1>2
<1>4. CASE k = 0
  <2>1. 2 ^ 0 = 1
    OBVIOUS
  <2>2. 0 \in 0 .. n /\ n <= 2 ^ 0 /\ 2 ^ 0 < 2 * n
    BY <1>3, <1>4, <2>1
  <2> QED BY <2>2, Zenon
<1>5. CASE k # 0
  <2>1. k - 1 \in Nat /\ k - 1 \notin T
    BY <1>2, <1>3, <1>5
  <2>2. 2 ^ (k - 1) \in Nat /\ 2 ^ (k - 1) < n
    BY <2>1, PowersPositive
  <2>3. 2 ^ (1 + (k - 1)) = 2 ^ 1 * 2 ^ (k - 1) /\ 1 + (k - 1) = k
    <3>1. 1 + (k - 1) = k
      BY <1>3
    <3>2. \A m \in Nat : 2 ^ (1 + m) = 2 ^ 1 * 2 ^ m
      BY PowersMultiply
    <3> QED BY <2>1, <3>1, <3>2
  <2>4. 2 ^ 1 = 2
    OBVIOUS
  <2>5. 2 ^ k = 2 * 2 ^ (k - 1)
    BY <2>3, <2>4
  <2>6. k \in 0 .. n /\ 2 ^ k < 2 * n
    BY <1>3, <2>2, <2>5
  <2> QED BY <1>3, <2>6
<1> QED BY <1>4, <1>5

\* There is room for n elements, which a vector on the heap rounds up to a power of two.
LEMMA ReserveIs ==
    ASSUME NEW x \in Box, NEW n \in Nat
    PROVE  /\ Reserve(x, n) \in Nat
           /\ x.static => Reserve(x, n) = StaticCapacity
           /\ ~x.static => n <= Reserve(x, n)
           /\ ~x.static /\ x.kind = "array" => Reserve(x, n) = n
<1>1. CASE x.static \/ x.kind = "array" \/ n = 0
  BY <1>1, CapacityAssumption DEF Reserve, Box
<1>2. CASE ~(x.static \/ x.kind = "array" \/ n = 0)
  <2>1. Reserve(x, n) = CHOOSE p \in {2 ^ k : k \in 0 .. n} : n <= p /\ p < 2 * n
    BY <1>2 DEF Reserve
  <2>2. PICK k \in 0 .. n : n <= 2 ^ k /\ 2 ^ k < 2 * n
    BY <1>2, PowerAbove
  <2>3. \E p \in {2 ^ j : j \in 0 .. n} : n <= p /\ p < 2 * n
    BY <2>2
  <2>4. n <= Reserve(x, n) /\ \E j \in 0 .. n : Reserve(x, n) = 2 ^ j
    BY <2>1, <2>3
  <2> QED BY <1>2, <2>4
<1> QED BY <1>1, <1>2

LEMMA UsedIs ==
    ASSUME NEW x \in Box, NEW q, Holds(x, q)
    PROVE  Used(x) = q
<1>1. q \in Seq(Elements) /\ x.cells \in Seq(Int) /\ Len(q) \in Nat /\ Len(q) <= Len(x.cells) /\ x.end = Len(q)
      /\ \A i \in 1 .. Len(x.cells) : x.cells[i] = IF i <= Len(q) THEN q[i] ELSE RawCell
  BY DEF Holds, Shape, Box
<1> DEFINE s == SubSeq(x.cells, 1, Len(q))
<1>2. s \in Seq(Int) /\ Len(s) = Len(q) /\ \A i \in 1 .. Len(q) : s[i] = x.cells[i]
  BY <1>1
<1>3. \A i \in 1 .. Len(q) : s[i] = q[i]
  BY <1>1, <1>2
<1>4. q \in Seq(Int)
  BY <1>1 DEF Elements
<1> HIDE DEF s
<1>5. s = q
  BY <1>2, <1>3, <1>4, SeqEqual
<1> QED BY <1>1, <1>5 DEF Used, s

\* The elements are copied into the new cells, of which there are enough.
LEMMA RelocatedIs ==
    ASSUME NEW w \in BoxState, NEW c \in Names, NEW q, Holds(w[c], q), NEW n \in Nat, ~w[c].static, Len(q) <= n,
           NEW u, u = Relocated(w, c, n)
    PROVE  /\ Becomes(w, u, c, FullTo(w[c].kind, n, q))
           /\ n <= Cap(u[c]) /\ u.result = w.result
<1> DEFINE cap == Reserve(w[c], n)
           fresh == PutBoth(w, c, RawCells(cap), 0)
<1>1. cap \in Nat /\ n <= cap /\ (w[c].kind = "array" => cap = n)
  BY ReserveIs, NamesOfBoxes
<1>2. Used(w[c]) = q /\ q \in Seq(Elements) /\ Len(q) \in Nat
  BY UsedIs, NamesOfBoxes DEF Holds, Shape
<1>3. u = copy(fresh, c, q)
  BY <1>2 DEF Relocated, PutBoth
<1> HIDE DEF cap
<1>4. Emptied(w, fresh, c, cap)
  BY <1>1, NewCells
<1> HIDE DEF fresh
<1>5. fresh \in BoxState /\ Shape(fresh[c], <<>>) /\ Len(q) <= Cap(fresh[c]) /\ Cap(fresh[c]) = cap
      /\ fresh[c].kind = w[c].kind /\ Touched(w, fresh, c) /\ fresh.broken = w.broken /\ fresh.result = w.result
  BY <1>1, <1>2, <1>4 DEF Emptied, Touched
<1>6. Becomes(fresh, u, c, FullTo(w[c].kind, cap, q)) /\ Cap(u[c]) = cap /\ u.result = w.result
  BY <1>2, <1>3, <1>5, CopyIs
<1>7. FullTo(w[c].kind, cap, q) = FullTo(w[c].kind, n, q)
  BY <1>1 DEF FullTo
<1>8. Touched(w, u, c)
  BY <1>5, <1>6, TouchedTwice DEF Becomes
<1> QED BY <1>1, <1>5, <1>6, <1>7, <1>8 DEF Becomes

LEMMA TryReallocateIs ==
    ASSUME NEW w \in BoxState, NEW c \in Names, NEW q, Holds(w[c], q), NEW n \in Nat, Len(q) <= n,
           NEW u, u = try_reallocate(w, c, n)
    PROVE  /\ u.result = (~w[c].static /\ w.memory)
           /\ Becomes(w, u, c, IF u.result THEN FullTo(w[c].kind, n, q) ELSE q)
           /\ IF u.result THEN n <= Cap(u[c]) ELSE Cap(u[c]) = Cap(w[c])
<1>1. CASE w[c].static \/ ~w.memory
  <2>1. u = [w EXCEPT !.result = FALSE]
    BY <1>1 DEF try_reallocate
  <2>2. Touched(w, u, c) /\ u[c] = w[c] /\ u.broken = w.broken /\ u.result = FALSE
    <3>1. CASE c = "a"
      BY <2>1, <3>1 DEF BoxState, Box, Names, Touched
    <3>2. CASE c = "b"
      BY <2>1, <3>2 DEF BoxState, Box, Names, Touched
    <3> QED BY <3>1, <3>2 DEF Names
  <2> QED BY <1>1, <2>2 DEF Becomes
<1>2. CASE ~(w[c].static \/ ~w.memory)
  <2> DEFINE v == Relocated(w, c, n)
  <2>1. u = [v EXCEPT !.result = TRUE]
    BY <1>2 DEF try_reallocate
  <2>2. /\ Becomes(w, v, c, FullTo(w[c].kind, n, q))
        /\ n <= Cap(v[c]) /\ v.result = w.result
    BY <1>2, RelocatedIs
  <2> HIDE DEF v
  <2>3. v \in BoxState /\ Touched(w, v, c) /\ v.broken = w.broken /\ Holds(v[c], FullTo(w[c].kind, n, q))
    BY <2>2 DEF Becomes, Touched
  <2>4. Touched(v, u, c) /\ u[c] = v[c] /\ u.broken = v.broken /\ u.result = TRUE
    <3>1. CASE c = "a"
      BY <2>1, <2>3, <3>1 DEF BoxState, Box, Names, Touched
    <3>2. CASE c = "b"
      BY <2>1, <2>3, <3>2 DEF BoxState, Box, Names, Touched
    <3> QED BY <3>1, <3>2 DEF Names
  <2>5. Touched(w, u, c)
    BY <2>3, <2>4, TouchedTwice
  <2> QED BY <1>2, <2>2, <2>3, <2>4, <2>5 DEF Becomes
<1> QED BY <1>1, <1>2

\* Room for n elements was asked for, where there is q.
HasReserved(w, u, c, n, q) ==
    /\ u.result = (n <= Cap(w[c]) \/ (~w[c].static /\ w.memory))
    /\ Becomes(w, u, c, IF u.result /\ n > Cap(w[c]) THEN FullTo(w[c].kind, n, q) ELSE q)
    /\ IF u.result THEN n <= Cap(u[c]) ELSE TRUE
    /\ n <= Cap(w[c]) => Cap(u[c]) = Cap(w[c])

LEMMA VectorReserveIs ==
    ASSUME NEW w \in BoxState, NEW c \in Names, NEW q, Holds(w[c], q), NEW n \in Nat,
           NEW u, u = vector_reserve(w, c, n)
    PROVE  HasReserved(w, u, c, n, q)
<1>1. Cap(w[c]) \in Nat /\ Len(q) \in Nat /\ Len(q) <= Cap(w[c])
  BY NamesOfBoxes DEF Holds, Shape
<1>2. CASE n <= Cap(w[c])
  <2>1. u = [w EXCEPT !.result = TRUE]
    BY <1>2 DEF vector_reserve
  <2>2. Touched(w, u, c) /\ u[c] = w[c] /\ u.broken = w.broken /\ u.result = TRUE
    <3>1. CASE c = "a"
      BY <2>1, <3>1 DEF BoxState, Box, Names, Touched
    <3>2. CASE c = "b"
      BY <2>1, <3>2 DEF BoxState, Box, Names, Touched
    <3> QED BY <3>1, <3>2 DEF Names
  <2>3. Becomes(w, u, c, q) /\ Cap(u[c]) = Cap(w[c])
    BY <2>2 DEF Becomes
  <2>4. ~(n > Cap(w[c]))
    BY <1>1, <1>2
  <2> QED BY <1>2, <2>2, <2>3, <2>4 DEF HasReserved
<1>3. CASE ~(n <= Cap(w[c]))
  <2>1. u = try_reallocate(w, c, n) /\ Len(q) <= n /\ n > Cap(w[c])
    BY <1>1, <1>3 DEF vector_reserve
  <2>2. /\ u.result = (~w[c].static /\ w.memory)
        /\ Becomes(w, u, c, IF u.result THEN FullTo(w[c].kind, n, q) ELSE q)
        /\ IF u.result THEN n <= Cap(u[c]) ELSE Cap(u[c]) = Cap(w[c])
    BY <2>1, TryReallocateIs
  <2> QED BY <1>3, <2>1, <2>2 DEF HasReserved
<1> QED BY <1>2, <1>3

-----------------------------------------------------------------------------
(* The operations of vector.                                               *)

LEMMA GetsIs ==
    ASSUME NEW w \in BoxState, NEW c \in Names, NEW v, NEW q, Gets(w, v, c, q)
    PROVE  /\ v \in BoxState /\ Shape(v[c], q) /\ v[c].kind = w[c].kind /\ v[c].static = w[c].static
           /\ Cap(v[c]) = Cap(w[c]) /\ v[c].end = w[c].end
           /\ v.broken = w.broken /\ v.result = w.result /\ Touched(w, v, c)
BY DEF Gets, Touched

LEMMA SetEndAfter ==
    ASSUME NEW w \in BoxState, NEW c \in Names, w[c].kind = "vector", NEW v, NEW q, Gets(w, v, c, q),
           NEW u, u = SetEnd(v, c, Len(q))
    PROVE  Becomes(w, u, c, q) /\ Cap(u[c]) = Cap(w[c]) /\ u.result = w.result
<1>1. /\ v \in BoxState /\ Shape(v[c], q) /\ v[c].kind = w[c].kind
      /\ Cap(v[c]) = Cap(w[c]) /\ v.broken = w.broken /\ v.result = w.result /\ Touched(w, v, c)
  BY GetsIs
<1>2. Becomes(v, u, c, q) /\ Cap(u[c]) = Cap(v[c]) /\ u.result = v.result
  BY <1>1, SetEndIs
<1>3. Touched(w, u, c)
  BY <1>1, <1>2, TouchedTwice DEF Becomes
<1> QED BY <1>1, <1>2, <1>3 DEF Becomes

LEMMA HoldsIs ==
    ASSUME NEW w \in BoxState, NEW c \in Names, NEW q, Holds(w[c], q)
    PROVE  /\ q \in Seq(Elements) /\ Len(q) \in Nat /\ Len(q) <= Cap(w[c]) /\ Shape(w[c], q) /\ w[c].end = Len(q)
           /\ Cap(w[c]) = Len(w[c].cells) /\ w[c].cells \in Seq(Int)
           /\ \A i \in 1 .. Cap(w[c]) : w[c].cells[i] = IF i <= Len(q) THEN q[i] ELSE RawCell
BY NamesOfBoxes DEF Holds, Shape, Cap

\* The cells that are in use.
LEMMA CellIs ==
    ASSUME NEW w \in BoxState, NEW c \in Names, NEW q, Holds(w[c], q), NEW k \in 1 .. Len(q)
    PROVE  k \in 1 .. Cap(w[c]) /\ w[c].cells[k] = q[k] /\ q[k] \in Elements /\ q[k] # RawCell
<1>1. q \in Seq(Elements) /\ k \in 1 .. Cap(w[c]) /\ k <= Len(q)
  BY HoldsIs, NamesOfBoxes
<1>2. w[c].cells[k] = q[k]
  BY <1>1, HoldsIs
<1>3. q[k] \in Elements
  BY <1>1
<1> QED BY <1>1, <1>2, <1>3 DEF Elements

\* The cells behind those.
LEMMA RawBehind ==
    ASSUME NEW w \in BoxState, NEW c \in Names, NEW q, Holds(w[c], q), NEW k \in 1 .. Cap(w[c]), ~(k <= Len(q))
    PROVE  w[c].cells[k] = RawCell
BY HoldsIs

LEMMA ClearIs ==
    ASSUME NEW w \in BoxState, NEW c \in Names, w[c].kind = "vector", NEW q, Holds(w[c], q),
           NEW u, u = vector_clear(w, c)
    PROVE  Becomes(w, u, c, <<>>)
<1> DEFINE v == destruct_range(w, c, 1, w[c].end)
<1>1. Gets(w, v, c, <<>>)
  BY Destructed
<1>2. u = SetEnd(v, c, Len(<<>>))
  BY DEF vector_clear
<1> HIDE DEF v
<1> QED BY <1>1, <1>2, SetEndAfter

LEMMA BecomesIs ==
    ASSUME NEW w \in BoxState, NEW c \in Names, NEW v, NEW q, Becomes(w, v, c, q)
    PROVE  /\ v \in BoxState /\ Holds(v[c], q) /\ v[c].kind = w[c].kind /\ v[c].static = w[c].static
           /\ v.broken = w.broken /\ Touched(w, v, c)
           /\ w[c].static => Cap(v[c]) = Cap(w[c])
BY DEF Becomes, Touched

LEMMA ResizeIs ==
    ASSUME NEW w \in BoxState, NEW c \in Names, w[c].kind = "vector", NEW q, Holds(w[c], q), NEW n \in Nat,
           NEW u, u = vector_resize(w, c, n)
    PROVE  /\ n < Len(q) => Becomes(w, u, c, SubSeq(q, 1, n))
           /\ n >= Len(q) => Becomes(w, u, c, IF u.result THEN q \o FreshOnes(n - Len(q)) ELSE q)
<1>1. q \in Seq(Elements) /\ Len(q) \in Nat /\ Len(q) <= Cap(w[c]) /\ Shape(w[c], q) /\ w[c].end = Len(q)
  BY HoldsIs
<1>2. CASE n < Len(q)
  <2> DEFINE v == destruct_range(w, c, n + 1, Len(q))
  <2>1. u = SetEnd(v, c, n)
    BY <1>1, <1>2 DEF vector_resize
  <2>2. Gets(w, v, c, SubSeq(q, 1, n))
    BY <1>1, <1>2, DestructRange
  <2>3. Len(SubSeq(q, 1, n)) = n
    BY <1>1, <1>2
  <2> HIDE DEF v
  <2>4. Becomes(w, u, c, SubSeq(q, 1, n))
    BY <2>1, <2>2, <2>3, SetEndAfter
  <2> QED BY <1>1, <1>2, <2>4
<1>3. CASE ~(n < Len(q))
  <2> DEFINE v1 == vector_reserve(w, c, n)
             v2 == construct_fill(v1, c, v1[c].end + 1, n - v1[c].end)
  <2>1. u = IF v1.result THEN SetEnd(v2, c, n) ELSE v1
    BY <1>1, <1>3 DEF vector_resize
  <2>2. /\ v1.result \in BOOLEAN
        /\ Becomes(w, v1, c, q)
        /\ v1.result => n <= Cap(v1[c])
    <3>1. HasReserved(w, v1, c, n, q)
      BY VectorReserveIs
    <3>2. FullTo(w[c].kind, n, q) = q
      BY DEF FullTo
    <3> QED BY <3>1, <3>2 DEF HasReserved
  <2> HIDE DEF v1
  <2>3. v1 \in BoxState /\ Holds(v1[c], q) /\ v1[c].kind = "vector" /\ v1.broken = w.broken /\ Touched(w, v1, c)
        /\ v1[c].static = w[c].static /\ (w[c].static => Cap(v1[c]) = Cap(w[c]))
    BY <2>2, BecomesIs
  <2>4. Shape(v1[c], q) /\ v1[c].end = Len(q)
    BY <2>3, HoldsIs
  <2>5. n - Len(q) \in Nat /\ Len(q) + (n - Len(q)) = n
    BY <1>1, <1>3
  <2>6. CASE v1.result
    <3>1. Gets(v1, v2, c, q \o FreshOnes(n - Len(q)))
      <4>1. v2 = construct_fill(v1, c, Len(q) + 1, n - Len(q)) /\ Len(q) + (n - Len(q)) <= Cap(v1[c])
        BY <2>2, <2>4, <2>5, <2>6
      <4> HIDE DEF v2
      <4> QED BY <2>3, <2>4, <2>5, <4>1, ConstructFill
    <3>2. Len(q \o FreshOnes(n - Len(q))) = n
      BY <1>1, <2>5, FreshAfter
    <3> HIDE DEF v2
    <3>3. u = SetEnd(v2, c, Len(q \o FreshOnes(n - Len(q))))
      BY <2>1, <2>6, <3>2
    <3>4. Becomes(v1, u, c, q \o FreshOnes(n - Len(q))) /\ u.result = v1.result
      <4> DEFINE q2 == q \o FreshOnes(n - Len(q))
      <4>1. Gets(v1, v2, c, q2) /\ u = SetEnd(v2, c, Len(q2))
        BY <3>1, <3>3
      <4> HIDE DEF q2
      <4>2. Becomes(v1, u, c, q2) /\ u.result = v1.result
        BY <2>3, <4>1, SetEndAfter
      <4> QED BY <4>2 DEF q2
    <3>5. Touched(w, u, c)
      BY <2>3, <3>4, TouchedTwice DEF Becomes
    <3>6. Becomes(w, u, c, q \o FreshOnes(n - Len(q)))
      BY <2>3, <3>4, <3>5 DEF Becomes
    <3> QED BY <1>3, <2>6, <3>4, <3>6
  <2>7. CASE ~v1.result
    BY <1>3, <2>1, <2>2, <2>7
  <2> QED BY <2>6, <2>7
<1> QED BY <1>2, <1>3

LEMMA EmplaceBackIs ==
    ASSUME NEW w \in BoxState, NEW c \in Names, w[c].kind = "vector", NEW q, Holds(w[c], q), NEW value \in Elements,
           NEW u, u = try_emplace_back(w, c, value)
    PROVE  /\ u.result \in BOOLEAN
           /\ Becomes(w, u, c, IF u.result THEN Append(q, value) ELSE q)
           /\ Len(q) < Cap(w[c]) => Cap(u[c]) = Cap(w[c])
           /\ u.result /\ Len(q) = Cap(w[c]) => Cap(u[c]) # Cap(w[c])
<1> DEFINE n == Len(q) + 1
           v1 == vector_reserve(w, c, n)
           v2 == construct_at(v1, c, n, value)
<1>1. q \in Seq(Elements) /\ Len(q) \in Nat /\ n \in Nat /\ Len(q) <= Cap(w[c]) /\ w[c].end = Len(q) /\ Cap(w[c]) \in Nat
  BY HoldsIs, NamesOfBoxes
<1>2. /\ v1.result \in BOOLEAN
      /\ Becomes(w, v1, c, q)
      /\ v1.result => n <= Cap(v1[c])
      /\ n <= Cap(w[c]) => Cap(v1[c]) = Cap(w[c])
  <2>1. HasReserved(w, v1, c, n, q)
    BY <1>1, VectorReserveIs
  <2>2. FullTo(w[c].kind, n, q) = q
    BY DEF FullTo
  <2> QED BY <2>1, <2>2 DEF HasReserved
<1>3. u = IF v1.result THEN SetEnd(construct_at(v1, c, v1[c].end + 1, value), c, v1[c].end + 1) ELSE v1
  BY <1>1 DEF try_emplace_back
<1> HIDE DEF v1
<1>4. v1 \in BoxState /\ Holds(v1[c], q) /\ v1[c].kind = "vector" /\ v1.broken = w.broken /\ Touched(w, v1, c)
      /\ v1[c].static = w[c].static /\ (w[c].static => Cap(v1[c]) = Cap(w[c]))
  BY <1>2, BecomesIs
<1>5. Shape(v1[c], q) /\ v1[c].end = Len(q) /\ Cap(v1[c]) \in Nat
  BY <1>4, HoldsIs, NamesOfBoxes
<1>6. CASE v1.result
  <2>1. Gets(v1, v2, c, Append(q, value))
    <3>1. Len(q) < Cap(v1[c])
      BY <1>1, <1>2, <1>5, <1>6
    <3> QED BY <1>4, <1>5, <3>1, ConstructAt
  <2>2. u = SetEnd(v2, c, Len(Append(q, value)))
    <3>1. Len(Append(q, value)) = n
      BY <1>1
    <3> QED BY <1>3, <1>5, <1>6, <3>1
  <2> HIDE DEF v2
  <2>3. Becomes(v1, u, c, Append(q, value)) /\ Cap(u[c]) = Cap(v1[c]) /\ u.result = v1.result
    <3> DEFINE q2 == Append(q, value)
    <3>1. Gets(v1, v2, c, q2) /\ u = SetEnd(v2, c, Len(q2))
      BY <2>1, <2>2
    <3> HIDE DEF q2
    <3>2. Becomes(v1, u, c, q2) /\ Cap(u[c]) = Cap(v1[c]) /\ u.result = v1.result
      BY <1>4, <3>1, SetEndAfter
    <3> QED BY <3>2 DEF q2
  <2>4. Touched(w, u, c)
    BY <1>4, <2>3, TouchedTwice DEF Becomes
  <2>5. Becomes(w, u, c, Append(q, value))
    BY <1>4, <2>3, <2>4 DEF Becomes
  <2> QED BY <1>1, <1>2, <1>5, <1>6, <2>3, <2>5
<1>7. CASE ~v1.result
  <2>1. u = v1
    BY <1>3, <1>7
  <2> QED BY <1>1, <1>2, <1>7, <2>1
<1> QED BY <1>6, <1>7

\* An element gets another value.
LEMMA AssignAt ==
    ASSUME NEW w \in BoxState, NEW c \in Names, NEW q, Shape(w[c], q), NEW i \in 1 .. Len(q), NEW value \in Elements,
           NEW u, u = assign_at(w, c, i, value)
    PROVE  Gets(w, u, c, [q EXCEPT ![i] = value])
<1> DEFINE cells == [w[c].cells EXCEPT ![i] = value]
           q2 == [q EXCEPT ![i] = value]
<1>1. q \in Seq(Elements) /\ Len(q) \in Nat /\ i \in 1 .. Cap(w[c]) /\ i <= Len(q) /\ Cap(w[c]) = Len(w[c].cells)
      /\ w[c].cells \in Seq(Int) /\ value \in Int /\ Len(q) <= Len(w[c].cells)
      /\ \A j \in 1 .. Len(w[c].cells) : w[c].cells[j] = IF j <= Len(q) THEN q[j] ELSE RawCell
  BY NamesOfBoxes DEF Shape, Elements
<1>2. w[c].cells[i] # RawCell /\ value # RawCell
  <2>1. w[c].cells[i] = q[i] /\ q[i] \in Elements
    BY <1>1
  <2> QED BY <2>1 DEF Elements
<1>3. u = [w EXCEPT ![c].cells[i] = value]
  <2>1. u = [w EXCEPT ![c].cells[i] = value, !.broken = @ \/ w[c].cells[i] = RawCell \/ value = RawCell]
    BY DEF assign_at
  <2>2. CASE c = "a"
    BY <1>2, <2>1, <2>2 DEF BoxState, Box
  <2>3. CASE c = "b"
    BY <1>2, <2>1, <2>3 DEF BoxState, Box
  <2> QED BY <2>2, <2>3 DEF Names
<1>4. u = Put(w, c, cells) /\ cells \in Seq(Int)
  BY <1>1, <1>3, OneCell
<1>5. Len(cells) = Len(w[c].cells) /\ \A j \in 1 .. Len(cells) : cells[j] = IF j = i THEN value ELSE w[c].cells[j]
  BY <1>1
<1>6. q2 \in Seq(Elements) /\ Len(q2) = Len(q) /\ \A j \in 1 .. Len(q) : q2[j] = IF j = i THEN value ELSE q[j]
  BY <1>1
<1> HIDE DEF cells, q2
<1>7. /\ Touched(w, u, c)
      /\ u[c].cells = cells /\ u[c].end = w[c].end /\ u.broken = w.broken /\ u.result = w.result
  BY <1>4, CellsOnly
<1>8. ASSUME NEW j \in 1 .. Len(cells)
      PROVE  cells[j] = IF j <= Len(q2) THEN q2[j] ELSE RawCell
  BY <1>1, <1>5, <1>6
<1>9. Shape(u[c], q2)
  BY <1>1, <1>5, <1>6, <1>7, <1>8 DEF Shape
<1> QED BY <1>5, <1>7, <1>9 DEF Cap, Gets, q2

\* What an iter_move leaves is an element.
LEMMA LeaveAt ==
    ASSUME NEW w \in BoxState, NEW c \in Names, NEW q, Shape(w[c], q), NEW i \in 1 .. Len(q),
           NEW u, u = leave_at(w, c, i)
    PROVE  Gets(w, u, c, [q EXCEPT ![i] = MovedFrom])
<1>1. q \in Seq(Elements) /\ i \in 1 .. Len(w[c].cells) /\ w[c].cells[i] = q[i] /\ q[i] \in Elements
  BY NamesOfBoxes DEF Shape
<1>2. w[c].cells[i] # RawCell /\ MovedFrom # RawCell /\ MovedFrom \in Elements
  BY <1>1 DEF Elements, MovedFrom, RawCell
<1>3. u = [w EXCEPT ![c].cells[i] = MovedFrom]
  <2>1. CASE c = "a"
    BY <1>2, <2>1 DEF leave_at, BoxState, Box
  <2>2. CASE c = "b"
    BY <1>2, <2>2 DEF leave_at, BoxState, Box
  <2> QED BY <2>1, <2>2 DEF Names
<1>4. [w EXCEPT ![c].cells[i] = MovedFrom] = assign_at(w, c, i, MovedFrom)
  <2>1. CASE c = "a"
    BY <1>2, <2>1 DEF assign_at, BoxState, Box
  <2>2. CASE c = "b"
    BY <1>2, <2>2 DEF assign_at, BoxState, Box
  <2> QED BY <2>1, <2>2 DEF Names
<1> QED BY <1>2, <1>3, <1>4, AssignAt

LEMMA TwiceAssigned ==
    ASSUME NEW q \in Seq(Elements), NEW i \in 1 .. Len(q), NEW x \in Elements, NEW y \in Elements, NEW z \in Elements
    PROVE  [[Append(q, x) EXCEPT ![i] = y] EXCEPT ![i] = z] = Append([q EXCEPT ![i] = z], x)
<1> DEFINE p == [q EXCEPT ![i] = z]
           left == [[Append(q, x) EXCEPT ![i] = y] EXCEPT ![i] = z]
           right == Append(p, x)
<1>1. p \in Seq(Elements) /\ Len(p) = Len(q) /\ \A j \in 1 .. Len(q) : p[j] = IF j = i THEN z ELSE q[j]
  OBVIOUS
<1>2. Len(q) \in Nat
  OBVIOUS
<1>3. right \in Seq(Elements) /\ Len(right) = Len(q) + 1
      /\ \A j \in 1 .. Len(q) + 1 : right[j] = IF j <= Len(q) THEN IF j = i THEN z ELSE q[j] ELSE x
  <2> HIDE DEF p
  <2> QED BY <1>1, <1>2, AppendIs
<1>4. left \in Seq(Elements) /\ Len(left) = Len(q) + 1
      /\ \A j \in 1 .. Len(q) + 1 : left[j] = IF j = i THEN z ELSE IF j <= Len(q) THEN q[j] ELSE x
  <2> DEFINE l0 == Append(q, x)
             l1 == [l0 EXCEPT ![i] = y]
  <2>1. l0 \in Seq(Elements) /\ Len(l0) = Len(q) + 1
        /\ \A j \in 1 .. Len(q) + 1 : l0[j] = IF j <= Len(q) THEN q[j] ELSE x
    BY AppendIs
  <2> HIDE DEF l0
  <2>2. l1 \in Seq(Elements) /\ Len(l1) = Len(q) + 1
        /\ \A j \in 1 .. Len(q) + 1 : l1[j] = IF j = i THEN y ELSE l0[j]
    BY <1>2, <2>1
  <2> HIDE DEF l1
  <2>3. [l1 EXCEPT ![i] = z] \in Seq(Elements) /\ Len([l1 EXCEPT ![i] = z]) = Len(q) + 1
        /\ \A j \in 1 .. Len(q) + 1 : [l1 EXCEPT ![i] = z][j] = IF j = i THEN z ELSE l1[j]
    BY <1>2, <2>2
  <2>4. left = [l1 EXCEPT ![i] = z]
    BY DEF l0, l1
  <2> HIDE DEF left
  <2> QED BY <2>1, <2>2, <2>3, <2>4
<1> HIDE DEF left, right
<1>5. \A j \in 1 .. Len(left) : left[j] = right[j]
  BY <1>2, <1>3, <1>4
<1>6. left = right
  BY <1>3, <1>4, <1>5, SeqEqual
<1> QED BY <1>6 DEF left, right, p

Inserted(q, i, value) == Append([q EXCEPT ![i] = value], q[i])

\* A vector that is not full takes another element in the middle.
LEMMA InsertIs ==
    ASSUME NEW w \in BoxState, NEW c \in Names, w[c].kind = "vector", NEW q, Holds(w[c], q), NEW value \in Elements,
           NEW i \in 1 .. Len(q), NEW u, u = vector_insert(w, c, i, value)
    PROVE  \/ Len(q) < Cap(w[c]) /\ Becomes(w, u, c, IF u.result THEN Inserted(q, i, value) ELSE q)
           \/ Len(q) = Cap(w[c]) /\ u.result = FALSE /\ Becomes(w, u, c, q)
           \/ Len(q) = Cap(w[c]) /\ u.result /\ u.broken = TRUE /\ "broken" \in DOMAIN u
<1> DEFINE v == try_emplace_back(w, c, w[c].cells[i])
           v1 == leave_at(v, c, i)
           q1 == Append(q, q[i])
           q2 == [q1 EXCEPT ![i] = MovedFrom]
           q3 == [q2 EXCEPT ![i] = value]
<1>1. q \in Seq(Elements) /\ Len(q) \in Nat /\ Len(q) <= Cap(w[c]) /\ w[c].end = Len(q) /\ Cap(w[c]) \in Nat
      /\ w[c].cells[i] = q[i] /\ q[i] \in Elements
  BY HoldsIs, NamesOfBoxes
<1>2. /\ v.result \in BOOLEAN
      /\ Becomes(w, v, c, IF v.result THEN q1 ELSE q)
      /\ Len(q) < Cap(w[c]) => Cap(v[c]) = Cap(w[c])
      /\ v.result /\ Len(q) = Cap(w[c]) => Cap(v[c]) # Cap(w[c])
  BY <1>1, EmplaceBackIs
<1>3. u = IF ~v.result THEN v
          ELSE IF Cap(v[c]) # Cap(w[c]) THEN [v EXCEPT !.broken = TRUE]
          ELSE assign_at(v1, c, i, value)
  BY <1>1 DEF vector_insert
<1> HIDE DEF v
<1>4. v \in BoxState /\ Touched(w, v, c) /\ v.broken = w.broken
  BY <1>2, BecomesIs
<1>5. CASE ~v.result
  BY <1>1, <1>2, <1>3, <1>5
<1>6. CASE v.result /\ Len(q) = Cap(w[c])
  <2>1. u = [v EXCEPT !.broken = TRUE]
    BY <1>2, <1>3, <1>6
  <2>2. u.result = v.result /\ u.broken = TRUE /\ "broken" \in DOMAIN u
    BY <1>4, <2>1 DEF BoxState
  <2> QED BY <1>6, <2>2
<1>7. CASE v.result /\ Len(q) < Cap(w[c])
  <2>1. u = assign_at(v1, c, i, value) /\ Holds(v[c], q1)
    BY <1>2, <1>3, <1>7 DEF Becomes
  <2>2. q1 \in Seq(Elements) /\ Len(q1) = Len(q) + 1 /\ i \in 1 .. Len(q1)
    BY <1>1, AppendIs
  <2> HIDE DEF q1
  <2>3. Gets(v, v1, c, q2)
    BY <1>4, <2>1, <2>2, LeaveAt DEF Holds
  <2>4. q2 \in Seq(Elements) /\ Len(q2) = Len(q1)
    BY <2>2 DEF Elements, MovedFrom, RawCell
  <2> HIDE DEF v1, q2
  <2>5. /\ v1 \in BoxState /\ Shape(v1[c], q2) /\ v1[c].kind = v[c].kind
        /\ Cap(v1[c]) = Cap(v[c]) /\ v1[c].end = v[c].end
        /\ v1.broken = v.broken /\ v1.result = v.result /\ Touched(v, v1, c)
    BY <1>4, <2>3, GetsIs
  <2>6. Gets(v1, u, c, q3)
    BY <2>1, <2>2, <2>4, <2>5, AssignAt
  <2>7. Len(q3) = Len(q1)
    BY <2>2, <2>4
  <2>8. q3 = Append([q EXCEPT ![i] = value], q[i])
    <3>1. MovedFrom \in Elements
      BY DEF Elements, MovedFrom, RawCell
    <3>2. \A x, y, z \in Elements : [[Append(q, x) EXCEPT ![i] = y] EXCEPT ![i] = z] = Append([q EXCEPT ![i] = z], x)
      BY <1>1, TwiceAssigned
    <3>3. [[Append(q, q[i]) EXCEPT ![i] = MovedFrom] EXCEPT ![i] = value] = Append([q EXCEPT ![i] = value], q[i])
      BY <1>1, <3>1, <3>2, Zenon
    <3> QED BY <3>3 DEF q1, q2
  <2> HIDE DEF q3
  <2>9. Touched(w, u, c) /\ u.broken = w.broken /\ u.result = v.result
    <3>1. Touched(v1, u, c) /\ u.broken = v1.broken /\ u.result = v1.result
      BY <2>5, <2>6 DEF Gets
    <3>2. Touched(v, u, c)
      BY <1>4, <2>5, <3>1, TouchedTwice
    <3> QED BY <1>4, <2>5, <3>1, <3>2, TouchedTwice
  <2>10. Holds(u[c], q3)
    BY <1>2, <1>4, <2>1, <2>5, <2>6, <2>7 DEF Gets, Holds, Touched
  <2>11. Cap(u[c]) = Cap(w[c])
    BY <1>2, <1>7, <2>5, <2>6 DEF Gets
  <2>12. Becomes(w, u, c, Inserted(q, i, value))
    BY <2>8, <2>9, <2>10, <2>11 DEF Becomes, Inserted
  <2> QED BY <1>7, <2>9, <2>12
<1>8. v.result \in BOOLEAN /\ (Len(q) < Cap(w[c]) \/ Len(q) = Cap(w[c]))
  BY <1>1, <1>2
<1> QED BY <1>8, <1>5, <1>6, <1>7, Zenon

LEMMA DestructLast ==
    ASSUME NEW w \in BoxState, NEW c \in Names, NEW q, Shape(w[c], q), Len(q) # 0,
           NEW u, u = destruct_at(w, c, Len(q))
    PROVE  Gets(w, u, c, SubSeq(q, 1, Len(q) - 1))
<1> DEFINE i == Len(q)
           cells == [w[c].cells EXCEPT ![i] = RawCell]
           q2 == SubSeq(q, 1, Len(q) - 1)
<1>1. q \in Seq(Elements) /\ Len(q) \in Nat /\ i \in 1 .. Len(q) /\ i \in 1 .. Cap(w[c]) /\ Cap(w[c]) = Len(w[c].cells)
      /\ w[c].cells \in Seq(Int) /\ RawCell \in Int /\ Len(q) <= Len(w[c].cells)
      /\ \A j \in 1 .. Len(w[c].cells) : w[c].cells[j] = IF j <= Len(q) THEN q[j] ELSE RawCell
  BY NamesOfBoxes DEF Shape, RawCell
<1>2. w[c].cells[i] # RawCell
  BY <1>1 DEF Elements
<1>3. u = [w EXCEPT ![c].cells[i] = RawCell]
  <2>1. u = [w EXCEPT ![c].cells[i] = RawCell, !.broken = @ \/ w[c].cells[i] = RawCell]
    BY DEF destruct_at
  <2>2. CASE c = "a"
    BY <1>2, <2>1, <2>2 DEF BoxState, Box
  <2>3. CASE c = "b"
    BY <1>2, <2>1, <2>3 DEF BoxState, Box
  <2> QED BY <2>2, <2>3 DEF Names
<1>4. u = Put(w, c, cells) /\ cells \in Seq(Int)
  BY <1>1, <1>3, OneCell
<1>5. Len(cells) = Len(w[c].cells) /\ \A j \in 1 .. Len(cells) : cells[j] = IF j = i THEN RawCell ELSE w[c].cells[j]
  BY <1>1
<1>6. q2 \in Seq(Elements) /\ Len(q2) = Len(q) - 1 /\ \A j \in 1 .. Len(q) - 1 : q2[j] = q[j]
  <2>0. q \in Seq(Elements) /\ Len(q) \in Nat
    BY <1>1
  <2>1. PICK m : m \in 0 .. Len(q) /\ m = Len(q) - 1
    BY <2>0
  <2>2. SubSeq(q, 1, m) \in Seq(Elements) /\ Len(SubSeq(q, 1, m)) = m /\ \A j \in 1 .. m : SubSeq(q, 1, m)[j] = q[j]
    BY <2>0, <2>1
  <2> QED BY <2>1, <2>2
<1> HIDE DEF cells, q2
<1>7. /\ Touched(w, u, c)
      /\ u[c].cells = cells /\ u[c].end = w[c].end /\ u.broken = w.broken /\ u.result = w.result
  BY <1>4, CellsOnly
<1>8. ASSUME NEW j \in 1 .. Len(cells)
      PROVE  cells[j] = IF j <= Len(q2) THEN q2[j] ELSE RawCell
  BY <1>1, <1>5, <1>6
<1>9. Shape(u[c], q2)
  BY <1>1, <1>5, <1>6, <1>7, <1>8 DEF Shape
<1> QED BY <1>5, <1>7, <1>9 DEF Cap, Gets, q2

\* What is left when n elements were erased from the i-th on, each of them by the last one.
Without(q, i, n) == [k \in 1 .. Len(q) - n |-> IF k >= i /\ k < i + n THEN q[Len(q) - (k - i)] ELSE q[k]]

LEMMA WithoutIs ==
    ASSUME NEW q \in Seq(Elements), NEW i \in Nat \ {0}, NEW n \in Nat, n <= Len(q), i + n <= Len(q) + 1
    PROVE  /\ Without(q, i, n) \in Seq(Elements) /\ Len(Without(q, i, n)) = Len(q) - n
           /\ \A k \in 1 .. Len(q) - n : Without(q, i, n)[k] = IF k >= i /\ k < i + n THEN q[Len(q) - (k - i)] ELSE q[k]
<1>1. Len(q) \in Nat /\ Len(q) - n \in Nat
  OBVIOUS
<1>2. ASSUME NEW k \in 1 .. Len(q) - n
      PROVE  (IF k >= i /\ k < i + n THEN q[Len(q) - (k - i)] ELSE q[k]) \in Elements
  <2>1. CASE k >= i /\ k < i + n
    <3>1. Len(q) - (k - i) \in 1 .. Len(q)
      BY <1>1, <2>1
    <3> QED BY <2>1, <3>1
  <2>2. CASE ~(k >= i /\ k < i + n)
    BY <1>1, <2>2
  <2> QED BY <2>1, <2>2
<1> DEFINE f == [k \in 1 .. Len(q) - n |-> IF k >= i /\ k < i + n THEN q[Len(q) - (k - i)] ELSE q[k]]
<1>3. f \in Seq(Elements) /\ Len(f) = Len(q) - n
  BY <1>1, <1>2
<1> QED BY <1>3 DEF Without

\* The last element comes to where one was erased.
Erased(q, i) == SubSeq([q EXCEPT ![i] = q[Len(q)]], 1, Len(q) - 1)

LEMMA EraseIs ==
    ASSUME NEW w \in BoxState, NEW c \in Names, w[c].kind = "vector", NEW q, Holds(w[c], q),
           NEW i \in 1 .. Len(q), NEW u, u = vector_erase(w, c, i)
    PROVE  Becomes(w, u, c, Erased(q, i)) /\ Cap(u[c]) = Cap(w[c])
<1> DEFINE v1 == assign_at(w, c, i, w[c].cells[Len(q)])
           v2 == destruct_at(v1, c, Len(q))
           q1 == [q EXCEPT ![i] = q[Len(q)]]
           q2 == SubSeq(q1, 1, Len(q) - 1)
<1>1. q \in Seq(Elements) /\ Len(q) \in Nat /\ Len(q) # 0 /\ w[c].end = Len(q) /\ Shape(w[c], q)
      /\ w[c].cells[Len(q)] = q[Len(q)] /\ q[Len(q)] \in Elements
  BY HoldsIs
<1>2. Gets(w, v1, c, q1)
  BY <1>1, AssignAt
<1>3. q1 \in Seq(Elements) /\ Len(q1) = Len(q)
  BY <1>1
<1>4. u = SetEnd(v2, c, Len(q) - 1)
  BY <1>1 DEF vector_erase
<1> HIDE DEF v1, q1
<1>5. /\ v1 \in BoxState /\ Shape(v1[c], q1) /\ v1[c].kind = w[c].kind
      /\ Cap(v1[c]) = Cap(w[c]) /\ v1[c].end = w[c].end
      /\ v1.broken = w.broken /\ v1.result = w.result /\ Touched(w, v1, c)
  BY <1>2, GetsIs
<1>6. Gets(v1, v2, c, q2)
  BY <1>1, <1>3, <1>5, DestructLast
<1>7. Len(q2) = Len(q) - 1
  BY <1>1, <1>3
<1> HIDE DEF v2, q2
<1>8. Becomes(v1, u, c, q2) /\ Cap(u[c]) = Cap(v1[c])
  BY <1>4, <1>5, <1>6, <1>7, SetEndAfter
<1>9. Touched(w, u, c)
  BY <1>5, <1>8, TouchedTwice DEF Becomes
<1>10. q2 = Erased(q, i)
  BY DEF q1, q2, Erased
<1>11. Becomes(w, u, c, q2) /\ Cap(u[c]) = Cap(w[c])
  BY <1>5, <1>8, <1>9 DEF Becomes
<1> QED BY <1>10, <1>11

\* erase of a range erases one element after the other, each at its place.
LEMMA OneMoreErased ==
    ASSUME NEW q \in Seq(Elements), NEW i \in Nat \ {0}, NEW n \in Nat, n < Len(q), i + n <= Len(q) - n,
           NEW p, p = Without(q, i, n)
    PROVE  Erased(p, i + n) = Without(q, i, n + 1)
<1> DEFINE p1 == [p EXCEPT ![i + n] = p[Len(p)]]
           p2 == SubSeq(p1, 1, Len(p) - 1)
           r == Without(q, i, n + 1)
<1>1. Len(q) \in Nat /\ n <= Len(q) /\ i + n <= Len(q) + 1 /\ n + 1 <= Len(q) /\ i + (n + 1) <= Len(q) + 1 /\ n + 1 \in Nat
  OBVIOUS
<1>2. /\ p \in Seq(Elements) /\ Len(p) = Len(q) - n
      /\ \A k \in 1 .. Len(q) - n : p[k] = IF k >= i /\ k < i + n THEN q[Len(q) - (k - i)] ELSE q[k]
  BY <1>1, WithoutIs
<1>3. /\ r \in Seq(Elements) /\ Len(r) = Len(q) - (n + 1)
      /\ \A k \in 1 .. Len(q) - (n + 1) : r[k] = IF k >= i /\ k < i + (n + 1) THEN q[Len(q) - (k - i)] ELSE q[k]
  BY <1>1, WithoutIs
<1>4. p1 \in Seq(Elements) /\ Len(p1) = Len(p) /\ \A k \in 1 .. Len(p) : p1[k] = IF k = i + n THEN p[Len(p)] ELSE p[k]
  BY <1>1, <1>2
<1> HIDE DEF p1, r
<1>5. p2 \in Seq(Elements) /\ Len(p2) = Len(p) - 1 /\ \A k \in 1 .. Len(p) - 1 : p2[k] = p1[k]
  <2> DEFINE m == Len(p) - 1
  <2>1. m \in Nat /\ m <= Len(p1)
    BY <1>1, <1>2, <1>4
  <2> HIDE DEF m
  <2>2. SubSeq(p1, 1, m) \in Seq(Elements) /\ Len(SubSeq(p1, 1, m)) = m /\ \A k \in 1 .. m : SubSeq(p1, 1, m)[k] = p1[k]
    BY <1>4, <2>1, PrefixIs
  <2> QED BY <2>2 DEF m
<1> HIDE DEF p2
<1>6. p[Len(p)] = q[Len(q) - n]
  <2> DEFINE k == Len(q) - n
  <2>1. k \in 1 .. Len(q) - n /\ Len(p) = k /\ (k >= i /\ k < i + n => Len(q) - (k - i) = k)
    BY <1>1, <1>2
  <2> HIDE DEF k
  <2>2. p[k] = IF k >= i /\ k < i + n THEN q[Len(q) - (k - i)] ELSE q[k]
    BY <1>2, <2>1
  <2>3. p[k] = q[k]
    BY <2>1, <2>2
  <2> QED BY <2>1, <2>3 DEF k
<1>7. ASSUME NEW k \in 1 .. Len(p2)
      PROVE  p2[k] = r[k]
  <2>1. k \in 1 .. Len(q) - (n + 1) /\ k \in 1 .. Len(q) - n /\ k \in 1 .. Len(p) /\ k \in 1 .. Len(p) - 1
    BY <1>1, <1>2, <1>5
  <2>2. CASE k = i + n
    <3>1. Len(q) - (k - i) = Len(q) - n /\ k >= i /\ k < i + (n + 1)
      BY <1>1, <2>2
    <3> QED BY <1>3, <1>4, <1>5, <1>6, <2>1, <2>2, <3>1
  <2>3. CASE k # i + n
    <3>1. p2[k] = p[k]
      BY <1>4, <1>5, <2>1, <2>3
    <3>2. k < i + (n + 1) <=> k < i + n
      BY <2>1, <2>3
    <3>3. p[k] = IF k >= i /\ k < i + n THEN q[Len(q) - (k - i)] ELSE q[k]
      BY <1>2, <2>1
    <3>4. r[k] = IF k >= i /\ k < i + (n + 1) THEN q[Len(q) - (k - i)] ELSE q[k]
      BY <1>3, <2>1
    <3> QED BY <3>1, <3>2, <3>3, <3>4
  <2> QED BY <2>2, <2>3
<1>8. Len(p2) = Len(r)
  BY <1>1, <1>2, <1>3, <1>5
<1>9. p2 = r
  BY <1>3, <1>5, <1>7, <1>8, SeqEqual
<1> QED BY <1>9 DEF p1, p2, r, Erased

LEMMA NoneErased ==
    ASSUME NEW q \in Seq(Elements), NEW i \in Nat \ {0}, i <= Len(q) + 1
    PROVE  Without(q, i, 0) = q
<1> DEFINE p == Without(q, i, 0)
<1>1. /\ p \in Seq(Elements) /\ Len(p) = Len(q) - 0
      /\ \A k \in 1 .. Len(q) - 0 : p[k] = IF k >= i /\ k < i + 0 THEN q[Len(q) - (k - i)] ELSE q[k]
  BY WithoutIs
<1> HIDE DEF p
<1>2. Len(p) = Len(q) /\ \A k \in 1 .. Len(p) : p[k] = q[k]
  BY <1>1
<1>3. p = q
  BY <1>1, <1>2, SeqEqual
<1> QED BY <1>3 DEF p

\* A step that breaks the containers, or is made when they are broken.
LEMMA EraseBroken ==
    ASSUME NEW w, NEW c \in Names, NEW i, "broken" \in DOMAIN w, w.broken = TRUE \/ w[c].cells[i] = RawCell,
           NEW u, u = vector_erase(w, c, i)
    PROVE  "broken" \in DOMAIN u /\ u.broken = TRUE
<1> DEFINE last == w[c].end
           v1 == assign_at(w, c, i, w[c].cells[last])
           v2 == destruct_at(v1, c, last)
<1>1. "broken" \in DOMAIN v1 /\ v1.broken = TRUE
  BY DEF assign_at, Names
<1> HIDE DEF v1
<1>2. "broken" \in DOMAIN v2 /\ v2.broken = TRUE
  BY <1>1 DEF destruct_at, Names
<1> HIDE DEF v2
<1>3. u = SetEnd(v2, c, last - 1)
  BY DEF vector_erase, v1, v2
<1> QED BY <1>2, <1>3 DEF SetEnd, Names

\* The function that erase_range names.
Erasures(f, w, c, i, n) == f = [k \in 0 .. n |-> IF k = 0 THEN w ELSE vector_erase(f[k - 1], c, i + k - 1)]

LEMMA ErasuresExist ==
    ASSUME NEW w, NEW c, NEW i, NEW n \in Nat
    PROVE  \E f : Erasures(f, w, c, i, n)
<1> DEFINE T == {m \in Nat : ~\E f : Erasures(f, w, c, i, m)}
<1>1. SUFFICES ASSUME T # {} PROVE FALSE
  OBVIOUS
<1>2. PICK m \in T : \A l \in T : m <= l
  BY <1>1, SmallestOf
<1>3. CASE m = 0
  <2> DEFINE f == [k \in {0} |-> w]
  <2>1. 0 .. 0 = {0}
    OBVIOUS
  <2>2. f = [k \in 0 .. 0 |-> IF k = 0 THEN w ELSE vector_erase(f[k - 1], c, i + k - 1)]
    BY <2>1
  <2>3. Erasures(f, w, c, i, 0)
    BY <2>2, Zenon DEF Erasures
  <2> QED BY <1>2, <1>3, <2>3
<1>4. CASE m # 0
  <2>1. m \in Nat /\ m - 1 \in Nat /\ m - 1 \notin T
    BY <1>2, <1>4
  <2>2. PICK g : Erasures(g, w, c, i, m - 1)
    BY <2>1
  <2> DEFINE f == [k \in 0 .. m |-> IF k = m THEN vector_erase(g[m - 1], c, i + m - 1) ELSE g[k]]
  <2>3. g = [k \in 0 .. m - 1 |-> IF k = 0 THEN w ELSE vector_erase(g[k - 1], c, i + k - 1)]
    BY <2>2, Zenon DEF Erasures
  <2>4. ASSUME NEW k \in 0 .. m
        PROVE  f[k] = IF k = 0 THEN w ELSE vector_erase(f[k - 1], c, i + k - 1)
    <3>1. CASE k = m
      <4>1. k - 1 \in 0 .. m /\ k - 1 # m /\ k # 0
        BY <1>4, <2>1, <3>1
      <4>2. f[k - 1] = g[m - 1]
        BY <3>1, <4>1
      <4> QED BY <3>1, <4>1, <4>2
    <3>2. CASE k # m /\ k = 0
      <4>1. 0 \in 0 .. m - 1
        BY <2>1
      <4>2. g[0] = w
        BY <2>3, <4>1
      <4> QED BY <3>2, <4>2
    <3>3. CASE k # m /\ k # 0
      <4>1. k \in 0 .. m - 1 /\ k - 1 \in 0 .. m /\ k - 1 # m /\ k # 0
        BY <2>1, <3>3
      <4>2. g[k] = vector_erase(g[k - 1], c, i + k - 1)
        BY <2>3, <4>1
      <4>3. f[k - 1] = g[k - 1] /\ f[k] = g[k]
        BY <3>3, <4>1
      <4> QED BY <4>1, <4>2, <4>3
    <3> QED BY <3>1, <3>2, <3>3
  <2>5. f = [k \in 0 .. m |-> f[k]]
    OBVIOUS
  <2> HIDE DEF f
  <2>6. f = [k \in 0 .. m |-> IF k = 0 THEN w ELSE vector_erase(f[k - 1], c, i + k - 1)]
    BY <2>4, <2>5, Zenon
  <2>7. Erasures(f, w, c, i, m)
    BY <2>6, Zenon DEF Erasures
  <2> QED BY <1>2, <2>7
<1> QED BY <1>3, <1>4

\* A range is erased, one element after the other; it breaks the vector exactly if the range overlaps what is to fill it.
LEMMA EraseRangeIs ==
    ASSUME NEW w \in BoxState, NEW c \in Names, w[c].kind = "vector", NEW q, Holds(w[c], q),
           NEW i \in Nat \ {0}, NEW j \in Nat \ {0}, i < j, j <= Len(q) + 1, NEW u, u = erase_range(w, c, i, j)
    PROVE  IF Len(q) + 1 - (j - i) < j - 1 THEN "broken" \in DOMAIN u /\ u.broken = TRUE ELSE Becomes(w, u, c, Without(q, i, j - i))
<1> DEFINE n == j - i
           Good(m) == i + m <= Len(q) + 2 - m
           Fine(v, m) == Becomes(w, v, c, Without(q, i, m)) /\ Cap(v[c]) = Cap(w[c])
           Bad(v) == "broken" \in DOMAIN v /\ v.broken = TRUE
           S(v, m) == IF m = 0 \/ Good(m) THEN Fine(v, m) ELSE Bad(v)
<1>1. q \in Seq(Elements) /\ Len(q) \in Nat /\ Len(q) <= Cap(w[c]) /\ n \in Nat /\ n # 0 /\ n <= Len(q) /\ i + n = j
  BY HoldsIs
<1>2. PICK f : Erasures(f, w, c, i, n)
  BY <1>1, ErasuresExist
<1> DEFINE erased == CHOOSE h : Erasures(h, w, c, i, n)
<1>3. Erasures(erased, w, c, i, n)
  <2> HIDE DEF n
  <2> QED BY <1>2, Zenon
<1>4. u = erased[n]
  BY Zenon DEF erase_range, Erasures
<1> HIDE DEF erased
<1>5. /\ erased[0] = w
      /\ \A k \in 0 .. n : k # 0 => erased[k] = vector_erase(erased[k - 1], c, i + k - 1)
  <2>1. erased = [k \in 0 .. n |-> IF k = 0 THEN w ELSE vector_erase(erased[k - 1], c, i + k - 1)]
    BY <1>3, Zenon DEF Erasures
  <2>2. 0 \in 0 .. n
    BY <1>1
  <2> HIDE DEF n
  <2>3. \A k \in 0 .. n : erased[k] = IF k = 0 THEN w ELSE vector_erase(erased[k - 1], c, i + k - 1)
    BY <2>1
  <2> QED BY <2>2, <2>3
<1> HIDE DEF n, Fine, Bad
<1>6. S(erased[0], 0)
  <2>1. Without(q, i, 0) = q
    BY <1>1, NoneErased
  <2>2. Becomes(w, w, c, q)
    BY DEF Becomes, Touched
  <2> QED BY <1>5, <2>1, <2>2 DEF Fine
<1>7. ASSUME NEW m \in 0 .. n - 1, S(erased[m], m)
      PROVE  S(erased[m + 1], m + 1)
  <2> DEFINE v == erased[m]
             x == erased[m + 1]
  <2>1. m \in Nat /\ m < n /\ m < Len(q) /\ i + m < j /\ m + 1 \in 0 .. n /\ m + 1 # 0
    BY <1>1
  <2>2. x = vector_erase(v, c, i + m)
    <3>1. (m + 1) - 1 = m /\ i + (m + 1) - 1 = i + m
      BY <1>1, <2>1
    <3> QED BY <1>5, <2>1, <3>1
  <2> HIDE DEF v, x
  <2>3. S(v, m)
    BY <1>7 DEF v
  <2>4. CASE Good(m + 1)
    <3>1. Good(m) /\ i + m <= Len(q) - m /\ m <= Len(q) /\ i + m <= Len(q) + 1
      BY <1>1, <2>1, <2>4
    <3>2. Fine(v, m)
      BY <2>3, <3>1
    <3> DEFINE p == Without(q, i, m)
    <3>3. p \in Seq(Elements) /\ Len(p) = Len(q) - m
      BY <1>1, <2>1, <3>1, WithoutIs
    <3>4. Erased(p, i + m) = Without(q, i, m + 1)
      <4> HIDE DEF p
      <4>1. p = Without(q, i, m) /\ q \in Seq(Elements) /\ m \in Nat /\ m < Len(q) /\ i + m <= Len(q) - m
        BY <1>1, <2>1, <3>1 DEF p
      <4> QED BY <4>1, OneMoreErased
    <3> HIDE DEF p
    <3>5. v \in BoxState /\ Holds(v[c], p) /\ v[c].kind = "vector" /\ v.broken = w.broken /\ Touched(w, v, c) /\ Cap(v[c]) = Cap(w[c])
      BY <3>2, BecomesIs DEF Fine, p
    <3>6. i + m \in 1 .. Len(p)
      <4>1. i + m \in Nat /\ i + m >= 1 /\ Len(q) - m \in Int
        BY <1>1, <2>1
      <4> QED BY <3>1, <3>3, <4>1
    <3>7. Becomes(v, x, c, Without(q, i, m + 1)) /\ Cap(x[c]) = Cap(v[c])
      <4>1. Becomes(v, x, c, Erased(p, i + m)) /\ Cap(x[c]) = Cap(v[c])
        BY <2>2, <3>5, <3>6, EraseIs
      <4> QED BY <3>4, <4>1
    <3>8. Touched(w, x, c)
      BY <3>5, <3>7, TouchedTwice DEF Becomes
    <3>9. Fine(x, m + 1)
      BY <3>5, <3>7, <3>8 DEF Fine, Becomes
    <3> QED BY <2>4, <3>9 DEF x
  <2>5. CASE ~Good(m + 1)
    <3>1. Bad(x)
      <4>1. CASE m = 0 \/ Good(m)
        <5>1. Fine(v, m)
          BY <2>3, <4>1
        <5>2. m <= Len(q) /\ i + m <= Len(q) + 1
          BY <1>1, <2>1
        <5> DEFINE p == Without(q, i, m)
        <5>3. p \in Seq(Elements) /\ Len(p) = Len(q) - m
          BY <1>1, <2>1, <5>2, WithoutIs
        <5> HIDE DEF p
        <5>4. v \in BoxState /\ Holds(v[c], p) /\ Cap(v[c]) = Cap(w[c])
          BY <5>1, BecomesIs DEF Fine, p
        <5>5. i + m \in 1 .. Cap(v[c]) /\ ~(i + m <= Len(p))
          <6>1. Cap(v[c]) = Cap(w[c]) /\ Cap(w[c]) \in Nat
            BY <5>4, NamesOfBoxes
          <6>2. i + m <= Len(q) /\ i + m \in Nat /\ i + m >= 1
            BY <1>1, <2>1
          <6>3. i + m > Len(q) - m
            BY <1>1, <2>1, <2>5
          <6>4. Len(p) = Len(q) - m /\ Len(q) \in Nat /\ Len(q) <= Cap(w[c]) /\ m \in Nat
            BY <1>1, <2>1, <5>3
          <6> QED BY <6>1, <6>2, <6>3, <6>4
        <5>6. v[c].cells[i + m] = RawCell
          BY <5>4, <5>5, RawBehind
        <5>7. "broken" \in DOMAIN v
          BY <5>4 DEF BoxState
        <5> QED BY <2>2, <5>6, <5>7, EraseBroken DEF Bad
      <4>2. CASE ~(m = 0 \/ Good(m))
        <5>1. Bad(v)
          BY <2>3, <4>2
        <5> QED BY <2>2, <5>1, EraseBroken DEF Bad
      <4> QED BY <4>1, <4>2
    <3> QED BY <2>1, <2>5, <3>1 DEF x
  <2> QED BY <2>4, <2>5
<1> DEFINE T == {m \in 0 .. n : ~S(erased[m], m)}
<1> HIDE DEF S
<1>8. S(erased[n], n)
  <2>1. SUFFICES ASSUME T # {} PROVE FALSE
    BY <1>1
  <2>2. T \subseteq Nat
    BY <1>1
  <2> HIDE DEF T
  <2>3. PICK m \in T : \A l \in T : m <= l
    BY <2>1, <2>2, SmallestOf
  <2>4. m \in 0 .. n /\ ~S(erased[m], m)
    BY DEF T
  <2>5. m # 0
    BY <1>6, <2>4
  <2>6. m - 1 \in 0 .. n /\ m - 1 \in 0 .. n - 1 /\ (m - 1) + 1 = m /\ m - 1 \notin T
    BY <1>1, <2>3, <2>4, <2>5
  <2>7. S(erased[m - 1], m - 1)
    BY <2>6 DEF T
  <2>8. S(erased[(m - 1) + 1], (m - 1) + 1)
    BY <1>7, <2>6, <2>7
  <2> QED BY <2>4, <2>6, <2>8
<1>9. Good(n) <=> ~(Len(q) + 1 - (j - i) < j - 1)
  BY <1>1 DEF n
<1> QED BY <1>1, <1>4, <1>8, <1>9 DEF S, Fine, Bad, n

\* What comes after the range, where the range was.
MoveDown(q, i, j, left) ==
    [k \in 1 .. Len(q) |-> IF k \in i .. left THEN q[k + (j - i)] ELSE IF k \in j .. Len(q) THEN MovedFrom ELSE q[k]]

Leaves(q, i, j, left) ==
    /\ q \in Seq(Elements) /\ i \in Nat \ {0} /\ j \in Nat \ {0} /\ i < j /\ j <= Len(q) + 1
    /\ left = Len(q) - (j - i)

IsMovedDown(p, q, i, j, left) ==
    /\ p \in Seq(Elements) /\ Len(p) = Len(q) /\ left \in 0 .. Len(q)
    /\ SubSeq(p, 1, left) = SubSeq(q, 1, i - 1) \o SubSeq(q, j, Len(q))
    /\ Len(SubSeq(p, 1, left)) = left

LEMMA MovedDown ==
    ASSUME NEW q, NEW i, NEW j, NEW left, Leaves(q, i, j, left)
    PROVE  IsMovedDown(MoveDown(q, i, j, left), q, i, j, left)
<1> DEFINE p == MoveDown(q, i, j, left)
<1>0. /\ q \in Seq(Elements) /\ i \in Nat \ {0} /\ j \in Nat \ {0} /\ i < j /\ j <= Len(q) + 1
      /\ left = Len(q) - (j - i)
  BY DEF Leaves
<1>1. Len(q) \in Nat /\ left \in 0 .. Len(q) /\ i - 1 <= left /\ i - 1 \in 0 .. Len(q) /\ left \in Nat
  BY <1>0
<1>2. ASSUME NEW k \in 1 .. Len(q)
      PROVE  (IF k \in i .. left THEN q[k + (j - i)] ELSE IF k \in j .. Len(q) THEN MovedFrom ELSE q[k]) \in Elements
  <2>1. k \in i .. left => k + (j - i) \in 1 .. Len(q)
    BY <1>0, <1>1
  <2>2. MovedFrom \in Elements
    BY DEF MovedFrom, Elements, RawCell
  <2> QED BY <1>0, <2>1, <2>2
<1>3. p \in Seq(Elements) /\ Len(p) = Len(q)
  BY <1>0, <1>1, <1>2 DEF MoveDown
<1> HIDE DEF p
<1>4. \A k \in 1 .. Len(q) : p[k] = IF k \in i .. left THEN q[k + (j - i)] ELSE IF k \in j .. Len(q) THEN MovedFrom ELSE q[k]
  BY DEF MoveDown, p
<1> DEFINE s == SubSeq(p, 1, left)
           a == SubSeq(q, 1, i - 1)
           b == SubSeq(q, j, Len(q))
           r == a \o b
<1>5. s \in Seq(Elements) /\ Len(s) = left /\ \A k \in 1 .. left : s[k] = p[k]
  <2>1. left \in Nat /\ left <= Len(p)
    BY <1>1, <1>3
  <2> QED BY <1>3, <2>1, PrefixIs
<1>6. a \in Seq(Elements) /\ Len(a) = i - 1 /\ \A k \in 1 .. i - 1 : a[k] = q[k]
  <2>1. i - 1 \in Nat /\ i - 1 <= Len(q)
    BY <1>0, <1>1
  <2> QED BY <1>0, <2>1, PrefixIs
<1>7. b \in Seq(Elements) /\ Len(b) = left - (i - 1) /\ \A k \in 1 .. left - (i - 1) : b[k] = q[k + j - 1]
  <2>1. CASE j <= Len(q)
    <3>1. b \in Seq(Elements) /\ Len(b) = Len(q) - j + 1 /\ \A k \in 1 .. Len(q) - j + 1 : b[k] = q[j + k - 1]
      BY <1>0, <2>1, SuffixIs
    <3>2. Len(q) - j + 1 = left - (i - 1) /\ \A k \in 1 .. left - (i - 1) : j + k - 1 = k + j - 1
      BY <1>0, <1>1
    <3> HIDE DEF b
    <3> QED BY <3>1, <3>2
  <2>2. CASE j = Len(q) + 1
    <3>1. b = <<>> /\ left - (i - 1) = 0
      BY <1>0, <1>1, <2>2
    <3> HIDE DEF b
    <3>2. \A k \in 1 .. left - (i - 1) : FALSE
      BY <3>1
    <3> QED BY <3>1, <3>2
  <2> QED BY <1>0, <1>1, <2>1, <2>2
<1> HIDE DEF a, b, s
<1>8. r \in Seq(Elements) /\ Len(r) = Len(a) + Len(b) /\ \A k \in 1 .. Len(a) + Len(b) : r[k] = IF k <= Len(a) THEN a[k] ELSE b[k - Len(a)]
  BY <1>6, <1>7, ConcatIs
<1>9. ASSUME NEW k \in 1 .. left
      PROVE  s[k] = r[k]
  <2>1. k \in 1 .. Len(q) /\ k \in 1 .. Len(a) + Len(b)
    BY <1>0, <1>1, <1>6, <1>7
  <2>2. CASE k <= i - 1
    <3>1. ~(k \in i .. left) /\ ~(k \in j .. Len(q)) /\ k \in 1 .. i - 1
      BY <1>0, <1>1, <2>2
    <3> QED BY <1>4, <1>5, <1>6, <1>8, <2>1, <2>2, <3>1
  <2>3. CASE ~(k <= i - 1)
    <3>1. k \in i .. left /\ k - (i - 1) \in 1 .. left - (i - 1) /\ (k - (i - 1)) + j - 1 = k + (j - i)
      BY <1>0, <1>1, <2>3
    <3>2. r[k] = b[k - (i - 1)]
      BY <1>6, <1>8, <2>1, <2>3
    <3>3. b[k - (i - 1)] = q[(k - (i - 1)) + j - 1]
      BY <1>7, <3>1
    <3>4. s[k] = q[k + (j - i)]
      BY <1>4, <1>5, <2>1, <3>1
    <3> QED BY <3>1, <3>2, <3>3, <3>4
  <2> QED BY <2>2, <2>3
<1> HIDE DEF r
<1>10. Len(r) = left
  BY <1>0, <1>1, <1>6, <1>7, <1>8
<1>11. s = r
  BY <1>5, <1>8, <1>9, <1>10, SeqEqual
<1> QED BY <1>0, <1>1, <1>3, <1>5, <1>11 DEF s, r, a, b, p, IsMovedDown

LEMMA EraseStableIs ==
    ASSUME NEW w \in BoxState, NEW c \in Names, w[c].kind = "vector", NEW q, Holds(w[c], q),
           NEW i \in Nat \ {0}, NEW j \in Nat \ {0}, i < j, j <= Len(q) + 1, NEW u, u = erase_stable(w, c, i, j)
    PROVE  Becomes(w, u, c, SubSeq(q, 1, i - 1) \o SubSeq(q, j, Len(q)))
<1> DEFINE cells == w[c].cells
           n == j - i
           left == w[c].end - n
           f == [k \in 1 .. Cap(w[c]) |-> IF k \in i .. left THEN cells[k + n]
                                          ELSE IF k \in j .. w[c].end /\ cells[k] # RawCell THEN MovedFrom ELSE cells[k]]
           P == \E k \in i .. left : cells[k] = RawCell \/ cells[k + n] = RawCell
           moved == [w EXCEPT ![c].cells = <<>> \o f, !.broken = @ \/ P]
           p == [k \in 1 .. Len(q) |-> IF k \in i .. left THEN q[k + n] ELSE IF k \in j .. Len(q) THEN MovedFrom ELSE q[k]]
           q2 == SubSeq(p, 1, left)
<1>1. q \in Seq(Elements) /\ Len(q) \in Nat /\ Len(q) <= Cap(w[c]) /\ Shape(w[c], q) /\ w[c].end = Len(q) /\ Cap(w[c]) \in Nat
      /\ \A k \in 1 .. Cap(w[c]) : cells[k] = IF k <= Len(q) THEN q[k] ELSE RawCell
  BY HoldsIs, NamesOfBoxes
<1>2. left = Len(q) - (j - i) /\ left \in Int /\ n \in Nat
  BY <1>1
<1>3. /\ p \in Seq(Elements) /\ Len(p) = Len(q) /\ left \in 0 .. Len(q)
      /\ q2 = SubSeq(q, 1, i - 1) \o SubSeq(q, j, Len(q)) /\ Len(q2) = left
  <2> HIDE DEF left
  <2>1. p = MoveDown(q, i, j, left)
    BY DEF MoveDown
  <2> HIDE DEF p
  <2>2. Leaves(q, i, j, left)
    BY <1>1, <1>2 DEF Leaves
  <2>3. IsMovedDown(p, q, i, j, left)
    BY <2>1, <2>2, MovedDown
  <2> QED BY <2>3 DEF IsMovedDown
<1>4. \A k \in 1 .. Len(q) : p[k] = IF k \in i .. left THEN q[k + n] ELSE IF k \in j .. Len(q) THEN MovedFrom ELSE q[k]
  OBVIOUS
<1>5. u = SetEnd(destruct_range(moved, c, left + 1, Len(q)), c, left)
  BY <1>1, Zenon DEF erase_stable
<1> HIDE DEF p, q2
<1>6. ASSUME NEW k \in 1 .. Cap(w[c])
      PROVE  (IF k \in i .. left THEN cells[k + n]
              ELSE IF k \in j .. w[c].end /\ cells[k] # RawCell THEN MovedFrom ELSE cells[k])
             = IF k <= Len(p) THEN p[k] ELSE RawCell
  <2> HIDE DEF cells, n, left
  <2>1. k \in i .. left => k + n \in 1 .. Cap(w[c]) /\ k + n <= Len(q) /\ k <= Len(q)
    BY <1>1, <1>2 DEF n
  <2>2. CASE k \in i .. left
    <3>1. k \in 1 .. Len(q) /\ k + n \in 1 .. Len(q)
      BY <1>1, <2>1, <2>2
    <3>2. cells[k + n] = q[k + n]
      BY <3>1, CellIs DEF cells
    <3> QED BY <1>3, <1>4, <2>1, <2>2, <3>1, <3>2
  <2>3. CASE ~(k \in i .. left) /\ k <= Len(q)
    <3>1. k \in 1 .. Len(q)
      BY <2>3
    <3>2. cells[k] = q[k] /\ q[k] # RawCell
      BY <3>1, CellIs DEF cells
    <3> QED BY <1>1, <1>3, <1>4, <2>3, <3>1, <3>2
  <2>4. CASE ~(k <= Len(q))
    <3>1. ~(k \in i .. left) /\ ~(k \in j .. Len(q)) /\ cells[k] = RawCell
      BY <1>1, <2>1, <2>4
    <3> QED BY <1>1, <1>3, <2>4, <3>1
  <2> QED BY <2>2, <2>3, <2>4
<1>7. f = [k \in 1 .. Cap(w[c]) |-> IF k <= Len(p) THEN p[k] ELSE RawCell]
  BY <1>6, Zenon
<1>8. ~P
  <2>1. ASSUME NEW k \in i .. left
        PROVE  cells[k] # RawCell /\ cells[k + n] # RawCell
    <3>1. k \in i .. left
      BY <2>1
    <3> HIDE DEF left, cells
    <3>3. left + n = Len(q) /\ left \in Nat /\ n \in Nat
      BY <1>1, <1>2
    <3> HIDE DEF n
    <3>4. k \in 1 .. Len(q) /\ k + n \in 1 .. Len(q)
      BY <1>1, <3>1, <3>3
    <3>5. cells[k] = q[k] /\ q[k] # RawCell
      BY <3>4, CellIs DEF cells
    <3>6. cells[k + n] = q[k + n] /\ q[k + n] # RawCell
      BY <3>4, CellIs DEF cells
    <3> QED BY <3>5, <3>6
  <2> QED BY <2>1, Zenon
<1> HIDE DEF f, P, cells, n
<1>9. moved = Put(w, c, <<>> \o f)
  <2>1. CASE c = "a"
    BY <1>8, <2>1 DEF BoxState, Box, Put
  <2>2. CASE c = "b"
    BY <1>8, <2>2 DEF BoxState, Box, Put
  <2> QED BY <2>1, <2>2 DEF Names
<1> HIDE DEF moved
<1>10. Gets(w, moved, c, p)
  <2>1. Len(p) <= Cap(w[c])
    BY <1>1, <1>3
  <2> QED BY <1>1, <1>3, <1>7, <1>9, <2>1, CellsAre
<1>11. /\ moved \in BoxState /\ Shape(moved[c], p) /\ moved[c].kind = w[c].kind /\ moved[c].static = w[c].static
       /\ Cap(moved[c]) = Cap(w[c]) /\ moved.broken = w.broken /\ Touched(w, moved, c)
  BY <1>10, GetsIs
<1> DEFINE v == destruct_range(moved, c, left + 1, Len(p))
<1>12. Gets(moved, v, c, q2)
  <2> HIDE DEF left
  <2>1. left \in 0 .. Len(p)
    BY <1>3
  <2> QED BY <1>11, <2>1, DestructRange DEF q2
<1>13. u = SetEnd(v, c, Len(q2))
  BY <1>3, <1>5
<1> HIDE DEF v, left
<1>14. Becomes(moved, u, c, q2) /\ Cap(u[c]) = Cap(moved[c])
  BY <1>11, <1>12, <1>13, SetEndAfter
<1>15. Touched(w, u, c)
  BY <1>11, <1>14, TouchedTwice DEF Becomes
<1> QED BY <1>3, <1>11, <1>14, <1>15 DEF Becomes

-----------------------------------------------------------------------------
(* Copies and moves.                                                       *)

\* Two containers of the same kind, over the same storage.
Alike(x, y) == x.kind = y.kind /\ x.static = y.static /\ (x.static => Cap(x) = Cap(y))

LEMMA FullIs ==
    ASSUME NEW kind, NEW n \in Nat, NEW q \in Seq(Elements), kind = "array" => n = Len(q)
    PROVE  FullTo(kind, n, q) = q
<1>1. CASE kind = "array"
  <2>1. n - Len(q) = 0
    BY <1>1
  <2> QED BY <1>1, <2>1, NoneFresh DEF FullTo
<1> QED BY <1>1 DEF FullTo

\* A copy into what was emptied.
LEMMA CopyInto ==
    ASSUME NEW w \in BoxState, NEW c \in Names, NEW v \in BoxState, Touched(w, v, c), Shape(v[c], <<>>), v.broken = w.broken,
           NEW q \in Seq(Elements), Len(q) <= Cap(v[c]), w[c].kind = "array" => Cap(v[c]) = Len(q),
           w[c].static => Cap(v[c]) = Cap(w[c]),
           NEW u, u = copy(v, c, q)
    PROVE  Becomes(w, u, c, q)
<1>1. v[c].kind = w[c].kind /\ v[c].static = w[c].static
  BY DEF Touched
<1>2. FullTo(v[c].kind, Cap(v[c]), q) = q
  BY <1>1, FullIs, NamesOfBoxes
<1>3. Becomes(v, u, c, q) /\ Cap(u[c]) = Cap(v[c])
  BY <1>2, CopyIs
<1>4. Touched(w, u, c)
  BY <1>3, TouchedTwice DEF Becomes
<1> QED BY <1>1, <1>3, <1>4 DEF Becomes

LEMMA CopyAssignIs ==
    ASSUME NEW w \in BoxState, NEW c \in Names, NEW d \in Names, Alike(w[c], w[d]), NEW p, Holds(w[c], p),
           NEW q, Holds(w[d], q), c = d => q = <<>>, NEW u, u = copy_assign(w, c, d)
    PROVE  Becomes(w, u, c, IF fits(w[c], w[d]) \/ Allocates(w, c) THEN q ELSE <<>>)
<1> DEFINE e0 == destruct_range(w, c, 1, w[c].end)
           e == [e0 EXCEPT ![c].end = w[c].end]
           p0 == purge(w, c)
           n == Reserve(w[c], w[d].end)
           p1 == allocate(p0, c, n)
<1>1. /\ q \in Seq(Elements) /\ Len(q) \in Nat /\ Len(q) <= Cap(w[d]) /\ w[d].end = Len(q)
      /\ (w[d].kind = "array" => Cap(w[d]) = Len(q))
  BY HoldsIs DEF Holds, Cap
<1>2. Gets(w, e0, c, <<>>)
  BY Destructed
<1>3. u = IF fits(w[c], w[d]) THEN copy(e, c, Used(e[d]))
          ELSE IF Allocates(w, c) THEN copy(p1, c, Used(p1[d])) ELSE p1
  BY Zenon DEF copy_assign
<1> HIDE DEF e0
<1>4. /\ e0 \in BoxState /\ Shape(e0[c], <<>>) /\ e0[c].kind = w[c].kind /\ e0[c].static = w[c].static
      /\ Cap(e0[c]) = Cap(w[c]) /\ e0[c].end = w[c].end
      /\ e0.broken = w.broken /\ Touched(w, e0, c)
  BY <1>2, GetsIs
<1>5. e = e0
  <2>1. CASE c = "a"
    BY <1>4, <2>1 DEF BoxState, Box
  <2>2. CASE c = "b"
    BY <1>4, <2>2 DEF BoxState, Box
  <2> QED BY <2>1, <2>2 DEF Names
<1> HIDE DEF e
<1>6. CASE fits(w[c], w[d])
  <2>1. Used(e0[d]) = q
    <3>1. CASE c = d
      <4>1. w[d].end = 0 /\ Used(e0[d]) = SubSeq(e0[d].cells, 1, 0) /\ e0[d].cells \in Seq(Int)
        BY <1>1, <1>4, <3>1, NamesOfBoxes DEF Used
      <4>2. SubSeq(e0[d].cells, 1, 0) = <<>>
        BY <4>1
      <4> QED BY <3>1, <4>1, <4>2
    <3>2. CASE c # d
      <4>1. e0[d] = w[d] /\ w[d] \in Box
        BY <1>4, <3>2, NamesOfBoxes DEF Touched
      <4> QED BY <4>1, UsedIs
    <3> QED BY <3>1, <3>2
  <2>2. u = copy(e0, c, q)
    BY <1>3, <1>5, <1>6, <2>1
  <2>3. Len(q) <= Cap(e0[c]) /\ (w[c].kind = "array" => Cap(e0[c]) = Len(q))
    BY <1>1, <1>4, <1>6 DEF fits, Alike
  <2>4. Becomes(w, u, c, q)
    BY <1>1, <1>4, <2>2, <2>3, CopyInto
  <2> QED BY <1>6, <2>4
<1>7. CASE ~fits(w[c], w[d])
  <2>1. c # d /\ ~w[c].static
    <3>1. Cap(w[c]) \in Nat /\ Cap(w[d]) \in Nat
      BY NamesOfBoxes
    <3>2. Cap(w[c]) # Cap(w[d])
      BY <1>1, <1>7, <3>1 DEF fits
    <3> QED BY <3>2 DEF Alike
  <2>2. Emptied(w, p0, c, 0)
    BY <2>1, PurgeIs
  <2> HIDE DEF p0
  <2>3. p0 \in BoxState /\ Touched(w, p0, c) /\ p0.broken = w.broken /\ p0[c].static = w[c].static /\ p0.memory = w.memory
    BY <2>2 DEF Emptied, Touched
  <2>4. n \in Nat /\ Len(q) <= n /\ (w[c].kind = "array" => n = Len(q))
    BY <1>1, <2>1, ReserveIs, NamesOfBoxes
  <2> HIDE DEF n
  <2>5. Emptied(p0, p1, c, IF Allocates(w, c) THEN n ELSE 0)
    <3>1. Allocates(p0, c) = Allocates(w, c)
      BY <2>3 DEF Allocates
    <3> QED BY <2>3, <2>4, <3>1, AllocateIs
  <2> HIDE DEF p1
  <2>6. /\ p1 \in BoxState /\ Touched(p0, p1, c) /\ p1.broken = w.broken /\ Shape(p1[c], <<>>) /\ p1[c].end = 0
        /\ Cap(p1[c]) = IF Allocates(w, c) THEN n ELSE 0
    BY <2>3, <2>5 DEF Emptied, Touched
  <2>7. Touched(w, p1, c)
    BY <2>3, <2>6, TouchedTwice
  <2>8. CASE Allocates(w, c)
    <3>1. p1[d] = w[d] /\ w[d] \in Box
      BY <2>1, <2>7, NamesOfBoxes DEF Touched
    <3>2. u = copy(p1, c, q)
      BY <1>3, <1>7, <2>8, <3>1, UsedIs
    <3>3. Becomes(w, u, c, q)
      BY <1>1, <2>1, <2>4, <2>6, <2>7, <2>8, <3>2, CopyInto
    <3> QED BY <2>8, <3>3
  <2>9. CASE ~Allocates(w, c)
    <3>1. u = p1
      BY <1>3, <1>7, <2>9
    <3>2. Len(<<>>) = 0
      OBVIOUS
    <3>3. Holds(p1[c], <<>>)
      BY <2>6, <2>9, <3>2 DEF Holds, Cap
    <3>4. Becomes(w, u, c, <<>>)
      BY <2>1, <2>6, <2>7, <3>1, <3>3 DEF Becomes
    <3> QED BY <1>7, <2>9, <3>4
  <2> QED BY <2>8, <2>9
<1> QED BY <1>6, <1>7

\* Into itself: what is to be copied was destructed.
LEMMA CopyAssignSelf ==
    ASSUME NEW w \in BoxState, NEW c \in Names, NEW q, Holds(w[c], q), Len(q) # 0, NEW u, u = copy_assign(w, c, c)
    PROVE  u.broken = TRUE /\ "broken" \in DOMAIN u
<1> DEFINE e0 == destruct_range(w, c, 1, w[c].end)
           e == [e0 EXCEPT ![c].end = w[c].end]
           values == Used(e[c])
           v1 == construct_range(e, c, values)
           v2 == FilledUp(v1, c, Len(values))
<1>1. /\ q \in Seq(Elements) /\ Len(q) \in Nat /\ Len(q) <= Cap(w[c]) /\ w[c].end = Len(q) /\ Cap(w[c]) \in Nat
      /\ (w[c].kind = "array" => Cap(w[c]) = Len(q))
  BY HoldsIs, NamesOfBoxes DEF Holds, Cap
<1>2. Gets(w, e0, c, <<>>)
  BY Destructed
<1>3. u = SetEnd(v2, c, Len(values))
  <2>1. fits(w[c], w[c])
    BY <1>1 DEF fits
  <2> QED BY <2>1, Zenon DEF copy_assign, copy
<1> HIDE DEF e0
<1>4. /\ e0 \in BoxState /\ Shape(e0[c], <<>>) /\ Cap(e0[c]) = Cap(w[c]) /\ e0[c].end = Len(q)
  BY <1>1, <1>2, GetsIs
<1>5. e = e0
  <2>1. CASE c = "a"
    BY <1>1, <1>4, <2>1 DEF BoxState, Box
  <2>2. CASE c = "b"
    BY <1>1, <1>4, <2>2 DEF BoxState, Box
  <2> QED BY <2>1, <2>2 DEF Names
<1> HIDE DEF e
<1>6. /\ e0[c].cells \in Seq(Int) /\ Len(e0[c].cells) = Cap(w[c])
      /\ \A i \in 1 .. Cap(w[c]) : e0[c].cells[i] = RawCell
  <2>1. Len(<<>>) = 0
    OBVIOUS
  <2>2. e0[c].cells \in Seq(Int) /\ Len(e0[c].cells) = Cap(w[c])
    BY <1>4, NamesOfBoxes
  <2>3. ASSUME NEW i \in 1 .. Cap(w[c])
        PROVE  e0[c].cells[i] = RawCell
    <3>1. i \in 1 .. Len(e0[c].cells) /\ ~(i <= Len(<<>>))
      BY <1>1, <2>1, <2>2
    <3> QED BY <1>4, <3>1 DEF Shape
  <2> QED BY <2>2, <2>3
<1>7. Len(values) = Len(q) /\ values[1] = RawCell
  <2>1. values = SubSeq(e0[c].cells, 1, Len(q))
    BY <1>4, <1>5 DEF Used
  <2>2. 1 \in 1 .. Len(q) /\ 1 \in 1 .. Cap(w[c])
    BY <1>1
  <2> DEFINE s == e0[c].cells
  <2>3. s \in Seq(Int) /\ Len(q) <= Len(s) /\ s[1] = RawCell
    BY <1>1, <1>6, <2>2
  <2> HIDE DEF s
  <2>4. Len(SubSeq(s, 1, Len(q))) = Len(q) /\ SubSeq(s, 1, Len(q))[1] = s[1]
    BY <1>1, <2>2, <2>3
  <2> QED BY <2>1, <2>3, <2>4 DEF s
<1> HIDE DEF values
<1>8. "broken" \in DOMAIN e
  BY <1>4, <1>5 DEF BoxState
<1>9. "broken" \in DOMAIN v1 /\ v1.broken = TRUE
  <2>1. 1 \in 1 .. Len(values)
    BY <1>1, <1>7
  <2>2. \E i \in 1 .. Len(values) : values[i] = RawCell \/ (i <= Cap(e[c]) /\ e[c].cells[i] # RawCell)
    BY <1>7, <2>1
  <2> QED BY <1>8, <2>2 DEF construct_range, Names
<1> HIDE DEF v1
<1>10. "broken" \in DOMAIN v2 /\ v2.broken = TRUE
  BY <1>9 DEF FilledUp, construct_fill, Names
<1> HIDE DEF v2
<1> QED BY <1>3, <1>10 DEF SetEnd, Names

AllMoved(n) == [i \in 1 .. n |-> MovedFrom]

LEMMA AllMovedIs ==
    ASSUME NEW n \in Nat
    PROVE  AllMoved(n) \in Seq(Elements) /\ Len(AllMoved(n)) = n /\ \A i \in 1 .. n : AllMoved(n)[i] = MovedFrom
BY DEF AllMoved, Elements, MovedFrom, RawCell

\* What a container that held q is left with.
LeftBehind(x, q) == IF x.static THEN AllMoved(Len(q)) ELSE <<>>

LEMMA MoveAssignIs ==
    ASSUME NEW w \in BoxState, NEW c \in Names, NEW d \in Names, c # d, Alike(w[c], w[d]), NEW p, Holds(w[c], p),
           NEW q, Holds(w[d], q), NEW u, u = move_assign(w, c, d)
    PROVE  /\ u \in BoxState /\ u.broken = w.broken
           /\ Holds(u[c], q) /\ Holds(u[d], LeftBehind(w[d], q))
           /\ u[c].kind = w[c].kind /\ u[c].static = w[c].static /\ u[d].kind = w[d].kind /\ u[d].static = w[d].static
           /\ w[c].static => Cap(u[c]) = Cap(w[c]) /\ Cap(u[d]) = Cap(w[d])
<1>1. /\ q \in Seq(Elements) /\ Len(q) \in Nat /\ Len(q) <= Cap(w[d]) /\ w[d].end = Len(q) /\ w[d] \in Box
      /\ (w[d].kind = "array" => Cap(w[d]) = Len(q)) /\ w[d].cells \in Seq(Int) /\ w[d].end \in Nat
  BY HoldsIs, NamesOfBoxes DEF Holds, Cap
<1>2. CASE ~w[c].static
  <2> DEFINE p0 == purge(w, c)
             p1 == PutBoth(p0, c, p0[d].cells, p0[d].end)
  <2>1. Emptied(w, p0, c, 0)
    BY <1>2, PurgeIs
  <2>2. u = [p0 EXCEPT ![c].cells = p0[d].cells, ![c].end = p0[d].end, ![d].cells = <<>>, ![d].end = 0]
    BY <1>2, Zenon DEF move_assign
  <2> HIDE DEF p0
  <2>3. /\ p0 \in BoxState /\ Touched(w, p0, c) /\ p0.broken = w.broken /\ p0[c].static = w[c].static /\ p0[c].kind = w[c].kind
        /\ p0[d] = w[d]
    BY <2>1 DEF Emptied, Touched
  <2>4. u = PutBoth(p1, d, <<>>, 0)
    BY <2>2, Zenon DEF PutBoth
  <2> HIDE DEF p1
  <2>5. /\ Touched(p0, p1, c)
        /\ p1[c].cells = w[d].cells /\ p1[c].end = w[d].end /\ p1.broken = p0.broken
    BY <1>1, <2>3, CellsAndEndChanged DEF p1
  <2>6. p1 \in BoxState /\ p1.broken = w.broken /\ p1[c].static = w[c].static /\ p1[c].kind = w[c].kind /\ p1[d] = w[d]
    BY <2>3, <2>5 DEF Touched
  <2>7. Emptied(p1, u, d, 0)
    BY <2>4, <2>6, NoCells
  <2>8. u \in BoxState /\ u.broken = w.broken /\ u[c] = p1[c] /\ u[d].kind = w[d].kind /\ u[d].static = w[d].static
    BY <2>6, <2>7 DEF Emptied, Touched
  <2>9. Holds(u[c], q)
    <3>1. u[c].cells = w[d].cells /\ u[c].end = w[d].end /\ u[c].kind = w[d].kind
      BY <2>5, <2>6, <2>8 DEF Alike
    <3> QED BY <3>1 DEF Holds, Shape
  <2>10. Holds(u[d], <<>>)
    <3>1. Len(<<>>) = 0
      OBVIOUS
    <3> QED BY <2>7, <3>1 DEF Emptied, Holds, Cap
  <2>11. ~w[d].static
    BY <1>2 DEF Alike
  <2>12. LeftBehind(w[d], q) = <<>>
    BY <2>11 DEF LeftBehind
  <2> QED BY <1>2, <2>6, <2>8, <2>9, <2>10, <2>12
<1>3. CASE w[c].static
  <2> DEFINE e0 == destruct_range(w, c, 1, w[c].end)
             v == copy(e0, c, Used(e0[d]))
             f == [i \in 1 .. Cap(v[d]) |-> IF i <= v[d].end /\ v[d].cells[i] # RawCell THEN MovedFrom ELSE v[d].cells[i]]
             s == <<>> \o f
             r == AllMoved(Len(q))
  <2>1. u = Put(v, d, s)
    BY <1>3, Zenon DEF move_assign, Put
  <2>2. Gets(w, e0, c, <<>>)
    BY Destructed
  <2> HIDE DEF e0
  <2>3. /\ e0 \in BoxState /\ Shape(e0[c], <<>>) /\ Cap(e0[c]) = Cap(w[c])
        /\ e0.broken = w.broken /\ Touched(w, e0, c) /\ e0[d] = w[d]
    BY <2>2, GetsIs DEF Touched
  <2>4. Used(e0[d]) = q
    BY <1>1, <2>3, UsedIs
  <2>5. Len(q) <= Cap(e0[c]) /\ (w[c].kind = "array" => Cap(e0[c]) = Len(q))
    BY <1>1, <1>3, <2>3 DEF Alike
  <2>6. Becomes(w, v, c, q)
    BY <1>1, <2>3, <2>4, <2>5, CopyInto
  <2> HIDE DEF v
  <2>7. /\ v \in BoxState /\ Holds(v[c], q) /\ v[c].kind = w[c].kind /\ v[c].static = w[c].static
        /\ v.broken = w.broken /\ Cap(v[c]) = Cap(w[c]) /\ v[d] = w[d]
    <3>1. /\ v \in BoxState /\ Holds(v[c], q) /\ v[c].kind = w[c].kind /\ v[c].static = w[c].static
          /\ v.broken = w.broken /\ Touched(w, v, c)
          /\ (w[c].static => Cap(v[c]) = Cap(w[c]))
      BY <2>6, BecomesIs
    <3>2. v[d] = w[d]
      BY <3>1 DEF Touched
    <3> QED BY <1>3, <3>1, <3>2
  <2>8. /\ Cap(w[d]) \in Nat /\ Cap(w[d]) = Len(w[d].cells)
        /\ \A i \in 1 .. Cap(w[d]) : w[d].cells[i] = IF i <= Len(q) THEN q[i] ELSE RawCell
    BY HoldsIs, NamesOfBoxes
  <2>9. r \in Seq(Elements) /\ Len(r) = Len(q) /\ \A i \in 1 .. Len(q) : r[i] = MovedFrom
    BY <1>1, AllMovedIs
  <2> HIDE DEF r
  <2>10. ASSUME NEW i \in 1 .. Cap(v[d])
         PROVE  (IF i <= v[d].end /\ v[d].cells[i] # RawCell THEN MovedFrom ELSE v[d].cells[i]) = IF i <= Len(r) THEN r[i] ELSE RawCell
    <3>1. i \in 1 .. Cap(w[d]) /\ v[d].end = Len(q) /\ v[d].cells[i] = w[d].cells[i]
      BY <1>1, <2>7
    <3>2. CASE i <= Len(q)
      <4>1. i \in 1 .. Len(q) /\ q[i] # RawCell
        BY <1>1, <3>1, <3>2 DEF Elements
      <4> QED BY <2>8, <2>9, <3>1, <3>2, <4>1
    <3>3. CASE ~(i <= Len(q))
      BY <2>8, <2>9, <3>1, <3>3
    <3> QED BY <3>2, <3>3
  <2>11. f = [i \in 1 .. Cap(v[d]) |-> IF i <= Len(r) THEN r[i] ELSE RawCell]
    BY <2>10, Zenon
  <2> HIDE DEF f
  <2>12. Shape(v[d], q) /\ Len(r) <= Cap(v[d])
    BY <1>1, <2>7, <2>9 DEF Holds
  <2>13. Gets(v, u, d, r)
    BY <2>1, <2>7, <2>9, <2>11, <2>12, CellsAre
  <2>14. /\ u \in BoxState /\ Shape(u[d], r) /\ u[d].kind = w[d].kind /\ u[d].static = w[d].static
         /\ Cap(u[d]) = Cap(w[d]) /\ u[d].end = w[d].end
         /\ u.broken = w.broken /\ u[c] = v[c]
    <3>1. Touched(v, u, d)
      BY <2>13 DEF Gets
    <3> QED BY <2>7, <2>13, <3>1 DEF Gets, Touched
  <2>15. Holds(u[d], r)
    BY <1>1, <2>9, <2>14 DEF Holds, Cap
  <2>16. w[d].static
    BY <1>3 DEF Alike
  <2>17. LeftBehind(w[d], q) = r
    BY <2>16 DEF LeftBehind, r
  <2> QED BY <2>7, <2>14, <2>15, <2>17
<1> QED BY <1>2, <1>3

\* An array that becomes smaller is overrun.
LEMMA ShrinkBreaks ==
    ASSUME NEW w \in BoxState, NEW c \in Names, w[c].kind = "array", NEW q, Holds(w[c], q), NEW n \in Nat, n < Len(q),
           NEW u, u = try_reallocate(w, c, n)
    PROVE  /\ u.result = (~w[c].static /\ w.memory)
           /\ IF u.result THEN u.broken = TRUE ELSE Becomes(w, u, c, q)
<1>1. CASE w[c].static \/ ~w.memory
  <2>1. u = [w EXCEPT !.result = FALSE]
    BY <1>1 DEF try_reallocate
  <2>2. Touched(w, u, c) /\ u[c] = w[c] /\ u.broken = w.broken /\ u.result = FALSE
    <3>1. CASE c = "a"
      BY <2>1, <3>1 DEF BoxState, Box, Names, Touched
    <3>2. CASE c = "b"
      BY <2>1, <3>2 DEF BoxState, Box, Names, Touched
    <3> QED BY <3>1, <3>2 DEF Names
  <2> QED BY <1>1, <2>2 DEF Becomes
<1>2. CASE ~(w[c].static \/ ~w.memory)
  <2> DEFINE fresh == PutBoth(w, c, RawCells(Reserve(w[c], n)), 0)
             v1 == construct_range(fresh, c, q)
             v2 == FilledUp(v1, c, Len(q))
             v3 == SetEnd(v2, c, Len(q))
  <2>1. Used(w[c]) = q /\ q \in Seq(Elements) /\ Len(q) \in Nat /\ w[c] \in Box
    BY UsedIs, NamesOfBoxes DEF Holds, Shape
  <2>2. u = [v3 EXCEPT !.result = TRUE]
    BY <1>2, <2>1 DEF try_reallocate, Relocated, PutBoth, copy
  <2>3. Reserve(w[c], n) = n
    BY <1>2, <2>1, ReserveIs
  <2>4. Emptied(w, fresh, c, n)
    BY <2>3, NewCells
  <2> HIDE DEF fresh
  <2>5. fresh \in BoxState /\ Len(q) > Cap(fresh[c])
    BY <2>1, <2>4 DEF Emptied, Touched
  <2>6. "broken" \in DOMAIN v1 /\ v1.broken = TRUE /\ "result" \in DOMAIN v1
    BY <2>5 DEF construct_range, Names, BoxState
  <2> HIDE DEF v1
  <2>7. "broken" \in DOMAIN v2 /\ v2.broken = TRUE /\ "result" \in DOMAIN v2
    BY <2>6 DEF FilledUp, construct_fill, Names
  <2> HIDE DEF v2
  <2>8. "broken" \in DOMAIN v3 /\ v3.broken = TRUE /\ "result" \in DOMAIN v3
    BY <2>7 DEF SetEnd, Names
  <2> HIDE DEF v3
  <2>9. u.broken = TRUE /\ u.result = TRUE
    BY <2>2, <2>8
  <2> QED BY <1>2, <2>9
<1> QED BY <1>1, <1>2

-----------------------------------------------------------------------------
(* The invariant.                                                          *)

\* Nothing is broken, the containers are of one kind, and each holds its contents.
Sound ==
    /\ box \in BoxState /\ box.broken = FALSE
    /\ Alike(box["a"], box["b"])
    /\ contents = [c \in Names |-> contents[c]]
    /\ \A c \in Names : Holds(box[c], contents[c])

\* The inductive invariant: until the containers are misused they are sound, and then
\* one of them is broken.
ContainersInv ==
    /\ ncalls \in Nat
    /\ IF misused = {} THEN Sound ELSE box.broken = TRUE

\* The containers before a call, with memory or without.
Given(w) == w \in BoxState /\ w.broken = box.broken /\ \A c \in Names : w[c] = box[c]

LEMMA GivenIs ==
    ASSUME Sound
    PROVE  /\ Given(box)
           /\ \A m \in BOOLEAN : Given(WithMemory(m)) /\ WithMemory(m).memory = m
BY DEF Sound, Given, WithMemory, BoxState, Names

\* A call on one of the containers.
LEMMA CallIs ==
    ASSUME Sound, NEW w, Given(w), NEW c \in Names, NEW u, NEW q, Becomes(w, u, c, q), Call(u, c, q)
    PROVE  Sound'
<1>1. u \in BoxState /\ u.broken = FALSE /\ Touched(w, u, c) /\ Holds(u[c], q) /\ (w[c].static => Cap(u[c]) = Cap(w[c]))
      /\ u[c].kind = w[c].kind /\ u[c].static = w[c].static
  BY DEF Becomes, Touched, Given, Sound
<1>2. box' \in BoxState /\ box'.broken = FALSE /\ \A d \in Names : box'[d] = u[d]
  BY <1>1 DEF Call, BoxState, Names
<1>3. \A d \in Names : d # c => box'[d] = box[d]
  BY <1>1, <1>2 DEF Touched, Given
<1>4. Alike(box'["a"], box'["b"])
  <2>1. box'[c].kind = box[c].kind /\ box'[c].static = box[c].static /\ (box[c].static => Cap(box'[c]) = Cap(box[c]))
    BY <1>1, <1>2 DEF Given
  <2>2. CASE c = "a"
    BY <1>3, <2>1, <2>2 DEF Names, Alike, Sound
  <2>3. CASE c = "b"
    BY <1>3, <2>1, <2>3 DEF Names, Alike, Sound
  <2> QED BY <2>2, <2>3 DEF Names
<1>5. contents' = [d \in Names |-> contents'[d]] /\ contents'[c] = q /\ \A d \in Names : d # c => contents'[d] = contents[d]
  BY DEF Call, Sound
<1>6. \A d \in Names : Holds(box'[d], contents'[d])
  BY <1>1, <1>2, <1>3, <1>5 DEF Sound
<1> QED BY <1>2, <1>4, <1>5, <1>6 DEF Sound

LEMMA ValueIs == ncalls \in Nat => Value \in Elements
BY DEF Value, Elements, RawCell

LEMMA GivenHolds ==
    ASSUME Sound, NEW w, Given(w), NEW c \in Names
    PROVE  /\ w \in BoxState /\ Holds(w[c], contents[c]) /\ w[c] = box[c]
           /\ contents[c] \in Seq(Elements) /\ Len(contents[c]) \in Nat /\ Len(contents[c]) <= Cap(w[c])
           /\ w[c].end = Len(contents[c]) /\ Cap(w[c]) \in Nat
           /\ (w[c].kind = "array" => Len(contents[c]) = Cap(w[c]))
           /\ w[c].kind \in {"vector", "array"}
<1>1. w \in BoxState /\ Holds(w[c], contents[c]) /\ w[c] = box[c]
  BY DEF Sound, Given
<1> QED BY <1>1, HoldsIs, NamesOfBoxes DEF Holds, Cap

\* What a call leaves, whether it does not break the containers or does.
After == IF misused' = {} THEN Sound' ELSE box'.broken = TRUE

LEMMA BrokenAfter ==
    ASSUME NEW u, "broken" \in DOMAIN u, u.broken = TRUE, NEW c, NEW q, Call(u, c, q), misused' # {}
    PROVE  After
BY DEF Call, After

LEMMA ClearKeeps ==
    ASSUME Sound, misused = {}, NEW c \in Names, Clear(c)
    PROVE  After
<1> DEFINE u == vector_clear(box, c)
<1>1. Given(box) /\ box \in BoxState /\ Holds(box[c], contents[c]) /\ box[c].kind = "vector"
  BY GivenIs, GivenHolds DEF Clear, IsVector
<1>2. Becomes(box, u, c, <<>>)
  BY <1>1, ClearIs
<1>3. Call(u, c, <<>>) /\ misused' = {}
  BY DEF Clear
<1> HIDE DEF u
<1>4. Sound'
  <2> DEFINE q == <<>>
  <2>1. Becomes(box, u, c, q) /\ Call(u, c, q)
    BY <1>2, <1>3
  <2> HIDE DEF q
  <2> QED BY <1>1, <2>1, CallIs
<1> QED BY <1>3, <1>4 DEF After

LEMMA TryReserveKeeps ==
    ASSUME Sound, misused = {}, NEW c \in Names, NEW m \in BOOLEAN, NEW n \in Nat, TryReserve(c, m, n)
    PROVE  After
<1> DEFINE w == WithMemory(m)
           u == vector_reserve(w, c, n)
           q == contents[c]
           grown == IF IsArray(c) /\ u.result /\ n > Cap(box[c]) THEN FreshOnes(n - Cap(box[c])) ELSE <<>>
           r == q \o grown
<1>1. Given(w)
  BY GivenIs
<1> HIDE DEF w
<1>2. /\ w \in BoxState /\ Holds(w[c], q) /\ w[c] = box[c]
      /\ q \in Seq(Elements) /\ Len(q) \in Nat /\ Len(q) <= Cap(w[c])
      /\ (w[c].kind = "array" => Len(q) = Cap(w[c]))
  BY <1>1, GivenHolds
<1>3. Becomes(w, u, c, IF u.result /\ n > Cap(w[c]) THEN FullTo(w[c].kind, n, q) ELSE q)
  <2>1. HasReserved(w, u, c, n, q)
    BY <1>2, VectorReserveIs
  <2> HIDE DEF u
  <2> QED BY <2>1 DEF HasReserved
<1>4. Call(u, c, r) /\ misused' = {}
  BY Zenon DEF TryReserve, w
<1> HIDE DEF u
<1>5. r = IF u.result /\ n > Cap(w[c]) THEN FullTo(w[c].kind, n, q) ELSE q
  <2>1. q \o <<>> = q
    BY <1>2, ConcatEmptySeq
  <2>2. CASE IsArray(c) /\ u.result /\ n > Cap(box[c])
    BY <1>2, <2>2 DEF FullTo, IsArray
  <2>3. CASE ~(IsArray(c) /\ u.result /\ n > Cap(box[c]))
    <3>1. r = q
      BY <2>1, <2>3
    <3> HIDE DEF r
    <3> QED BY <1>2, <2>3, <3>1 DEF FullTo, IsArray
  <2> QED BY <2>2, <2>3
<1> HIDE DEF r
<1>6. Becomes(w, u, c, r)
  BY <1>3, <1>5
<1>7. Sound'
  BY <1>1, <1>4, <1>6, CallIs
<1> QED BY <1>4, <1>7 DEF After

LEMMA ResizeKeeps ==
    ASSUME Sound, misused = {}, NEW c \in Names, NEW m \in BOOLEAN, NEW n \in Nat, Resize(c, m, n)
    PROVE  After
<1> DEFINE w == WithMemory(m)
           u == vector_resize(w, c, n)
           q == contents[c]
           r == CASE n < Len(q) -> SubSeq(q, 1, n) [] n >= Len(q) /\ u.result -> q \o FreshOnes(n - Len(q)) [] OTHER -> q
<1>1. Given(w)
  BY GivenIs
<1>2. Call(u, c, r) /\ misused' = {} /\ box[c].kind = "vector"
  BY Zenon DEF Resize, IsVector
<1> HIDE DEF w
<1>3. /\ w \in BoxState /\ Holds(w[c], q) /\ w[c] = box[c] /\ Len(q) \in Nat
  BY <1>1, GivenHolds
<1>4. /\ n < Len(q) => Becomes(w, u, c, SubSeq(q, 1, n))
      /\ n >= Len(q) => Becomes(w, u, c, IF u.result THEN q \o FreshOnes(n - Len(q)) ELSE q)
  BY <1>2, <1>3, ResizeIs
<1> HIDE DEF u
<1>5. Becomes(w, u, c, r)
  <2>1. CASE n < Len(q)
    <3>0. ~(n >= Len(q) /\ u.result)
      BY <1>3, <2>1
    <3>1. r = SubSeq(q, 1, n)
      BY <2>1, <3>0, Zenon
    <3> HIDE DEF r
    <3> QED BY <1>4, <2>1, <3>1
  <2>2. CASE n >= Len(q) /\ u.result
    <3>0. ~(n < Len(q))
      BY <1>3, <2>2
    <3>1. r = q \o FreshOnes(n - Len(q))
      BY <2>2, <3>0, Zenon
    <3> HIDE DEF r
    <3> QED BY <1>4, <2>2, <3>1
  <2>3. CASE n >= Len(q) /\ ~u.result
    <3>1. r = q
      BY <1>3, <2>3
    <3> HIDE DEF r
    <3> QED BY <1>4, <2>3, <3>1
  <2> QED BY <1>3, <2>1, <2>2, <2>3
<1> HIDE DEF r
<1>6. Sound'
  BY <1>1, <1>2, <1>5, CallIs
<1> QED BY <1>2, <1>6 DEF After

LEMMA ResizeArrayKeeps ==
    ASSUME Sound, misused = {}, NEW c \in Names, NEW m \in BOOLEAN, NEW n \in Nat, ResizeArray(c, m, n)
    PROVE  After
<1> DEFINE w == WithMemory(m)
           u == try_reallocate(w, c, n)
           q == contents[c]
           r == IF u.result THEN q \o FreshOnes(n - Len(q)) ELSE q
<1>1. Given(w)
  BY GivenIs
<1>2. Call(u, c, r) /\ box[c].kind = "array"
      /\ misused' = IF u.result /\ n < Cap(box[c]) THEN misused \cup {"shrink"} ELSE misused
  BY Zenon DEF ResizeArray, IsArray
<1> HIDE DEF w
<1>3. /\ w \in BoxState /\ Holds(w[c], q) /\ w[c] = box[c] /\ Len(q) \in Nat /\ Len(q) = Cap(w[c])
  BY <1>1, <1>2, GivenHolds
<1>4. CASE n < Len(q)
  <2>1. /\ u.result = (~w[c].static /\ w.memory)
        /\ IF u.result THEN u.broken = TRUE ELSE Becomes(w, u, c, q)
    BY <1>2, <1>3, <1>4, ShrinkBreaks
  <2>2. CASE u.result
    <3> HIDE DEF r, u
    <3>1. misused' # {}
      BY <1>2, <1>3, <1>4, <2>2
    <3>2. box'.broken = TRUE
      <4>1. "broken" \in DOMAIN u
        <5>1. u = [Relocated(w, c, n) EXCEPT !.result = TRUE]
          BY <2>1, <2>2 DEF u, try_reallocate
        <5>2. DOMAIN Relocated(w, c, n) = DOMAIN w
          BY DEF Relocated, copy, SetEnd, FilledUp, construct_fill, construct_range
        <5> QED BY <1>3, <5>1, <5>2 DEF BoxState
      <4> QED BY <1>2, <2>1, <2>2, <3>1, <4>1, BrokenAfter DEF After
    <3> QED BY <3>1, <3>2 DEF After
  <2>3. CASE ~u.result
    <3>1. r = q /\ misused' = {} /\ Becomes(w, u, c, q)
      BY <1>2, <2>1, <2>3
    <3> HIDE DEF r, u
    <3>2. Sound'
      BY <1>1, <1>2, <3>1, CallIs
    <3> QED BY <3>1, <3>2 DEF After
  <2> QED BY <2>2, <2>3
<1>5. CASE ~(n < Len(q))
  <2>1. Len(q) <= n
    BY <1>3, <1>5
  <2>2. Becomes(w, u, c, IF u.result THEN FullTo(w[c].kind, n, q) ELSE q)
    BY <1>3, <2>1, TryReallocateIs
  <2> HIDE DEF u
  <2>3. FullTo(w[c].kind, n, q) = q \o FreshOnes(n - Len(q))
    BY <1>2, <1>3 DEF FullTo
  <2>4. Becomes(w, u, c, r)
    BY <2>2, <2>3
  <2> HIDE DEF r
  <2>5. misused' = {}
    BY <1>2, <1>3, <1>5
  <2>6. Sound'
    BY <1>1, <1>2, <2>4, CallIs
  <2> QED BY <2>5, <2>6 DEF After
<1> QED BY <1>4, <1>5

LEMMA EmplaceBackKeeps ==
    ASSUME Sound, misused = {}, ncalls \in Nat, NEW c \in Names, NEW m \in BOOLEAN, EmplaceBack(c, m)
    PROVE  After
<1> DEFINE w == WithMemory(m)
           u == try_emplace_back(w, c, Value)
           q == contents[c]
           r == IF u.result THEN Append(q, Value) ELSE q
<1>1. Given(w) /\ Value \in Elements
  BY GivenIs, ValueIs
<1>2. Call(u, c, r) /\ misused' = {} /\ box[c].kind = "vector"
  BY Zenon DEF EmplaceBack, IsVector
<1> HIDE DEF w
<1>3. /\ w \in BoxState /\ Holds(w[c], q) /\ w[c] = box[c]
  BY <1>1, GivenHolds
<1>4. Becomes(w, u, c, r)
  BY <1>1, <1>2, <1>3, EmplaceBackIs
<1> HIDE DEF u, r
<1>5. Sound'
  BY <1>1, <1>2, <1>4, CallIs
<1> QED BY <1>2, <1>5 DEF After

LEMMA InsertKeeps ==
    ASSUME Sound, misused = {}, ncalls \in Nat, NEW c \in Names, NEW m \in BOOLEAN, NEW i \in Nat \ {0}, Insert(c, m, i)
    PROVE  After
<1> DEFINE w == WithMemory(m)
           u == vector_insert(w, c, i, Value)
           q == contents[c]
           r == IF u.result THEN Inserted(q, i, Value) ELSE q
<1>1. Given(w) /\ Value \in Elements
  BY GivenIs, ValueIs
<1>2. /\ Call(u, c, r) /\ box[c].kind = "vector" /\ i <= Len(q)
      /\ misused' = IF u.result /\ box[c].end = Cap(box[c]) THEN misused \cup {"insert"} ELSE misused
  BY Zenon DEF Insert, IsVector, Inserted
<1> HIDE DEF w
<1>3. /\ w \in BoxState /\ Holds(w[c], q) /\ w[c] = box[c] /\ Len(q) \in Nat /\ w[c].end = Len(q)
  BY <1>1, GivenHolds
<1>4. \/ Len(q) < Cap(w[c]) /\ Becomes(w, u, c, r)
      \/ Len(q) = Cap(w[c]) /\ u.result = FALSE /\ Becomes(w, u, c, q)
      \/ Len(q) = Cap(w[c]) /\ u.result /\ u.broken = TRUE /\ "broken" \in DOMAIN u
  <2>1. i \in 1 .. Len(q)
    BY <1>2, <1>3
  <2> QED BY <1>1, <1>2, <1>3, <2>1, InsertIs
<1>5. CASE Len(q) < Cap(w[c]) /\ Becomes(w, u, c, r)
  <2> HIDE DEF u, r
  <2>1. misused' = {}
    <3>1. box[c].end # Cap(box[c])
      BY <1>3, <1>5, NamesOfBoxes
    <3> QED BY <1>2, <3>1
  <2>2. Sound'
    BY <1>1, <1>2, <1>5, CallIs
  <2> QED BY <2>1, <2>2 DEF After
<1>6. CASE Len(q) = Cap(w[c]) /\ u.result = FALSE /\ Becomes(w, u, c, q)
  <2>1. r = q /\ misused' = {}
    BY <1>2, <1>6
  <2> HIDE DEF u, r
  <2>2. Sound'
    BY <1>1, <1>2, <1>6, <2>1, CallIs
  <2> QED BY <2>1, <2>2 DEF After
<1>7. CASE Len(q) = Cap(w[c]) /\ u.result /\ u.broken = TRUE /\ "broken" \in DOMAIN u
  <2>1. misused' # {}
    BY <1>2, <1>3, <1>7
  <2> HIDE DEF u, r
  <2> QED BY <1>2, <1>7, <2>1, BrokenAfter
<1> QED BY <1>4, <1>5, <1>6, <1>7

LEMMA EraseRangeKeeps ==
    ASSUME Sound, misused = {}, NEW c \in Names, NEW i \in Nat \ {0}, NEW j \in Nat \ {0}, EraseRange(c, i, j)
    PROVE  After
<1> DEFINE u == erase_range(box, c, i, j)
           q == contents[c]
           n == Len(q)
           left == n - (j - i)
           r == [k \in 1 .. left |-> IF k >= i /\ k < j THEN q[n - (k - i)] ELSE q[k]]
<1>1. Given(box)
  BY GivenIs
<1>2. /\ Call(u, c, r) /\ box[c].kind = "vector" /\ i < j /\ j <= n + 1
      /\ misused' = IF n + 1 - (j - i) < j - 1 THEN misused \cup {"overlap"} ELSE misused
  BY Zenon DEF EraseRange, IsVector
<1>3. /\ box \in BoxState /\ Holds(box[c], q) /\ Len(q) \in Nat
  BY <1>1, GivenHolds
<1>4. IF n + 1 - (j - i) < j - 1 THEN "broken" \in DOMAIN u /\ u.broken = TRUE ELSE Becomes(box, u, c, Without(q, i, j - i))
  BY <1>2, <1>3, EraseRangeIs
<1>5. r = Without(q, i, j - i)
  <2>1. \A k \in 1 .. left : k < j <=> k < i + (j - i)
    OBVIOUS
  <2> HIDE DEF q
  <2> QED BY <2>1 DEF Without
<1>6. CASE n + 1 - (j - i) < j - 1
  <2>1. misused' # {} /\ u.broken = TRUE
    BY <1>2, <1>4, <1>6
  <2>2. box'.broken = TRUE
    <3>1. "broken" \in DOMAIN u
      BY <1>4, <1>6
    <3> HIDE DEF u, r
    <3> QED BY <1>2, <2>1, <3>1, BrokenAfter DEF After
  <2> QED BY <2>1, <2>2 DEF After
<1>7. CASE ~(n + 1 - (j - i) < j - 1)
  <2>1. misused' = {} /\ Becomes(box, u, c, r)
    BY <1>2, <1>4, <1>5, <1>7
  <2> HIDE DEF u, r
  <2>2. Sound'
    BY <1>1, <1>2, <2>1, CallIs
  <2> QED BY <2>1, <2>2 DEF After
<1> QED BY <1>6, <1>7

LEMMA EraseStableKeeps ==
    ASSUME Sound, misused = {}, NEW c \in Names, NEW i \in Nat \ {0}, NEW j \in Nat \ {0}, EraseStable(c, i, j)
    PROVE  After
<1> DEFINE u == erase_stable(box, c, i, j)
           q == contents[c]
           r == SubSeq(q, 1, i - 1) \o SubSeq(q, j, Len(q))
<1>1. Given(box)
  BY GivenIs
<1>2. /\ Call(u, c, r) /\ box[c].kind = "vector" /\ i < j /\ j <= Len(q) + 1 /\ misused' = {}
  BY Zenon DEF EraseStable, IsVector
<1>3. /\ box \in BoxState /\ Holds(box[c], q)
  BY <1>1, GivenHolds
<1>4. Becomes(box, u, c, r)
  BY <1>2, <1>3, EraseStableIs
<1> HIDE DEF u, r
<1>5. Sound'
  BY <1>1, <1>2, <1>4, CallIs
<1> QED BY <1>2, <1>5 DEF After

LEMMA AlikeNames ==
    ASSUME Sound, NEW c \in Names, NEW d \in Names
    PROVE  Alike(box[c], box[d])
BY DEF Sound, Alike, Names

LEMMA CopyAssignKeeps ==
    ASSUME Sound, misused = {}, NEW c \in Names, NEW d \in Names, NEW m \in BOOLEAN, CopyAssign(c, d, m)
    PROVE  After
<1> DEFINE w == WithMemory(m)
           u == copy_assign(w, c, d)
           p == contents[c]
           q == contents[d]
           r == IF fits(box[c], box[d]) \/ Allocates(w, c) THEN q ELSE <<>>
<1>1. Given(w)
  BY GivenIs
<1>2. /\ Call(u, c, r)
      /\ misused' = IF c = d /\ box[c].end > 0 THEN misused \cup {"self"} ELSE misused
  BY Zenon DEF CopyAssign
<1> HIDE DEF w
<1>3. /\ w \in BoxState /\ Holds(w[c], p) /\ w[c] = box[c] /\ Len(p) \in Nat /\ w[c].end = Len(p)
      /\ Holds(w[d], q) /\ w[d] = box[d] /\ q \in Seq(Elements)
  BY <1>1, GivenHolds
<1>4. Alike(w[c], w[d])
  BY <1>3, AlikeNames
<1>5. CASE c = d /\ Len(p) # 0
  <2>1. u = copy_assign(w, c, c)
    BY <1>5
  <2>2. u.broken = TRUE /\ "broken" \in DOMAIN u
    BY <1>3, <1>5, <2>1, CopyAssignSelf
  <2>3. misused' # {}
    BY <1>2, <1>3, <1>5
  <2> HIDE DEF u, r
  <2> QED BY <1>2, <2>2, <2>3, BrokenAfter
<1>6. CASE ~(c = d /\ Len(p) # 0)
  <2>1. c = d => q = <<>>
    BY <1>3, <1>6
  <2>2. Becomes(w, u, c, r)
    BY <1>3, <1>4, <2>1, CopyAssignIs
  <2>3. misused' = {}
    BY <1>2, <1>3, <1>6
  <2> HIDE DEF u, r
  <2>4. Sound'
    BY <1>1, <1>2, <2>2, CallIs
  <2> QED BY <2>3, <2>4 DEF After
<1> QED BY <1>5, <1>6

LEMMA MoveAssignKeeps ==
    ASSUME Sound, misused = {}, NEW c \in Names, NEW d \in Names, MoveAssign(c, d)
    PROVE  After
<1> DEFINE u == move_assign(box, c, d)
           p == contents[c]
           q == contents[d]
           r == LeftBehind(box[d], q)
<1>1. Given(box)
  BY GivenIs
<1>2. c # d /\ misused' = {} /\ box' = u
  BY DEF MoveAssign
<1>3. contents' = [contents EXCEPT ![c] = q, ![d] = r]
  <2>1. contents' = [contents EXCEPT ![c] = contents[d],
                                     ![d] = IF box[d].static THEN [i \in 1 .. Len(@) |-> MovedFrom] ELSE <<>>]
    BY Zenon DEF MoveAssign
  <2>2. [contents EXCEPT ![c] = contents[d]][d] = q
    BY <1>2
  <2> QED BY <1>2, <2>1, <2>2 DEF AllMoved, LeftBehind
<1>4. /\ box \in BoxState /\ Holds(box[c], p) /\ Holds(box[d], q)
  BY <1>1, GivenHolds
<1>5. Alike(box[c], box[d])
  BY AlikeNames
<1>6. /\ u \in BoxState /\ u.broken = box.broken
      /\ Holds(u[c], q) /\ Holds(u[d], r)
      /\ u[c].kind = box[c].kind /\ u[c].static = box[c].static /\ u[d].kind = box[d].kind /\ u[d].static = box[d].static
      /\ box[c].static => Cap(u[c]) = Cap(box[c]) /\ Cap(u[d]) = Cap(box[d])
  BY <1>2, <1>4, <1>5, MoveAssignIs
<1> HIDE DEF u, r
<1>7. contents' = [x \in Names |-> contents'[x]] /\ contents'[c] = q /\ contents'[d] = r
  <2>1. contents = [x \in Names |-> contents[x]]
    BY DEF Sound
  <2> QED BY <1>2, <1>3, <2>1
<1>8. Alike(u["a"], u["b"])
  <2>1. CASE c = "a" /\ d = "b"
    BY <1>5, <1>6, <2>1 DEF Alike
  <2>2. CASE c = "b" /\ d = "a"
    BY <1>5, <1>6, <2>2 DEF Alike
  <2> QED BY <1>2, <2>1, <2>2 DEF Names
<1>9. \A x \in Names : x = c \/ x = d
  BY <1>2 DEF Names
<1>10. Sound'
  BY <1>2, <1>6, <1>7, <1>8, <1>9 DEF Sound
<1> QED BY <1>2, <1>10 DEF After

-----------------------------------------------------------------------------
LEMMA InitSound == ContainersInit => ContainersInv
<1> SUFFICES ASSUME ContainersInit PROVE Sound /\ ncalls = 0 /\ misused = {}
  BY DEF ContainersInv
<1>1. PICK kind \in Kinds :
        /\ box = [a |-> NewContainer(kind), b |-> NewContainer(kind), broken |-> FALSE, memory |-> TRUE, result |-> TRUE]
        /\ contents = [c \in Names |-> Used(NewContainer(kind))]
  BY DEF ContainersInit
<1> DEFINE x == NewContainer(kind)
           n == IF kind[2] THEN StaticCapacity ELSE 0
           q == IF kind[1] = "array" THEN FreshOnes(n) ELSE <<>>
<1>2. kind[1] \in {"vector", "array"} /\ kind[2] \in BOOLEAN /\ n \in Nat
  BY KindsAssumption, CapacityAssumption
<1>3. x \in Box /\ Holds(x, q)
  <2>1. FreshOnes(n) \in Seq(Elements) /\ Len(FreshOnes(n)) = n /\ \A i \in 1 .. n : FreshOnes(n)[i] = Fresh
    BY <1>2, FreshIs
  <2>2. RawCells(n) \in Seq(Int) /\ Len(RawCells(n)) = n /\ \A i \in 1 .. n : RawCells(n)[i] = RawCell
    BY <1>2, RawIs
  <2>3. FreshOnes(n) \in Seq(Int)
    BY <2>1 DEF Elements
  <2>4. x = [kind |-> kind[1], static |-> kind[2],
             cells |-> IF kind[1] = "array" THEN FreshOnes(n) ELSE RawCells(n), end |-> IF kind[1] = "array" THEN n ELSE 0]
    BY DEF NewContainer
  <2> HIDE DEF n, x
  <2>5. x \in Box
    BY <1>2, <2>2, <2>3, <2>4 DEF Box
  <2>6. CASE kind[1] = "array"
    <3>1. x.cells = FreshOnes(n) /\ x.end = n /\ q = FreshOnes(n)
      BY <2>4, <2>6
    <3>2. Shape(x, FreshOnes(n))
      BY <1>2, <2>1, <3>1 DEF Shape
    <3> QED BY <2>1, <2>5, <3>1, <3>2 DEF Holds
  <2>7. CASE kind[1] # "array"
    <3>1. x.cells = RawCells(n) /\ x.end = 0 /\ x.kind # "array" /\ q = <<>>
      BY <2>4, <2>7
    <3>2. Shape(x, <<>>)
      BY <1>2, <2>2, <3>1, EmptyShape
    <3>3. Len(<<>>) = 0
      OBVIOUS
    <3> QED BY <2>5, <3>1, <3>2, <3>3 DEF Holds
  <2> QED BY <2>6, <2>7
<1> HIDE DEF x, q
<1>4. Used(x) = q
  BY <1>3, UsedIs
<1>5. \A c \in Names : box[c] = x /\ contents[c] = q
  BY <1>1, <1>4 DEF Names, x
<1>6. box \in BoxState /\ box.broken = FALSE
  BY <1>1, <1>3 DEF BoxState, x
<1>7. contents = [c \in Names |-> contents[c]]
  BY <1>1
<1>8. Alike(box["a"], box["b"])
  BY <1>5 DEF Names, Alike
<1>9. Sound
  BY <1>3, <1>5, <1>6, <1>7, <1>8 DEF Sound
<1> QED BY <1>9 DEF ContainersInit

\* Every call keeps the invariant.
LEMMA NextSound == ContainersInv /\ [ContainersNext]_containerVars => ContainersInv'
<1> SUFFICES ASSUME ContainersInv, [ContainersNext]_containerVars PROVE ContainersInv'
  OBVIOUS
<1>1. CASE UNCHANGED containerVars
  BY <1>1 DEF containerVars, ContainersInv, Sound, Holds, Shape, Alike, Cap
<1>2. CASE ContainersNext
  <2>1. Sound /\ misused = {} /\ ncalls \in Nat /\ ncalls' \in Nat
    BY <1>2 DEF ContainersInv, ContainersNext
  <2>2. PICK c \in Names, m \in BOOLEAN :
        \/ m /\ Clear(c)
        \/ \E n \in 1 .. MaxCells : TryReserve(c, m, n) \/ Resize(c, m, n) \/ ResizeArray(c, m, n)
        \/ Cap(box[c]) < MaxCells /\ EmplaceBack(c, m)
        \/ \E i \in 1 .. MaxCells : box[c].end < MaxCells /\ Insert(c, m, i)
        \/ \E i, j \in 1 .. MaxCells + 1 : m /\ (EraseRange(c, i, j) \/ EraseStable(c, i, j))
        \/ \E d \in Names : CopyAssign(c, d, m) \/ (m /\ MoveAssign(c, d))
    BY <1>2 DEF ContainersNext
  <2>3. After
    <3>1. CASE Clear(c)
      BY <2>1, <3>1, ClearKeeps
    <3>2. CASE \E n \in 1 .. MaxCells : TryReserve(c, m, n) \/ Resize(c, m, n) \/ ResizeArray(c, m, n)
      <4>1. PICK n \in Nat : TryReserve(c, m, n) \/ Resize(c, m, n) \/ ResizeArray(c, m, n)
        BY <3>2
      <4> QED BY <2>1, <4>1, TryReserveKeeps, ResizeKeeps, ResizeArrayKeeps
    <3>3. CASE EmplaceBack(c, m)
      BY <2>1, <3>3, EmplaceBackKeeps
    <3>4. CASE \E i \in 1 .. MaxCells : box[c].end < MaxCells /\ Insert(c, m, i)
      <4>1. PICK i \in Nat \ {0} : Insert(c, m, i)
        BY <3>4
      <4> QED BY <2>1, <4>1, InsertKeeps
    <3>5. CASE \E i, j \in 1 .. MaxCells + 1 : m /\ (EraseRange(c, i, j) \/ EraseStable(c, i, j))
      <4>1. PICK i \in Nat \ {0}, j \in Nat \ {0} : EraseRange(c, i, j) \/ EraseStable(c, i, j)
        BY <3>5
      <4> QED BY <2>1, <4>1, EraseRangeKeeps, EraseStableKeeps
    <3>6. CASE \E d \in Names : CopyAssign(c, d, m) \/ (m /\ MoveAssign(c, d))
      BY <2>1, <3>6, CopyAssignKeeps, MoveAssignKeeps
    <3> QED BY <2>2, <3>1, <3>2, <3>3, <3>4, <3>5, <3>6
  <2> QED BY <2>1, <2>3 DEF After, ContainersInv
<1> QED BY <1>1, <1>2

LEMMA SoundLives == ContainersInv => ElementsLive
<1> SUFFICES ASSUME ContainersInv PROVE ElementsLive
  OBVIOUS
<1>1. CASE misused # {}
  BY <1>1 DEF ContainersInv, ElementsLive
<1>2. CASE misused = {}
  <2>1. Sound
    BY <1>2 DEF ContainersInv
  <2>2. ASSUME NEW c \in Names
        PROVE  Used(box[c]) = contents[c] /\ \A i \in box[c].end + 1 .. Cap(box[c]) : box[c].cells[i] = RawCell
    <3>1. box \in BoxState /\ Holds(box[c], contents[c])
      BY <2>1 DEF Sound
    <3>2. /\ Len(contents[c]) \in Nat /\ box[c].end = Len(contents[c]) /\ box[c] \in Box
          /\ Cap(box[c]) \in Nat
          /\ \A i \in 1 .. Cap(box[c]) : box[c].cells[i] = IF i <= Len(contents[c]) THEN contents[c][i] ELSE RawCell
      BY <3>1, HoldsIs, NamesOfBoxes
    <3>3. Used(box[c]) = contents[c]
      BY <3>1, <3>2, UsedIs
    <3>4. ASSUME NEW i \in box[c].end + 1 .. Cap(box[c])
          PROVE  box[c].cells[i] = RawCell
      <4>1. i \in 1 .. Cap(box[c]) /\ ~(i <= Len(contents[c]))
        BY <3>2
      <4> QED BY <3>2, <4>1
    <3> QED BY <3>3, <3>4
  <2> QED BY <1>2, <2>1, <2>2 DEF ElementsLive, Sound
<1> QED BY <1>1, <1>2

\* Of any two containers of one kind, whatever the static capacity, the order and number
\* of calls and whenever memory runs out: they break exactly when they are misused (an
\* array made smaller, an insert into a full vector, an erase of a range that overlaps
\* what is to fill it, an assignment to itself), and until then every element is
\* constructed and destructed once and they hold what a sequence would
\* (vector.hpp, array.hpp, container.hpp).
THEOREM ContainersCorrect == ContainersSpec => []ElementsLive
<1>1. ContainersSpec => []ContainersInv
  BY InitSound, NextSound, PTL DEF ContainersSpec
<1> QED BY <1>1, SoundLives, PTL

==============================================================================
