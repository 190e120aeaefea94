------------------------------- MODULE Overflow -------------------------------
(****************************************************************************)
(* Addition and multiplication that report overflow (utility/overflow.hpp), *)
(* at a small width: every overload of a kind is one operator of OverflowBits *)
(* bits.  The header has several ways to each result, one per compiler and  *)
(* target: the carry of an instruction, a comparison, a product twice as    *)
(* wide, or four products of half the width.                                *)
(****************************************************************************)
EXTENDS Integers

CONSTANT OverflowBits   \* an even number

ASSUME OverflowBitsAssumption ==
  OverflowBits \in Nat /\ OverflowBits # 0 /\ OverflowBits % 2 = 0

VARIABLE sum   \* the last computation: [how, a, b, result, overflow]

UnsignedRange(w) == 0 .. 2^w - 1
SignedRange(w) == -(2^(w - 1)) .. 2^(w - 1) - 1

Unsigned(w, x) == x % 2^w
Signed(w, x) ==
  LET u == Unsigned(w, x) IN IF u < 2^(w - 1) THEN u ELSE u - 2^w
ShiftRight(x, n) == x \div 2^n        \* arithmetic on what is negative
LowHalf(x) == x % 2^(OverflowBits \div 2)
HighHalf(x) == x \div 2^(OverflowBits \div 2)

W == OverflowBits
Top == W - 1
Answer(result, overflow) == [result |-> result, overflow |-> overflow]

-----------------------------------------------------------------------------
(* The instruction _addcarry: the sum and its carry out.                     *)
addcarry(a, b) == [sum |-> Unsigned(W, a + b), carry |-> ShiftRight(a + b, W)]

FlipSign(a) == Unsigned(W, Unsigned(W, a) + 2^Top)

add_signed_carry(a, b) ==
  LET c == addcarry(FlipSign(a), FlipSign(b))
  IN  Answer(Signed(W, c.sum), c.carry = ShiftRight(c.sum, Top))

(* Overflow if a and b have one sign and the sum has the other.              *)
add_signed_bits(a, b) ==
  LET c    == Unsigned(W, a + b)
      sign == [x \in {"a", "b", "c"} |->
                 ShiftRight(Unsigned(W, CASE x = "a" -> a [] x = "b" -> b
                                          [] x = "c" -> c), Top)]
  IN  Answer(Signed(W, c), sign["a"] = sign["b"] /\ sign["c"] # sign["a"])

add_unsigned_carry(a, b) ==
  LET c == addcarry(a, b) IN Answer(c.sum, c.carry # 0)

(* Mutant: a sum equal to its operand counts as wrapped.                    *)
add_unsigned_compare_both(a, b) ==
  LET c == Unsigned(W, a + b) IN Answer(c, c <= a)

add_unsigned_compare(a, b) ==
  LET c == Unsigned(W, a + b) IN Answer(c, c < a)

-----------------------------------------------------------------------------
(* A product twice as wide: the low half has to sign-extend to the high one. *)
mul_signed_wide(a, b) ==
  LET c  == a * b
      ch == Signed(W, ShiftRight(c, W))
      cl == Signed(W, c)
  IN  Answer(cl, ch # ShiftRight(cl, Top))

mul_signed_mul128(a, b) ==
  LET cl == Signed(W, a * b)
      ch == ShiftRight(a * b, W)
  IN  Answer(cl, ch # ShiftRight(cl, Top))

mul_unsigned_wide(a, b) ==
  LET c == a * b IN Answer(Unsigned(W, c), Unsigned(W, ShiftRight(c, W)) # 0)

mul_unsigned_umul128(a, b) ==
  Answer(Unsigned(W, a * b), ShiftRight(a * b, W) # 0)

(* Four products of halves; all arithmetic is modulo the width.              *)
HalfProducts(a, b) ==
  LET H == W \div 2
      x == LowHalf(a) * LowHalf(b)
      y == HighHalf(a) * LowHalf(b)
      z == LowHalf(a) * HighHalf(b)
      w == HighHalf(a) * HighHalf(b)
      carry_sum == HighHalf(x) + LowHalf(y) + LowHalf(z)
  IN  [high |-> Unsigned(W, HighHalf(carry_sum) + HighHalf(y) + HighHalf(z) + w),
       low |-> Unsigned(W, carry_sum * 2^H) + LowHalf(x)]

mul_unsigned_halves(a, b) ==
  LET p == HalfProducts(a, b) IN Answer(p.low, p.high # 0)

(* The signed one takes the high half of the product of the bits.            *)
mul_signed_halves(a, b) ==
  LET p  == HalfProducts(Unsigned(W, a), Unsigned(W, b))
      cl == Signed(W, p.low)
  IN  Answer(cl, Signed(W, p.high) # ShiftRight(cl, Top))

(* The builtins of gcc and clang: external.                                  *)
builtin_signed(exact) ==
  Answer(Signed(W, exact), exact \notin SignedRange(W))
builtin_unsigned(exact) ==
  Answer(Unsigned(W, exact), exact \notin UnsignedRange(W))

add_signed_builtin(a, b) == builtin_signed(a + b)
add_unsigned_builtin(a, b) == builtin_unsigned(a + b)
mul_signed_builtin(a, b) == builtin_signed(a * b)
mul_unsigned_builtin(a, b) == builtin_unsigned(a * b)

-----------------------------------------------------------------------------
SignedWays == {"add carry", "add bits", "add builtin", "mul wide", "mul 128",
               "mul halves", "mul builtin"}
UnsignedWays == {"add carry", "add compare", "add builtin", "mul wide",
                 "mul 128", "mul halves", "mul builtin"}

ComputeSigned(how, a, b) ==
  CASE how = "add carry" -> add_signed_carry(a, b)
    [] how = "add bits" -> add_signed_bits(a, b)
    [] how = "add builtin" -> add_signed_builtin(a, b)
    [] how = "mul wide" -> mul_signed_wide(a, b)
    [] how = "mul 128" -> mul_signed_mul128(a, b)
    [] how = "mul halves" -> mul_signed_halves(a, b)
    [] how = "mul builtin" -> mul_signed_builtin(a, b)

ComputeUnsigned(how, a, b) ==
  CASE how = "add carry" -> add_unsigned_carry(a, b)
    [] how = "add compare" -> add_unsigned_compare(a, b)
    [] how = "add builtin" -> add_unsigned_builtin(a, b)
    [] how = "mul wide" -> mul_unsigned_wide(a, b)
    [] how = "mul 128" -> mul_unsigned_umul128(a, b)
    [] how = "mul halves" -> mul_unsigned_halves(a, b)
    [] how = "mul builtin" -> mul_unsigned_builtin(a, b)

Computed(sign, how, a, b, answer) ==
  [sign |-> sign, how |-> how, a |-> a, b |-> b, answer |-> answer]

OverflowInit == sum = Computed("none", "none", 0, 0, Answer(0, FALSE))

OverflowNext ==
  /\ sum.sign = "none"
  /\ \/ \E how \in SignedWays, a, b \in SignedRange(W) :
          sum' = Computed("signed", how, a, b, ComputeSigned(how, a, b))
     \/ \E how \in UnsignedWays, a, b \in UnsignedRange(W) :
          sum' = Computed("unsigned", how, a, b, ComputeUnsigned(how, a, b))

OverflowSpec == OverflowInit /\ [][OverflowNext]_sum

-----------------------------------------------------------------------------
IsSum(how) == how \in {"add carry", "add bits", "add compare", "add builtin"}
Exact == IF IsSum(sum.how) THEN sum.a + sum.b ELSE sum.a * sum.b
Fits == Exact \in IF sum.sign = "signed" THEN SignedRange(W) ELSE UnsignedRange(W)

(* Every way of add_overflow and mul_overflow gives the result, wrapped when *)
(* it does not fit, and reports overflow exactly when it does not fit.  Only *)
(* the signed product of halves (Visual C++ for 32 bits), which takes the    *)
(* high half of the unsigned product, may report overflow of a negative      *)
(* operand where there is none; it too never misses one.                     *)
OverflowReported ==
  sum.sign # "none" =>
    /\ sum.answer.result = IF sum.sign = "signed" THEN Signed(W, Exact)
                           ELSE Unsigned(W, Exact)
    /\ ~Fits => sum.answer.overflow
    /\ sum.answer.overflow =>
         \/ ~Fits
         \/ sum.sign = "signed" /\ sum.how = "mul halves" /\ (sum.a < 0 \/ sum.b < 0)
=============================================================================
