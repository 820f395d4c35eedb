----------------------------- MODULE ExactIntegers -----------------------------
(***************************************************************************)
(* The exact integers of arith.cpp: fixnums that promote to bignums and    *)
(* back, bignums in sign and magnitude, their sums, products, quotients    *)
(* and roots, comparison, and the bits of two's complement.  A machine     *)
(* word has DigitBits bits, as a digit does, and a fixnum has one bit      *)
(* less.  An object of the heap is a value here.                           *)
(***************************************************************************)
EXTENDS Bignum

CONSTANTS IntBits,          \* of an int
          DoubleBits        \* of the significand of a double

ASSUME WidthsAssumption == IntBits \in Nat \ {0} /\ DoubleBits \in Nat \ {0}

AsInt(n) == LET half == 2 ^ (IntBits - 1) IN ((n + half) % (2 * half)) - half

Abs(n) == IF n < 0 THEN -n ELSE n

FixnumMin == -(2 ^ (DigitBits - 2))

FixnumMax == 2 ^ (DigitBits - 2) - 1

Fixnum(n) == [type |-> "fixnum", n |-> n]

Big(sign, elts) == [type |-> "bignum", sign |-> sign, elts |-> elts]

IsFixnum(x) == x.type = "fixnum"

IsInteger(x) == x.type \in {"fixnum", "bignum"}

(* A word, or a product of two, as a number.                               *)
IntToBignum(n) == Big(Sign(n), Norm(<<Abs(n) % Base, Abs(n) \div Base>>))

IntToInteger(n) == IF n \in FixnumMin..FixnumMax THEN Fixnum(n) ELSE IntToBignum(n)

(* bn_to_integer: zero and what fits are fixnums.                          *)
ToInteger(b) ==
  CASE b.elts = <<>> -> Fixnum(0)
    [] Len(b.elts) = 1 /\ b.sign * Head(b.elts) \in FixnumMin..FixnumMax
         -> Fixnum(b.sign * Head(b.elts))
    [] OTHER -> b

Make(sign, elts) == ToInteger(Big(sign, Norm(elts)))

(* bn_let: a fixnum in a temporary bignum.                                 *)
AsBignum(x) == IF IsFixnum(x) THEN IntToBignum(x.n) ELSE x

Longest(l, r) == Max({Len(l), Len(r)})

(***************************************************************************)
(* Integers.  The oprtr_ functions are those on bignums.                   *)
(***************************************************************************)
Difference(l, r) ==
  LET s == SubDigits(Longest(l, r), l, r)
  IN  IF s.out >= 0 THEN Make(1, s.elts) ELSE Make(-1, Flip2sc(s.elts))

OprtrAdd(l, r) ==
  CASE l.sign = 0              -> ToInteger(r)
    [] l.sign # 0 /\ r.sign = 0 -> ToInteger(l)
    [] l.sign * r.sign > 0     -> Make(l.sign, AddDigits(Longest(l.elts, r.elts) + 1, l.elts, r.elts).elts)
    [] l.sign * r.sign < 0     -> IF l.sign > 0 THEN Difference(l.elts, r.elts)
                                                ELSE Difference(r.elts, l.elts)

OprtrSub(l, r) == OprtrAdd(l, [r EXCEPT !.sign = -@])

OprtrMul(l, r) ==
  IF l.sign * r.sign = 0 THEN Fixnum(0) ELSE Make(l.sign * r.sign, MulDigits(l.elts, r.elts))

BothFixnums(l, r) == IsFixnum(l) /\ IsFixnum(r)

AddInt(l, r) == IF BothFixnums(l, r) THEN IntToInteger(l.n + r.n) ELSE OprtrAdd(AsBignum(l), AsBignum(r))

SubInt(l, r) == IF BothFixnums(l, r) THEN IntToInteger(l.n - r.n) ELSE OprtrSub(AsBignum(l), AsBignum(r))

MulInt(l, r) == IF BothFixnums(l, r) THEN IntToInteger(l.n * r.n) ELSE OprtrMul(AsBignum(l), AsBignum(r))

NegateInt(x) ==
  IF IsFixnum(x) THEN IntToInteger(-x.n) ELSE ToInteger([x EXCEPT !.sign = -@])

(***************************************************************************)
(* Integer division.                                                       *)
(***************************************************************************)
(* Integer division of C, towards zero.                                    *)
CQuo(a, b) == Sign(a) * Sign(b) * (Abs(a) \div Abs(b))

CRem(a, b) == a - b * CQuo(a, b)

(* MAKEFIXNUM shifts the tag in and the top bit out.                       *)
MakeFixnum(n) == Fixnum(((n - FixnumMin) % 2 ^ (DigitBits - 1)) + FixnumMin)

SignOf(x) == CASE IsFixnum(x)         -> Sign(x.n)
               [] x.type = "bignum"   -> x.sign
               [] x.type = "rational" -> IF IsFixnum(x.nume) THEN Sign(x.nume.n) ELSE x.nume.sign

OprtrQuotient(l, r) ==
  LET test == Cmp(l.elts, r.elts)
      sign == l.sign * r.sign
  IN  CASE l.sign = 0 \/ test < 0 -> Fixnum(0)
        [] test = 0               -> Fixnum(sign)
        [] OTHER                  -> Make(sign, Div(l.elts, r.elts).quo)

OprtrRemainder(l, r) ==
  LET test == Cmp(l.elts, r.elts)
  IN  CASE l.sign = 0 \/ test = 0 -> Fixnum(0)
        [] test < 0               -> ToInteger(l)
        [] OTHER                  -> Make(l.sign, Div(l.elts, r.elts).rem)

(* The least fixnum divided by -1 is no fixnum, and is made one.           *)
Quotient(l, r) ==
  IF BothFixnums(l, r) THEN MakeFixnum(CQuo(l.n, r.n)) ELSE OprtrQuotient(AsBignum(l), AsBignum(r))

Remainder(l, r) ==
  IF BothFixnums(l, r) THEN MakeFixnum(CRem(l.n, r.n)) ELSE OprtrRemainder(AsBignum(l), AsBignum(r))

WithSignOf(rem, r) == IF SignOf(rem) * SignOf(r) < 0 THEN AddInt(rem, r) ELSE rem

Modulo(l, r) == WithSignOf(Remainder(l, r), r)

(***************************************************************************)
(* exact-integer-sqrt: the root.  That of a fixnum which a double holds is *)
(* floor(sqrt((double)value)).  Next below k, for 2^e < k <= 2^(e+1), a    *)
(* double is k - 2/m with m = 2^(DoubleBits-e), so that sqrt comes to k    *)
(* for what is above k - 1/m; an integer's root is never just there.       *)
(***************************************************************************)
FloorRoot(n) == Max({s \in 0..n : s * s <= n})

Halves(k) == 2 ^ (DoubleBits - Max({e \in 0..DoubleBits : 2 ^ e < k}))

DoubleRoot(n) ==
  LET k == FloorRoot(n) + 1
      m == Halves(k)
  IN  IF n * (m * m) > (k * m - 1) * (k * m - 1) THEN k ELSE k - 1

ExactSqrt(x) ==
  CASE x = Fixnum(0) -> x
    [] IsFixnum(x) /\ x.n \in 1..(2 ^ DoubleBits - 1) -> Fixnum(DoubleRoot(x.n))
    [] OTHER -> Make(1, Sqrt(AsBignum(x).elts))

(***************************************************************************)
(* Comparison.  Two bignums are equal, whatever their signs, when their    *)
(* digits are.                                                             *)
(***************************************************************************)
IsEven(x) == IF IsFixnum(x) THEN x.n % 2 = 0 ELSE Head(x.elts) % 2 = 0

CompareInt(l, r) ==
  CASE BothFixnums(l, r)           -> Sign(l.n - r.n)
    [] IsFixnum(l) /\ ~IsFixnum(r) -> -r.sign
    [] ~IsFixnum(l) /\ IsFixnum(r) -> l.sign
    [] OTHER                       -> IF l.sign = r.sign THEN l.sign * Cmp(l.elts, r.elts)
                                      ELSE Sign(l.sign - r.sign)

EqualInt(l, r) ==
  CASE BothFixnums(l, r)                -> l.n = r.n
    [] IsFixnum(l) # IsFixnum(r)        -> FALSE
    [] OTHER                            -> Cmp(l.elts, r.elts) = 0

(***************************************************************************)
(* The bits of two's complement, turned over, shifted and counted.         *)
(***************************************************************************)
Lognot(x) ==
  LET Not(e) == Norm([i \in DOMAIN e |-> Base - 1 - e[i]])
  IN  CASE IsFixnum(x) -> IntToInteger(-x.n - 1)
        [] x.type = "bignum" /\ x.sign > 0 -> Make(-1, Flip2sc(Not(Append(x.elts, 0))))
        [] OTHER       -> Make(1, Not(Flip2sc(Append(x.elts, 0))))

OprtrLogash(b, shift) ==
  LET wide == Pad(b.elts, Len(b.elts) + (shift + DigitBits - 1) \div DigitBits)
      twos == ShiftRight2sc(Flip2sc(Append(b.elts, 0)), -shift)
  IN  CASE shift = 0                -> b
        [] shift > 0                -> Make(b.sign, ShiftLeft(wide, shift))
        [] shift < 0 /\ b.sign > 0  -> Make(1, ShiftRight(b.elts, -shift))
        [] OTHER                    -> Make(-1, Flip2sc(twos))

(* A fixnum is shifted in two words, which hold it up to a shift of one    *)
(* word to the left.  To the right C++ leaves a shift of two words or more *)
(* undefined: x86-64 and ARM64 then shift by the remainder.  All other     *)
(* shifts become an int.                                                   *)
Logash(x, shift) ==
  LET n == IF shift > 0 THEN x.n * 2 ^ shift ELSE x.n \div 2 ^ ((-shift) % (2 * DigitBits))
  IN  IF IsFixnum(x) /\ shift <= DigitBits /\ n \in FixnumMin..FixnumMax THEN Fixnum(n)
      ELSE OprtrLogash(AsBignum(x), AsInt(shift))

BitLength_OfMagnitude(x) == IF SignOf(x) = 0 THEN 0 ELSE BitSize(AsBignum(x).elts)

BitLength(x) ==
  LET not == AsBignum(IF SignOf(x) < 0 THEN Lognot(x) ELSE x)
  IN  IF not.elts = <<>> THEN 0 ELSE BitSize(not.elts)
==============================================================================
