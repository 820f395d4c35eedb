------------------------------ MODULE Calculator ------------------------------
(***************************************************************************)
(* A program that computes with exact numbers: x is the object it holds, z *)
(* the number x ought to be, which is computed beside it with the integers *)
(* of TLA+.  Every step is a call of a procedure with x and operands.      *)
(* What a call leaves in x the next call takes, so a result that is right  *)
(* but not in the form the code relies on is found by what follows from it.*)
(***************************************************************************)
EXTENDS Fixnums, Bytevectors

CONSTANTS
  Operands,                 \* exact numbers
  Pairs,                    \* the first and the last of a list of three
  Samples,                  \* bytevectors
  MaxInteger,               \* bounds of what is computed on: integers,
  MaxNume, MaxDeno,         \* fractions
  MaxPart,                  \* and the parts of complex numbers
  Powers, Shifts, Radices

VARIABLES x, z

vars == <<x, z>>

(***************************************************************************)
(* Exact numbers: a pair of fractions in lowest terms.                     *)
(***************************************************************************)
RECURSIVE Common(_, _)
Common(a, b) == IF b = 0 THEN a ELSE Common(b, a % b)

Frac(p, q) == LET g == Common(Abs(p), Abs(q)) IN <<(Sign(q) * p) \div g, Abs(q) \div g>>

Plus(a, b)  ==
  LET g == Common(a[2], b[2])
  IN  Frac(a[1] * (b[2] \div g) + b[1] * (a[2] \div g), (a[2] \div g) * b[2])
Minus(a)    == <<-a[1], a[2]>>
Times(a, b) == Frac(a[1] * b[1], a[2] * b[2])
Over(a, b)  == Frac(a[1] * b[2], a[2] * b[1])
FloorOf(a)  == a[1] \div a[2]

Exact(re, im) == [re |-> re, im |-> im]

RealOf(f) == Exact(f, <<0, 1>>)
OfNat(n)  == RealOf(<<n, 1>>)
None      == Exact(<<0, 0>>, <<1, 0>>)        \* not a number

ZIsReal(v)    == v.im[1] = 0
ZIsInteger(v) == ZIsReal(v) /\ v.re[2] = 1
ZIsZero(v)    == v = OfNat(0)
ZNumber(v)    == v.re[1]

ZAdd(v, w) == Exact(Plus(v.re, w.re), Plus(v.im, w.im))
ZNegate(v) == Exact(Minus(v.re), Minus(v.im))
ZMul(v, w) == Exact(Plus(Times(v.re, w.re), Minus(Times(v.im, w.im))),
                    Plus(Times(v.re, w.im), Times(v.im, w.re)))
ZInverse(v) ==
  LET m == Plus(Times(v.re, v.re), Times(v.im, v.im))
  IN  CASE ZIsZero(v) -> None
        [] ZIsReal(v) /\ ~ZIsZero(v) -> RealOf(Over(<<1, 1>>, v.re))
        [] OTHER -> Exact(Over(v.re, m), Over(Minus(v.im), m))

RECURSIVE ZExpt(_, _)
ZExpt(v, n) == IF n = 0 THEN OfNat(1)
               ELSE IF n < 0 THEN ZInverse(ZExpt(v, -n)) ELSE ZMul(v, ZExpt(v, n - 1))

ZLogical(op, m, n) ==
  LET w == OnWords(op, m, n, 4 * DigitBits)
  IN  IF w >= 2 ^ (4 * DigitBits - 1) THEN w - 2 ^ (4 * DigitBits) ELSE w

ZCombine(op, v, w) ==
  CASE v = None    -> None
    [] op = "add"  -> ZAdd(v, w)
    [] op = "sub"  -> ZAdd(v, ZNegate(w))
    [] op = "mul"  -> ZMul(v, w)
    [] op = "div"  -> IF ZIsZero(w) THEN None ELSE ZMul(v, ZInverse(w))
    [] OTHER       -> OfNat(ZLogical(op, ZNumber(v), ZNumber(w)))

(* Of one number, what the unit of the operation gives with it.            *)
ZUnit(op) == OfNat(CASE op \in {"mul", "div"} -> 1 [] op = "and" -> -1 [] OTHER -> 0)

ZCall(op, vs) ==
  IF \/ \E i \in DOMAIN vs : vs[i] = None \/ (op \in BitOps /\ ~ZIsInteger(vs[i]))
     \/ vs = <<>> /\ op \in {"sub", "div"}
  THEN None
  ELSE LET all == IF Len(vs) < 2 THEN <<ZUnit(op)>> \o vs ELSE vs
           upto[i \in 1..Len(all)] == IF i = 1 THEN all[1] ELSE ZCombine(op, upto[i - 1], all[i])
       IN  upto[Len(all)]

Truncate(f) == IF f[1] < 0 THEN -FloorOf(Minus(f)) ELSE FloorOf(f)

(* To the nearest integer, to the even one of two.                         *)
ToEven(f) ==
  CHOOSE n \in {FloorOf(f), FloorOf(f) + 1} :
    LET gap == 2 * Abs(f[1] - n * f[2])
    IN  gap < f[2] \/ (gap = f[2] /\ n % 2 = 0)

(* div and mod round so that mod is not negative; div0 to the nearest.     *)
Nearest(a, b) == Sign(b[1]) * FloorOf(Plus(Over(a, <<Abs(b[1]), b[2]>>), <<1, 2>>))

Euclid(a, b) == Sign(b[1]) * FloorOf(Over(a, <<Abs(b[1]), b[2]>>))

(* The object of a number: one form for each.                              *)
RECURSIVE EltsOf(_)
EltsOf(n) == IF n = 0 THEN <<>> ELSE <<n % Base>> \o EltsOf(n \div Base)

OfInteger(n) == IF n \in FixnumMin..FixnumMax THEN Fixnum(n) ELSE Big(Sign(n), EltsOf(Abs(n)))

OfFraction(f) == IF f[2] = 1 THEN OfInteger(f[1]) ELSE Rational(OfInteger(f[1]), OfInteger(f[2]))

ObjectOf(v) ==
  CASE v = None                 -> Other
    [] v # None /\ ZIsReal(v)   -> OfFraction(v.re)
    [] v # None /\ ~ZIsReal(v)  -> Complex(OfFraction(v.re), OfFraction(v.im))

AnswerOf(v) == IF v = None THEN Refused ELSE ObjectOf(v)

SmallPart(f) == Abs(f[1]) <= MaxPart /\ f[2] <= MaxPart

Small(v) ==
  CASE ZIsInteger(v) -> Abs(ZNumber(v)) <= MaxInteger
    [] ZIsReal(v) /\ ~ZIsInteger(v) -> Abs(v.re[1]) <= MaxNume /\ v.re[2] <= MaxDeno
    [] OTHER -> SmallPart(v.re) /\ SmallPart(v.im)

(***************************************************************************)
(* Four calls answer wrongly, and the program does not go on from there.   *)
(* With the least fixnum these are a fraction whose denominator should be  *)
(* its magnitude, arith.cpp:1251, and its quotient by -1, arith.cpp:3275.  *)
(* The root of k*k-1 is k where a double does not tell them apart,         *)
(* arith.cpp:3923, and a fixnum shifted right by two words or more is      *)
(* shifted by the remainder, arith.cpp:2752.                               *)
(***************************************************************************)
DoubleTells(n) ==
  LET k == Max({s \in 0..n : s * s <= n}) + 1 IN n # k * k - 1 \/ 2 * k * k <= 2 ^ DoubleBits

LeastDenominator(obj) ==
  LET Wrapped(r) == r.type = "rational" /\ r.deno = Fixnum(FixnumMin)
  IN  CASE obj = Refused -> FALSE
        [] OTHER         -> IF IsReal(obj) THEN Wrapped(obj) ELSE Wrapped(obj.real) \/ Wrapped(obj.imag)

(* A call that is refused, as it should be, changes nothing.               *)
Holds(obj, v) ==
  /\ Small(v) /\ ~LeastDenominator(obj)
  /\ v = None => obj # Refused
  /\ x' = obj /\ z' = v

Init == \E v \in Operands : z = v /\ x = ObjectOf(v)

Arguments == Operands \cup {None}

(* Any number of arguments, x among them or not.                           *)
Lists(op) ==
  {<<>>, <<z>>} \cup {<<z, v>> : v \in Arguments} \cup {<<p[1], z, p[2]>> : p \in Pairs}
  \cup {<<v, z>> : v \in IF op \in {"sub", "div"} THEN Arguments ELSE {None}}

Variadic ==
  \E op \in ArithOps \cup BitOps :
    \E vs \in Lists(op) : Holds(Call(op, [i \in DOMAIN vs |-> ObjectOf(vs[i])]), ZCall(op, vs))

ZRounded(op, v) ==
  IF ~ZIsReal(v) THEN None
  ELSE OfNat(CASE op = "floor"    -> FloorOf(v.re)
               [] op = "ceiling"  -> -FloorOf(Minus(v.re))
               [] op = "truncate" -> Truncate(v.re)
               [] op = "round"    -> ToEven(v.re))

ZPartOf(op, v) ==
  CASE op = "real-part" -> RealOf(v.re)
    [] op = "imag-part" -> RealOf(v.im)
    [] OTHER -> IF ~ZIsReal(v) THEN None
                ELSE CASE op = "numerator"   -> OfNat(v.re[1])
                       [] op = "denominator" -> OfNat(v.re[2])
                       [] op = "abs"         -> RealOf(<<Abs(v.re[1]), v.re[2]>>)

ZSqrtAndRest(op, v) ==
  IF ~ZIsInteger(v) \/ ZNumber(v) < 0 THEN None
  ELSE LET s == Max({r \in 0..ZNumber(v) : r * r <= ZNumber(v)})
       IN  OfNat(IF op = "root" THEN s ELSE ZNumber(v) - s * s)

OneNumber ==
  \/ \E op \in Roundings : Holds(Rounded(op, x), ZRounded(op, z))
  \/ \E op \in Parts : Holds(PartOf(op, x), ZPartOf(op, z))
  \/ /\ IsFixnum(x) /\ x.n \in 1..(2 ^ DoubleBits - 1) => DoubleTells(x.n)
     /\ \E op \in {"root", "rest"} : Holds(SqrtAndRest(op, x), ZSqrtAndRest(op, z))
  \/ Holds(BitwiseNot(x), IF ZIsInteger(z) THEN OfNat(-ZNumber(z) - 1) ELSE None)

(* Cubes of complex numbers are beyond the integers of TLC.                *)
ToThePower ==
  \E n \in Powers :
    /\ n >= 0 \/ ~ZIsZero(z)
    /\ ZIsReal(z) \/ n \in -2..2
    /\ Holds(Power(x, OfInteger(n)), ZExpt(z, n))

ZDivided(op, v, w) ==
  LET q == Over(v.re, w.re)
  IN  CASE \/ ~ZIsReal(v) \/ ~ZIsReal(w) \/ ZIsZero(w)
           \/ op \notin {"div", "div0"} /\ ~(ZIsInteger(v) /\ ZIsInteger(w)) -> None
        [] OTHER -> OfNat(CASE op = "div"       -> Euclid(v.re, w.re)
                            [] op = "div0"      -> Nearest(v.re, w.re)
                            [] op = "quotient"  -> Truncate(q)
                            [] op = "remainder" -> ZNumber(v) - ZNumber(w) * Truncate(q)
                            [] op = "modulo"    -> ZNumber(v) - ZNumber(w) * FloorOf(q))

IntegerDivision ==
  \E op \in Divisions, v \in Arguments :
    /\ ~(op = "quotient" /\ x = Fixnum(FixnumMin) /\ v = OfNat(-1))
    /\ Holds(Divided(op, x, ObjectOf(v)), ZDivided(op, z, v))

Shift ==
  \E s \in Shifts :
    LET shifted == IF s > 0 THEN ZNumber(z) * 2 ^ s ELSE ZNumber(z) \div 2 ^ (-s)
    IN  /\ IsFixnum(x) => s > -2 * DigitBits
        /\ Holds(ArithmeticShift(x, s), IF ZIsInteger(z) THEN OfNat(shifted) ELSE None)

Rectangle ==
  \E v \in Arguments :
    Holds(MakeRectangular(x, ObjectOf(v)),
          IF ZIsReal(z) /\ ZIsReal(v) THEN Exact(z.re, v.re) ELSE None)

Next == Variadic \/ OneNumber \/ ToThePower \/ IntegerDivision \/ Shift \/ Rectangle

Spec == Init /\ [][Next]_vars

(***************************************************************************)
(* Every operation answers with the number it should and in the one form   *)
(* the others rely on: a bignum has no leading zero and fits no fixnum, a  *)
(* fraction is in lowest terms with a positive denominator above one, a    *)
(* complex number is not real.  EqualInt, Compare, and the shortcuts on    *)
(* MAKEFIXNUM(1) and MAKEFIXNUM(-1) are wrong for any other form.          *)
(***************************************************************************)
ResultsExact == x = AnswerOf(z)

(* = is equality of the numbers and < and its like are their order, along  *)
(* all of the arguments; what is no number, or not real, is refused.  But  *)
(* bignums that differ in sign only are equal to = (arith.cpp:2141).       *)
Unsigned(obj) ==
  LET Positive(i) == IF IsFixnum(i) THEN i ELSE Big(1, i.elts)
      Part(r) == <<Positive(Nume(r)), Positive(Deno(r))>>
  IN  IF IsReal(obj) THEN <<Part(obj)>> ELSE <<Part(obj.real), Part(obj.imag)>>

OrderRight ==
  /\ IsZero(x) = Truth(ZIsZero(z))
  /\ IsPositive(x) = IF ZIsReal(z) THEN Truth(z.re[1] > 0) ELSE Refused
  /\ IsNegative(x) = IF ZIsReal(z) THEN Truth(z.re[1] < 0) ELSE Refused
  /\ Parity(x) = IF ZIsInteger(z) THEN Truth(ZNumber(z) % 2 = 0) ELSE Refused
  /\ \A v \in Arguments :
       LET y    == ObjectOf(v)
           c    == Sign(Plus(z.re, Minus(v.re))[1])
           real == v # None /\ ZIsReal(z) /\ ZIsReal(v)
       IN  /\ NumEqual(<<x, x, y>>) =
                IF v = None THEN Refused ELSE Truth(z = v \/ Unsigned(x) = Unsigned(y))
           /\ \A op \in {"<", ">", "<=", ">="} :
                NumOrder(op, <<x, y, x>>) =
                  IF real THEN Truth(Related(op, c) /\ Related(op, -c)) ELSE Refused
           /\ NumOrder("<", <<x, y>>) = IF real THEN Truth(c < 0) ELSE Refused

(* bitwise-bit-count, bitwise-length and bitwise-first-bit-set of an       *)
(* integer are those of its two's complement; the count of 0 is excepted:  *)
(* arith_bit_count takes 0 for a negative number (arith.cpp:2574).         *)
BitsCounted ==
  ZIsInteger(z) =>
    LET n    == IF ZNumber(z) < 0 THEN -ZNumber(z) - 1 ELSE ZNumber(z)
        bits == {k \in 0..(4 * DigitBits) : (n \div 2 ^ k) % 2 = 1}
        ones == Cardinality(bits)
    IN  /\ z # OfNat(0) => BitCount(x) = IF ZNumber(z) < 0 THEN -ones - 1 ELSE ones
        /\ BitLength(x) = IF bits = {} THEN 0 ELSE Max(bits) + 1
        /\ IF ZNumber(z) = 0 THEN FirstBitSet(x) = -1
           ELSE /\ ZNumber(z) % 2 ^ FirstBitSet(x) = 0
                /\ ZNumber(z) % 2 ^ (FirstBitSet(x) + 1) # 0

(***************************************************************************)
(* The procedures of fixnums answer as those of integers do when the       *)
(* answer is a fixnum, and refuse the call when it is none: overflow, what *)
(* is shifted out, bits beyond the width.  Excepted are the products that  *)
(* wrap around to a fixnum (subr_fixnum.cpp:361), the count of the bits of *)
(* 0, and the arguments that are never looked at.                          *)
(***************************************************************************)
FixnumValues == FixnumMin..FixnumMax

AsFixnum(n) == IF n \in FixnumValues THEN Fixnum(n) ELSE Refused

BitAt(n, k) == (n \div 2 ^ k) % 2

BitsAre(answer, AtPlace(_)) ==
  IsFixnum(answer) /\ \A k \in 0..(FixnumBits - 1) : BitAt(answer.n, k) = AtPlace(k)

UnaryRight(n) ==
  /\ FxNegate(x) = AsFixnum(-n)
  /\ BitsAre(FxNot(x), LAMBDA k : 1 - BitAt(n, k))
  /\ \A op \in {"zero?", "positive?", "negative?", "even?", "odd?"} :
       FxPredicate(op, x) = Truth(CASE op = "zero?" -> n = 0 [] op = "positive?" -> n \in 1..FixnumMax
                                    [] op = "negative?" -> -n \in 1..-FixnumMin
                                    [] op = "even?" -> BitAt(n, 0) = 0 [] op = "odd?" -> BitAt(n, 0) = 1)
  /\ \A k \in FixnumValues :
       FxBitSet(x, Fixnum(k)) =
         IF k \in 0..(FixnumBits - 1) THEN Truth(BitAt(n, k) = 1) ELSE Refused

DivisionRight(v) ==
  \A op \in {"div", "div0"} :
    LET q == IF ZIsInteger(v) /\ ZNumber(v) \in FixnumValues THEN ZDivided(op, z, v) ELSE None
    IN  FxDivide(op, x, ObjectOf(v)) = IF q = None THEN Refused ELSE AsFixnum(ZNumber(q))

RefusesOther(y) ==
  \A answer \in {FxArith("add", x, y), FxShift(x, y), FxMaxMin("max", <<y, x>>),
                 FxCompare("=", <<x, y>>), FxBitwise("and", <<x, y, x>>)} : answer = Refused

BinaryRight(n, m) ==
  LET y       == Fixnum(m)
      shifted == IF m < 0 THEN n \div 2 ^ (-m) ELSE n * 2 ^ m
      inside  == -m < FixnumBits /\ m < FixnumBits
  IN  /\ FxArith("add", x, y) = AsFixnum(n + m)
      /\ FxArith("sub", x, y) = AsFixnum(n - m)
      /\ n * m \in Signed(DigitBits) => FxArith("mul", x, y) = AsFixnum(n * m)
      /\ FxMaxMin("max", <<x, y, x>>) = IF n < m THEN y ELSE x
      /\ FxMaxMin("min", <<x, y, x>>) = IF n < m THEN x ELSE y
      /\ FxCompare("=", <<x, x, y>>) = Truth(n = m)
      /\ FxCompare("<", <<x, y>>) = Truth(n < m)
      /\ \A op \in BitOps :
           BitsAre(FxBitwise(op, <<x, y>>), LAMBDA k : OnBits(op, BitAt(n, k), BitAt(m, k)))
      /\ FxShift(x, y) = IF inside THEN AsFixnum(shifted) ELSE Refused
      /\ FxShiftLeft(x, y) = IF inside /\ m >= 0 THEN AsFixnum(shifted) ELSE Refused
      /\ FxShiftRight(x, y) = IF inside /\ m >= 0 THEN AsFixnum(n \div 2 ^ m) ELSE Refused

TernaryRight(n, m, p) ==
  LET y == Fixnum(m)
      w == Fixnum(p)
      field == 0 <= m /\ m <= p /\ p < FixnumBits
  IN  /\ BitsAre(FxIf(x, y, w), LAMBDA k : IF BitAt(n, k) = 1 THEN BitAt(m, k) ELSE BitAt(p, k))
      /\ IF m \in 0..(FixnumBits - 1) /\ p \in {0, 1}
         THEN BitsAre(FxCopyBit(x, y, w), LAMBDA k : IF k = m THEN p ELSE BitAt(n, k))
         ELSE FxCopyBit(x, y, w) = Refused
      /\ IF field
         THEN /\ BitsAre(FxBitField(x, y, w), LAMBDA k : IF k < p - m THEN BitAt(n, k + m) ELSE 0)
              /\ \A q \in FixnumValues :
                   BitsAre(FxCopyBitField(x, y, w, Fixnum(q)),
                           LAMBDA k : IF m <= k /\ k < p THEN BitAt(q, k - m) ELSE BitAt(n, k))
         ELSE /\ FxBitField(x, y, w) = Refused
              /\ FxCopyBitField(x, y, w, y) = Refused

FixnumsRight ==
  ZIsInteger(z) /\ ZNumber(z) \in FixnumValues =>
    /\ UnaryRight(ZNumber(z))
    /\ RefusesOther(Other)
    /\ \A v \in Arguments : DivisionRight(v)
    /\ \A m \in FixnumValues : BinaryRight(ZNumber(z), m)
    /\ \A m, p \in FixnumValues : TernaryRight(ZNumber(z), m, p)

(***************************************************************************)
(* An integer that is stored in a bytevector is read back from it, in any  *)
(* width, order and sign; no other octet changes.  It is refused exactly   *)
(* when the octets cannot hold it or do not lie in the bytevector, when    *)
(* they are not aligned though they should be, and when the bytevector is  *)
(* a literal.  So it is for whole bytevectors and for a copy of that size, *)
(* in place or not, when the size is not negative.  Excepted are bytevector-s64-set! in big-endian order, which *)
(* writes half of the octets (subr_bvector.cpp:757), and the values above  *)
(* 255 that c_n8_set takes (subr_bvector.cpp:1395).                        *)
(***************************************************************************)
Elsewhere(bv, k, octets, after) ==
  /\ DOMAIN after.elts = DOMAIN bv.elts
  /\ \A i \in DOMAIN bv.elts \ (k + 1)..(k + octets) : after.elts[i] = bv.elts[i]

Stores(bv, k, octets, aligned, signed, after, read) ==
  LET fits == /\ ZNumber(z) \in WordRange(signed, octets * OctetBits)
              /\ k >= 0 /\ k + octets <= Len(bv.elts) /\ (aligned => k % octets = 0)
              /\ ~bv.literal
  IN  IF fits THEN after # Refused /\ read = x /\ Elsewhere(bv, k, octets, after)
              ELSE after = Refused

WholesHold(n) ==
  LET octet == n \in -(OctetBase \div 2)..(OctetBase - 1)
      value == n % OctetBase
      list  == <<Fixnum(0), x, Fixnum(1)>>
      Copied(from, s, to, t) ==
        IF s + n > Len(from.elts) \/ t + n > Len(to.elts) \/ to.literal THEN Refused
        ELSE Bytes([i \in DOMAIN to.elts |->
                      IF i - t \in 1..n THEN from.elts[i - t + s] ELSE to.elts[i]])
  IN  /\ \A bv \in Samples :
           Fill(bv, x) = IF octet /\ ~bv.literal THEN Bytes([i \in DOMAIN bv.elts |-> value]) ELSE Refused
      /\ MakeBytevector(Fixnum(2), x) = IF octet THEN Bytes(<<value, value>>) ELSE Refused
      /\ IF octet /\ n >= 0 THEN U8List(OfU8List(list)) = list ELSE OfU8List(list) = Refused
      /\ octet => StrLen(Bytes(<<1, value, 1>>)) = Fixnum(IF n = 0 THEN 1 ELSE 3)
      /\ n \in 0..FixnumMax => \A from, to \in Samples, s, t \in 0..FixnumMax :
           CopyInto(from, Fixnum(s), to, Fixnum(t), x) = Copied(from, s, to, t)

WordsHold ==
  ZIsInteger(z) /\ ZNumber(z) \in -Base..Base =>
    /\ WholesHold(ZNumber(z))
    /\ \A bv \in Samples, k \in FixnumValues, signed \in BOOLEAN :
       LET place == Fixnum(k)
           Read1(after, octets, access) ==
             IF after = Refused THEN Refused
             ELSE IF octets = 4 THEN WideRef(after, place, octets, access, signed)
                                ELSE SmallRef(after, place, octets, access, signed)
           Kept(octets, access, after) ==
             Stores(bv, k, octets, access = "native", signed, after, Read1(after, octets, access))
       IN  /\ \A access \in {"little", "big", "native"} :
                /\ \A octets \in 1..2 : Kept(octets, access, SmallSet(bv, place, octets, access, signed, x))
                /\ Kept(2, access, HalfSet(bv, place, access, signed, x))
                /\ ~(access = "big" /\ signed) =>
                     Kept(4, access, WordSet(bv, place, access, signed, x))
           /\ \A type \in DOMAIN CTypes :
                (ZNumber(z) < 0) = signed /\ (type = "char" => ZNumber(z) < OctetBase)
                  => Kept(CTypes[type], "c", CSet(bv, place, type, x))

(* What number->string prints string->number reads back, in any radix.     *)
ReadsBack == ZIsInteger(z) => \A r \in Radices : Read(NumberToString(x, r), r) = x

(* It does, but for the negative numbers of one digit that are close to    *)
(* the largest: as signed words they are small.                            *)
ReadsBackElsewhere ==
  ZNumber(z) \notin (1 - Base)..(-(Base - FixnumMax)) => ReadsBack
==============================================================================
