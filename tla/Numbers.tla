------------------------------- MODULE Numbers -------------------------------
(***************************************************************************)
(* The exact numbers of arith.cpp that are built on fractions: rectangular *)
(* complex numbers, powers, rounding to the nearest, bit operations,       *)
(* words, and the digits that are printed and read back.  Flonums are left *)
(* out.                                                                    *)
(***************************************************************************)
EXTENDS Fractions, FiniteSets

Complex(real, imag) == [type |-> "complex", real |-> real, imag |-> imag]

IsReal(x) == x.type # "complex"

(***************************************************************************)
(* Complex numbers: an exact zero imaginary part makes a real.  Only the   *)
(* operations that can produce one look for it, and all call themselves on *)
(* the parts.                                                              *)
(***************************************************************************)
NormComplex(real, imag) == IF imag = Fixnum(0) THEN real ELSE Complex(real, imag)

ArithReal(op, l, r) ==
  CASE op = "add" -> AddReal(l, r)
    [] op = "sub" -> SubReal(l, r)
    [] op = "mul" -> MulReal(l, r)
    [] op = "div" -> DivReal(l, r)

RECURSIVE Arith(_, _, _)
Arith(op, l, r) ==
  LET Dot(a, b, c, d)   == Arith("add", Arith("mul", a, b), Arith("mul", c, d))
      Cross(a, b, c, d) == Arith("sub", Arith("mul", a, b), Arith("mul", c, d))
      Magnitude2(c)     == Dot(c.real, c.real, c.imag, c.imag)
  IN
  CASE IsReal(l) /\ IsReal(r)   -> ArithReal(op, l, r)
    [] l = Fixnum(0) /\ op \in {"mul", "div"} -> l
    [] r = Fixnum(0) /\ op = "mul" -> r
    [] IsReal(l) /\ op = "add"   -> Complex(Arith(op, r.real, l), r.imag)
    [] IsReal(l) /\ op = "sub"   -> Complex(Arith(op, l, r.real), NegateReal(r.imag))
    [] IsReal(l) /\ op = "mul"   -> Complex(Arith(op, r.real, l), Arith(op, r.imag, l))
    [] IsReal(l) /\ op = "div"   ->
         Complex(Arith(op, Arith("mul", r.real, l), Magnitude2(r)),
                 NegateReal(Arith(op, Arith("mul", l, r.imag), Magnitude2(r))))
    [] IsReal(r) /\ op \in {"add", "sub"} -> Complex(Arith(op, l.real, r), l.imag)
    [] IsReal(r) /\ op \in {"mul", "div"} -> Complex(Arith(op, l.real, r), Arith(op, l.imag, r))
    [] ~IsReal(l) /\ ~IsReal(r) /\ op \in {"add", "sub"} ->
         NormComplex(Arith(op, l.real, r.real), Arith(op, l.imag, r.imag))
    [] ~IsReal(l) /\ ~IsReal(r) /\ op = "mul" ->
         NormComplex(Cross(l.real, r.real, l.imag, r.imag), Dot(l.imag, r.real, l.real, r.imag))
    [] ~IsReal(l) /\ ~IsReal(r) /\ op = "div" ->
         NormComplex(Arith(op, Dot(l.real, r.real, l.imag, r.imag), Magnitude2(r)),
                     Arith(op, Cross(l.imag, r.real, l.real, r.imag), Magnitude2(r)))

Add(l, r) == Arith("add", l, r)

Sub(l, r) == Arith("sub", l, r)

Mul(l, r) == Arith("mul", l, r)

Dvd(l, r) == Arith("div", l, r)

Negate(x) == IF IsReal(x) THEN NegateReal(x) ELSE Complex(NegateReal(x.real), NegateReal(x.imag))

Reciprocal(x) == IF IsReal(x) THEN ReciprocalReal(x) ELSE Dvd(Fixnum(1), x)

(***************************************************************************)
(* Powers, by squaring.  A power of two is one bit set.                    *)
(***************************************************************************)
Taken(ans, x) == IF ans = Fixnum(1) THEN x ELSE Mul(ans, x)

RECURSIVE Squares(_, _, _)
Squares(ans, x, n) ==
  IF n = 1 THEN Taken(ans, x)
  ELSE Squares(IF n % 2 = 0 THEN ans ELSE Taken(ans, x), Mul(x, x), n \div 2)

PowerOfTwo(n) ==
  IF n + 1 <= DigitBits - 2 THEN MakeFixnum(2 ^ n)
  ELSE LET count == (n + 1 + DigitBits - 1) \div DigitBits
       IN  Big(1, [i \in 1..count |-> IF i = count THEN 2 ^ (n % DigitBits) ELSE 0])

RECURSIVE Expt(_, _)
Expt(x, n) ==
  CASE n = 0 -> Fixnum(1)
    [] n = 1 -> x
    [] n < 0 -> Reciprocal(Expt(x, -n))
    [] n > 1 /\ IsReal(x) /\ SignOf(x) < 0 ->
         IF n % 2 = 0 THEN Expt(NegateReal(x), n) ELSE NegateReal(Expt(NegateReal(x), n))
    [] n > 1 /\ x \in {Fixnum(0), Fixnum(1)} -> x
    [] n > 1 /\ x = Fixnum(2) -> PowerOfTwo(n)
    [] n > 1 /\ x.type = "rational" /\ SignOf(x) > 0 -> Reduce(Expt(x.nume, n), Expt(x.deno, n))
    [] OTHER -> Squares(Fixnum(1), x, n)

(***************************************************************************)
(* Rounding to the nearest, and the integer division that goes with it.    *)
(***************************************************************************)
(* Half of one is added away from zero; an integer, then, was a tie.       *)
RoundFrom(n_and_half, unit) ==
  CASE ~IsInteger(n_and_half) -> Quotient(n_and_half.nume, n_and_half.deno)
    [] OTHER -> IF IsEven(n_and_half) THEN n_and_half ELSE AddInt(n_and_half, Fixnum(-unit))

HalfToward(unit) == Rational(Fixnum(unit), Fixnum(2))

Round(x) ==
  LET unit == IF SignOf(x) < 0 THEN -1 ELSE 1
  IN  IF IsInteger(x) THEN x ELSE RoundFrom(AddReal(x, HalfToward(unit)), unit)

NearestOf(div, mod, r) ==
  CASE Compare(mod, Magnitude(DivReal(r, Fixnum(2)))) < 0 -> div
    [] SignOf(r) > 0 -> AddReal(div, Fixnum(1))
    [] OTHER         -> SubReal(div, Fixnum(1))

DivMod(l, r, div) == NearestOf(div, SubReal(l, MulReal(div, r)), r)

IntegerDiv0(l, r) == DivMod(l, r, IntegerDiv(l, r))

(***************************************************************************)
(* Equality of exact numbers.  Two bignums are compared by their digits,   *)
(* whatever their signs.                                                   *)
(***************************************************************************)
EqualReal_NumeratorsOnly(l, r) == IsInteger(l) = IsInteger(r) /\ EqualInt(Nume(l), Nume(r))

EqualReal(l, r) ==
  /\ IsInteger(l) = IsInteger(r)
  /\ EqualInt(Nume(l), Nume(r)) /\ EqualInt(Deno(l), Deno(r))

Equal(l, r) ==
  /\ IsReal(l) = IsReal(r)
  /\ IF IsReal(l) THEN EqualReal(l, r) ELSE EqualReal(l.real, r.real) /\ EqualReal(l.imag, r.imag)

(***************************************************************************)
(* Bit operations: two's complement, one digit longer than the longest     *)
(* operand, and back.                                                      *)
(***************************************************************************)
BitOps == {"and", "ior", "xor"}

OnBits(op, a, b) ==
  CASE op = "and" -> a * b
    [] op = "ior" -> Max({a, b})
    [] op = "xor" -> (a + b) % 2

RECURSIVE OnWords(_, _, _, _)
OnWords(op, a, b, width) ==
  IF width = 0 THEN 0
  ELSE 2 * OnWords(op, a \div 2, b \div 2, width - 1) + OnBits(op, a % 2, b % 2)

Extended(b, count) ==
  IF b.sign >= 0 THEN Pad(b.elts, count)
  ELSE LET twos == Flip2sc(Append(b.elts, 0))
       IN  [i \in 1..count |-> IF i \in DOMAIN twos THEN twos[i] ELSE Base - 1]

OprtrLogical(op, l, r) ==
  LET count == Longest(l.elts, r.elts) + 1
      lhs   == Extended(l, count)
      rhs   == Extended(r, count)
      ans   == Norm([i \in 1..count |-> OnWords(op, lhs[i], rhs[i], DigitBits)])
      minus(b) == IF b.sign < 0 THEN 1 ELSE 0
  IN  CASE l.sign = 0 \/ r.sign = 0 -> IF op = "and" THEN Fixnum(0)
                                       ELSE ToInteger(IF l.sign = 0 THEN r ELSE l)
        [] OnBits(op, minus(l), minus(r)) = 1 -> Make(-1, Flip2sc(ans))
        [] OTHER                    -> Make(1, ans)

(* Two fixnums are one word each.                                          *)
Logical(op, l, r) ==
  IF BothFixnums(l, r)
  THEN LET word == OnWords(op, l.n, r.n, DigitBits)
       IN  MakeFixnum(IF word >= Base \div 2 THEN word - Base ELSE word)
  ELSE OprtrLogical(op, AsBignum(l), AsBignum(r))

Bit(e, k) == (Digit(e, k \div DigitBits + 1) \div 2 ^ (k % DigitBits)) % 2

Ones(e) == Cardinality({k \in 0..(DigitBits * Len(e)) : Bit(e, k) = 1})

OnesOfWord(n) == Ones(IntToBignum(n % Base).elts)

(* Zero is taken for a negative number.                                    *)
BitCount(x) ==
  LET not == AsBignum(Lognot(x))
  IN  CASE IsFixnum(x) /\ x.n > 0 -> OnesOfWord(x.n)
        [] IsFixnum(x) /\ x.n <= 0 -> -OnesOfWord(-x.n - 1) - 1
        [] x.type = "bignum" /\ x.sign > 0 -> Ones(x.elts)
        [] OTHER -> -Ones(not.elts) - 1

FirstBitSet(x) ==
  LET b == AsBignum(x)
      e == IF b.sign > 0 THEN b.elts ELSE Flip2sc(Append(b.elts, 0))
  IN  IF b.sign = 0 THEN -1 ELSE Min({k \in 0..(DigitBits * Len(e)) : Bit(e, k) = 1})

(***************************************************************************)
(* Words of a number of bits, for other languages: a digit has the larger  *)
(* word, half of its bits the smaller.  The empty set is a refusal.        *)
(***************************************************************************)
WordBits == {DigitBits \div 2, DigitBits}

Signed(width) == (-(2 ^ (width - 1)))..(2 ^ (width - 1) - 1)

ToSigned_NoLeast(x, width) ==
  CASE IsFixnum(x) -> {x.n} \cap Signed(width)
    [] OTHER -> IF Len(x.elts) = 1 /\ Head(x.elts) \in Signed(width) THEN {x.sign * Head(x.elts)} ELSE {}

ToSigned(x, width) ==
  LET most == 2 ^ (width - 1) - (IF SignOf(x) > 0 THEN 1 ELSE 0)
  IN  CASE IsFixnum(x) -> {x.n} \cap Signed(width)
        [] OTHER -> IF Len(x.elts) = 1 /\ Head(x.elts) <= most THEN {x.sign * Head(x.elts)} ELSE {}

ToUnsigned(x, width) ==
  CASE IsFixnum(x) -> {x.n} \cap 0..(2 ^ width - 1)
    [] OTHER -> IF x.sign > 0 /\ Len(x.elts) = 1 /\ Head(x.elts) < 2 ^ width THEN {Head(x.elts)} ELSE {}

(***************************************************************************)
(* Text, as a sign and digits, the most significant first.  A bignum is    *)
(* printed by dividing off the radix or, in radix ten, a power of it that  *)
(* fits in a digit, here the square.                                       *)
(***************************************************************************)
CONSTANT Ten                \* the radix printed by chunks

ASSUME TenAssumption == Ten \in Nat /\ Ten > 1 /\ Ten * Ten < Base

RECURSIVE FixnumDigits(_, _)
FixnumDigits(n, radix) ==
  IF n = 0 THEN <<>> ELSE Append(FixnumDigits(n \div radix, radix), n % radix)

RECURSIVE BignumDigits_NoPadding(_, _)
BignumDigits_NoPadding(e, radix) ==
  IF e = <<>> THEN <<>>
  ELSE LET chunk == IF radix = Ten THEN Ten * Ten ELSE radix
           d     == DivDigit(e, chunk)
       IN  BignumDigits_NoPadding(d.quo, radix) \o FixnumDigits(d.rem, radix)

RECURSIVE BignumDigits(_, _)
BignumDigits(e, radix) ==
  IF e = <<>> THEN <<>>
  ELSE IF radix = Ten
  THEN LET d == DivDigit(e, Ten * Ten)
       IN  BignumDigits(d.quo, radix) \o <<d.rem \div Ten, d.rem % Ten>>
  ELSE LET d == DivDigit(e, radix) IN Append(BignumDigits(d.quo, radix), d.rem)

DropZeros(s) ==
  LET first == {i \in DOMAIN s : s[i] # 0}
  IN  IF first = {} THEN <<>> ELSE SubSeq(s, Min(first), Len(s))

NumberToString(x, radix) ==
  LET b == AsBignum(x)
  IN  CASE b.sign = 0  -> [minus |-> FALSE, digits |-> <<0>>]
        [] IsFixnum(x) -> [minus |-> x.n < 0, digits |-> FixnumDigits(Abs(x.n), radix)]
        [] OTHER       -> [minus |-> x.sign < 0, digits |-> DropZeros(BignumDigits(x.elts, radix))]

(* What is read so far, in an array that grows when its last place fills.  *)
CONSTANT Quantum            \* BN_QUANTUM

ASSUME QuantumAssumption == Quantum \in Nat /\ Quantum > 1

RECURSIVE ReadDigits(_, _, _)
ReadDigits(workpad, s, radix) ==
  IF s = <<>> THEN Norm(workpad)
  ELSE LET count == Len(workpad)
           c     == Carry([i \in DOMAIN workpad |-> workpad[i] * radix], count - 1, Head(s))
           next  == Append(c.elts, c.out)
       IN  ReadDigits(IF next[count] = 0 THEN next ELSE next \o Zeros(Quantum), Tail(s), radix)

RECURSIVE TooLarge(_, _, _)
TooLarge(value, s, radix) ==
  \/ value > FixnumMax
  \/ s # <<>> /\ TooLarge(value * radix + Head(s), Tail(s), radix)

ReadUnsigned(s, radix) ==
  LET bn == ReadDigits(Zeros(Quantum), s, radix)
  IN  IF TooLarge(0, s, radix) THEN Big(1, bn) ELSE Fixnum(ValueOf(bn))

(* parse_negate: the digit is taken for a signed word before its sign is   *)
(* changed.                                                                *)
ReadNegated(x) ==
  LET word == IF Head(x.elts) >= Base \div 2 THEN Head(x.elts) - Base ELSE Head(x.elts)
  IN  CASE IsFixnum(x) -> IntToInteger(-x.n)
        [] Len(x.elts) = 1 /\ -word \in FixnumMin..FixnumMax -> Fixnum(-word)
        [] OTHER -> Big(-x.sign, x.elts)

Read(text, radix) ==
  LET x == ReadUnsigned(text.digits, radix) IN IF text.minus THEN ReadNegated(x) ELSE x
==============================================================================
