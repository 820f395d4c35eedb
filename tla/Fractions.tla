------------------------------ MODULE Fractions ------------------------------
(***************************************************************************)
(* The exact reals of arith.cpp: integers, and fractions in lowest terms,  *)
(* which are reduced by Euclid's loop or, between bignums, by the binary   *)
(* algorithm; their sums, products and quotients, rounding, comparison and *)
(* the integer division of R6RS.                                           *)
(***************************************************************************)
EXTENDS ExactIntegers

Rational(nume, deno) == [type |-> "rational", nume |-> nume, deno |-> deno]

(* Euclid's loop on words; the second falls in every turn.                 *)
EuclidTurn(p) == IF p.n2 = 0 THEN p ELSE [n1 |-> p.n2, n2 |-> p.n1 % p.n2]

EuclidTurns(p, n) ==
  LET turns[k \in 0..n] == IF k = 0 THEN p ELSE EuclidTurn(turns[k - 1]) IN turns[n]

Gcd(n1, n2) == EuclidTurns([n1 |-> n1, n2 |-> n2], n2).n1

(* A denominator as large as the least fixnum does not fit where two       *)
(* fixnums are reduced.                                                    *)
ReduceFixnums(n, d) ==
  LET gcd  == Gcd(Abs(n), Abs(d))
      nume == IntToInteger((Sign(d) * n) \div gcd)
  IN  CASE d = 1  -> Fixnum(n)
        [] d = -1 -> NegateInt(Fixnum(n))
        [] d \notin {1, -1} /\ n = 0 -> Fixnum(0)
        [] d \notin {1, -1} /\ n \in {1, -1} -> Rational(Fixnum(Sign(d) * n), IntToInteger(Abs(d)))
        [] OTHER  -> IF Abs(d) = gcd THEN nume ELSE Rational(nume, MakeFixnum(Abs(d) \div gcd))

Lowest(nume, deno) == IF deno = Fixnum(1) THEN nume ELSE Rational(nume, deno)

ReduceFixnumBignum(n, d) ==
  LET gcd == Gcd(RemainderDigit(d.elts, Abs(n)), Abs(n))
  IN  CASE n = 0         -> Fixnum(0)
        [] n \in {1, -1} -> IF d.sign < 0 THEN Rational(Fixnum(-n), NegateInt(d))
                                          ELSE Rational(Fixnum(n), d)
        [] OTHER         -> Lowest(IntToInteger(Sign(n) * d.sign * (Abs(n) \div gcd)),
                                   Make(1, DivDigit(d.elts, gcd).quo))

ReduceBignumFixnum(n, d) ==
  LET gcd  == Gcd(RemainderDigit(n.elts, Abs(d)), Abs(d))
      nume == Make(n.sign * Sign(d), DivDigit(n.elts, gcd).quo)
  IN  CASE d = 1  -> n
        [] d = -1 -> NegateInt(n)
        [] OTHER  -> IF Abs(d) \div gcd = 1 THEN nume ELSE Rational(nume, IntToInteger(Abs(d) \div gcd))

Even(e) == Digit(e, 1) % 2 = 0

Half(e) == Norm(ShiftRight(e, 1))

HalfLess(l, r) == Half(SubDigits(Len(l), l, r).elts)

(* The powers of two that both have are counted, and shifted out.          *)
TwosTurn(p) ==
  IF Even(p.n1) /\ Even(p.n2) THEN [n1 |-> Half(p.n1), n2 |-> Half(p.n2), shift |-> p.shift + 1] ELSE p

TwosTurns(p, n) ==
  LET turns[k \in 0..n] == IF k = 0 THEN p ELSE TwosTurn(turns[k - 1]) IN turns[n]

WithoutTwos(l, r) == TwosTurns([n1 |-> l, n2 |-> r, shift |-> 0], DigitBits * Len(l))

(* The binary algorithm, of which every turn takes a bit off one of them.  *)
BinaryTurn(p) ==
  CASE p.n1 = <<>>                  -> p
    [] p.n1 # <<>> /\ Even(p.n1)    -> [p EXCEPT !.n1 = Half(@)]
    [] ~Even(p.n1) /\ Even(p.n2)    -> [p EXCEPT !.n2 = Half(@)]
    [] OTHER                        -> IF Cmp(p.n1, p.n2) < 0 THEN [p EXCEPT !.n2 = HalfLess(@, p.n1)]
                                                              ELSE [p EXCEPT !.n1 = HalfLess(@, p.n2)]

BinaryTurns(p, n) ==
  LET turns[k \in 0..n] == IF k = 0 THEN p ELSE BinaryTurn(turns[k - 1]) IN turns[n]

BinaryGcd(n1, n2) == BinaryTurns([n1 |-> n1, n2 |-> n2], DigitBits * (Len(n1) + Len(n2))).n2

ReduceBignums(n, d) ==
  LET odd     == WithoutTwos(n.elts, d.elts)
      divisor == BinaryGcd(odd.n1, odd.n2)
      Part(e) == Div(Norm(ShiftRight(e, odd.shift)), divisor).quo
  IN  IF divisor = <<1>> /\ odd.shift = 0
      THEN IF d.sign < 0 THEN Rational(NegateInt(n), NegateInt(d)) ELSE Rational(n, d)
      ELSE Lowest(Make(n.sign * d.sign, Part(n.elts)), Make(1, Part(d.elts)))

Reduce(n, d) ==
  CASE BothFixnums(n, d)                -> ReduceFixnums(n.n, d.n)
    [] IsFixnum(n) /\ ~IsFixnum(d)      -> ReduceFixnumBignum(n.n, d)
    [] ~IsFixnum(n) /\ IsFixnum(d)      -> ReduceBignumFixnum(n, d.n)
    [] OTHER                            -> ReduceBignums(n, d)

Nume(x) == IF IsInteger(x) THEN x ELSE x.nume

Deno(x) == IF IsInteger(x) THEN Fixnum(1) ELSE x.deno

BothIntegers(l, r) == IsInteger(l) /\ IsInteger(r)

(* An integer beside a rational is a numerator over 1, which the code      *)
(* leaves out of the products.                                             *)
AddReal(l, r) ==
  IF BothIntegers(l, r) THEN AddInt(l, r)
  ELSE Reduce(AddInt(MulInt(Nume(l), Deno(r)), MulInt(Deno(l), Nume(r))), MulInt(Deno(l), Deno(r)))

SubReal(l, r) ==
  IF BothIntegers(l, r) THEN SubInt(l, r)
  ELSE Reduce(SubInt(MulInt(Nume(l), Deno(r)), MulInt(Deno(l), Nume(r))), MulInt(Deno(l), Deno(r)))

NegateReal(x) == IF IsInteger(x) THEN NegateInt(x) ELSE Rational(NegateInt(x.nume), x.deno)

(* An integer times 1/n or -1/n is reduced before it is negated.           *)
MulReal(l, r) ==
  LET unit == IF IsInteger(l) THEN r ELSE l
      int  == IF IsInteger(l) THEN l ELSE r
      none == Fixnum(0) \in {l, r}
      less == IsInteger(int) /\ Nume(unit) = Fixnum(-1)
  IN  CASE BothIntegers(l, r) -> MulInt(l, r)
        [] ~BothIntegers(l, r) /\ none -> Fixnum(0)
        [] ~BothIntegers(l, r) /\ ~none /\ less -> NegateReal(Reduce(int, unit.deno))
        [] OTHER -> Reduce(MulInt(Nume(l), Nume(r)), MulInt(Deno(l), Deno(r)))

DivReal(l, r) ==
  IF l = Fixnum(0) THEN l ELSE Reduce(MulInt(Nume(l), Deno(r)), MulInt(Deno(l), Nume(r)))

ReciprocalInt(x) ==
  CASE x \in {Fixnum(1), Fixnum(-1)} -> x
    [] OTHER -> IF SignOf(x) > 0 THEN Rational(Fixnum(1), x) ELSE Rational(Fixnum(-1), NegateInt(x))

ReciprocalReal(x) ==
  CASE IsInteger(x) -> ReciprocalInt(x)
    [] ~IsInteger(x) /\ x.nume = Fixnum(1)  -> x.deno
    [] ~IsInteger(x) /\ x.nume = Fixnum(-1) -> NegateInt(x.deno)
    [] OTHER -> IF SignOf(x) > 0 THEN Rational(x.deno, x.nume)
                ELSE Rational(NegateInt(x.deno), NegateInt(x.nume))

(***************************************************************************)
(* Rounding down, up and towards zero, comparison, and the integer         *)
(* division of R6RS.                                                       *)
(***************************************************************************)
Truncation(x) == IF IsInteger(x) THEN x ELSE Quotient(x.nume, x.deno)

Floor(x) == IF ~IsInteger(x) /\ SignOf(x) < 0 THEN SubInt(Truncation(x), Fixnum(1)) ELSE Truncation(x)

Ceiling(x) == IF IsInteger(x) \/ SignOf(x) < 0 THEN Truncation(x) ELSE AddInt(Truncation(x), Fixnum(1))

Magnitude(x) == IF SignOf(x) < 0 THEN NegateReal(x) ELSE x

Compare(l, r) == CompareInt(MulInt(Nume(l), Deno(r)), MulInt(Nume(r), Deno(l)))

DivFixnums(l, r) ==
  IntToInteger(CASE l >= 0          -> CQuo(l, r)
                 [] l < 0 /\ r > 0  -> CQuo(l - r + 1, r)
                 [] OTHER           -> CQuo(l + r + 1, r))

IntegerDiv(l, r) ==
  IF BothFixnums(l, r) THEN DivFixnums(l.n, r.n)
  ELSE IF SignOf(r) > 0 THEN Floor(DivReal(l, r)) ELSE NegateReal(Floor(DivReal(l, NegateReal(r))))
=============================================================================
