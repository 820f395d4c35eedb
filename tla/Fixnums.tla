------------------------------- MODULE Fixnums --------------------------------
(***************************************************************************)
(* The procedures of fixnums (subr_fixnum.cpp): they compute with machine  *)
(* words, answer with fixnums, and raise a violation when the answer is    *)
(* none.                                                                   *)
(***************************************************************************)
EXTENDS Procedures

(* Some arguments are never looked at, and what is not a fixnum is taken   *)
(* for one, or the culprit is named by a variable that was never set.      *)
Unchecked == [type |-> "unchecked"]

FixnumBits == DigitBits - 1

InRange(n) == IF n \in FixnumMin..FixnumMax THEN Fixnum(n) ELSE Refused

(* A word as a signed number.                                              *)
Word(n) == ((n + Base \div 2) % Base) - Base \div 2

AllFixnums(args) == \A i \in DOMAIN args : IsFixnum(args[i])

FxCompare(op, args) ==
  IF args = <<>> \/ ~AllFixnums(args) THEN Refused
  ELSE Truth(\A i \in 1..(Len(args) - 1) :
               IF op = "=" THEN args[i].n = args[i + 1].n ELSE Related(op, args[i].n - args[i + 1].n))

FxPredicate(op, x) ==
  IF ~IsFixnum(x) THEN Refused
  ELSE Truth(CASE op = "zero?"     -> x.n = 0
               [] op = "positive?" -> x.n > 0
               [] op = "negative?" -> x.n < 0
               [] op = "odd?"      -> x.n % 2 = 1
               [] op = "even?"     -> x.n % 2 = 0)

FxMaxMin(op, args) ==
  IF args = <<>> \/ ~AllFixnums(args) THEN Refused
  ELSE LET ns == {args[i].n : i \in DOMAIN args}
       IN  Fixnum(IF op = "max" THEN Max(ns) ELSE Min(ns))

(* The product is a word, whose top bits are lost.                         *)
FxArith(op, x, y) ==
  IF ~AllFixnums(<<x, y>>) THEN Refused
  ELSE InRange(CASE op = "add" -> x.n + y.n
                 [] op = "sub" -> x.n - y.n
                 [] op = "mul" -> Word(x.n * y.n))

FxNegate(x) ==
  IF ~IsFixnum(x) THEN Unchecked ELSE IF x.n = FixnumMin THEN Refused ELSE Fixnum(-x.n)

OnlyFixnum(q) == IF IsFixnum(q) THEN q ELSE Refused

FxDivide(op, x, y) ==
  IF ~AllFixnums(<<x, y>>) \/ y = Fixnum(0) THEN Refused
  ELSE OnlyFixnum(IF op = "div" THEN IntegerDiv(x, y) ELSE IntegerDiv0(x, y))

FxNot(x) == IF IsFixnum(x) THEN Fixnum(-x.n - 1) ELSE Refused

(* Bit by bit, on words.                                                   *)
And(m, n) == Word(OnWords("and", m % Base, n % Base, DigitBits))

Or(m, n) == Word(OnWords("ior", m % Base, n % Base, DigitBits))

Xor(m, n) == Word(OnWords("xor", m % Base, n % Base, DigitBits))

Not(n) == -n - 1

FxBitwise(op, args) ==
  IF ~AllFixnums(args) THEN Refused
  ELSE LET On(m, n) == Word(OnWords(op, m % Base, n % Base, DigitBits))
           unit     == IF op = "and" THEN -1 ELSE 0
           upto[i \in 0..Len(args)] == IF i = 0 THEN unit ELSE On(upto[i - 1], args[i].n)
       IN  MakeFixnum(upto[Len(args)])

(* Of three or four arguments the first two are looked at.                 *)
FirstTwo(args, result) ==
  CASE AllFixnums(args)   -> result
    [] ~IsFixnum(args[1]) -> Refused
    [] OTHER              -> Unchecked

FxIf(x, y, w) ==
  FirstTwo(<<x, y, w>>, MakeFixnum(Or(And(x.n, y.n), And(Not(x.n), w.n))))

FxBits(op, x) ==
  IF ~IsFixnum(x) THEN Refused
  ELSE Fixnum(CASE op = "bit-count"     -> BitCount(x)
                [] op = "length"        -> BitLength(x)
                [] op = "first-bit-set" -> FirstBitSet(x))

IsBit(k) == k.n >= 0 /\ k.n < FixnumBits

FxBitSet(x, k) ==
  IF ~AllFixnums(<<x, k>>) THEN Refused
  ELSE IF ~IsBit(k) THEN Refused ELSE Truth(And(x.n, 2 ^ k.n) # 0)

Masked(mask, in, out) == MakeFixnum(Or(And(mask, in), And(Not(mask), out)))

FxCopyBit(x, k, b) ==
  FirstTwo(<<x, k, b>>,
           IF IsBit(k) /\ b.n \in {0, 1} THEN Masked(Word(2 ^ k.n), Word(b.n * 2 ^ k.n), x.n)
                                         ELSE Refused)

(* What is shifted out at the left is missed when it is shifted back.      *)
ShiftedLeft_NoBack(n, k) == InRange(Word(n * 2 ^ k))

ShiftedLeft(n, k) ==
  LET word == Word(n * 2 ^ k)
  IN  IF word \div 2 ^ k = n THEN InRange(word) ELSE Refused

ShiftedRight(n, k) == InRange(n \div 2 ^ k)

FxShift(x, k) ==
  IF ~AllFixnums(<<x, k>>) THEN Refused
  ELSE CASE ~(k.n > -FixnumBits /\ k.n < FixnumBits) -> Refused
         [] k.n > 0 /\ k.n < FixnumBits              -> ShiftedLeft(x.n, k.n)
         [] k.n <= 0 /\ k.n > -FixnumBits            -> ShiftedRight(x.n, -k.n)

FxShiftLeft(x, k) ==
  IF ~AllFixnums(<<x, k>>) THEN Refused ELSE IF IsBit(k) THEN ShiftedLeft(x.n, k.n) ELSE Refused

FxShiftRight(x, k) ==
  IF ~AllFixnums(<<x, k>>) THEN Refused ELSE IF IsBit(k) THEN ShiftedRight(x.n, k.n) ELSE Refused

(* The bits from "from" up to "to".                                        *)
Field(from, to) == IsBit(from) /\ IsBit(to) /\ from.n <= to.n

FxBitField(x, from, to) ==
  FirstTwo(<<x, from, to>>,
           IF Field(from, to) THEN MakeFixnum(And(x.n, Not(-(2 ^ to.n))) \div 2 ^ from.n) ELSE Refused)

FxCopyBitField(x, from, to, y) ==
  FirstTwo(<<x, from, to, y>>,
           IF Field(from, to)
           THEN Masked(And(Word(-(2 ^ from.n)), Not(-(2 ^ to.n))), Word(y.n * 2 ^ from.n), x.n)
           ELSE Refused)
==============================================================================
