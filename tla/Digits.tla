-------------------------------- MODULE Digits --------------------------------
(***************************************************************************)
(* The digit loops of arith.cpp: numbers of any size as sequences of       *)
(* digits, the least significant first.  A C array of n digits is a        *)
(* sequence of length n, the count that bn_norm stores is its length, and  *)
(* an operation that is given an array for its answer is given its length. *)
(***************************************************************************)
EXTENDS Integers, Sequences, FiniteSetsExt

CONSTANT DigitBits          \* DIGIT_BIT

ASSUME DigitBitsAssumption == DigitBits \in Nat /\ DigitBits > 1

Base == 2 ^ DigitBits

(* What n terms stand for, the lowest first, with top in the place above   *)
(* them: v[k] is the value of those above place k.                         *)
ValuesFrom(term, n, top) ==
  LET v[k \in 0..n] == IF k = n THEN top ELSE term[k + 1] + Base * v[k + 1] IN v

Total(term, n, top) == ValuesFrom(term, n, top)[0]

ValueOf(e) == Total(e, Len(e), 0)

Digit(e, i) == IF i \in DOMAIN e THEN e[i] ELSE 0

Zeros(n) == [i \in 1..n |-> 0]

Pad(e, n) == [i \in 1..n |-> Digit(e, i)]

(* Digits of an array from place k on: bn_subsection.                      *)
From(e, k) == SubSeq(e, k + 1, Len(e))

Norm(e) == SubSeq(e, 1, Max({0} \cup {i \in DOMAIN e : e[i] # 0}))

(***************************************************************************)
(* The loop the arithmetic shares: the accumulator of twice the width      *)
(* takes in a term, leaves its low digit and carries the rest, which is    *)
(* negative when the terms are.                                            *)
(***************************************************************************)
Accs(term, n, first) ==
  LET acc[i \in 0..n] == IF i = 0 THEN first ELSE (acc[i - 1] + term[i]) \div Base IN acc

Carry(term, n, first) ==
  LET acc == Accs(term, n, first)
  IN  [elts |-> [i \in 1..n |-> (acc[i - 1] + term[i]) % Base], out |-> acc[n]]

Flip2sc(e) == Carry([i \in DOMAIN e |-> Base - 1 - e[i]], Len(e), 1).elts

AddDigits(n, l, r) == Carry([i \in 1..n |-> Digit(l, i) + Digit(r, i)], n, 0)

SubDigits(n, l, r) == Carry([i \in 1..n |-> Digit(l, i) - Digit(r, i)], n, 0)

MulAddDigit(l, r, addend) ==
  LET c == Carry([i \in DOMAIN l |-> l[i] * r], Len(l), addend)
  IN  Norm(Append(c.elts, c.out))

(* One row of the product: digit times r, added in from place i on.        *)
AddRow(ans, digit, r, i) ==
  LET row == Carry([j \in DOMAIN r |-> digit * r[j] + ans[i + j - 1]], Len(r), 0)
  IN  [k \in DOMAIN ans |->
         CASE k \in i..(i + Len(r) - 1) -> row.elts[k - i + 1]
           [] k = i + Len(r)            -> row.out
           [] OTHER                     -> ans[k]]

MulRows(l, r) ==
  LET rows[i \in 0..Len(l)] ==
        IF i = 0 THEN Zeros(Len(l) + Len(r)) ELSE AddRow(rows[i - 1], l[i], r, i)
  IN  rows

MulDigits(l, r) == Norm(MulRows(l, r)[Len(l)])

(* From the top digit down: the remainder so far, the quotient digits.     *)
Remainders(e, d) ==
  LET rem[k \in 0..Len(e)] == IF k = Len(e) THEN 0 ELSE (rem[k + 1] * Base + e[k + 1]) % d IN rem

DivDigit(e, d) ==
  LET rem == Remainders(e, d)
  IN  [quo |-> Norm([i \in DOMAIN e |-> (rem[i] * Base + e[i]) \div d]), rem |-> rem[0]]

RemainderDigit(e, d) == DivDigit(e, d).rem

Sign(n) == IF n > 0 THEN 1 ELSE IF n < 0 THEN -1 ELSE 0

Cmp(l, r) ==
  LET differ == {i \in DOMAIN l : l[i] # Digit(r, i)}
  IN  IF Len(l) # Len(r) THEN Sign(Len(l) - Len(r))
      ELSE IF differ = {} THEN 0 ELSE Sign(l[Max(differ)] - r[Max(differ)])

(* Shifts keep the count.  What comes in at the top is 0 or, in two's      *)
(* complement, ones.                                                       *)
ShiftRightFill(e, shift, fill) ==
  LET unit == shift \div DigitBits
      bits == shift % DigitBits
      At(i) == IF i + unit \in DOMAIN e THEN e[i + unit] ELSE fill
  IN  [i \in DOMAIN e |-> (At(i) \div 2 ^ bits)
                            + ((At(i + 1) * 2 ^ (DigitBits - bits)) % Base)]

ShiftRight(e, shift) == ShiftRightFill(e, shift, 0)

ShiftRight2sc(e, shift) == ShiftRightFill(e, shift, Base - 1)

ShiftLeft(e, shift) ==
  LET unit == shift \div DigitBits
      bits == shift % DigitBits
      At(i) == Digit(e, i - unit)
  IN  [i \in DOMAIN e |-> ((At(i) * 2 ^ bits) % Base)
                            + At(i - 1) \div 2 ^ (DigitBits - bits)]

BitSize(e) ==
  DigitBits * (Len(e) - 1) + Min({k \in 0..DigitBits : e[Len(e)] < 2 ^ k})
==============================================================================
