-------------------------------- MODULE Bignum --------------------------------
(***************************************************************************)
(* Division of numbers of any size, and the square root it makes possible. *)
(***************************************************************************)
EXTENDS Digits

(***************************************************************************)
(* Long division, bn_div.  The denominator is shifted until its top bit is *)
(* set and the numerator as far.  Each turn first takes the denominator    *)
(* off where the turn before stopped short of it, then estimates the next  *)
(* digit from the two top digits and lowers the estimate until its         *)
(* multiple fits.  rd and qt are the indices of the code plus one.  A loop  *)
(* of the code is a function of the number of turns; no estimate is lowered*)
(* more than Base times, and a turn after the last changes nothing.        *)
(***************************************************************************)
Lower_Never(sub, work, qt, d) == [work |-> work, qt |-> qt]

LowerOnce(sub, low, d) ==
  IF Cmp(sub, low.work) < 0
  THEN [work |-> Norm(SubDigits(Len(low.work), low.work, d).elts), qt |-> (low.qt - 1) % Base]
  ELSE low

Lower(sub, work, qt, d) ==
  LET low[k \in 0..Base] ==
        IF k = 0 THEN [work |-> work, qt |-> qt] ELSE LowerOnce(sub, low[k - 1], d)
  IN  low[Base]

Replace(e, k, part) ==
  [i \in DOMAIN e |-> IF i - k \in DOMAIN part THEN part[i - k] ELSE e[i]]

(* A part of the remainder and a digit of the quotient are written.        *)
Written(s, off, part, qt, digit) ==
  [s EXCEPT !.rem = Replace(@, off, part), !.quo = Replace(@, qt - 1, <<digit>>)]

TakeOff(s, off, sub) == IF sub.out >= 0 THEN Written(s, off, sub.elts, s.qt, 1) ELSE s

FirstOff(s, d) ==
  LET off == s.rd - Len(d)
  IN  IF s.rem[s.rd] < d[Len(d)] THEN s
      ELSE TakeOff(s, off, SubDigits(Len(s.rem) - off, From(s.rem, off), d))

LowerTo(s, off, sub, low) ==
  Written(s, off, SubDigits(Len(sub), sub, low.work).elts, s.qt - 1, low.qt)

LowerFrom(s, d, off, sub, qt) ==
  LowerTo(s, off, sub,
          Lower(sub, IF qt = 0 THEN <<0>> \o d ELSE MulAddDigit(d, qt, 0), qt, d))

Estimate(s, d) ==
  LET top == d[Len(d)]
      n   == s.rem[s.rd] * Base + s.rem[s.rd - 1]
      off == s.rd - Len(d) - 1
  IN  IF n > top
      THEN LowerFrom(s, d, off, Norm(From(s.rem, off)), IF s.rem[s.rd] < top THEN n \div top ELSE 0)
      ELSE Written(s, off, <<>>, s.qt - 1, 0)

Turn(s, d) == IF s.qt > 1 THEN Estimate(FirstOff(s, d), d) ELSE FirstOff(s, d)

DivTurns(s, d) ==
  LET turns[k \in 0..s.qt] ==
        IF k = 0 THEN s ELSE [Turn(turns[k - 1], d) EXCEPT !.qt = @ - 1, !.rd = @ - 1]
  IN  turns[s.qt]

TopShift(d) == Min({k \in 0..(DigitBits - 1) : d[Len(d)] * 2 ^ k >= Base \div 2})

QuoRem(end, shift) == [quo |-> Norm(end.quo), rem |-> Norm(ShiftRight(end.rem, shift))]

DivShifted(rem, d, shift) ==
  LET count == Len(rem) - Len(d) + 1
  IN  QuoRem(DivTurns([rem |-> rem, quo |-> Zeros(count), rd |-> Len(rem), qt |-> count], d), shift)

Div(num, den) ==
  LET shift == TopShift(den)
  IN  DivShifted(Norm(ShiftLeft(Append(num, 0), shift)), ShiftLeft(den, shift), shift)

(* Newton's iteration, from above, until it no longer falls; each turn but *)
(* the last takes one off at least.                                        *)
Fall(e, s) ==
  LET quo == Div(e, s).quo
      sum == AddDigits(Len(quo) + 1, quo, s).elts
      mid == Norm(ShiftRight(sum, 1))
  IN  IF Cmp(mid, s) >= 0 THEN s ELSE mid

SqrtFrom(e, s) ==
  LET root[k \in 0..ValueOf(s)] == IF k = 0 THEN s ELSE Fall(e, root[k - 1]) IN root[ValueOf(s)]

Sqrt(e) == SqrtFrom(e, Norm(ShiftRight(e, (BitSize(e) - 1) \div 2)))
==============================================================================
