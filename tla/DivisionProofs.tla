--------------------------- MODULE DivisionProofs ---------------------------
(***************************************************************************)
(* Division and what it makes possible, for digits of any width and any    *)
(* numbers: long division, shifts, quotients, remainders, comparison, the  *)
(* bits of two's complement, the square root, fractions in lowest terms    *)
(* and their arithmetic, rounding and the integer division are exact.      *)
(*                                                                         *)
(* A loop of the code is a recursive function in Bignum.  That it has the  *)
(* course it is defined by, and keeps what every turn keeps, is LoopExists; *)
(* the turns of the division are in DivTurnStep, the lowering of an estimate *)
(* in LowerStep and the turns of Newton's iteration in FallStep.  A        *)
(* greatest common divisor is what spans, alone, all that the two numbers  *)
(* span (GcdExact and BinaryGcdExact): what it leaves of both has no       *)
(* divisor in common but 1.                                                *)
(***************************************************************************)
EXTENDS ArithmeticProofs, Fractions

(***************************************************************************)
(* The digits from a place on.                                             *)
(***************************************************************************)
Weight(m) == Total(Zeros(m), m, 1)

Above(e, k) == ValuesFrom(e, Len(e), 0)[k]

(* What is in a place counts as often as the places below it can tell.     *)
LEMMA Weighted ==
  ASSUME NEW m \in Nat, NEW t, Terms(t, m, DigitSet), NEW x \in Int
  PROVE  /\ Weight(m) \in Nat /\ Weight(m) > 0
         /\ Total(t, m, 0) \in Nat /\ Total(t, m, 0) < Weight(m)
         /\ Total(t, m, x) = Total(t, m, 0) + Weight(m) * x
<1> DEFINE o == Zeros(m)
           zero == 0
           one == 1
<1>1. Terms(o, m, DigitSet) /\ \A i \in 1 .. m : o[i] = 0
  BY DigitsAre DEF Zeros, Terms
<1>2. zero \in Int /\ one \in Int /\ zero \in Nat /\ one \in Nat /\ zero = 0 /\ one = 1 /\ zero \in 0 .. m
  OBVIOUS
<1>3. Weight(m) = Total(o, m, one)
  BY DEF Weight
<1> HIDE DEF o, zero, one
<1>4. Terms(o, m, Int) /\ Terms(t, m, Int) /\ Terms(t, m, Nat) /\ Terms(o, m, Nat)
  BY <1>1, DigitTerms
<1>5. Total(t, m, zero) \in Nat /\ Total(o, m, one) \in Nat
  BY <1>2, <1>4, NotNegative DEF Total
<1>6. Total(t, m, 0) < Total(o, m, 1)
  BY <1>1, BelowTop
<1>7. Combined(t, x, o, t, m)
  <2>1. ASSUME NEW i \in 1 .. m PROVE t[i] = x * o[i] + t[i]
    <3>1. o[i] = 0 /\ t[i] \in Int
      BY <1>1, <1>4 DEF Terms
    <3>2. x * 0 = 0
      OBVIOUS
    <3>3. QED
      BY <3>1, <3>2
  <2>2. QED
    BY <2>1 DEF Combined
<1>8. x = x * one + zero
  BY <1>2
<1>9. Total(t, m, x) = x * Total(o, m, one) + Total(t, m, zero)
  BY <1>2, <1>4, <1>7, <1>8, Linear
<1>10. Total(t, m, 0) = Total(t, m, zero) /\ Total(o, m, 1) = Total(o, m, one)
  BY <1>2
<1>11. QED
  <2> DEFINE a == Total(t, m, zero)
             b == Weight(m)
  <2>1. a \in Nat /\ b \in Nat /\ a < b /\ Total(t, m, x) = x * b + a /\ Total(t, m, 0) = a
    BY <1>3, <1>5, <1>6, <1>9, <1>10
  <2> HIDE DEF a, b
  <2>2. x * b + a = a + b * x
    BY <2>1
  <2>3. QED
    BY <2>1, <2>2 DEF b

LEMMA WeightNext ==
  ASSUME NEW m \in Nat
  PROVE  Weight(0) = 1 /\ Weight(m + 1) = Base * Weight(m)
<1> DEFINE o == Zeros(m + 1)
           u == Zeros(m)
           v == ValuesFrom(o, m + 1, 1)
           z == Zeros(0)
<1>1. Terms(o, m + 1, Int) /\ Terms(u, m, Int) /\ Terms(z, 0, Int)
  BY DEF Zeros, Terms
<1>2. \A i \in 1 .. (m + 1) : o[i] = 0
  BY DEF Zeros
<1>3. \A i \in 1 .. m : o[i] = u[i]
  BY DEF Zeros
<1>4. Weight(0) = Total(z, 0, 1) /\ Weight(m) = Total(u, m, 1) /\ Weight(m + 1) = Total(o, m + 1, 1)
  BY DEF Weight
<1> HIDE DEF o, u, z
<1>5. Weight(0) = 1
  <2>1. ValuesOf(ValuesFrom(z, 0, 1), z, 0, 1)
    BY <1>1, ValuesDef
  <2>2. QED
    BY <1>4, <2>1 DEF ValuesOf, Total
<1> DEFINE f == [k \in 0 .. m |-> IF k = m THEN Base ELSE Base * ValuesFrom(u, m, 1)[k]]
<1>6. Total(u, m, Base) = Base * Total(u, m, 1)
  <2> DEFINE b == Base
             zero == 0
             one == 1
  <2>1. b \in Int /\ zero \in Int /\ one \in Int /\ b = b * one + zero
    BY BaseType
  <2>2. zero = 0 /\ one = 1
    OBVIOUS
  <2> HIDE DEF b, zero, one
  <2>3. Combined(u, b, u, u, m)
    <3>1. ASSUME NEW i \in 1 .. m PROVE u[i] = b * u[i] + u[i]
      <4>1. u[i] = 0
        BY <1>2, <1>3
      <4>2. b * 0 + 0 = 0
        BY <2>1
      <4>3. QED
        BY <4>1, <4>2
    <3>2. QED
      BY <3>1 DEF Combined
  <2>4. Total(u, m, b) = b * Total(u, m, one) + Total(u, m, zero)
    BY <1>1, <2>1, <2>3, Linear
  <2>5. Total(u, m, 0) = 0
    <3>1. zero \in 0 .. m /\ \A i \in (zero + 1) .. m : u[i] = 0
      BY <1>2, <1>3, <2>2
    <3>2. ValuesFrom(u, m, 0)[zero] = 0
      BY <1>1, <3>1, NothingAbove
    <3>3. QED
      BY <2>2, <3>2 DEF Total
  <2>6. Total(u, m, one) \in Int
    BY <1>1, <2>1, TotalType
  <2>7. b * Total(u, m, one) \in Int
    BY <2>1, <2>6
  <2>8. QED
    BY <2>2, <2>4, <2>5, <2>7 DEF b
<1>7. v[m] = Base
  <2>1. 1 \in Int /\ m + 1 \in Nat
    OBVIOUS
  <2>2. ValuesOf(v, o, m + 1, 1)
    BY <1>1, <2>1, ValuesDef
  <2>3. m \in 0 .. ((m + 1) - 1) /\ m + 1 \in 1 .. (m + 1)
    OBVIOUS
  <2>4. v[m] = o[m + 1] + Base * v[m + 1] /\ v[m + 1] = 1
    BY <2>2, <2>3 DEF ValuesOf
  <2>5. o[m + 1] = 0
    BY <1>2, <2>3
  <2>6. QED
    BY <2>4, <2>5, BaseType
<1>8. Total(o, m + 1, 1) = Total(o, m, Base)
  <2> DEFINE p == m + 1
             zero == 0
             one == 1
  <2>1. p \in Nat /\ m \in 0 .. p /\ zero \in 0 .. m /\ one \in Int /\ Terms(o, p, Int)
    BY <1>1
  <2>2. v = ValuesFrom(o, p, one) /\ Total(o, m + 1, 1) = v[zero]
    BY DEF Total
  <2> HIDE DEF p, zero, one
  <2>3. ValuesFrom(o, p, one)[zero] = ValuesFrom(o, m, ValuesFrom(o, p, one)[m])[zero]
    BY <2>1, Split
  <2> HIDE DEF v
  <2>4. QED
    BY <1>7, <2>2, <2>3 DEF Total, zero
<1>9. Total(o, m, Base) = Total(u, m, Base)
  <2>1. Terms(o, m, Int) /\ Base \in Int
    BY <1>1, BaseType DEF Terms
  <2>2. \A k \in 0 .. m : ValuesFrom(o, m, Base)[k] = ValuesFrom(u, m, Base)[k]
    BY <1>3, <2>1, SameTerms
  <2>3. 0 \in 0 .. m
    OBVIOUS
  <2>4. QED
    BY <2>2, <2>3 DEF Total
<1>10. QED
  BY <1>4, <1>5, <1>6, <1>8, <1>9

LEMMA AboveDef ==
  ASSUME NEW e \in Seq(DigitSet)
  PROVE  /\ Len(e) \in Nat
         /\ \A k \in 0 .. Len(e) : Above(e, k) \in Nat
         /\ \A k \in 0 .. (Len(e) - 1) : e[k + 1] \in DigitSet /\ Above(e, k) = e[k + 1] + Base * Above(e, k + 1)
         /\ Above(e, Len(e)) = 0
         /\ ValueOf(e) = Above(e, 0)
<1> DEFINE n == Len(e)
           v == ValuesFrom(e, n, 0)
<1>1. n \in Nat /\ Terms(e, n, Int) /\ Terms(e, n, Nat) /\ Terms(e, n, DigitSet)
  BY SeqIsArray, DigitTerms
<1>2. ValuesOf(v, e, n, 0)
  BY <1>1, ValuesDef
<1>3. \A k \in 0 .. n : v[k] \in Nat
  BY <1>1, NotNegative
<1>4. \A k : Above(e, k) = v[k]
  BY DEF Above
<1>5. ValueOf(e) = v[0]
  BY DEF ValueOf, Total
<1>6. \A k \in 0 .. (n - 1) : e[k + 1] \in DigitSet
  BY <1>1 DEF Terms
<1> HIDE DEF v, n
<1>7. v[n] = 0 /\ \A k \in 0 .. (n - 1) : v[k] = e[k + 1] + Base * v[k + 1]
  BY <1>2 DEF ValuesOf
<1>8. \A k \in 0 .. n : Above(e, k) \in Nat
  BY <1>3, <1>4
<1>9. \A k \in 0 .. (n - 1) : Above(e, k) = e[k + 1] + Base * Above(e, k + 1)
  BY <1>4, <1>7
<1>10. QED
  BY <1>1, <1>4, <1>5, <1>6, <1>7, <1>8, <1>9 DEF n

(* Digits of e from place p on, and what is above them.                    *)
LEMMA AboveWindow ==
  ASSUME NEW e \in Seq(DigitSet), NEW p \in Nat, NEW u \in Seq(DigitSet), p + Len(u) =< Len(e),
         FromPlace(u, e, p, Len(u))
  PROVE  /\ Above(e, p) = ValueOf(u) + Weight(Len(u)) * Above(e, p + Len(u))
         /\ ValueOf(u) \in Nat /\ ValueOf(u) < Weight(Len(u)) /\ Weight(Len(u)) \in Nat
         /\ Above(e, p) < Weight(Len(u)) <=> Above(e, p + Len(u)) = 0
<1> DEFINE n == Len(e)
           m == Len(u)
           z == 0
           x == Above(e, p + m)
<1>1. n \in Nat /\ m \in Nat /\ Terms(e, n, Int) /\ Terms(u, m, DigitSet) /\ z \in Int /\ z = 0
  BY SeqIsArray, DigitTerms
<1>2. x \in Nat
  <2>1. p + m \in 0 .. n
    BY <1>1
  <2>2. QED
    BY <2>1, AboveDef
<1>3. Above(e, p) = ValuesFrom(e, n, z)[p] /\ Above(e, p + m) = ValuesFrom(e, n, z)[p + m]
  BY DEF Above
<1>4. p + m =< n /\ FromPlace(u, e, p, m) /\ ValueOf(u) = Total(u, m, 0)
  BY DEF ValueOf
<1> HIDE DEF n, m, z
<1>5. ValuesFrom(e, n, z)[p] = Total(u, m, ValuesFrom(e, n, z)[p + m])
  BY <1>1, <1>4, Window
<1>6. Above(e, p) = Total(u, m, x)
  BY <1>3, <1>5
<1> HIDE DEF x
<1>7. /\ Weight(m) \in Nat /\ Weight(m) > 0
      /\ Total(u, m, 0) \in Nat /\ Total(u, m, 0) < Weight(m)
      /\ Total(u, m, x) = Total(u, m, 0) + Weight(m) * x
  <2>1. x \in Int
    BY <1>2
  <2>2. QED
    BY <1>1, <2>1, Weighted
<1>8. Above(e, p) < Weight(m) <=> x = 0
  <2> DEFINE a == Total(u, m, 0)
             w == Weight(m)
  <2>1. a \in Nat /\ w \in Nat /\ a < w /\ Above(e, p) = a + w * x
    BY <1>6, <1>7
  <2> HIDE DEF a, w
  <2>2. x = 0 => w * x = 0
    BY <2>1
  <2>3. x # 0 => w * x >= w
    BY <1>2, <2>1
  <2>4. w * x \in Nat
    BY <1>2, <2>1
  <2>5. QED
    BY <2>1, <2>2, <2>3, <2>4, <1>2 DEF w
<1>9. QED
  BY <1>4, <1>6, <1>7, <1>8 DEF m, x

(* Arrays that agree from a place on.                                      *)
LEMMA AboveSame ==
  ASSUME NEW e \in Seq(DigitSet), NEW f \in Seq(DigitSet), Len(e) = Len(f),
         NEW p \in 0 .. Len(e), \A i \in (p + 1) .. Len(e) : e[i] = f[i]
  PROVE  \A k \in p .. Len(e) : Above(e, k) = Above(f, k)
<1> DEFINE n == Len(e)
           G == {k \in 0 .. n : k >= p => Above(e, k) = Above(f, k)}
<1>1. n \in Nat /\ Len(f) = n
  BY AboveDef
<1>2. /\ Above(e, n) = 0 /\ Above(f, n) = 0
      /\ \A k \in 0 .. (n - 1) : Above(e, k) = e[k + 1] + Base * Above(e, k + 1)
      /\ \A k \in 0 .. (n - 1) : Above(f, k) = f[k + 1] + Base * Above(f, k + 1)
  BY <1>1, AboveDef
<1>3. \A i \in (p + 1) .. n : e[i] = f[i]
  OBVIOUS
<1> HIDE DEF n
<1>4. n \in G
  BY <1>1, <1>2
<1>5. ASSUME NEW k \in 0 .. (n - 1), k + 1 \in G PROVE k \in G
  <2>1. CASE k >= p
    <3>1. k + 1 \in (p + 1) .. n /\ k + 1 >= p /\ k \in 0 .. n
      BY <1>1, <2>1 DEF n
    <3>2. Above(e, k + 1) = Above(f, k + 1) /\ e[k + 1] = f[k + 1]
      BY <1>3, <1>5, <3>1
    <3>3. QED
      BY <1>2, <3>1, <3>2
  <2>2. CASE k < p
    BY <1>1, <2>2 DEF n
  <2>3. QED
    BY <1>1, <2>1, <2>2 DEF n
<1>6. 0 .. n \subseteq G
  <2> HIDE DEF G
  <2>1. QED
    BY <1>1, <1>4, <1>5, Descent
<1>7. QED
  BY <1>1, <1>6 DEF n

(* bn_subsection.                                                          *)
LEMMA FromExact ==
  ASSUME NEW e \in Seq(DigitSet), NEW k \in 0 .. Len(e)
  PROVE  From(e, k) \in Seq(DigitSet) /\ Len(From(e, k)) = Len(e) - k /\ ValueOf(From(e, k)) = Above(e, k)
<1> DEFINE n == Len(e)
           u == From(e, k)
<1>1. n \in Nat /\ \A i \in 1 .. n : e[i] \in DigitSet
  BY SeqIsArray DEF Terms
<1>2. u \in Seq(DigitSet) /\ Len(u) = n - k /\ \A j \in 1 .. (n - k) : u[j] = e[k + j]
  <2>1. u = SubSeq(e, k + 1, n)
    BY DEF From
  <2> HIDE DEF u
  <2>2. QED
    BY <1>1, <2>1
<1> HIDE DEF u
<1>3. k \in Nat /\ k + Len(u) = n /\ k + Len(u) =< Len(e) /\ FromPlace(u, e, k, Len(u))
  BY <1>1, <1>2 DEF FromPlace
<1>4. Above(e, k) = ValueOf(u) + Weight(Len(u)) * Above(e, k + Len(u)) /\ ValueOf(u) \in Nat /\ Weight(Len(u)) \in Nat
  BY <1>2, <1>3, AboveWindow
<1>5. Above(e, k + Len(u)) = 0
  BY <1>3, AboveDef
<1>6. Above(e, k) = ValueOf(u)
  <2> DEFINE w == Weight(Len(u))
  <2>1. w \in Nat
    BY <1>4
  <2> HIDE DEF w
  <2>2. w * 0 = 0
    BY <2>1
  <2>3. QED
    BY <1>4, <1>5, <2>2 DEF w
<1>7. QED
  BY <1>2, <1>6 DEF u

(* Part of an array is written: nothing below it and nothing above changes.*)
LEMMA ReplaceExact ==
  ASSUME NEW e \in Seq(DigitSet), NEW part \in Seq(DigitSet), NEW k \in Nat, k + Len(part) =< Len(e),
         NEW f, f = Replace(e, k, part)
  PROVE  /\ f \in Seq(DigitSet) /\ Len(f) = Len(e)
         /\ \A i \in 1 .. k : f[i] = e[i]
         /\ \A i \in (k + Len(part)) .. Len(e) : Above(f, i) = Above(e, i)
         /\ Above(f, k) = ValueOf(part) + Weight(Len(part)) * Above(e, k + Len(part))
<1> DEFINE n == Len(e)
           m == Len(part)
<1>1. /\ n \in Nat /\ m \in Nat /\ DOMAIN e = 1 .. n /\ DOMAIN part = 1 .. m /\ k + m =< n
      /\ \A i \in 1 .. n : e[i] \in DigitSet
      /\ \A i \in 1 .. m : part[i] \in DigitSet
  BY SeqIsArray DEF Terms
<1>2. f = [i \in 1 .. n |-> IF i - k \in 1 .. m THEN part[i - k] ELSE e[i]]
  BY <1>1 DEF Replace
<1> HIDE DEF n, m
<1>3. f \in [1 .. n -> DigitSet]
  BY <1>1, <1>2
<1>4. f \in Seq(DigitSet) /\ Len(f) = n
  BY <1>1, <1>3, ArrayIsSeq
<1>5. \A i \in 1 .. k : f[i] = e[i]
  BY <1>1, <1>2
<1>6. \A i \in ((k + m) + 1) .. n : f[i] = e[i]
  BY <1>1, <1>2
<1>7. FromPlace(part, f, k, m)
  <2>1. ASSUME NEW j \in 1 .. m PROVE part[j] = f[k + j]
    <3>1. k + j \in 1 .. n /\ (k + j) - k = j
      BY <1>1
    <3>2. QED
      BY <1>2, <3>1
  <2>2. QED
    BY <2>1 DEF FromPlace
<1>8. k + m \in 0 .. n
  BY <1>1
<1> DEFINE p == k + m
<1>9. \A i \in p .. n : Above(f, i) = Above(e, i)
  <2>1. p \in 0 .. Len(f) /\ Len(f) = Len(e) /\ \A i \in (p + 1) .. Len(f) : f[i] = e[i]
    BY <1>4, <1>6, <1>8 DEF n
  <2> HIDE DEF p
  <2>2. \A i \in p .. Len(f) : Above(f, i) = Above(e, i)
    BY <1>4, <2>1, AboveSame
  <2>3. QED
    BY <1>4, <2>2
<1>10. Above(f, k) = ValueOf(part) + Weight(Len(part)) * Above(f, k + Len(part))
  <2>1. k + Len(part) =< Len(f) /\ FromPlace(part, f, k, Len(part))
    BY <1>1, <1>4, <1>7 DEF m
  <2>2. QED
    BY <1>4, <2>1, AboveWindow
<1>11. Above(f, k + m) = Above(e, k + m)
  BY <1>1, <1>8, <1>9
<1>12. QED
  BY <1>4, <1>5, <1>9, <1>10, <1>11 DEF n, m

(* A loop that keeps what it should has a course.                          *)
Course(f, n, P, a, g) ==
  /\ f[0] = a
  /\ \A i \in 0 .. n : f[i] \in P[i]
  /\ \A i \in 1 .. n : f[i] = g[i][f[i - 1]]

Looped(n, P, a, g) == \E f : f = [i \in 0 .. n |-> f[i]] /\ Course(f, n, P, a, g)

LEMMA LoopExists ==
  ASSUME NEW n \in Nat, NEW P, NEW a \in P[0], NEW g,
         \A i \in 1 .. n : \A x \in P[i - 1] : g[i][x] \in P[i]
  PROVE  Looped(n, P, a, g)
<1> DEFINE G == {m \in 0 .. n : Looped(m, P, a, g)}
<1>1. 0 \in G
  <2> DEFINE f == [i \in 0 .. 0 |-> a]
  <2>1. f = [i \in 0 .. 0 |-> f[i]] /\ Course(f, 0, P, a, g)
    BY DEF Course
  <2>2. Looped(0, P, a, g)
    <3> HIDE DEF f
    <3>1. QED
      BY <2>1 DEF Looped
  <2>3. QED
    BY <2>2
<1>2. ASSUME NEW m \in 0 .. (n - 1), m \in G PROVE m + 1 \in G
  <2>1. PICK f : f = [i \in 0 .. m |-> f[i]] /\ Course(f, m, P, a, g)
    BY <1>2 DEF Looped
  <2>2. f[0] = a /\ (\A i \in 0 .. m : f[i] \in P[i]) /\ \A i \in 1 .. m : f[i] = g[i][f[i - 1]]
    BY <2>1 DEF Course
  <2>3. m + 1 \in 1 .. n /\ (m + 1) - 1 = m /\ m \in 0 .. m
    OBVIOUS
  <2>4. g[m + 1][f[m]] \in P[m + 1]
    BY <2>2, <2>3
  <2> DEFINE h == [i \in 0 .. (m + 1) |-> IF i = m + 1 THEN g[m + 1][f[m]] ELSE f[i]]
  <2>5. \A i \in 0 .. m : h[i] = f[i]
    OBVIOUS
  <2>6. h[m + 1] = g[m + 1][f[m]] /\ h = [i \in 0 .. (m + 1) |-> h[i]]
    OBVIOUS
  <2> HIDE DEF h
  <2>7. h[0] = a
    BY <2>2, <2>5
  <2>8. ASSUME NEW i \in 0 .. (m + 1) PROVE h[i] \in P[i]
    <3>1. CASE i = m + 1
      BY <2>4, <2>6, <3>1
    <3>2. CASE i # m + 1
      <4>1. i \in 0 .. m
        BY <3>2
      <4>2. QED
        BY <2>2, <2>5, <4>1
    <3>3. QED
      BY <3>1, <3>2
  <2>9. ASSUME NEW i \in 1 .. (m + 1) PROVE h[i] = g[i][h[i - 1]]
    <3>1. i - 1 \in 0 .. m
      OBVIOUS
    <3>2. h[i - 1] = f[i - 1]
      BY <2>5, <3>1
    <3>3. CASE i = m + 1
      BY <2>6, <3>2, <3>3
    <3>4. CASE i # m + 1
      <4>1. i \in 1 .. m /\ i \in 0 .. m
        BY <3>4
      <4>2. f[i] = g[i][f[i - 1]] /\ h[i] = f[i]
        BY <2>2, <2>5, <4>1
      <4>3. QED
        BY <3>2, <4>2
    <3>5. QED
      BY <3>3, <3>4
  <2>10. Course(h, m + 1, P, a, g)
    BY <2>7, <2>8, <2>9 DEF Course
  <2>11. Looped(m + 1, P, a, g)
    BY <2>6, <2>10 DEF Looped
  <2>12. QED
    BY <2>3, <2>11
<1>3. 0 .. n \subseteq G
  <2> HIDE DEF G
  <2>1. QED
    BY <1>1, <1>2, Ascent
<1>4. n \in 0 .. n
  OBVIOUS
<1>5. QED
  BY <1>3, <1>4

(***************************************************************************)
(* Long division.                                                          *)
(***************************************************************************)
LEMMA NoLonger ==
  ASSUME NEW e, NEW f, Normal(e), Normal(f), ValueOf(e) =< ValueOf(f)
  PROVE  Len(e) =< Len(f)
<1>1. Len(e) \in Nat /\ Len(f) \in Nat /\ ValueOf(e) \in Nat /\ ValueOf(f) \in Nat
  BY SeqIsArray, ValueType DEF Normal
<1>2. Cmp(e, f) = Sign(ValueOf(e) - ValueOf(f))
  BY CmpExact
<1>3. ASSUME Len(e) > Len(f) PROVE FALSE
  <2>1. Len(e) # Len(f) /\ Len(e) - Len(f) > 0
    BY <1>1, <1>3
  <2>2. Cmp(e, f) = Sign(Len(e) - Len(f))
    BY <2>1 DEF Cmp
  <2>3. Sign(Len(e) - Len(f)) = 1
    BY <2>1 DEF Sign
  <2>4. Sign(ValueOf(e) - ValueOf(f)) # 1
    BY <1>1 DEF Sign
  <2>5. QED
    BY <1>2, <2>2, <2>3, <2>4
<1>4. QED
  BY <1>1, <1>3

LEMMA ModDown ==
  ASSUME NEW a \in 1 .. Base
  PROVE  ((a % Base) - 1) % Base = (a - 1) % Base /\ (a - 1) % Base = a - 1
<1>1. Base \in Nat /\ Base > 1
  BY BaseType
<1> DEFINE b == Base
<1>2. b \in Nat /\ b > 1 /\ a \in 1 .. b
  BY <1>1
<1> HIDE DEF b
<1>3. \A c \in 0 .. (b - 1) : c % b = c
  BY <1>2
<1>4. b % b = 0 /\ (-1) % b = b - 1
  BY <1>2
<1>5. CASE a = b
  <2>1. a - 1 \in 0 .. (b - 1) /\ ((a % b) - 1) = -1
    BY <1>2, <1>4, <1>5
  <2>2. (a - 1) % b = a - 1
    BY <1>3, <2>1
  <2>3. ((a % b) - 1) % b = b - 1
    BY <1>4, <2>1
  <2>4. QED
    BY <1>5, <2>2, <2>3 DEF b
<1>6. CASE a # b
  <2>1. a - 1 \in 0 .. (b - 1) /\ a \in 0 .. (b - 1)
    BY <1>2, <1>6
  <2>2. a % b = a /\ (a - 1) % b = a - 1
    BY <1>3, <2>1
  <2>3. QED
    BY <2>2 DEF b
<1>7. QED
  BY <1>5, <1>6

(* The estimate stands for a multiple of the denominator.                  *)
LowStates == [work : Seq(DigitSet), qt : Int]

LowAt(x, sub, d, a) ==
  /\ Normal(x.work) /\ ValueOf(x.work) = a * ValueOf(d)
  /\ x.qt = a % Base
  /\ ValueOf(sub) < (a + 1) * ValueOf(d)

LEMMA LowerOnceExact ==
  ASSUME NEW sub, Normal(sub), NEW d, Normal(d), d # <<>>, NEW x \in LowStates,
         NEW a \in 0 .. Base, LowAt(x, sub, d, a)
  PROVE  LET y == LowerOnce(sub, x, d)
         IN  /\ y \in LowStates
             /\ a * ValueOf(d) =< ValueOf(sub) => y = x
             /\ a * ValueOf(d) > ValueOf(sub) => a >= 1 /\ LowAt(y, sub, d, a - 1)
<1> DEFINE y == LowerOnce(sub, x, d)
           D == ValueOf(d)
           W == ValueOf(sub)
           w == x.work
           n == Len(w)
           c == SubDigits(n, w, d)
<1>1. D \in Nat /\ W \in Nat /\ D # 0 /\ d \in Seq(DigitSet) /\ w \in Seq(DigitSet) /\ n \in Nat /\ a \in Nat
  <2>1. D \in Nat /\ W \in Nat /\ D # 0
    BY ValueSizes
  <2>2. w \in Seq(DigitSet) /\ d \in Seq(DigitSet)
    BY DEF LowAt, Normal
  <2>3. n \in Nat
    BY <2>2, SeqIsArray
  <2>4. QED
    BY <2>1, <2>2, <2>3, BaseType
<1>2. ValueOf(w) = a * D /\ x.qt = a % Base /\ W < (a + 1) * D /\ Normal(w)
  BY DEF LowAt
<1>3. a * D \in Nat /\ (a + 1) * D = a * D + D
  <2> HIDE DEF D
  <2>1. QED
    BY <1>1
<1>4. Cmp(sub, w) < 0 <=> W < a * D
  <2>1. Cmp(sub, w) = Sign(W - a * D)
    BY <1>2, CmpExact
  <2> HIDE DEF W, D
  <2>2. QED
    BY <1>1, <1>3, <2>1 DEF Sign
<1>5. CASE a * D =< W
  <2>1. ~(Cmp(sub, w) < 0)
    <3> HIDE DEF W, D
    <3>1. QED
      BY <1>1, <1>3, <1>4, <1>5
  <2>2. y = x
    BY <2>1 DEF LowerOnce
  <2> HIDE DEF W, D, y
  <2>3. ~(a * D > W)
    BY <1>1, <1>3, <1>5
  <2>4. QED
    BY <2>2, <2>3 DEF y, W, D
<1>6. CASE a * D > W
  <2>1. Cmp(sub, w) < 0
    <3> HIDE DEF W, D
    <3>1. QED
      BY <1>1, <1>3, <1>4, <1>6
  <2>2. y = [work |-> Norm(c.elts), qt |-> (x.qt - 1) % Base]
    BY <2>1 DEF LowerOnce
  <2>3. a >= 1
    <3> HIDE DEF W, D
    <3>1. a = 0 => a * D = 0
      BY <1>1
    <3>2. QED
      BY <1>1, <1>3, <1>6, <3>1
  <2>4. D =< a * D
    <3> HIDE DEF W, D
    <3>1. (a - 1) * D \in Nat /\ (a - 1) * D = a * D - D
      <4>1. a - 1 \in Nat
        BY <1>1, <2>3
      <4>2. QED
        BY <1>1, <4>1
    <3>2. QED
      BY <1>1, <1>3, <3>1
  <2>5. Len(d) =< n
    BY <1>2, <2>4, NoLonger
  <2>6. /\ c.elts \in [1 .. n -> DigitSet] /\ c.out \in {-1, 0}
        /\ Total(c.elts, n, c.out) = ValueOf(w) - D
        /\ c.out >= 0 <=> ValueOf(w) >= D
    <3> HIDE DEF n
    <3>1. n >= Len(w)
      BY <1>1 DEF n
    <3>2. QED
      BY <1>1, <2>5, <3>1, SubDigitsExact
  <2>7. c.out = 0
    BY <1>1, <1>2, <1>3, <2>4, <2>6
  <2> DEFINE e == c.elts
  <2>8. e \in Seq(DigitSet) /\ Len(e) = n
    BY <1>1, <2>6, ArrayIsSeq
  <2>9. ValueOf(e) = a * D - D
    BY <1>2, <2>6, <2>7, <2>8 DEF ValueOf
  <2> HIDE DEF e, y
  <2>10. Normal(Norm(e)) /\ ValueOf(Norm(e)) = ValueOf(e)
    BY <2>8, NormExact
  <2>11. (a - 1) * D = a * D - D /\ ((a - 1) + 1) * D = a * D
    <3> HIDE DEF D
    <3>1. QED
      BY <1>1
  <2>12. (x.qt - 1) % Base = (a - 1) % Base /\ (a - 1) % Base \in Int
    <3>1. a \in 1 .. Base
      BY <1>1, <2>3
    <3>2. a - 1 \in Int
      BY <1>1
    <3>3. QED
      BY <1>2, <3>1, <3>2, ModDown, Place
  <2>13. y = [work |-> Norm(e), qt |-> (a - 1) % Base]
    BY <2>2, <2>12 DEF e
  <2>14. y.work = Norm(e) /\ y.qt = (a - 1) % Base
    BY <2>13
  <2>15. LowAt(y, sub, d, a - 1)
    BY <1>6, <2>9, <2>10, <2>11, <2>14 DEF LowAt
  <2>16. y \in LowStates
    BY <2>10, <2>12, <2>13 DEF LowStates, Normal
  <2>17. QED
    <3> HIDE DEF W, D
    <3>1. ~(a * D =< W)
      BY <1>1, <1>3, <1>6
    <3>2. QED
      BY <2>3, <2>15, <2>16, <3>1 DEF y, W, D
<1>7. QED
  <2> HIDE DEF W, D
  <2>1. a * D =< W \/ a * D > W
    BY <1>1, <1>3
  <2>2. QED
    BY <1>5, <1>6, <2>1

(* After k turns either the multiple fits or it is k less than the most.   *)
LowAfter(sub, d) ==
  [k \in 0 .. Base |->
     {x \in LowStates : \E a \in 0 .. Base : /\ LowAt(x, sub, d, a)
                                             /\ a * ValueOf(d) =< ValueOf(sub) \/ a + k =< Base}]

LEMMA LowerStep ==
  ASSUME NEW sub, Normal(sub), NEW d, Normal(d), d # <<>>, NEW i \in 1 .. Base, NEW x \in LowAfter(sub, d)[i - 1]
  PROVE  LowerOnce(sub, x, d) \in LowAfter(sub, d)[i]
<1> DEFINE y == LowerOnce(sub, x, d)
           D == ValueOf(d)
           W == ValueOf(sub)
<1>1. i - 1 \in 0 .. Base /\ i \in 0 .. Base /\ Base \in Nat
  BY BaseType
<1>2. x \in LowStates
  BY <1>1 DEF LowAfter
<1>3. PICK a \in 0 .. Base : LowAt(x, sub, d, a) /\ (a * D =< W \/ a + (i - 1) =< Base)
  BY <1>1 DEF LowAfter
<1>4. /\ y \in LowStates
      /\ a * D =< W => y = x
      /\ a * D > W => a >= 1 /\ LowAt(y, sub, d, a - 1)
  BY <1>2, <1>3, LowerOnceExact
<1>5. a * D \in Int /\ W \in Int /\ a \in Nat
  <2>1. D \in Nat /\ W \in Nat
    BY ValueSizes
  <2> HIDE DEF D
  <2>2. QED
    BY <1>1, <2>1
<1> HIDE DEF y
<1>6. CASE a * D =< W
  <2>1. LowAt(y, sub, d, a) /\ a * D =< W
    BY <1>3, <1>4, <1>6
  <2>2. \E b \in 0 .. Base : LowAt(y, sub, d, b) /\ (b * D =< W \/ b + i =< Base)
    BY <2>1
  <2>3. QED
    BY <1>1, <1>4, <2>2 DEF LowAfter, y
<1>7. CASE a * D > W
  <2>1. LowAt(y, sub, d, a - 1) /\ a - 1 \in 0 .. Base
    BY <1>1, <1>4, <1>5, <1>7
  <2>2. a + (i - 1) =< Base
    BY <1>3, <1>5, <1>7
  <2>3. (a - 1) + i =< Base
    BY <1>1, <1>5, <2>2
  <2>4. \E b \in 0 .. Base : LowAt(y, sub, d, b) /\ (b * D =< W \/ b + i =< Base)
    BY <2>1, <2>3
  <2>5. QED
    BY <1>1, <1>4, <2>4 DEF LowAfter, y
<1>8. QED
  BY <1>5, <1>6, <1>7

(* The estimate is lowered to the digit.                                   *)
LEMMA LowerExact ==
  ASSUME NEW sub, Normal(sub), NEW d, Normal(d), d # <<>>, NEW work, Normal(work), NEW a \in 0 .. Base,
         ValueOf(work) = a * ValueOf(d), NEW qt, qt = a % Base,
         ValueOf(sub) < (a + 1) * ValueOf(d), ValueOf(sub) < Base * ValueOf(d)
  PROVE  LET low == Lower(sub, work, qt, d)
         IN  /\ Normal(low.work) /\ low.qt \in DigitSet
             /\ ValueOf(low.work) = low.qt * ValueOf(d)
             /\ ValueOf(low.work) =< ValueOf(sub) /\ ValueOf(sub) < ValueOf(low.work) + ValueOf(d)
<1> DEFINE b == Base
           P == LowAfter(sub, d)
           x == [work |-> work, qt |-> qt]
           g == [i \in 1 .. b |-> [y \in P[i - 1] |-> LowerOnce(sub, y, d)]]
           F(f) == [k \in 0 .. b |-> IF k = 0 THEN x ELSE LowerOnce(sub, f[k - 1], d)]
           D == ValueOf(d)
           W == ValueOf(sub)
<1>1. b \in Nat /\ b > 1 /\ a \in Int /\ a % Base \in 0 .. (Base - 1)
  <2>1. b \in Nat /\ b > 1 /\ a \in Int
    BY BaseType
  <2>2. QED
    BY <2>1, Place
<1>2. x \in P[0]
  <2>1. x \in LowStates
    BY <1>1 DEF LowStates, Normal
  <2>2. LowAt(x, sub, d, a)
    BY DEF LowAt
  <2>3. a + 0 =< Base /\ 0 \in 0 .. Base
    BY <1>1
  <2> HIDE DEF x
  <2>4. QED
    BY <2>1, <2>2, <2>3 DEF LowAfter
<1>3. \A i \in 1 .. b : \A y \in P[i - 1] : LowerOnce(sub, y, d) \in P[i]
  BY LowerStep
<1> HIDE DEF P, b, x
<1>4. \A i \in 1 .. b : \A y \in P[i - 1] : g[i][y] = LowerOnce(sub, y, d)
  OBVIOUS
<1>5. PICK f : f = [i \in 0 .. b |-> f[i]] /\ Course(f, b, P, x, g)
  <2> HIDE DEF g
  <2>1. \A i \in 1 .. b : \A y \in P[i - 1] : g[i][y] \in P[i]
    BY <1>3, <1>4
  <2>2. Looped(b, P, x, g)
    BY <1>1, <1>2, <2>1, LoopExists
  <2>3. QED
    BY <2>2 DEF Looped
<1> HIDE DEF g
<1>6. f = F(f)
  <2>1. ASSUME NEW k \in 0 .. b PROVE f[k] = F(f)[k]
    <3>1. CASE k = 0
      BY <1>5, <3>1 DEF Course
    <3>2. CASE k # 0
      <4>1. k \in 1 .. b /\ k - 1 \in 0 .. b
        BY <1>1, <3>2
      <4>2. f[k] = g[k][f[k - 1]] /\ f[k - 1] \in P[k - 1]
        BY <1>5, <4>1 DEF Course
      <4>3. f[k] = LowerOnce(sub, f[k - 1], d)
        BY <1>4, <4>1, <4>2
      <4>4. QED
        BY <3>2, <4>3
    <3>3. QED
      BY <3>1, <3>2
  <2>2. QED
    BY <1>5, <2>1
<1> DEFINE low == CHOOSE h : h = F(h)
<1>7. low = F(low)
  <2>1. \E h : h = F(h)
    BY <1>6
  <2>2. QED
    <3> HIDE DEF F
    <3>1. QED
      BY <2>1
<1>8. Lower(sub, work, qt, d) = low[b]
  BY DEF Lower, x, b
<1> HIDE DEF low
<1>9. low[0] = x /\ \A k \in 1 .. b : low[k] = LowerOnce(sub, low[k - 1], d)
  BY <1>1, <1>7
<1> DEFINE G == {k \in 0 .. b : low[k] \in P[k]}
<1>10. 0 .. b \subseteq G
  <2>1. 0 \in G
    BY <1>1, <1>2, <1>9
  <2>2. ASSUME NEW k \in 0 .. (b - 1), k \in G PROVE k + 1 \in G
    <3>1. k + 1 \in 1 .. b /\ (k + 1) - 1 = k /\ low[k] \in P[(k + 1) - 1] /\ k + 1 \in 0 .. b
      BY <1>1, <2>2
    <3>2. low[k + 1] = LowerOnce(sub, low[k], d)
      BY <1>9, <3>1
    <3>3. low[k + 1] \in P[k + 1]
      BY <1>3, <3>1, <3>2
    <3>4. QED
      BY <3>1, <3>3
  <2> HIDE DEF G
  <2>3. QED
    BY <1>1, <2>1, <2>2, Ascent
<1> DEFINE z == low[b]
<1>11. z \in P[b]
  <2>1. b \in 0 .. b
    BY <1>1
  <2>2. QED
    BY <1>10, <2>1
<1> HIDE DEF z
<1>12. PICK c \in 0 .. Base : LowAt(z, sub, d, c) /\ (c * D =< W \/ c + Base =< Base)
  BY <1>1, <1>11 DEF LowAfter, P, b
<1>13. D \in Nat /\ W \in Nat /\ c \in Nat /\ Base \in Nat
  <2>1. D \in Nat /\ W \in Nat
    BY ValueSizes
  <2>2. QED
    BY <2>1, BaseType
<1>14. /\ Normal(z.work) /\ ValueOf(z.work) = c * D /\ z.qt = c % Base /\ W < (c + 1) * D
  BY <1>12 DEF LowAt
<1>15. c * D =< W /\ c < Base /\ (c + 1) * D = c * D + D
  <2> HIDE DEF D, W
  <2>1. c + Base =< Base => c = 0
    BY <1>13
  <2>2. 0 * D = 0
    BY <1>13
  <2>3. c * D =< W
    BY <1>12, <1>13, <2>1, <2>2
  <2>4. c # Base
    <3>1. W < Base * D
      BY DEF W, D
    <3>2. c * D \in Int /\ Base * D \in Int
      BY <1>13
    <3>3. QED
      BY <1>13, <2>3, <3>1, <3>2
  <2>5. (c + 1) * D = c * D + D
    BY <1>13
  <2>6. QED
    BY <1>13, <2>3, <2>4, <2>5
<1>16. c % Base = c /\ c \in DigitSet
  <2>1. \A u \in Nat : \A v \in 0 .. (u - 1) : v % u = v
    OBVIOUS
  <2>2. c \in 0 .. (Base - 1)
    BY <1>13, <1>15
  <2>3. QED
    BY <1>13, <2>1, <2>2 DEF DigitSet
<1>17. QED
  BY <1>8, <1>14, <1>15, <1>16 DEF z

LEMMA AboveParts ==
  ASSUME NEW e \in Seq(DigitSet), NEW p \in Nat, NEW m \in Nat, p + m =< Len(e)
  PROVE  /\ Weight(m) \in Nat
         /\ \E low \in Nat : low < Weight(m) /\ Above(e, p) = low + Weight(m) * Above(e, p + m)
         /\ Above(e, p) < Weight(m) <=> Above(e, p + m) = 0
<1> DEFINE u == [j \in 1 .. m |-> e[p + j]]
<1>1. Len(e) \in Nat /\ \A i \in 1 .. Len(e) : e[i] \in DigitSet
  BY SeqIsArray DEF Terms
<1>2. u \in [1 .. m -> DigitSet]
  BY <1>1
<1>3. u \in Seq(DigitSet) /\ Len(u) = m
  <2> HIDE DEF u
  <2>1. QED
    BY <1>2, ArrayIsSeq
<1>4. FromPlace(u, e, p, m)
  BY DEF FromPlace
<1> HIDE DEF u
<1>5. /\ Above(e, p) = ValueOf(u) + Weight(Len(u)) * Above(e, p + Len(u))
      /\ ValueOf(u) \in Nat /\ ValueOf(u) < Weight(Len(u)) /\ Weight(Len(u)) \in Nat
      /\ Above(e, p) < Weight(Len(u)) <=> Above(e, p + Len(u)) = 0
  <2>1. p + Len(u) =< Len(e) /\ FromPlace(u, e, p, Len(u))
    BY <1>3, <1>4
  <2>2. QED
    BY ZenonT(60), <1>3, <2>1, AboveWindow
<1>6. QED
  BY <1>3, <1>5

LEMMA SeqBelow ==
  ASSUME NEW d \in Seq(DigitSet)
  PROVE  ValueOf(d) \in Nat /\ ValueOf(d) < Weight(Len(d)) /\ Weight(Len(d)) \in Nat
<1>1. Len(d) \in Nat /\ Terms(d, Len(d), DigitSet) /\ 0 \in Int
  BY SeqIsArray
<1>2. QED
  BY <1>1, Weighted DEF ValueOf

(* The top digit, and what is below it.                                    *)
LEMMA TopDigit ==
  ASSUME NEW d \in Seq(DigitSet), d # <<>>
  PROVE  /\ Len(d) - 1 \in Nat /\ d[Len(d)] \in DigitSet /\ Weight(Len(d) - 1) \in Nat
         /\ Weight(Len(d)) = Base * Weight(Len(d) - 1)
         /\ \E low \in Nat : low < Weight(Len(d) - 1) /\ ValueOf(d) = low + Weight(Len(d) - 1) * d[Len(d)]
<1> DEFINE m == Len(d)
           k == m - 1
           z == 0
<1>1. m \in Nat /\ m # 0 /\ d[m] \in DigitSet
  BY SeqIsArray DEF Terms
<1>2. k \in Nat /\ k + 1 = m /\ z \in Nat /\ z + k =< Len(d) /\ k \in 0 .. (m - 1) /\ z + k = k
  BY <1>1
<1>3. Above(d, m) = 0 /\ Above(d, k) = d[k + 1] + Base * Above(d, k + 1) /\ ValueOf(d) = Above(d, z)
  BY <1>2, AboveDef
<1>4. Above(d, k) = d[m]
  <2>1. Above(d, k) = d[m] + Base * 0 /\ d[m] \in Nat
    BY <1>1, <1>2, <1>3, DigitsAre
  <2>2. QED
    BY <2>1, BaseType
<1> HIDE DEF k, z, m
<1>5. /\ Weight(k) \in Nat
      /\ \E low \in Nat : low < Weight(k) /\ Above(d, z) = low + Weight(k) * Above(d, z + k)
  BY <1>2, AboveParts
<1>6. Weight(k + 1) = Base * Weight(k)
  BY <1>2, WeightNext
<1>7. QED
  BY <1>1, <1>2, <1>3, <1>4, <1>5, <1>6 DEF k, m

LEMMA Under ==
  ASSUME NEW w \in Nat, NEW low \in Nat, NEW n \in Nat, NEW k \in Nat, low < w, n < k
  PROVE  low + w * n < w * k
<1>1. k - 1 - n \in Nat
  OBVIOUS
<1>2. w * (k - 1 - n) \in Nat /\ w * (k - 1 - n) = w * k - w - w * n /\ w * k \in Nat /\ w * n \in Nat
  <2>1. w * (k - 1 - n) \in Nat
    BY <1>1
  <2>2. QED
    BY <2>1
<1>3. QED
  BY <1>2

(***************************************************************************)
(* What a turn keeps: the digits below are untouched, what is above the    *)
(* window is used up, and remainder and quotient so far make up what was   *)
(* there.                                                                  *)
(***************************************************************************)
DivStates == [rem : Seq(DigitSet), quo : Seq(DigitSet), rd : Int, qt : Int]

Divided(s, d, r, qt) ==
  /\ s \in DivStates /\ Len(s.rem) = Len(r) /\ Len(s.quo) = Len(r) - Len(d) + 1
  /\ s.qt = qt /\ s.rd = qt + Len(d) - 1
  /\ \A i \in 1 .. (qt - 1) : s.rem[i] = r[i]
  /\ Above(s.rem, (qt - 1) + Len(d)) = 0
  /\ Above(s.rem, qt - 1) + ValueOf(d) * Above(s.quo, qt - 1) = Above(r, qt - 1)

(* Before the denominator is taken off, which it can be once at most.      *)
Open(s, d, r, qt) ==
  /\ Divided(s, d, r, qt)
  /\ Above(s.rem, qt - 1) < 2 * ValueOf(d)
  /\ Above(s.rem, qt - 1) >= ValueOf(d) => s.quo[qt] = 0

Taken(s, d, r, qt) == Divided(s, d, r, qt) /\ Above(s.rem, qt - 1) < ValueOf(d)

DivPlace(s, d, r, qt) ==
  /\ r \in Seq(DigitSet) /\ Normal(d) /\ d # <<>> /\ Len(d) =< Len(r)
  /\ qt \in 1 .. (Len(r) - Len(d) + 1)

LEMMA WrittenExact ==
  ASSUME NEW s \in DivStates, NEW off \in Nat, NEW part \in Seq(DigitSet), off + Len(part) =< Len(s.rem),
         off + 1 =< Len(s.quo), NEW digit \in DigitSet, NEW t, t = Written(s, off, part, off + 1, digit)
  PROVE  /\ t \in DivStates /\ t.rd = s.rd /\ t.qt = s.qt
         /\ Len(t.rem) = Len(s.rem) /\ Len(t.quo) = Len(s.quo)
         /\ \A i \in 1 .. off : t.rem[i] = s.rem[i]
         /\ Above(t.rem, off) = ValueOf(part) + Weight(Len(part)) * Above(s.rem, off + Len(part))
         /\ Above(t.quo, off) = digit + Base * Above(s.quo, off + 1)
         /\ t.quo[off + 1] = digit
<1> DEFINE one == <<digit>>
           rem == Replace(s.rem, off, part)
           quo == Replace(s.quo, off, one)
<1>1. s.rem \in Seq(DigitSet) /\ s.quo \in Seq(DigitSet) /\ s.rd \in Int /\ s.qt \in Int
  BY DEF DivStates
<1>2. one \in Seq(DigitSet) /\ Len(one) = 1 /\ DOMAIN one = {1} /\ one[1] = digit
  OBVIOUS
<1>3. t = [rem |-> rem, quo |-> quo, rd |-> s.rd, qt |-> s.qt]
  <2>1. (off + 1) - 1 = off
    OBVIOUS
  <2>2. t = [s EXCEPT !.rem = Replace(@, off, part), !.quo = Replace(@, off, <<digit>>)]
    BY <2>1 DEF Written
  <2>3. QED
    BY <2>2 DEF DivStates
<1> HIDE DEF one
<1>4. quo[off + 1] = digit
  <2>1. off + 1 \in DOMAIN s.quo
    BY <1>1, SeqIsArray
  <2>2. (off + 1) - off \in DOMAIN one /\ one[(off + 1) - off] = digit
    BY <1>2
  <2>3. QED
    BY <2>1, <2>2 DEF Replace
<1> HIDE DEF rem, quo
<1>5. /\ rem \in Seq(DigitSet) /\ Len(rem) = Len(s.rem)
      /\ \A i \in 1 .. off : rem[i] = s.rem[i]
      /\ Above(rem, off) = ValueOf(part) + Weight(Len(part)) * Above(s.rem, off + Len(part))
  BY <1>1, ReplaceExact DEF rem
<1>6. /\ quo \in Seq(DigitSet) /\ Len(quo) = Len(s.quo)
      /\ \A i \in (off + Len(one)) .. Len(s.quo) : Above(quo, i) = Above(s.quo, i)
  <2>1. off + Len(one) =< Len(s.quo)
    BY <1>2
  <2>2. s.quo \in Seq(DigitSet) /\ one \in Seq(DigitSet) /\ quo = Replace(s.quo, off, one)
    BY <1>1, <1>2 DEF quo
  <2>3. QED
    BY <2>1, <2>2, ReplaceExact
<1>7. Above(quo, off) = digit + Base * Above(s.quo, off + 1)
  <2>1. Len(s.quo) \in Nat
    BY <1>1, SeqIsArray
  <2>2. off \in 0 .. (Len(quo) - 1) /\ off + 1 \in (off + Len(one)) .. Len(s.quo)
    BY <1>2, <1>6, <2>1
  <2>3. Above(quo, off) = quo[off + 1] + Base * Above(quo, off + 1)
    BY <1>6, <2>2, AboveDef
  <2>4. QED
    BY <1>4, <1>6, <2>2, <2>3
<1>8. t \in DivStates
  BY <1>1, <1>3, <1>5, <1>6 DEF DivStates
<1>9. t.rem = rem /\ t.quo = quo /\ t.rd = s.rd /\ t.qt = s.qt
  BY <1>3
<1>10. QED
  BY <1>4, <1>5, <1>6, <1>7, <1>8, <1>9

(* What the places and the parts are.                                      *)
LEMMA DivFacts ==
  ASSUME NEW s, NEW d, NEW r, NEW qt, DivPlace(s, d, r, qt), Divided(s, d, r, qt)
  PROVE  /\ qt \in Nat /\ qt >= 1 /\ Len(d) \in Nat /\ Len(d) >= 1 /\ Len(r) \in Nat
         /\ (qt - 1) + Len(d) =< Len(r) /\ qt =< Len(s.quo)
         /\ s.rem \in Seq(DigitSet) /\ s.quo \in Seq(DigitSet) /\ d \in Seq(DigitSet)
         /\ Len(s.rem) = Len(r) /\ Len(s.quo) = Len(r) - Len(d) + 1
         /\ ValueOf(d) \in Nat /\ ValueOf(d) > 0 /\ ValueOf(d) < Weight(Len(d))
         /\ Above(s.rem, qt - 1) \in Nat /\ Above(s.quo, qt - 1) \in Nat
         /\ d # <<>> /\ d[Len(d)] \in DigitSet /\ d[Len(d)] # 0
         /\ s.rem[s.rd] \in DigitSet /\ Above(s.rem, s.rd - 1) = s.rem[s.rd]
<1>1. r \in Seq(DigitSet) /\ d \in Seq(DigitSet) /\ d # <<>> /\ qt \in 1 .. (Len(r) - Len(d) + 1) /\ d[Len(d)] # 0
  BY DEF DivPlace, Normal
<1>2. Len(r) \in Nat /\ Len(d) \in Nat /\ Len(d) >= 1 /\ d[Len(d)] \in DigitSet
  BY <1>1, SeqIsArray DEF Terms
<1>3. s.rem \in Seq(DigitSet) /\ s.quo \in Seq(DigitSet) /\ Len(s.rem) = Len(r) /\ Len(s.quo) = Len(r) - Len(d) + 1
  BY DEF Divided, DivStates
<1>4. ValueOf(d) \in Nat /\ ValueOf(d) # 0 /\ ValueOf(d) < Weight(Len(d))
  <2>1. Normal(d)
    BY DEF DivPlace
  <2>2. QED
    BY <1>1, <2>1, ValueSizes, SeqBelow
<1>5. qt \in Nat /\ qt >= 1 /\ (qt - 1) + Len(d) =< Len(r) /\ qt =< Len(s.quo)
  BY <1>1, <1>2, <1>3
<1>6. Above(s.rem, qt - 1) \in Nat /\ Above(s.quo, qt - 1) \in Nat
  <2>1. qt - 1 \in 0 .. Len(s.rem) /\ qt - 1 \in 0 .. Len(s.quo)
    BY <1>2, <1>3, <1>5
  <2>2. QED
    BY <1>3, <2>1, AboveDef
<1>7. s.rem[s.rd] \in DigitSet /\ Above(s.rem, s.rd - 1) = s.rem[s.rd]
  <2> DEFINE k == s.rd - 1
  <2>1. s.rd = qt + Len(d) - 1 /\ Above(s.rem, (qt - 1) + Len(d)) = 0
    BY DEF Divided
  <2>2. k \in 0 .. (Len(s.rem) - 1) /\ k + 1 = s.rd /\ k + 1 = (qt - 1) + Len(d)
    BY <1>2, <1>3, <1>5, <2>1
  <2> HIDE DEF k
  <2>3. s.rem[k + 1] \in DigitSet /\ Above(s.rem, k) = s.rem[k + 1] + Base * Above(s.rem, k + 1)
    BY <1>3, <2>2, AboveDef
  <2>4. Above(s.rem, k) = s.rem[k + 1] + Base * 0 /\ s.rem[k + 1] \in Nat
    BY <2>1, <2>2, <2>3, DigitsAre
  <2>5. Above(s.rem, k) = s.rem[k + 1]
    BY <2>4, BaseType
  <2>6. QED
    BY <2>2, <2>3, <2>5 DEF k
<1>8. QED
  BY <1>1, <1>2, <1>3, <1>4, <1>5, <1>6, <1>7

(* After it the rest is less than the denominator.                         *)
LEMMA FirstOffExact ==
  ASSUME NEW s, NEW d, NEW r, NEW qt, DivPlace(s, d, r, qt), Open(s, d, r, qt)
  PROVE  Taken(FirstOff(s, d), d, r, qt)
<1> DEFINE m == Len(d)
           n == Len(r)
           off == qt - 1
           top == d[m]
           D == ValueOf(d)
           R == Above(s.rem, off)
           e == From(s.rem, off)
           sub == SubDigits(n - off, e, d)
           t == FirstOff(s, d)
<1>1. Divided(s, d, r, qt) /\ R < 2 * D /\ (R >= D => s.quo[qt] = 0)
  BY DEF Open
<1>2. /\ qt \in Nat /\ qt >= 1 /\ m \in Nat /\ m >= 1 /\ n \in Nat
      /\ off + m =< n /\ qt =< Len(s.quo)
      /\ s.rem \in Seq(DigitSet) /\ s.quo \in Seq(DigitSet) /\ d \in Seq(DigitSet)
      /\ Len(s.rem) = n /\ Len(s.quo) = n - m + 1
      /\ D \in Nat /\ D > 0 /\ D < Weight(m)
      /\ R \in Nat /\ Above(s.quo, off) \in Nat
      /\ d # <<>> /\ top \in DigitSet /\ top # 0
      /\ s.rem[s.rd] \in DigitSet /\ Above(s.rem, s.rd - 1) = s.rem[s.rd]
  BY <1>1, DivFacts
<1>3. /\ s \in DivStates /\ s.qt = qt /\ s.rd = qt + m - 1
      /\ \A i \in 1 .. (qt - 1) : s.rem[i] = r[i]
      /\ Above(s.rem, off + m) = 0
      /\ R + D * Above(s.quo, off) = Above(r, off)
  BY <1>1 DEF Divided
<1>4. off \in Nat /\ off + 1 = qt /\ off \in 0 .. n /\ s.rd - m = off
  <2>1. qt \in Nat /\ qt >= 1 /\ m \in Nat /\ m >= 1 /\ n \in Nat /\ off + m =< n /\ s.rd = qt + m - 1
    BY <1>2, <1>3
  <2> HIDE DEF m, n
  <2>2. QED
    BY <2>1
<1>5. t = IF s.rem[s.rd] < top THEN s ELSE TakeOff(s, off, sub)
  BY <1>2, <1>4 DEF FirstOff
<1>6. CASE s.rem[s.rd] < top
  <2> DEFINE k == m - 1
             w == Weight(k)
             x == s.rem[s.rd]
  <2>1. k \in Nat /\ off + k =< Len(s.rem) /\ off + k = s.rd - 1
    BY <1>2, <1>3
  <2>2. PICK low \in Nat : low < w /\ D = low + w * top
    BY <1>2, TopDigit
  <2>3. w \in Nat /\ top \in Nat /\ x \in Nat
    <3>1. w \in Nat
      BY <1>2, TopDigit
    <3>2. QED
      BY <1>2, <3>1, DigitsAre
  <2> HIDE DEF k, x
  <2>4. PICK lo \in Nat : lo < w /\ R = lo + w * x
    <3>1. \E lo \in Nat : lo < Weight(k) /\ Above(s.rem, off) = lo + Weight(k) * Above(s.rem, off + k)
      <4>1. s.rem \in Seq(DigitSet) /\ off \in Nat
        BY <1>2, <1>4
      <4> HIDE DEF off
      <4>2. QED
        BY <2>1, <4>1, AboveParts
    <3>2. Above(s.rem, off + k) = x
      BY <1>2, <2>1 DEF x
    <3>3. QED
      BY <3>1, <3>2
  <2> HIDE DEF w, top, R, D
  <2>5. lo + w * x < w * top
    BY <1>6, <2>3, <2>4, Under DEF x
  <2>6. w * top \in Nat
    BY <2>3
  <2>7. R < D
    BY <2>2, <2>4, <2>5, <2>6
  <2>8. t = s
    BY <1>5, <1>6
  <2>9. QED
    BY <1>1, <2>7, <2>8 DEF Taken, R, D
<1>7. CASE ~(s.rem[s.rd] < top)
  <2>1. e \in Seq(DigitSet) /\ Len(e) = n - off /\ ValueOf(e) = R
    BY <1>2, <1>4, FromExact
  <2>2. t = TakeOff(s, off, sub)
    BY <1>5, <1>7
  <2>3. n - off \in Nat /\ Len(e) =< n - off /\ m =< n - off
    <3>1. m \in Nat /\ n \in Nat /\ off + m =< n
      BY <1>2
    <3> HIDE DEF m, n, off, e
    <3>2. QED
      BY <1>4, <2>1, <3>1
  <2> HIDE DEF e
  <2>4. /\ sub.elts \in [1 .. (n - off) -> DigitSet] /\ sub.out \in {-1, 0}
        /\ Total(sub.elts, n - off, sub.out) = R - D
        /\ sub.out >= 0 <=> R >= D
    <3> DEFINE k == n - off
    <3>1. k \in Nat /\ Len(e) =< k /\ Len(d) =< k
      BY <2>3
    <3> HIDE DEF k
    <3>2. LET c == SubDigits(k, e, d)
          IN  /\ c.elts \in [1 .. k -> DigitSet] /\ c.out \in {-1, 0}
              /\ Total(c.elts, k, c.out) = ValueOf(e) - ValueOf(d)
              /\ c.out >= 0 <=> ValueOf(e) >= ValueOf(d)
      BY <1>2, <2>1, <3>1, SubDigitsExact
    <3>3. QED
      BY <2>1, <3>2 DEF k
  <2> HIDE DEF sub
  <2>5. CASE sub.out < 0
    <3>1. t = s
      BY <2>2, <2>4, <2>5 DEF TakeOff
    <3>2. R < D
      <4> HIDE DEF R, D
      <4>1. QED
        BY <1>2, <2>4, <2>5
    <3>3. QED
      BY <1>1, <3>1, <3>2 DEF Taken
  <2>6. CASE sub.out >= 0
    <3> DEFINE part == sub.elts
    <3>1. sub.out = 0 /\ R >= D
      BY <2>4, <2>6
    <3>2. part \in Seq(DigitSet) /\ Len(part) = n - off
      BY <2>3, <2>4, ArrayIsSeq
    <3>3. ValueOf(part) = R - D
      BY <2>4, <3>1, <3>2 DEF ValueOf
    <3>4. t = Written(s, off, part, off + 1, 1)
      BY <1>3, <1>4, <2>2, <2>6 DEF TakeOff
    <3>5. 1 \in DigitSet /\ off + Len(part) =< Len(s.rem) /\ off + 1 =< Len(s.quo) /\ off + Len(part) = n
      BY <1>2, <1>4, <3>2, BaseType DEF DigitSet
    <3> HIDE DEF part, t, off, m, n, D, R
    <3>6. /\ t \in DivStates /\ t.rd = s.rd /\ t.qt = s.qt
          /\ Len(t.rem) = Len(s.rem) /\ Len(t.quo) = Len(s.quo)
          /\ \A i \in 1 .. off : t.rem[i] = s.rem[i]
          /\ Above(t.rem, off) = ValueOf(part) + Weight(Len(part)) * Above(s.rem, off + Len(part))
          /\ Above(t.quo, off) = 1 + Base * Above(s.quo, off + 1)
          /\ t.quo[off + 1] = 1
      <4> DEFINE one == 1
      <4>1. /\ one \in DigitSet /\ t = Written(s, off, part, off + 1, one)
            /\ s \in DivStates /\ off \in Nat /\ part \in Seq(DigitSet)
            /\ off + Len(part) =< Len(s.rem) /\ off + 1 =< Len(s.quo)
        BY <1>3, <1>4, <3>2, <3>4, <3>5
      <4> HIDE DEF one
      <4>2. /\ t \in DivStates /\ t.rd = s.rd /\ t.qt = s.qt
            /\ Len(t.rem) = Len(s.rem) /\ Len(t.quo) = Len(s.quo)
            /\ \A i \in 1 .. off : t.rem[i] = s.rem[i]
            /\ Above(t.rem, off) = ValueOf(part) + Weight(Len(part)) * Above(s.rem, off + Len(part))
            /\ Above(t.quo, off) = one + Base * Above(s.quo, off + 1)
            /\ t.quo[off + 1] = one
        BY <4>1, WrittenExact
      <4>3. QED
        BY <4>2 DEF one
    <3>7. Above(t.rem, off) = R - D
      <4>1. Above(s.rem, off + Len(part)) = 0
        BY <1>2, <3>5, AboveDef
      <4>2. Weight(Len(part)) \in Nat /\ ValueOf(part) \in Nat
        BY <3>2, SeqBelow
      <4>3. Weight(Len(part)) * 0 = 0
        BY <4>2
      <4>4. QED
        BY <3>3, <3>6, <4>1, <4>2, <4>3
    <3>8. Above(s.quo, off) = Base * Above(s.quo, off + 1) /\ Above(s.quo, off + 1) \in Nat
      <4>1. s.quo[qt] = 0
        BY <1>1, <3>1 DEF off
      <4>2. off \in 0 .. (Len(s.quo) - 1) /\ off + 1 \in 0 .. Len(s.quo)
        BY <1>2, <1>4
      <4>3. Above(s.quo, off) = s.quo[off + 1] + Base * Above(s.quo, off + 1) /\ Above(s.quo, off + 1) \in Nat
        BY <1>2, <4>2, AboveDef
      <4>4. Base * Above(s.quo, off + 1) \in Int
        BY <4>3, BaseTimes
      <4>5. QED
        BY <1>4, <4>1, <4>3, <4>4
    <3>9. Above(t.quo, off) = 1 + Above(s.quo, off)
      BY <3>6, <3>8
    <3>10. Above(t.rem, off) + D * Above(t.quo, off) = Above(r, off)
      <4> DEFINE q == Above(s.quo, off)
      <4>1. q \in Nat /\ D \in Nat /\ R \in Nat /\ R + D * q = Above(r, off)
        BY <1>2, <1>3 DEF off
      <4> HIDE DEF q
      <4>2. D * (1 + q) = D + D * q /\ D * q \in Nat
        BY <4>1
      <4>3. (R - D) + D * (1 + q) = R + D * q
        BY <4>1, <4>2
      <4>4. QED
        BY <3>7, <3>9, <4>1, <4>3 DEF q
    <3>11. Above(t.rem, off) < D
      BY <1>1, <1>2, <3>7
    <3>12. Above(t.rem, off + m) = 0
      <4>1. t.rem \in Seq(DigitSet) /\ off + m =< Len(t.rem) /\ off \in Nat /\ m \in Nat
        BY <1>2, <1>4, <3>6 DEF DivStates, off
      <4>2. Weight(m) \in Nat /\ (Above(t.rem, off) < Weight(m) <=> Above(t.rem, off + m) = 0)
        BY <4>1, AboveParts
      <4>3. Above(t.rem, off) < Weight(m)
        BY <1>2, <3>7, <3>11, <4>2
      <4>4. QED
        BY <4>2, <4>3
    <3>13. Divided(t, d, r, qt)
      <4>1. Len(t.rem) = Len(r) /\ Len(t.quo) = Len(r) - Len(d) + 1
        BY <1>2, <3>6 DEF n, m
      <4>2. t.qt = qt /\ t.rd = qt + Len(d) - 1
        BY <1>3, <3>6 DEF m
      <4>3. \A i \in 1 .. (qt - 1) : t.rem[i] = r[i]
        BY <1>3, <3>6 DEF off
      <4>4. Above(t.rem, (qt - 1) + Len(d)) = 0
        BY <3>12 DEF off, m
      <4>5. Above(t.rem, qt - 1) + ValueOf(d) * Above(t.quo, qt - 1) = Above(r, qt - 1)
        BY <3>10 DEF off, D
      <4>6. QED
        BY <3>6, <4>1, <4>2, <4>3, <4>4, <4>5 DEF Divided
    <3>14. QED
      BY <3>11, <3>13 DEF Taken, off, D, t
  <2>7. QED
    BY <2>4, <2>5, <2>6
<1>8. QED
  BY <1>6, <1>7

LEMMA TurnedDown ==
  ASSUME NEW t \in DivStates, NEW u, u = [t EXCEPT !.qt = @ - 1, !.rd = @ - 1]
  PROVE  u \in DivStates /\ u.rem = t.rem /\ u.quo = t.quo /\ u.qt = t.qt - 1 /\ u.rd = t.rd - 1
<1>1. PICK rem \in Seq(DigitSet), quo \in Seq(DigitSet), rd \in Int, qt \in Int :
        t = [rem |-> rem, quo |-> quo, rd |-> rd, qt |-> qt]
  BY DEF DivStates
<1> DEFINE a == rd - 1
           b == qt - 1
           v == [rem |-> rem, quo |-> quo, rd |-> a, qt |-> b]
<1>2. u = v
  BY <1>1
<1>3. a \in Int /\ b \in Int
  OBVIOUS
<1>4. t.rem = rem /\ t.quo = quo /\ t.qt = qt /\ t.rd = rd
  BY <1>1
<1>5. a = t.rd - 1 /\ b = t.qt - 1
  BY <1>4
<1> HIDE DEF a, b
<1>6. v \in DivStates
  BY <1>3 DEF DivStates
<1>7. v.rem = rem /\ v.quo = quo /\ v.qt = b /\ v.rd = a
  OBVIOUS
<1> HIDE DEF v
<1>8. QED
  BY <1>2, <1>4, <1>5, <1>6, <1>7

(* What a digit leaves: less than twice the denominator, and less than it  *)
(* unless the digit is nought.                                             *)
DigitFits(t, s, d, off, digit) ==
  /\ Above(t.rem, off) + digit * ValueOf(d) = s.rem[off + 1] + Base * Above(s.rem, off + 1)
  /\ Above(t.rem, off) < 2 * ValueOf(d)
  /\ Above(t.rem, off) >= ValueOf(d) => digit = 0
  /\ Above(t.rem, off) < Weight(Len(d))

(* The next digit is written and the window moves down.                    *)
LEMMA DigitWritten ==
  ASSUME NEW s, NEW d, NEW r, NEW qt, DivPlace(s, d, r, qt), Taken(s, d, r, qt), qt >= 2,
         NEW off, off = qt - 2, NEW part \in Seq(DigitSet), off + Len(part) =< Len(r), NEW digit \in DigitSet,
         NEW t, t = Written(s, off, part, qt - 1, digit), DigitFits(t, s, d, off, digit)
  PROVE  Open([t EXCEPT !.qt = @ - 1, !.rd = @ - 1], d, r, qt - 1)
<1> DEFINE m == Len(d)
           n == Len(r)
           D == ValueOf(d)
           u == [t EXCEPT !.qt = @ - 1, !.rd = @ - 1]
<1>1. Divided(s, d, r, qt) /\ Above(s.rem, qt - 1) < D
  BY DEF Taken
<1>2. /\ qt \in Nat /\ m \in Nat /\ m >= 1 /\ n \in Nat
      /\ (qt - 1) + m =< n /\ qt =< Len(s.quo)
      /\ s.rem \in Seq(DigitSet) /\ s.quo \in Seq(DigitSet)
      /\ Len(s.rem) = n /\ Len(s.quo) = n - m + 1
      /\ D \in Nat /\ D > 0
      /\ Above(s.rem, qt - 1) \in Nat /\ Above(s.quo, qt - 1) \in Nat
  BY <1>1, DivFacts
<1>3. /\ s \in DivStates /\ s.qt = qt /\ s.rd = qt + m - 1
      /\ \A i \in 1 .. (qt - 1) : s.rem[i] = r[i]
      /\ Above(s.rem, qt - 1) + D * Above(s.quo, qt - 1) = Above(r, qt - 1)
  BY <1>1 DEF Divided
<1>4. off \in Nat /\ off + 1 = qt - 1 /\ off + m =< n /\ off + 1 =< Len(s.quo) /\ off + 1 \in 1 .. (qt - 1)
  BY <1>2
<1>5. r \in Seq(DigitSet)
  BY DEF DivPlace
<1>6. /\ t \in DivStates /\ t.rd = s.rd /\ t.qt = s.qt
      /\ Len(t.rem) = n /\ Len(t.quo) = n - m + 1
      /\ \A i \in 1 .. off : t.rem[i] = s.rem[i]
      /\ Above(t.quo, off) = digit + Base * Above(s.quo, off + 1)
      /\ t.quo[off + 1] = digit
  <2>1. /\ off + Len(part) =< Len(s.rem) /\ t = Written(s, off, part, off + 1, digit)
        /\ s \in DivStates /\ off \in Nat /\ part \in Seq(DigitSet) /\ off + 1 =< Len(s.quo)
    BY <1>2, <1>3, <1>4
  <2>2. /\ t \in DivStates /\ t.rd = s.rd /\ t.qt = s.qt
        /\ Len(t.rem) = Len(s.rem) /\ Len(t.quo) = Len(s.quo)
        /\ \A i \in 1 .. off : t.rem[i] = s.rem[i]
        /\ Above(t.rem, off) = ValueOf(part) + Weight(Len(part)) * Above(s.rem, off + Len(part))
        /\ Above(t.quo, off) = digit + Base * Above(s.quo, off + 1)
        /\ t.quo[off + 1] = digit
    BY SMTT(30), <2>1, WrittenExact
  <2>3. QED
    BY <1>2, <2>2
<1> HIDE DEF m, n, D
<1>7. t.rem \in Seq(DigitSet) /\ t.quo \in Seq(DigitSet) /\ t.rd \in Int /\ t.qt \in Int
  BY <1>6 DEF DivStates
<1>8. Above(t.rem, off + m) = 0
  <2>1. off + m =< Len(t.rem) /\ off \in Nat /\ m \in Nat /\ t.rem \in Seq(DigitSet)
    BY <1>2, <1>4, <1>6, <1>7
  <2>2. Above(t.rem, off) < Weight(m) <=> Above(t.rem, off + m) = 0
    BY SMTT(30), <2>1, AboveParts
  <2>3. QED
    BY <2>2 DEF m, DigitFits
<1>9. Above(t.rem, off) + D * Above(t.quo, off) = Above(r, off)
  <2> DEFINE R == Above(s.rem, off + 1)
             Q == Above(s.quo, off + 1)
             y == s.rem[off + 1]
             z == Above(t.rem, off)
  <2>1. R \in Nat /\ Q \in Nat /\ R + D * Q = Above(r, off + 1)
    BY <1>2, <1>3, <1>4
  <2>2. off \in 0 .. (n - 1) /\ off \in 0 .. n /\ off + 1 \in 1 .. n
    <3>1. m \in Nat /\ m >= 1 /\ n \in Nat
      BY <1>2
    <3>2. off \in Nat /\ off + m =< n
      BY <1>4
    <3>3. QED
      BY <3>1, <3>2
  <2>3. Above(r, off) = r[off + 1] + Base * Above(r, off + 1) /\ r[off + 1] \in DigitSet
    BY <1>5, <2>2, AboveDef DEF n
  <2>4. y = r[off + 1] /\ y \in Nat
    <3>1. y = r[off + 1]
      BY <1>3, <1>4
    <3>2. QED
      BY <2>3, <3>1, DigitsAre
  <2>5. z \in Nat
    <3>1. Len(t.rem) = n
      BY <1>6
    <3>2. QED
      BY <1>7, <2>2, <3>1, AboveDef
  <2>6. z + digit * D = y + Base * R
    BY DEF D, DigitFits
  <2>7. Above(t.quo, off) = digit + Base * Q
    BY <1>6
  <2> HIDE DEF R, Q, y, z
  <2>8. Base * (D * Q + R) = D * (Base * Q) + Base * R /\ Base * Q \in Nat /\ Base * R \in Nat
    <3>1. Base * Q \in Nat /\ Base * R \in Nat
      BY <2>1, BaseTimes
    <3>2. QED
      BY <1>2, <2>1, <3>1, BaseLinear
  <2>9. digit \in Nat /\ D * (digit + Base * Q) = digit * D + D * (Base * Q) /\ D * (Base * Q) \in Nat /\ digit * D \in Nat
    <3> DEFINE p == Base * Q
    <3>1. digit \in Nat /\ p \in Nat
      BY <2>8, DigitsAre
    <3> HIDE DEF p
    <3>2. D * (digit + p) = digit * D + D * p /\ D * p \in Nat /\ digit * D \in Nat
      BY SMTT(30), <1>2, <3>1
    <3>3. QED
      BY <3>1, <3>2 DEF p
  <2>10. D * Q \in Nat
    <3>1. D \in Nat /\ Q \in Nat
      BY <1>2, <2>1
    <3>2. QED
      BY <3>1
  <2>11. R + D * Q = D * Q + R
    <3> DEFINE p == D * Q
    <3>1. p \in Nat /\ R \in Nat
      BY <2>1, <2>10
    <3> HIDE DEF p
    <3>2. R + p = p + R
      BY <3>1
    <3>3. QED
      BY <3>2 DEF p
  <2>12. z + D * (digit + Base * Q) = y + Base * (R + D * Q)
    <3> DEFINE a == D * (Base * Q)
               b == Base * R
               c == digit * D
    <3>1. a \in Nat /\ b \in Nat /\ c \in Nat /\ z + c = y + b
      BY <2>6, <2>8, <2>9
    <3> DEFINE e == D * (digit + Base * Q)
               f == Base * (R + D * Q)
    <3>2. e = c + a /\ f = a + b /\ y \in Nat /\ z \in Nat
      BY <2>4, <2>5, <2>8, <2>9, <2>11
    <3> HIDE DEF a, b, c, e, f
    <3>3. z + e = y + f
      BY <3>1, <3>2
    <3>4. QED
      BY <3>3 DEF e, f
  <2>13. QED
    BY <2>1, <2>3, <2>4, <2>7, <2>12 DEF z
<1>10. t \in DivStates
  BY <1>6
<1>11. u \in DivStates /\ u.rem = t.rem /\ u.quo = t.quo /\ u.qt = t.qt - 1 /\ u.rd = t.rd - 1
  BY <1>10, TurnedDown
<1>12. u.rem = t.rem /\ u.quo = t.quo /\ u.qt = t.qt - 1 /\ u.rd = t.rd - 1
  BY <1>11
<1> HIDE DEF u
<1>13. (qt - 1) - 1 = off
  BY <1>2
<1>14. Divided(u, d, r, qt - 1)
  <2>1. Len(u.rem) = Len(r) /\ Len(u.quo) = Len(r) - Len(d) + 1
    BY <1>6, <1>12 DEF n, m
  <2>2. u.qt = qt - 1 /\ u.rd = (qt - 1) + Len(d) - 1
    <3>1. qt \in Int /\ m \in Int /\ u.qt = qt - 1 /\ u.rd = (qt + m - 1) - 1
      BY <1>2, <1>3, <1>6, <1>12
    <3>2. (qt + m - 1) - 1 = (qt - 1) + m - 1
      BY <3>1
    <3>3. QED
      BY <3>1, <3>2 DEF m
  <2>3. \A i \in 1 .. ((qt - 1) - 1) : u.rem[i] = r[i]
    <3>1. \A i \in 1 .. off : i \in 1 .. (qt - 1)
      BY <1>2, <1>4
    <3>2. QED
      BY <1>3, <1>6, <1>12, <1>13, <3>1
  <2>4. Above(u.rem, ((qt - 1) - 1) + Len(d)) = 0
    BY <1>8, <1>12, <1>13 DEF m
  <2>5. Above(u.rem, (qt - 1) - 1) + ValueOf(d) * Above(u.quo, (qt - 1) - 1) = Above(r, (qt - 1) - 1)
    BY <1>9, <1>12, <1>13 DEF D
  <2>6. QED
    BY <1>11, <2>1, <2>2, <2>3, <2>4, <2>5 DEF Divided
<1>15. Above(u.rem, (qt - 1) - 1) < 2 * ValueOf(d)
  BY <1>12, <1>13 DEF DigitFits
<1>16. Above(u.rem, (qt - 1) - 1) >= ValueOf(d) => u.quo[qt - 1] = 0
  BY <1>4, <1>6, <1>12, <1>13 DEF DigitFits
<1>17. QED
  BY <1>14, <1>15, <1>16 DEF Open, u

(* The window of the next digit, and the two digits the estimate is from.  *)
WindowOf(s, d, r, off, low, W, n) ==
  /\ off \in Nat /\ off + 1 = s.qt - 1 /\ off = s.rd - Len(d) - 1 /\ off + Len(d) + 1 =< Len(r)
  /\ s.rem[s.rd] \in DigitSet /\ s.rem[s.rd - 1] \in DigitSet /\ n = s.rem[s.rd] * Base + s.rem[s.rd - 1]
  /\ W \in Nat /\ W = Above(s.rem, off) /\ W = s.rem[off + 1] + Base * Above(s.rem, off + 1)
  /\ W < Base * ValueOf(d)
  /\ low \in Nat /\ low < Weight(Len(d) - 1) /\ W = low + Weight(Len(d) - 1) * n

LEMMA WindowExact ==
  ASSUME NEW s, NEW d, NEW r, NEW qt, DivPlace(s, d, r, qt), Taken(s, d, r, qt), qt >= 2
  PROVE  \E low \in Nat : WindowOf(s, d, r, qt - 2, low, Above(s.rem, qt - 2),
                                   s.rem[s.rd] * Base + s.rem[s.rd - 1])
<1> DEFINE m == Len(d)
           n == Len(r)
           D == ValueOf(d)
           off == qt - 2
           k == m - 1
           p == s.rd - 2
           x == s.rem[s.rd]
           y == s.rem[s.rd - 1]
           W == Above(s.rem, off)
           R == Above(s.rem, off + 1)
           z == s.rem[off + 1]
<1>1. Divided(s, d, r, qt) /\ Above(s.rem, qt - 1) < D
  BY DEF Taken
<1>2. /\ qt \in Nat /\ m \in Nat /\ m >= 1 /\ n \in Nat
      /\ (qt - 1) + m =< n /\ s.rem \in Seq(DigitSet) /\ Len(s.rem) = n
      /\ D \in Nat /\ D > 0 /\ x \in DigitSet /\ Above(s.rem, s.rd - 1) = x
      /\ Above(s.rem, qt - 1) \in Nat
  BY <1>1, DivFacts
<1>3. s.qt = qt /\ s.rd = qt + m - 1
  BY <1>1 DEF Divided
<1>4. /\ off \in Nat /\ off + 1 = qt - 1 /\ off = s.rd - m - 1 /\ off + m + 1 =< n
      /\ k \in Nat /\ off + k = p /\ p \in 0 .. (n - 1) /\ p + 1 = s.rd - 1 /\ off \in 0 .. (n - 1)
  <2>1. qt \in Nat /\ m \in Nat /\ m >= 1 /\ n \in Nat /\ (qt - 1) + m =< n /\ s.rd = qt + m - 1
    BY <1>2, <1>3
  <2> HIDE DEF m, n
  <2>2. QED
    BY <2>1
<1> HIDE DEF off, k, p, m, n, D
<1>5. /\ Above(s.rem, p) = s.rem[p + 1] + Base * Above(s.rem, p + 1) /\ s.rem[p + 1] \in DigitSet
      /\ W = z + Base * R /\ z \in DigitSet /\ W \in Nat
  <2>1. off \in 0 .. (Len(s.rem) - 1) /\ off \in 0 .. Len(s.rem) /\ p \in 0 .. (Len(s.rem) - 1)
    BY <1>2, <1>4
  <2>2. QED
    BY <1>2, <2>1, AboveDef
<1>6. y \in DigitSet /\ Above(s.rem, p) = x * Base + y
  <2>1. Above(s.rem, p) = y + Base * x /\ y \in DigitSet
    BY <1>2, <1>4, <1>5
  <2>2. x \in Nat /\ y \in Nat
    BY <1>2, <2>1, DigitsAre
  <2> HIDE DEF x, y
  <2>3. x * Base = Base * x /\ Base * x \in Nat
    BY <2>2, BaseType
  <2>4. QED
    BY <2>1, <2>2, <2>3
<1>7. PICK low \in Nat : low < Weight(k) /\ W = low + Weight(k) * (x * Base + y)
  <2>1. off + k =< Len(s.rem) /\ s.rem \in Seq(DigitSet) /\ off \in Nat /\ k \in Nat
    BY <1>2, <1>4
  <2>2. \E low \in Nat : low < Weight(k) /\ Above(s.rem, off) = low + Weight(k) * Above(s.rem, off + k)
    BY <2>1, AboveParts
  <2>3. QED
    BY <1>4, <1>6, <2>2
<1>8. W < Base * D
  <2>1. R \in Nat /\ R < D /\ z \in Nat /\ z < Base /\ Base \in Nat
    <3>1. R \in Nat /\ R < D
      BY <1>1, <1>2, <1>4 DEF D
    <3>2. z \in Nat /\ z < Base /\ Base \in Nat
      BY <1>5, BaseType DEF DigitSet
    <3>3. QED
      BY <3>1, <3>2
  <2> HIDE DEF W, R, z
  <2>2. z + Base * R < Base * D
    BY <1>2, <2>1, Under
  <2>3. QED
    BY <1>5, <2>2
<1> DEFINE nn == x * Base + y
<1>9. WindowOf(s, d, r, off, low, W, nn)
  <2>1. off + 1 = s.qt - 1 /\ off = s.rd - Len(d) - 1 /\ off + Len(d) + 1 =< Len(r)
    BY <1>3, <1>4 DEF m, n
  <2>2. low \in Nat /\ low < Weight(Len(d) - 1) /\ W = low + Weight(Len(d) - 1) * nn
    BY <1>7 DEF k, m
  <2> HIDE DEF nn
  <2>3. QED
    BY <1>2, <1>4, <1>5, <1>6, <1>8, <2>1, <2>2 DEF WindowOf, D, nn
<1>10. QED
  BY <1>9 DEF off, nn

Step(s, d) == [Estimate(s, d) EXCEPT !.qt = @ - 1, !.rd = @ - 1]

(* The two digits are too small for the denominator, or all but.           *)
LEMMA EstimateNought ==
  ASSUME NEW s, NEW d, NEW r, NEW qt, DivPlace(s, d, r, qt), Taken(s, d, r, qt), qt >= 2,
         ~(s.rem[s.rd] * Base + s.rem[s.rd - 1] > d[Len(d)])
  PROVE  Open(Step(s, d), d, r, qt - 1)
<1> DEFINE off == qt - 2
           W == Above(s.rem, off)
           n == s.rem[s.rd] * Base + s.rem[s.rd - 1]
           top == d[Len(d)]
           D == ValueOf(d)
           w == Weight(Len(d) - 1)
           part == <<>>
           t == Written(s, off, part, qt - 1, 0)
<1>1. PICK low \in Nat : WindowOf(s, d, r, off, low, W, n)
  BY WindowExact
<1>2. Divided(s, d, r, qt)
  BY DEF Taken
<1>3. /\ qt \in Nat /\ d \in Seq(DigitSet) /\ d # <<>> /\ Len(d) \in Nat /\ D \in Nat /\ D > 0
      /\ top \in DigitSet /\ top # 0 /\ s.rem \in Seq(DigitSet) /\ qt =< Len(s.quo) /\ Len(s.rem) = Len(r)
  BY <1>2, DivFacts
<1>4. s \in DivStates /\ s.qt = qt
  BY <1>2 DEF Divided
<1>5. /\ off \in Nat /\ off + 1 = qt - 1 /\ off = s.rd - Len(d) - 1 /\ off + Len(d) + 1 =< Len(r)
      /\ s.rem[s.rd] \in DigitSet /\ s.rem[s.rd - 1] \in DigitSet
      /\ W \in Nat /\ W = s.rem[off + 1] + Base * Above(s.rem, off + 1)
      /\ low < w /\ W = low + w * n
  BY <1>1, <1>4 DEF WindowOf
<1>6. Estimate(s, d) = t
  <2>1. s.qt - 1 = qt - 1 /\ s.rd - Len(d) - 1 = off
    BY <1>4, <1>5
  <2>2. Estimate(s, d) = Written(s, s.rd - Len(d) - 1, <<>>, s.qt - 1, 0)
    BY DEF Estimate
  <2>3. QED
    BY <2>1, <2>2
<1>7. part \in Seq(DigitSet) /\ Len(part) = 0 /\ 0 \in DigitSet /\ ValueOf(part) = 0
  <2>1. part \in Seq(DigitSet) /\ Len(part) = 0
    OBVIOUS
  <2>2. ValueOf(part) = Above(part, 0) /\ Above(part, Len(part)) = 0
    BY <2>1, AboveDef
  <2>3. QED
    BY <2>1, <2>2, DigitsAre
<1> HIDE DEF part, t, off, W, n, top, D, w
<1>8. Above(t.rem, off) = W
  <2> DEFINE z == 0
  <2>1. z \in DigitSet /\ t = Written(s, off, part, off + 1, z)
    BY <1>5, <1>7 DEF t
  <2> HIDE DEF z
  <2>2. off + Len(part) =< Len(s.rem) /\ off + 1 =< Len(s.quo)
    <3> DEFINE a == Len(s.rem)
               b == Len(s.quo)
               c == Len(part)
               e == Len(d)
               l == Len(r)
    <3>1. off \in Nat /\ c = 0 /\ e \in Nat /\ off + e + 1 =< l /\ a = l /\ off + 1 = qt - 1 /\ qt \in Nat /\ qt =< b
      BY <1>3, <1>5, <1>7
    <3>2. l \in Nat /\ b \in Nat
      BY <1>2, DivFacts, SeqIsArray
    <3> HIDE DEF a, b, c, e, l
    <3>3. off + c =< a /\ off + 1 =< b
      BY <3>1, <3>2
    <3>4. QED
      BY <3>3 DEF a, b, c
  <2>3. s \in DivStates /\ off \in Nat /\ part \in Seq(DigitSet)
    BY <1>4, <1>5, <1>7
  <2>4. Above(t.rem, off) = ValueOf(part) + Weight(Len(part)) * Above(s.rem, off + Len(part))
    BY <2>1, <2>2, <2>3, WrittenExact
  <2>5. Weight(0) = 1
    <3> DEFINE o == 0
    <3>1. o \in Nat
      OBVIOUS
    <3> HIDE DEF o
    <3>2. QED
      BY <3>1, WeightNext
  <2>6. off + 0 = off
    BY <1>5
  <2>7. Above(t.rem, off) = 0 + 1 * W
    BY <1>7, <2>4, <2>5, <2>6 DEF W
  <2>8. QED
    BY <1>5, <2>7
<1>9. W < 2 * D /\ W < Weight(Len(d))
  <2>1. PICK lo \in Nat : lo < w /\ D = lo + w * top
    BY <1>3, TopDigit DEF w, top, D
  <2>2. Weight(Len(d)) = Base * w /\ w \in Nat
    BY <1>3, TopDigit DEF w
  <2>3. n \in Nat /\ n =< top /\ top \in Nat /\ top < Base /\ top >= 1 /\ Base \in Nat
    <3>1. s.rem[s.rd] \in Nat /\ s.rem[s.rd - 1] \in Nat /\ top \in Nat /\ top < Base /\ Base \in Nat
      BY <1>3, <1>5, BaseType DEF DigitSet
    <3>2. n \in Nat
      <4> DEFINE a == s.rem[s.rd]
                 b == s.rem[s.rd - 1]
      <4>1. a \in Nat /\ b \in Nat /\ Base \in Nat /\ n = a * Base + b
        BY <3>1 DEF n
      <4> HIDE DEF a, b
      <4>2. QED
        BY <4>1
    <3>3. ~(n > top)
      BY DEF n, top
    <3>4. QED
      BY <1>3, <3>1, <3>2, <3>3
  <2>4. low + w * n < w * (2 * top)
    <3> DEFINE b == 2 * top
    <3>1. b \in Nat /\ n < b
      BY <2>3
    <3> HIDE DEF b
    <3>2. QED
      BY <1>5, <2>2, <2>3, <3>1, Under DEF b
  <2>5. low + w * n < w * Base
    <3>1. n < Base /\ n \in Nat /\ Base \in Nat /\ w \in Nat /\ low < w
      BY <1>5, <2>2, <2>3
    <3>2. QED
      BY <3>1, Under
  <2>6. w * (2 * top) = 2 * (w * top) /\ w * top \in Nat /\ w * Base = Base * w
    BY <2>2, <2>3
  <2>7. QED
    BY <1>5, <2>1, <2>2, <2>4, <2>5, <2>6
<1>10. DigitFits(t, s, d, off, 0)
  <2>1. Above(t.rem, off) + 0 * ValueOf(d) = s.rem[off + 1] + Base * Above(s.rem, off + 1)
    <3>1. 0 * D = 0
      BY <1>3
    <3>2. QED
      BY <1>5, <1>8, <3>1 DEF D
  <2>2. Above(t.rem, off) < 2 * ValueOf(d) /\ Above(t.rem, off) < Weight(Len(d))
    BY <1>8, <1>9 DEF D
  <2>3. QED
    BY <2>1, <2>2 DEF DigitFits
<1>11. off = qt - 2 /\ off + Len(part) =< Len(r) /\ t = Written(s, off, part, qt - 1, 0)
  BY <1>3, <1>5, <1>7 DEF off, t
<1>12. Open([t EXCEPT !.qt = @ - 1, !.rd = @ - 1], d, r, qt - 1)
  BY <1>7, <1>10, <1>11, DigitWritten
<1>13. QED
  BY <1>6, <1>12 DEF Step

(* A nought below the digits is a factor of Base.                          *)
LEMMA NoughtBelow ==
  ASSUME NEW d, Normal(d), d # <<>>
  PROVE  Normal(<<0>> \o d) /\ ValueOf(<<0>> \o d) = Base * ValueOf(d)
<1> DEFINE e == <<0>> \o d
           m == Len(d)
           one == 1
<1>1. d \in Seq(DigitSet) /\ d[m] # 0
  BY DEF Normal
<1>2. m \in Nat /\ m >= 1 /\ Terms(d, m, DigitSet) /\ 0 \in DigitSet
  BY <1>1, SeqIsArray, DigitsAre
<1>3. e \in Seq(DigitSet) /\ Len(e) = m + 1 /\ e[1] = 0 /\ \A j \in 1 .. m : e[1 + j] = d[j]
  BY <1>1, <1>2
<1>4. Normal(e)
  BY <1>1, <1>2, <1>3 DEF Normal
<1>5. one \in Nat /\ one + m =< Len(e) /\ FromPlace(d, e, one, m) /\ one + m = Len(e)
  BY <1>2, <1>3 DEF FromPlace
<1> HIDE DEF e, one, m
<1>6. Above(e, one) = ValueOf(d) + Weight(m) * Above(e, one + m) /\ Weight(m) \in Nat /\ ValueOf(d) \in Nat
  BY <1>1, <1>3, <1>5, AboveWindow DEF m
<1>7. Above(e, Len(e)) = 0 /\ Above(e, 0) = e[1] + Base * Above(e, one) /\ ValueOf(e) = Above(e, 0)
  <2> DEFINE z == 0
  <2>1. z \in 0 .. (Len(e) - 1) /\ z + 1 = one /\ z + 1 = 1
    BY <1>2, <1>3 DEF one
  <2> HIDE DEF z
  <2>2. Above(e, Len(e)) = 0 /\ Above(e, z) = e[z + 1] + Base * Above(e, z + 1) /\ ValueOf(e) = Above(e, 0)
    BY <1>3, <2>1, AboveDef
  <2>3. QED
    BY <2>1, <2>2 DEF z
<1>8. Above(e, one) = ValueOf(d)
  <2>1. Weight(m) * 0 = 0
    BY <1>6
  <2>2. QED
    BY <1>5, <1>6, <1>7, <2>1
<1>9. ValueOf(e) = Base * ValueOf(d)
  <2>1. Base * ValueOf(d) \in Int
    BY <1>6, BaseTimes
  <2>2. QED
    BY <1>3, <1>7, <1>8, <2>1
<1>10. QED
  BY <1>4, <1>9 DEF e

(* The estimate is not below the digit.                                    *)
Guessed(work, qt, d, W) ==
  \E a \in 0 .. Base : /\ Normal(work) /\ ValueOf(work) = a * ValueOf(d) /\ qt = a % Base
                       /\ W < (a + 1) * ValueOf(d)

LEMMA Guess ==
  ASSUME NEW d, Normal(d), d # <<>>, NEW x \in DigitSet, NEW y \in DigitSet, NEW n, n = x * Base + y,
         n > d[Len(d)], NEW low \in Nat, low < Weight(Len(d) - 1), NEW W \in Nat,
         W = low + Weight(Len(d) - 1) * n, W < Base * ValueOf(d),
         NEW qt, qt = IF x < d[Len(d)] THEN n \div d[Len(d)] ELSE 0
  PROVE  Guessed(IF qt = 0 THEN <<0>> \o d ELSE MulAddDigit(d, qt, 0), qt, d, W)
<1> DEFINE top == d[Len(d)]
           D == ValueOf(d)
           w == Weight(Len(d) - 1)
<1>1. d \in Seq(DigitSet) /\ top # 0 /\ Base \in Nat /\ Base > 1
  BY BaseType DEF Normal
<1>2. PICK lo \in Nat : lo < w /\ D = lo + w * top
  BY <1>1, TopDigit
<1>3. w \in Nat /\ top \in DigitSet /\ top \in Nat /\ top > 0 /\ D \in Nat /\ x \in Nat /\ y \in Nat /\ top < Base
  <2>1. w \in Nat /\ top \in DigitSet
    BY <1>1, TopDigit
  <2>2. D \in Nat
    BY <1>1, ValueType
  <2>3. \A z \in DigitSet : z \in Nat /\ z < Base
    BY <1>1 DEF DigitSet
  <2> HIDE DEF w, top, D
  <2>4. top \in Nat /\ x \in Nat /\ y \in Nat /\ top < Base
    BY <2>1, <2>3
  <2>5. top # 0
    BY <1>1
  <2>6. QED
    BY <2>1, <2>2, <2>4, <2>5
<1> HIDE DEF w, top, D
<1>4. CASE x < top
  <2> DEFINE q == n \div top
             r == n % top
  <2>1. n \in Nat /\ q \in DigitSet /\ r \in 0 .. (top - 1) /\ n = top * q + r
    <3>1. x \in 0 .. (top - 1)
      BY <1>3, <1>4
    <3>2. QED
      BY <1>3, <3>1, QuotientDigit
  <2>2. qt = q
    BY <1>4 DEF top
  <2> HIDE DEF q, r
  <2>3. q \in Nat /\ q < Base /\ q \in 0 .. Base
    BY <1>1, <2>1 DEF DigitSet
  <2>4. q # 0
    <3>1. n > top
      BY DEF top
    <3>2. top * 0 = 0
      BY <1>3
    <3>3. QED
      BY <1>3, <2>1, <3>1, <3>2
  <2> DEFINE work == MulAddDigit(d, q, 0)
  <2>5. Normal(work) /\ ValueOf(work) = q * D
    <3>1. 0 \in DigitSet
      BY DigitsAre
    <3>2. Normal(work) /\ ValueOf(work) = q * ValueOf(d) + 0
      BY <1>1, <2>1, <3>1, MulAddDigitExact
    <3>3. q * D + 0 = q * D
      BY <1>3, <2>3
    <3>4. QED
      BY <3>2, <3>3 DEF D
  <2> HIDE DEF work
  <2>6. qt = q % Base
    <3>1. \A u \in Nat : \A v \in 0 .. (u - 1) : v % u = v
      OBVIOUS
    <3>2. q \in 0 .. (Base - 1)
      BY <1>1, <2>3
    <3>3. QED
      BY <1>1, <2>2, <3>1, <3>2
  <2>7. W < (q + 1) * D
    <3> DEFINE k == top * (q + 1)
    <3>1. k \in Nat /\ k = top * q + top
      BY <1>3, <2>3
    <3>2. n < k
      <4>1. top * q \in Nat
        BY <1>3, <2>3
      <4>2. QED
        BY <1>3, <2>1, <3>1, <4>1
    <3> HIDE DEF k
    <3>3. W < w * k
      <4>1. low < w
        BY DEF w
      <4>2. low + w * n < w * k
        BY <1>3, <2>1, <3>1, <3>2, <4>1, Under
      <4>3. QED
        BY <4>2 DEF w
    <3>4. w * k = (q + 1) * (w * top) /\ w * top \in Nat /\ w * k \in Nat
      BY <1>3, <2>3, <3>1 DEF k
    <3>5. (q + 1) * D = (q + 1) * lo + (q + 1) * (w * top) /\ (q + 1) * lo \in Nat
      <4> DEFINE p == w * top
      <4>1. p \in Nat /\ q + 1 \in Nat /\ D = lo + p
        BY <1>2, <2>3, <3>4
      <4> HIDE DEF p
      <4>2. (q + 1) * D = (q + 1) * lo + (q + 1) * p /\ (q + 1) * lo \in Nat
        BY <4>1
      <4>3. QED
        BY <4>2 DEF p
    <3>6. QED
      <4> DEFINE a == w * k
                 b == (q + 1) * lo
                 c == (q + 1) * D
      <4>1. a \in Nat /\ b \in Nat /\ c = b + a /\ W < a
        BY <3>3, <3>4, <3>5
      <4> HIDE DEF a, b, c
      <4>2. W < c
        BY <4>1
      <4>3. QED
        BY <4>2 DEF c
  <2>8. Guessed(work, qt, d, W)
    BY <2>3, <2>5, <2>6, <2>7 DEF Guessed, D
  <2>9. QED
    BY <2>2, <2>4, <2>8 DEF work
<1>5. CASE ~(x < top)
  <2> DEFINE work == <<0>> \o d
  <2>1. qt = 0
    BY <1>5 DEF top
  <2>2. Normal(work) /\ ValueOf(work) = Base * D
    BY NoughtBelow DEF D
  <2> HIDE DEF work
  <2>3. Base \in 0 .. Base /\ Base % Base = 0
    <3>1. \A u \in Nat : u > 0 => u % u = 0
      OBVIOUS
    <3>2. QED
      BY <1>1, <3>1
  <2>4. W < (Base + 1) * D
    <3>1. (Base + 1) * D = Base * D + D /\ Base * D \in Nat
      BY <1>1, <1>3
    <3>2. W < Base * D
      BY DEF D
    <3>3. QED
      BY <1>3, <3>1, <3>2
  <2>5. Guessed(work, qt, d, W)
    BY <2>1, <2>2, <2>3, <2>4 DEF Guessed, D
  <2>6. QED
    BY <2>1, <2>5 DEF work
<1>6. QED
  BY <1>4, <1>5

(* A difference that does not turn negative.                               *)
LEMMA LessExact ==
  ASSUME NEW l \in Seq(DigitSet), NEW r \in Seq(DigitSet), Len(r) =< Len(l), ValueOf(r) =< ValueOf(l),
         NEW part, part = SubDigits(Len(l), l, r).elts
  PROVE  part \in Seq(DigitSet) /\ Len(part) = Len(l) /\ ValueOf(part) = ValueOf(l) - ValueOf(r)
<1> DEFINE n == Len(l)
           c == SubDigits(n, l, r)
<1>1. n \in Nat /\ Len(l) =< n /\ Len(r) =< n
  BY SeqIsArray
<1>2. ValueOf(l) \in Nat /\ ValueOf(r) \in Nat
  BY ValueType
<1>3. /\ c.elts \in [1 .. n -> DigitSet] /\ c.out \in {-1, 0}
      /\ Total(c.elts, n, c.out) = ValueOf(l) - ValueOf(r)
      /\ c.out >= 0 <=> ValueOf(l) >= ValueOf(r)
  BY <1>1, SubDigitsExact
<1> HIDE DEF c
<1>4. c.out = 0
  BY <1>2, <1>3
<1>5. part \in Seq(DigitSet) /\ Len(part) = n
  BY <1>1, <1>3, ArrayIsSeq DEF c
<1>6. ValueOf(part) = Total(c.elts, n, 0)
  BY <1>5 DEF ValueOf, c
<1>7. QED
  BY <1>3, <1>4, <1>5, <1>6

(* A part with nothing above it is all there is.                           *)
LEMMA PartWritten ==
  ASSUME NEW s \in DivStates, NEW off \in Nat, NEW part \in Seq(DigitSet), off + Len(part) =< Len(s.rem),
         Above(s.rem, off + Len(part)) = 0,
         off + 1 =< Len(s.quo), NEW digit \in DigitSet, NEW t, t = Written(s, off, part, off + 1, digit)
  PROVE  Above(t.rem, off) = ValueOf(part)
<1>1. Above(t.rem, off) = ValueOf(part) + Weight(Len(part)) * Above(s.rem, off + Len(part))
  BY WrittenExact
<1>2. Weight(Len(part)) \in Nat /\ ValueOf(part) \in Nat
  BY SeqBelow
<1>3. Weight(Len(part)) * 0 = 0
  BY <1>2
<1>4. QED
  BY <1>1, <1>2, <1>3

WritesPart(s, off, part, digit, t) ==
  /\ s \in DivStates /\ off \in Nat /\ part \in Seq(DigitSet) /\ off + Len(part) =< Len(s.rem)
  /\ Above(s.rem, off + Len(part)) = 0 /\ off + 1 =< Len(s.quo) /\ digit \in DigitSet
  /\ t = Written(s, off, part, off + 1, digit)

LEMMA PartIsWritten ==
  ASSUME NEW s, NEW off, NEW part, NEW digit, NEW t, WritesPart(s, off, part, digit, t)
  PROVE  Above(t.rem, off) = ValueOf(part)
BY PartWritten DEF WritesPart

WindowFits(s, d, off) ==
  /\ Above(s.rem, off) < Base * ValueOf(d)
  /\ Above(s.rem, off) = s.rem[off + 1] + Base * Above(s.rem, off + 1)

(* What the lowered estimate is, and the digit fits.                       *)
LEMMA LoweredFits ==
  ASSUME NEW s, NEW d, NEW r, NEW off \in Nat, Normal(d), d # <<>>,
         s \in DivStates, off =< Len(s.rem), off + 1 =< Len(s.quo),
         NEW sub, sub = Norm(From(s.rem, off)), NEW work, NEW qt, Guessed(work, qt, d, Above(s.rem, off)),
         WindowFits(s, d, off),
         NEW low, low = Lower(sub, work, qt, d),
         NEW part, part = SubDigits(Len(sub), sub, low.work).elts,
         NEW t, t = Written(s, off, part, off + 1, low.qt)
  PROVE  /\ part \in Seq(DigitSet) /\ off + Len(part) =< Len(s.rem) /\ low.qt \in DigitSet
         /\ DigitFits(t, s, d, off, low.qt)
<1> DEFINE D == ValueOf(d)
           W == Above(s.rem, off)
           q == low.qt
<1>1. s.rem \in Seq(DigitSet) /\ d \in Seq(DigitSet) /\ Len(s.rem) \in Nat /\ off \in 0 .. Len(s.rem)
  <2>1. s.rem \in Seq(DigitSet) /\ d \in Seq(DigitSet)
    BY DEF DivStates, Normal
  <2>2. Len(s.rem) \in Nat
    BY <2>1, SeqIsArray
  <2>3. QED
    BY <2>1, <2>2
<1>2. Normal(sub) /\ ValueOf(sub) = W /\ W \in Nat /\ D \in Nat /\ off + Len(sub) =< Len(s.rem) /\ Len(sub) \in Nat
  <2> DEFINE e == From(s.rem, off)
  <2>1. e \in Seq(DigitSet) /\ Len(e) = Len(s.rem) - off /\ ValueOf(e) = W
    BY <1>1, FromExact
  <2> HIDE DEF e
  <2>2. Normal(Norm(e)) /\ ValueOf(Norm(e)) = ValueOf(e) /\ Len(Norm(e)) =< Len(e)
    BY <2>1, NormExact
  <2>3. Normal(sub) /\ ValueOf(sub) = W /\ Len(sub) =< Len(s.rem) - off
    BY <2>1, <2>2 DEF e
  <2>4. Len(sub) \in Nat /\ W \in Nat /\ D \in Nat
    BY <1>1, <2>3, ValueType, SeqIsArray DEF Normal
  <2>5. off + Len(sub) =< Len(s.rem)
    <3> DEFINE a == Len(sub)
               b == Len(s.rem)
    <3>1. a \in Nat /\ b \in Nat /\ a =< b - off
      BY <1>1, <2>3, <2>4
    <3> HIDE DEF a, b
    <3>2. off + a =< b
      BY <3>1
    <3>3. QED
      BY <3>2 DEF a, b
  <2>6. QED
    BY <2>3, <2>4, <2>5
<1>3. PICK a \in 0 .. Base : /\ Normal(work) /\ ValueOf(work) = a * D /\ qt = a % Base
                             /\ W < (a + 1) * D
  BY DEF Guessed
<1>4. W < Base * D
  BY DEF WindowFits
<1>5. /\ Normal(low.work) /\ q \in DigitSet
      /\ ValueOf(low.work) = q * D
      /\ ValueOf(low.work) =< W /\ W < ValueOf(low.work) + D
  <2>1. /\ Normal(sub) /\ Normal(work) /\ a \in 0 .. Base /\ ValueOf(work) = a * ValueOf(d)
        /\ ValueOf(sub) < (a + 1) * ValueOf(d) /\ ValueOf(sub) < Base * ValueOf(d)
    BY <1>2, <1>3, <1>4
  <2>2. /\ Normal(low.work) /\ low.qt \in DigitSet
        /\ ValueOf(low.work) = low.qt * ValueOf(d)
        /\ ValueOf(low.work) =< ValueOf(sub) /\ ValueOf(sub) < ValueOf(low.work) + ValueOf(d)
    BY <1>3, <2>1, LowerExact
  <2>3. QED
    BY <1>2, <2>2
<1>6. part \in Seq(DigitSet) /\ Len(part) = Len(sub) /\ ValueOf(part) = W - q * D
  <2>1. Len(low.work) =< Len(sub) /\ ValueOf(low.work) =< ValueOf(sub)
    <3>1. ValueOf(low.work) =< ValueOf(sub)
      BY <1>2, <1>5
    <3>2. QED
      BY <1>2, <1>5, <3>1, NoLonger
  <2>2. sub \in Seq(DigitSet) /\ low.work \in Seq(DigitSet)
    BY <1>2, <1>5 DEF Normal
  <2>3. part \in Seq(DigitSet) /\ Len(part) = Len(sub) /\ ValueOf(part) = ValueOf(sub) - ValueOf(low.work)
    BY <2>1, <2>2, LessExact
  <2>4. QED
    BY <1>2, <1>5, <2>3
<1>7. Above(s.rem, off + Len(sub)) = 0
  <2>1. sub \in Seq(DigitSet)
    BY <1>2 DEF Normal
  <2>2. W < Weight(Len(sub))
    BY <1>2, <2>1, SeqBelow
  <2>3. W < Weight(Len(sub)) <=> Above(s.rem, off + Len(sub)) = 0
    <3>1. s.rem \in Seq(DigitSet) /\ off \in Nat /\ Len(sub) \in Nat /\ off + Len(sub) =< Len(s.rem)
      BY <1>1, <1>2
    <3>2. QED
      BY <3>1, AboveParts
  <2>4. QED
    BY <2>2, <2>3
<1>8. Above(t.rem, off) = ValueOf(part)
  <2> HIDE DEF W, D, q
  <2>1. /\ s \in DivStates /\ off \in Nat /\ part \in Seq(DigitSet) /\ off + Len(part) =< Len(s.rem)
        /\ Above(s.rem, off + Len(part)) = 0 /\ off + 1 =< Len(s.quo) /\ q \in DigitSet
        /\ t = Written(s, off, part, off + 1, q)
    BY <1>2, <1>5, <1>6, <1>7 DEF q
  <2>2. WritesPart(s, off, part, q, t)
    BY <2>1 DEF WritesPart
  <2>3. QED
    BY <2>2, PartIsWritten
<1>9. Above(t.rem, off) + q * D = W /\ Above(t.rem, off) < D
  <2> DEFINE p == q * D
  <2>1. q \in Nat
    BY <1>5, DigitsAre
  <2>2. p \in Nat
    <3> HIDE DEF q, D
    <3>1. QED
      BY <1>2, <2>1
  <2>3. ValueOf(part) = W - p /\ W < p + D /\ W \in Nat /\ D \in Nat
    BY <1>2, <1>5, <1>6
  <2> HIDE DEF p, W, D
  <2>4. ValueOf(part) + p = W /\ ValueOf(part) < D
    BY <2>2, <2>3
  <2>5. QED
    BY <1>8, <2>4 DEF p
<1>10. D < Weight(Len(d)) /\ Weight(Len(d)) \in Nat
  BY <1>1, SeqBelow
<1>11. Above(t.rem, off) \in Nat
  BY <1>6, <1>8, ValueType
<1>12. DigitFits(t, s, d, off, q)
  <2> DEFINE v == Above(t.rem, off)
             w == Weight(Len(d))
  <2>1. v \in Nat /\ D \in Nat /\ w \in Nat /\ v < D /\ D < w
    BY <1>2, <1>9, <1>10, <1>11
  <2> HIDE DEF v, w, D
  <2>2. v < 2 * D /\ v < w /\ ~(v >= D)
    BY <2>1
  <2>3. QED
    BY <1>9, <2>2 DEF DigitFits, WindowFits, v, w, D, W
<1>13. off + Len(part) =< Len(s.rem)
  BY <1>2, <1>6
<1>14. QED
  BY <1>5, <1>6, <1>12, <1>13

Lowers(s, d, off, sub, work, qt, low, part, t) ==
  /\ off \in Nat /\ Normal(d) /\ d # <<>> /\ s \in DivStates /\ off =< Len(s.rem) /\ off + 1 =< Len(s.quo)
  /\ Guessed(work, qt, d, Above(s.rem, off)) /\ WindowFits(s, d, off)
  /\ sub = Norm(From(s.rem, off)) /\ low = Lower(sub, work, qt, d)
  /\ part = SubDigits(Len(sub), sub, low.work).elts /\ t = Written(s, off, part, off + 1, low.qt)

LEMMA LoweringFits ==
  ASSUME NEW s, NEW d, NEW off, NEW sub, NEW work, NEW qt, NEW low, NEW part, NEW t,
         Lowers(s, d, off, sub, work, qt, low, part, t)
  PROVE  /\ part \in Seq(DigitSet) /\ off + Len(part) =< Len(s.rem) /\ low.qt \in DigitSet
         /\ DigitFits(t, s, d, off, low.qt)
BY LoweredFits DEF Lowers

LEMMA EstimateMore ==
  ASSUME NEW s, NEW d, NEW r, NEW qt, DivPlace(s, d, r, qt), Taken(s, d, r, qt), qt >= 2,
         s.rem[s.rd] * Base + s.rem[s.rd - 1] > d[Len(d)]
  PROVE  Open(Step(s, d), d, r, qt - 1)
<1> DEFINE off == qt - 2
           W == Above(s.rem, off)
           x == s.rem[s.rd]
           y == s.rem[s.rd - 1]
           n == x * Base + y
           top == d[Len(d)]
           D == ValueOf(d)
           sub == Norm(From(s.rem, off))
           g == IF x < top THEN n \div top ELSE 0
           work == IF g = 0 THEN <<0>> \o d ELSE MulAddDigit(d, g, 0)
           lows == Lower(sub, work, g, d)
           part == SubDigits(Len(sub), sub, lows.work).elts
           t == Written(s, off, part, off + 1, lows.qt)
<1>1. PICK low \in Nat : WindowOf(s, d, r, off, low, W, n)
  BY WindowExact
<1>2. Divided(s, d, r, qt) /\ n > top
  BY DEF Taken
<1>3. /\ qt \in Nat /\ d \in Seq(DigitSet) /\ d # <<>> /\ Len(d) \in Nat /\ Len(r) \in Nat
      /\ s.rem \in Seq(DigitSet) /\ qt =< Len(s.quo) /\ Len(s.rem) = Len(r) /\ Len(s.quo) \in Nat
  BY <1>2, DivFacts, SeqIsArray
<1>4. s \in DivStates /\ s.qt = qt
  BY <1>2 DEF Divided
<1>5. Normal(d)
  BY DEF DivPlace
<1>6. /\ off \in Nat /\ off + 1 = qt - 1 /\ off = s.rd - Len(d) - 1 /\ off + Len(d) + 1 =< Len(r)
      /\ x \in DigitSet /\ y \in DigitSet
      /\ W \in Nat /\ W = s.rem[off + 1] + Base * Above(s.rem, off + 1) /\ W < Base * D
      /\ low < Weight(Len(d) - 1) /\ W = low + Weight(Len(d) - 1) * n
  BY <1>1, <1>4 DEF WindowOf
<1>7. Estimate(s, d) = t
  <2>1. s.qt - 1 = off + 1 /\ s.rd - Len(d) - 1 = off
    BY <1>4, <1>6
  <2>2. Estimate(s, d) = LowerFrom(s, d, off, sub, g)
    <3> HIDE DEF off
    <3>1. QED
      BY <1>2, <2>1 DEF Estimate
  <2>3. LowerFrom(s, d, off, sub, g) = LowerTo(s, off, sub, lows)
    <3> HIDE DEF off, sub, g
    <3>1. QED
      BY DEF LowerFrom
  <2>4. LowerTo(s, off, sub, lows) = t
    <3> HIDE DEF off, sub, lows
    <3>1. QED
      BY <2>1 DEF LowerTo
  <2>5. QED
    BY <2>2, <2>3, <2>4
<1> HIDE DEF off
<1>8. Guessed(work, g, d, W)
  <2> DEFINE a == x
             b == y
             c == n
  <2>1. a \in DigitSet /\ b \in DigitSet /\ c = a * Base + b /\ c > d[Len(d)] /\ W = low + Weight(Len(d) - 1) * c
    BY <1>2, <1>6
  <2>2. g = IF a < d[Len(d)] THEN c \div d[Len(d)] ELSE 0
    OBVIOUS
  <2>3. W \in Nat /\ W < Base * ValueOf(d) /\ low < Weight(Len(d) - 1)
    BY <1>6
  <2> HIDE DEF a, b, c, W, g
  <2>4. QED
    BY <1>3, <1>5, <2>1, <2>2, <2>3, Guess
<1>9. off =< Len(s.rem) /\ off + 1 =< Len(s.quo)
  <2> DEFINE a == Len(s.rem)
             b == Len(s.quo)
             e == Len(d)
  <2>1. off \in Nat /\ a \in Nat /\ b \in Nat /\ e \in Nat /\ off + e + 1 =< a /\ off + 1 = qt - 1 /\ qt \in Nat /\ qt =< b
    BY <1>3, <1>6
  <2> HIDE DEF a, b, e
  <2>2. off =< a /\ off + 1 =< b
    BY <2>1
  <2>3. QED
    BY <2>2 DEF a, b
<1>10. /\ part \in Seq(DigitSet) /\ off + Len(part) =< Len(s.rem) /\ lows.qt \in DigitSet
       /\ DigitFits(t, s, d, off, lows.qt)
  <2>1. WindowFits(s, d, off)
    BY <1>6 DEF WindowFits
  <2> HIDE DEF sub, work, g
  <2> DEFINE low1 == lows
             part1 == part
             t1 == t
  <2>2. /\ low1 = Lower(sub, work, g, d) /\ part1 = SubDigits(Len(sub), sub, low1.work).elts
        /\ t1 = Written(s, off, part1, off + 1, low1.qt) /\ sub = Norm(From(s.rem, off))
    BY DEF sub
  <2> HIDE DEF low1, part1, t1
  <2>3. /\ part1 \in Seq(DigitSet) /\ off + Len(part1) =< Len(s.rem) /\ low1.qt \in DigitSet
        /\ DigitFits(t1, s, d, off, low1.qt)
    <3>1. /\ off \in Nat /\ Normal(d) /\ d # <<>> /\ s \in DivStates /\ off =< Len(s.rem) /\ off + 1 =< Len(s.quo)
          /\ Guessed(work, g, d, Above(s.rem, off))
      BY <1>3, <1>4, <1>5, <1>6, <1>8, <1>9
    <3> HIDE DEF work, W
    <3>2. Lowers(s, d, off, sub, work, g, low1, part1, t1)
      BY <2>1, <2>2, <3>1 DEF Lowers
    <3>3. QED
      BY <3>2, LoweringFits
  <2>4. QED
    BY <2>3 DEF low1, part1, t1
<1> HIDE DEF part, lows
<1>11. off = qt - 2 /\ off + Len(part) =< Len(r) /\ t = Written(s, off, part, qt - 1, lows.qt)
  BY <1>3, <1>6, <1>10 DEF off
<1> HIDE DEF t
<1>12. Open([t EXCEPT !.qt = @ - 1, !.rd = @ - 1], d, r, qt - 1)
  BY <1>10, <1>11, DigitWritten
<1>13. QED
  BY <1>7, <1>12 DEF Step

(* A turn leaves the next place open.                                      *)
LEMMA TurnExact ==
  ASSUME NEW s, NEW d, NEW r, NEW qt, DivPlace(s, d, r, qt), Open(s, d, r, qt), qt >= 2
  PROVE  Open([Turn(s, d) EXCEPT !.qt = @ - 1, !.rd = @ - 1], d, r, qt - 1)
<1> DEFINE u == FirstOff(s, d)
<1>1. Taken(u, d, r, qt)
  BY FirstOffExact
<1>2. s.qt = qt /\ qt > 1
  <2>1. s.qt = qt /\ qt \in Int
    BY DEF Open, Divided, DivPlace
  <2>2. QED
    BY <2>1
<1>3. DivPlace(u, d, r, qt)
  BY DEF DivPlace
<1>4. Turn(s, d) = Estimate(u, d)
  BY <1>2 DEF Turn
<1> HIDE DEF u
<1>5. Open(Step(u, d), d, r, qt - 1)
  BY <1>1, <1>3, EstimateMore, EstimateNought
<1>6. QED
  BY <1>4, <1>5 DEF Step

(* A denominator whose top bit is set, and the state its turns start in.   *)
TopSet(d) == Normal(d) /\ d # <<>> /\ 2 * d[Len(d)] >= Base

FirstTurn(d, r) ==
  [rem |-> r, quo |-> Zeros(Len(r) - Len(d) + 1), rd |-> Len(r), qt |-> Len(r) - Len(d) + 1]

Done(x, d, r) ==
  /\ x \in DivStates
  /\ ValueOf(r) = ValueOf(d) * ValueOf(x.quo) + ValueOf(x.rem) /\ ValueOf(x.rem) < ValueOf(d)

LEMMA NoughtsExact ==
  ASSUME NEW n \in Nat
  PROVE  Zeros(n) \in Seq(DigitSet) /\ Len(Zeros(n)) = n /\ \A k \in 0 .. n : Above(Zeros(n), k) = 0
<1>1. Zeros(n) \in [1 .. n -> DigitSet] /\ \A i \in 1 .. n : Zeros(n)[i] = 0
  BY DigitsAre DEF Zeros
<1>2. Zeros(n) \in Seq(DigitSet) /\ Len(Zeros(n)) = n
  BY <1>1, ArrayIsSeq
<1>3. ASSUME NEW k \in 0 .. n PROVE Above(Zeros(n), k) = 0
  <2>1. Terms(Zeros(n), n, Int) /\ \A i \in (k + 1) .. n : Zeros(n)[i] = 0
    <3>1. Terms(Zeros(n), n, Int)
      BY <1>1 DEF Terms
    <3>2. \A i \in (k + 1) .. n : i \in 1 .. n
      OBVIOUS
    <3>3. QED
      BY <1>1, <3>1, <3>2
  <2>2. ValuesFrom(Zeros(n), n, 0)[k] = 0
    BY <2>1, NothingAbove
  <2>3. QED
    BY <1>2, <2>2 DEF Above
<1>4. QED
  BY <1>2, <1>3

(* The first window is less than twice a denominator whose top bit is set. *)
LEMMA HalfWeight ==
  ASSUME NEW d, TopSet(d)
  PROVE  Weight(Len(d)) =< 2 * ValueOf(d)
<1> DEFINE w == Weight(Len(d) - 1)
           top == d[Len(d)]
<1>1. d \in Seq(DigitSet) /\ d # <<>> /\ 2 * top >= Base
  BY DEF TopSet, Normal
<1>2. w \in Nat /\ top \in DigitSet /\ Weight(Len(d)) = Base * w
  BY <1>1, TopDigit
<1>3. PICK lo \in Nat : ValueOf(d) = lo + w * top
  BY <1>1, TopDigit
<1>4. top \in Nat /\ Base \in Nat
  BY <1>2, BaseType, DigitsAre
<1> HIDE DEF w, top
<1>5. 2 * top - Base \in Nat
  BY <1>1, <1>4
<1>6. w * (2 * top - Base) \in Nat /\ w * (2 * top - Base) = 2 * (w * top) - Base * w /\ w * top \in Nat /\ Base * w \in Nat
  <2>1. w * (2 * top - Base) \in Nat
    BY <1>2, <1>5
  <2>2. QED
    BY <1>2, <1>4, <2>1
<1>7. QED
  BY <1>2, <1>3, <1>6

LEMMA FirstTurnOpen ==
  ASSUME NEW d, TopSet(d), NEW r \in Seq(DigitSet), Len(d) =< Len(r)
  PROVE  LET n == Len(r) - Len(d) + 1
         IN  n \in Nat /\ n >= 1 /\ DivPlace(FirstTurn(d, r), d, r, n) /\ Open(FirstTurn(d, r), d, r, n)
<1> DEFINE m == Len(d)
           l == Len(r)
           n == l - m + 1
           p == n - 1
           D == ValueOf(d)
           s == FirstTurn(d, r)
           q == Zeros(n)
<1>1. d \in Seq(DigitSet) /\ Normal(d) /\ d # <<>>
  BY DEF TopSet, Normal
<1>2. m \in Nat /\ l \in Nat /\ m >= 1 /\ D \in Nat
  BY <1>1, SeqIsArray, ValueType
<1>3. n \in Nat /\ n >= 1 /\ p \in Nat /\ p + m = l /\ p + 1 = n /\ p \in 0 .. n /\ n \in 1 .. n
  <2>1. m \in Nat /\ l \in Nat /\ m >= 1 /\ m =< l
    BY <1>2
  <2> HIDE DEF m, l
  <2>2. QED
    BY <2>1
<1>4. DivPlace(s, d, r, n)
  BY <1>1, <1>3 DEF DivPlace
<1>5. s = [rem |-> r, quo |-> q, rd |-> l, qt |-> n]
  BY DEF FirstTurn
<1> HIDE DEF s, q, n, p, m, l, D
<1>6. q \in Seq(DigitSet) /\ Len(q) = n /\ Above(q, p) = 0 /\ q[n] = 0
  <2>1. q \in Seq(DigitSet) /\ Len(q) = n /\ Above(q, p) = 0
    BY <1>3, NoughtsExact DEF q
  <2>2. q[n] = 0
    BY <1>3 DEF q, Zeros
  <2>3. QED
    BY <2>1, <2>2
<1>7. s.rem = r /\ s.quo = q /\ s.rd = l /\ s.qt = n /\ s \in DivStates
  <2>1. l \in Int /\ n \in Int
    BY <1>2, <1>3
  <2>2. QED
    BY <1>5, <1>6, <2>1 DEF DivStates
<1>8. Above(r, p + m) = 0 /\ Above(r, p) \in Nat
  <2>1. Above(r, l) = 0
    BY AboveDef DEF l
  <2>2. p \in 0 .. l
    BY <1>2, <1>3
  <2>3. QED
    BY <1>3, <2>1, <2>2, AboveDef DEF l
<1>9. Above(r, p) < 2 * D
  <2>1. p + m =< Len(r) /\ p \in Nat /\ m \in Nat
    BY <1>2, <1>3 DEF l
  <2>2. Weight(m) \in Nat /\ (Above(r, p) < Weight(m) <=> Above(r, p + m) = 0)
    BY <2>1, AboveParts
  <2>3. Weight(m) =< 2 * D
    BY HalfWeight DEF m, D
  <2>4. QED
    BY <1>2, <1>8, <2>2, <2>3
<1>10. Divided(s, d, r, n)
  <2>1. n - 1 = p /\ n + m - 1 = l
    BY <1>2, <1>3
  <2>2. Above(s.rem, p) + D * Above(s.quo, p) = Above(r, p)
    <3>1. D * 0 = 0
      BY <1>2
    <3>2. QED
      BY <1>6, <1>7, <1>8, <3>1
  <2>3. Len(s.quo) = Len(r) - Len(d) + 1 /\ Len(s.rem) = Len(r)
    BY <1>6, <1>7 DEF n, l, m
  <2>4. s.rd = n + Len(d) - 1
    BY <1>7, <2>1 DEF m
  <2>5. Above(s.rem, (n - 1) + Len(d)) = 0
    BY <1>7, <1>8, <2>1 DEF m
  <2>6. Above(s.rem, n - 1) + ValueOf(d) * Above(s.quo, n - 1) = Above(r, n - 1)
    BY <2>1, <2>2 DEF D
  <2>7. QED
    BY <1>7, <2>3, <2>4, <2>5, <2>6 DEF Divided
<1>11. Open(s, d, r, n)
  <2>1. Above(s.rem, n - 1) < 2 * ValueOf(d) /\ s.quo[n] = 0
    <3>1. n - 1 = p
      BY <1>3
    <3>2. QED
      BY <1>6, <1>7, <1>9, <3>1 DEF D
  <2>2. QED
    BY <1>10, <2>1 DEF Open
<1>12. QED
  BY <1>3, <1>4, <1>11 DEF n, m, l, s

LEMMA LastTurnDone ==
  ASSUME NEW s, NEW d, NEW r, DivPlace(s, d, r, 1), Open(s, d, r, 1)
  PROVE  Done([Turn(s, d) EXCEPT !.qt = @ - 1, !.rd = @ - 1], d, r)
<1> DEFINE t == FirstOff(s, d)
           u == [t EXCEPT !.qt = @ - 1, !.rd = @ - 1]
           D == ValueOf(d)
           qt == 1
<1>1. DivPlace(s, d, r, qt) /\ Open(s, d, r, qt) /\ qt - 1 = 0
  OBVIOUS
<1>2. Turn(s, d) = t
  <2>1. s.qt = 1
    BY DEF Open, Divided
  <2>2. QED
    BY <2>1 DEF Turn
<1> HIDE DEF qt
<1>3. Taken(t, d, r, qt)
  BY <1>1, FirstOffExact
<1> HIDE DEF t
<1>4. t \in DivStates /\ Above(t.rem, 0) + D * Above(t.quo, 0) = Above(r, 0) /\ Above(t.rem, 0) < D
  BY <1>1, <1>3 DEF Taken, Divided
<1>5. u \in DivStates /\ u.rem = t.rem /\ u.quo = t.quo
  BY <1>4, TurnedDown
<1> HIDE DEF u
<1>6. t.rem \in Seq(DigitSet) /\ t.quo \in Seq(DigitSet) /\ r \in Seq(DigitSet) /\ d \in Seq(DigitSet)
  BY <1>4 DEF DivStates, DivPlace, Normal
<1>7. ValueOf(u.rem) = Above(t.rem, 0) /\ ValueOf(u.quo) = Above(t.quo, 0) /\ ValueOf(r) = Above(r, 0)
  BY <1>5, <1>6, AboveDef
<1>8. ValueOf(u.rem) \in Nat /\ ValueOf(u.quo) \in Nat /\ D \in Nat
  BY <1>5, <1>6, ValueType
<1>9. ValueOf(r) = D * ValueOf(u.quo) + ValueOf(u.rem)
  <2> DEFINE p == D * ValueOf(u.quo)
             v == ValueOf(u.rem)
  <2>1. p \in Nat
    <3> DEFINE c == ValueOf(u.quo)
    <3>1. c \in Nat /\ D \in Nat
      BY <1>8
    <3> HIDE DEF c, D
    <3>2. D * c \in Nat
      BY <3>1
    <3>3. QED
      BY <3>2 DEF c
  <2>2. v + p = ValueOf(r) /\ v \in Nat
    BY <1>4, <1>7, <1>8
  <2> HIDE DEF p, v
  <2>3. ValueOf(r) = p + v
    BY <2>1, <2>2
  <2>4. QED
    BY <2>3 DEF p, v
<1>10. Done(u, d, r)
  BY <1>4, <1>5, <1>7, <1>9 DEF Done
<1>11. QED
  BY <1>2, <1>10 DEF u

(* One turn of the division with the step down that ends it.               *)
DivTurn(x, d) == [Turn(x, d) EXCEPT !.qt = @ - 1, !.rd = @ - 1]

DivAfter(d, r, n) ==
  [k \in 0 .. n |-> {x \in DivStates : IF k < n THEN Open(x, d, r, n - k) ELSE Done(x, d, r)}]

LEMMA DivTurnStep ==
  ASSUME NEW d, Normal(d), d # <<>>, NEW r \in Seq(DigitSet), Len(d) =< Len(r), NEW n, n = Len(r) - Len(d) + 1,
         NEW i \in 1 .. n, NEW x \in DivAfter(d, r, n)[i - 1]
  PROVE  DivTurn(x, d) \in DivAfter(d, r, n)[i]
<1> DEFINE y == DivTurn(x, d)
           qt == n - (i - 1)
<1>1. n \in Nat
  <2>1. Len(r) \in Nat /\ Len(d) \in Nat
    BY SeqIsArray DEF Normal
  <2>2. QED
    BY <2>1
<1>2. i - 1 \in 0 .. n /\ i \in 0 .. n /\ i - 1 < n /\ qt \in 1 .. n /\ qt \in Nat /\ qt - 1 = n - i
  BY <1>1
<1>3. x \in DivStates /\ Open(x, d, r, qt)
  BY <1>2 DEF DivAfter
<1>4. DivPlace(x, d, r, qt)
  BY <1>2 DEF DivPlace
<1> HIDE DEF qt
<1>5. CASE qt >= 2
  <2>1. Open(y, d, r, qt - 1)
    BY <1>3, <1>4, <1>5, TurnExact DEF DivTurn
  <2>2. i < n /\ y \in DivStates
    <3>1. i < n
      BY <1>1, <1>2, <1>5
    <3>2. QED
      BY <2>1, <3>1 DEF Open, Divided
  <2> HIDE DEF y
  <2>3. QED
    BY <1>2, <2>1, <2>2 DEF DivAfter, y
<1>6. CASE ~(qt >= 2)
  <2>1. qt = 1 /\ i = n
    BY <1>1, <1>2, <1>6
  <2>2. Done(y, d, r)
    BY <1>3, <1>4, <2>1, LastTurnDone DEF DivTurn
  <2>3. y \in DivStates /\ ~(i < n)
    BY <1>1, <2>1, <2>2 DEF Done
  <2> HIDE DEF y
  <2>4. QED
    BY <1>2, <2>2, <2>3 DEF DivAfter, y
<1>7. QED
  BY <1>5, <1>6

(* The turns together divide.                                              *)
LEMMA DivTurnsExact ==
  ASSUME NEW d, TopSet(d), NEW r \in Seq(DigitSet), Len(d) =< Len(r)
  PROVE  Done(DivTurns(FirstTurn(d, r), d), d, r)
<1> DEFINE n == Len(r) - Len(d) + 1
           x == FirstTurn(d, r)
           P == DivAfter(d, r, n)
           g == [i \in 1 .. n |-> [y \in P[i - 1] |-> DivTurn(y, d)]]
           F(f) == [k \in 0 .. n |-> IF k = 0 THEN x ELSE DivTurn(f[k - 1], d)]
<1>1. Normal(d) /\ d # <<>>
  BY DEF TopSet
<1>2. n \in Nat /\ n >= 1 /\ Open(x, d, r, n)
  BY FirstTurnOpen
<1>3. x.qt = n /\ x \in DivStates
  BY <1>2 DEF Open, Divided
<1>4. \A i \in 1 .. n : \A y \in P[i - 1] : DivTurn(y, d) \in P[i]
  BY <1>1, DivTurnStep
<1> HIDE DEF n, x
<1>5. x \in P[0]
  <2>1. 0 \in 0 .. n /\ 0 < n /\ n - 0 = n
    BY <1>2
  <2>2. QED
    BY <1>2, <1>3, <2>1 DEF DivAfter
<1> HIDE DEF P
<1>6. \A i \in 1 .. n : \A y \in P[i - 1] : g[i][y] = DivTurn(y, d)
  OBVIOUS
<1>7. PICK f : f = [i \in 0 .. n |-> f[i]] /\ Course(f, n, P, x, g)
  <2> HIDE DEF g
  <2>1. \A i \in 1 .. n : \A y \in P[i - 1] : g[i][y] \in P[i]
    BY <1>4, <1>6
  <2>2. Looped(n, P, x, g)
    BY <1>2, <1>5, <2>1, LoopExists
  <2>3. QED
    BY <2>2 DEF Looped
<1> HIDE DEF g
<1>8. f = F(f)
  <2>1. ASSUME NEW k \in 0 .. n PROVE f[k] = F(f)[k]
    <3>1. CASE k = 0
      BY <1>7, <3>1 DEF Course
    <3>2. CASE k # 0
      <4>1. k \in 1 .. n /\ k - 1 \in 0 .. n
        BY <1>2, <3>2
      <4>2. f[k] = g[k][f[k - 1]] /\ f[k - 1] \in P[k - 1]
        BY <1>7, <4>1 DEF Course
      <4>3. f[k] = DivTurn(f[k - 1], d)
        BY <1>6, <4>1, <4>2
      <4>4. QED
        BY <3>2, <4>3
    <3>3. QED
      BY <3>1, <3>2
  <2>2. QED
    BY <1>7, <2>1
<1> DEFINE turns == CHOOSE h : h = F(h)
<1>9. turns = F(turns)
  <2>1. \E h : h = F(h)
    BY <1>8
  <2>2. QED
    <3> HIDE DEF F
    <3>1. QED
      BY <2>1
<1>10. DivTurns(x, d) = turns[n]
  BY <1>3 DEF DivTurns, DivTurn
<1> HIDE DEF turns
<1>11. turns[0] = x /\ \A k \in 1 .. n : turns[k] = DivTurn(turns[k - 1], d)
  BY <1>2, <1>9
<1> DEFINE G == {k \in 0 .. n : turns[k] \in P[k]}
<1>12. 0 .. n \subseteq G
  <2>1. 0 \in G
    BY <1>2, <1>5, <1>11
  <2>2. ASSUME NEW k \in 0 .. (n - 1), k \in G PROVE k + 1 \in G
    <3>1. k + 1 \in 1 .. n /\ (k + 1) - 1 = k /\ turns[k] \in P[(k + 1) - 1] /\ k + 1 \in 0 .. n
      BY <1>2, <2>2
    <3>2. turns[k + 1] = DivTurn(turns[k], d)
      BY <1>11, <3>1
    <3>3. turns[k + 1] \in P[k + 1]
      BY <1>4, <3>1, <3>2
    <3>4. QED
      BY <3>1, <3>3
  <2> HIDE DEF G
  <2>3. QED
    BY <1>2, <2>1, <2>2, Ascent
<1>13. turns[n] \in P[n] /\ n \in 0 .. n
  BY <1>2, <1>12
<1>14. Done(turns[n], d, r)
  BY <1>2, <1>13 DEF P, DivAfter
<1>15. QED
  BY <1>10, <1>14 DEF x

(***************************************************************************)
(* Shifts of digits.  A shift is of places and, within a place, of bits.   *)
(***************************************************************************)
LEMMA PowerSum ==
  ASSUME NEW a \in Nat, NEW b \in Nat
  PROVE  2 ^ (a + b) = 2 ^ a * 2 ^ b /\ 2 ^ a \in Nat /\ 2 ^ b \in Nat /\ 2 ^ a > 0 /\ 2 ^ b > 0
<1> DEFINE p(n) == 2 ^ n
           G == {k \in 0 .. b : p(a + k) = p(a) * p(k)}
<1>1. \A n \in Nat : p(n) \in Nat /\ p(n) > 0 /\ p(n + 1) = 2 * p(n)
  BY PowerOfTwo
<1>2. p(0) = 1
  <2>1. 2 ^ 0 = 1
    OBVIOUS
  <2>2. QED
    BY <2>1
<1> HIDE DEF p
<1>3. 0 \in G
  <2>1. p(a) \in Nat /\ a + 0 = a
    BY <1>1
  <2>2. p(a + 0) = p(a) * p(0)
    BY <1>2, <2>1
  <2>3. QED
    BY <2>2
<1>4. ASSUME NEW k \in 0 .. (b - 1), k \in G PROVE k + 1 \in G
  <2>1. p(a + k) = p(a) * p(k) /\ k \in Nat /\ k + 1 \in 0 .. b
    BY <1>4
  <2>2. p(k + 1) = 2 * p(k) /\ p((a + k) + 1) = 2 * p(a + k) /\ (a + k) + 1 = a + (k + 1)
    BY <1>1, <2>1
  <2>3. p(a) * (2 * p(k)) = 2 * (p(a) * p(k))
    <3> DEFINE x == p(a)
               y == p(k)
    <3>1. x \in Nat /\ y \in Nat
      BY <1>1, <2>1
    <3> HIDE DEF x, y
    <3>2. x * (2 * y) = 2 * (x * y)
      BY <3>1
    <3>3. QED
      BY <3>2 DEF x, y
  <2>4. p(a + (k + 1)) = p(a) * p(k + 1)
    BY <2>1, <2>2, <2>3
  <2>5. QED
    BY <2>1, <2>4
<1>5. b \in G
  <2> HIDE DEF G
  <2>1. 0 .. b \subseteq G
    BY <1>3, <1>4, Ascent
  <2>2. QED
    BY <2>1
<1>6. p(a + b) = p(a) * p(b) /\ p(a) \in Nat /\ p(b) \in Nat /\ p(a) > 0 /\ p(b) > 0
  BY <1>1, <1>5
<1>7. QED
  BY <1>6 DEF p

(* A place weighs a word of bits.                                          *)
LEMMA WeightPower ==
  ASSUME NEW u \in Nat
  PROVE  Weight(u) = 2 ^ (DigitBits * u) /\ DigitBits * u \in Nat
<1> DEFINE D == DigitBits
           p(n) == 2 ^ n
           G == {k \in 0 .. u : Weight(k) = p(D * k)}
<1>1. D \in Nat
  BY DigitBitsAssumption
<1>2. Base = p(D)
  BY DEF Base
<1>3. \A k \in Nat : D * k \in Nat /\ D * (k + 1) = D + D * k
  <2> HIDE DEF D
  <2>1. QED
    BY <1>1
<1>4. D * 0 = 0 /\ p(0) = 1
  <2>1. 2 ^ 0 = 1
    OBVIOUS
  <2>2. QED
    BY <1>1, <2>1
<1>5. \A k \in Nat : p(D + D * k) = p(D) * p(D * k)
  BY <1>1, <1>3, PowerSum
<1> HIDE DEF p, D
<1>6. 0 \in G
  <2>1. Weight(0) = 1
    <3> DEFINE z == 0
    <3>1. z \in Nat
      OBVIOUS
    <3> HIDE DEF z
    <3>2. QED
      BY <3>1, WeightNext
  <2>2. QED
    BY <1>4, <2>1
<1>7. ASSUME NEW k \in 0 .. (u - 1), k \in G PROVE k + 1 \in G
  <2>1. Weight(k) = p(D * k) /\ k \in Nat /\ k + 1 \in 0 .. u
    BY <1>7
  <2>2. Weight(k + 1) = Base * Weight(k)
    BY <2>1, WeightNext
  <2>3. Weight(k + 1) = p(D * (k + 1))
    BY <1>2, <1>3, <1>5, <2>1, <2>2
  <2>4. QED
    BY <2>1, <2>3
<1>8. u \in G
  <2> HIDE DEF G
  <2>1. 0 .. u \subseteq G
    BY <1>6, <1>7, Ascent
  <2>2. QED
    BY <2>1
<1>9. QED
  BY <1>3, <1>8 DEF p, D

(* A shift is a number of places and of bits.                              *)
LEMMA ShiftParts ==
  ASSUME NEW shift \in Nat, NEW u, u = shift \div DigitBits, NEW b, b = shift % DigitBits
  PROVE  /\ u \in Nat /\ b \in Nat /\ DigitBits - b \in Nat /\ b < DigitBits
         /\ 2 ^ b \in Nat /\ 2 ^ b > 0 /\ 2 ^ (DigitBits - b) \in Nat /\ 2 ^ (DigitBits - b) > 0
         /\ Base = 2 ^ b * 2 ^ (DigitBits - b)
         /\ 2 ^ shift = Weight(u) * 2 ^ b
<1> DEFINE D == DigitBits
           c == D - b
           v == D * u
<1>1. D \in Nat /\ D > 0
  BY DigitBitsAssumption
<1>2. shift \div D \in Int /\ shift % D \in 0 .. (D - 1) /\ shift = D * (shift \div D) + (shift % D)
  <2> HIDE DEF D
  <2>1. QED
    BY <1>1, DivMod
<1>3. u \in Int /\ b \in 0 .. (D - 1) /\ shift = D * u + b
  BY <1>2
<1>4. u \in Nat
  <2> HIDE DEF D
  <2>1. u =< -1 => D * u =< -D
    BY <1>1, <1>3
  <2>2. D * u \in Int
    BY <1>1, <1>3
  <2>3. QED
    BY <1>1, <1>3, <2>1, <2>2
<1>5. Weight(u) = 2 ^ v /\ v \in Nat
  BY <1>4, WeightPower
<1>6. c \in Nat /\ b \in Nat /\ b < D /\ b + c = D /\ shift = v + b
  <2> HIDE DEF D
  <2>1. QED
    BY <1>1, <1>3, <1>5
<1> HIDE DEF c, v, D
<1>7. 2 ^ (b + c) = 2 ^ b * 2 ^ c /\ 2 ^ b \in Nat /\ 2 ^ c \in Nat /\ 2 ^ b > 0 /\ 2 ^ c > 0
  BY <1>6, PowerSum
<1>8. 2 ^ (v + b) = 2 ^ v * 2 ^ b
  BY <1>5, <1>6, PowerSum
<1>9. Base = 2 ^ b * 2 ^ c
  BY <1>6, <1>7 DEF Base, D
<1>10. 2 ^ shift = Weight(u) * 2 ^ b
  BY <1>5, <1>6, <1>8
<1>11. QED
  BY <1>4, <1>6, <1>7, <1>9, <1>10 DEF c, D

LEMMA LowPart ==
  ASSUME NEW a \in Int, NEW l \in 0 .. (Base - 1), NEW q \in Int, a = l + Base * q
  PROVE  a % Base = l /\ a \div Base = q
<1> DEFINE y == a % Base
           z == a \div Base
<1>1. y \in 0 .. (Base - 1) /\ z \in Int /\ a = y + Base * z
  BY Place
<1> HIDE DEF y, z
<1>2. y + Base * z = l + Base * q
  BY <1>1
<1>3. y = l /\ z = q
  BY <1>1, <1>2, OnePlace
<1>4. QED
  BY <1>3 DEF y, z

(* The high bits of a digit and the low ones change places.                *)
LEMMA BitsApart ==
  ASSUME NEW b \in Nat, b > 0, NEW c \in Nat, c > 0, Base = b * c, NEW x \in DigitSet
  PROVE  /\ x \div c \in 0 .. (b - 1) /\ x % c \in 0 .. (c - 1)
         /\ x * b = Base * (x \div c) + b * (x % c)
         /\ (x * b) % Base = b * (x % c)
         /\ b * (x % c) \in Nat /\ b * (x % c) + b =< Base
<1> DEFINE q == x \div c
           r == x % c
<1>1. x \in Nat /\ x < Base /\ Base \in Nat
  BY BaseType DEF DigitSet
<1>2. q \in Int /\ r \in 0 .. (c - 1) /\ x = c * q + r
  BY <1>1, DivMod
<1> HIDE DEF q, r
<1>3. q \in 0 .. (b - 1)
  <2>1. q =< -1 => c * q =< -c
    BY <1>2
  <2>2. q >= b => c * q >= c * b
    BY <1>2
  <2>3. c * q \in Int /\ c * b \in Nat /\ c * b = b * c
    BY <1>2
  <2>4. QED
    BY <1>1, <1>2, <2>1, <2>2, <2>3
<1>4. b * r \in Nat /\ b * r + b =< b * c
  <2>1. (c - 1) - r \in Nat
    BY <1>2
  <2>2. b * ((c - 1) - r) \in Nat /\ b * ((c - 1) - r) = b * c - b - b * r /\ b * r \in Nat /\ b * c \in Nat
    <3>1. b * ((c - 1) - r) \in Nat
      BY <2>1
    <3>2. QED
      BY <1>2, <3>1
  <2>3. QED
    BY <2>2
<1>5. x * b = Base * q + b * r
  <2>1. (c * q + r) * b = (b * c) * q + b * r
    BY <1>2
  <2>2. QED
    BY <1>2, <2>1
<1>6. (x * b) % Base = b * r
  <2> DEFINE a == x * b
             l == b * r
  <2>1. a \in Int
    BY <1>1
  <2>2. l \in 0 .. (Base - 1) /\ a = l + Base * q
    <3>1. l \in Nat /\ l + b =< Base
      BY <1>4
    <3>2. l < Base
      <4> HIDE DEF l
      <4>1. QED
        BY <1>1, <3>1
    <3>3. Base * q \in Int
      BY <1>2, BaseTimes
    <3>4. a = l + Base * q
      <4> DEFINE k == Base * q
      <4>1. a = k + l /\ k \in Int
        BY <1>5, <3>3
      <4> HIDE DEF a, l, k
      <4>2. a = l + k
        BY <3>1, <4>1
      <4>3. QED
        BY <4>2 DEF k
    <3> HIDE DEF l, a
    <3>5. l \in 0 .. (Base - 1)
      BY <1>1, <3>1, <3>2
    <3>6. QED
      BY <3>4, <3>5
  <2> HIDE DEF l, a
  <2>3. a % Base = l
    BY <1>2, <2>1, <2>2, LowPart
  <2>4. QED
    BY <2>3 DEF l, a
<1>7. QED
  BY <1>2, <1>3, <1>4, <1>5, <1>6 DEF q, r

(* What fills the places above: noughts, or the ones of a negative number. *)
Fills(fill, top) == fill \in DigitSet /\ top \in Int /\ fill + Base * top = top

LEMMA FillAbove ==
  ASSUME NEW n \in Nat, NEW m \in 0 .. n, NEW t, Terms(t, n, Int), NEW fill, NEW top \in Int, Fills(fill, top),
         \A i \in (m + 1) .. n : t[i] = fill
  PROVE  ValuesFrom(t, n, top)[m] = top
<1> DEFINE v == ValuesFrom(t, n, top)
           G == {k \in 0 .. n : k >= m => v[k] = top}
<1>1. ValuesOf(v, t, n, top)
  BY ValuesDef
<1> HIDE DEF v
<1>2. n \in G
  BY <1>1 DEF ValuesOf
<1>3. ASSUME NEW k \in 0 .. (n - 1), k + 1 \in G PROVE k \in G
  <2>1. ASSUME k >= m PROVE v[k] = top
    <3>1. v[k + 1] = top /\ t[k + 1] = fill
      BY <1>3, <2>1
    <3>2. v[k] = fill + Base * top
      BY <1>1, <3>1 DEF ValuesOf
    <3>3. QED
      BY <3>2 DEF Fills
  <2>2. QED
    BY <2>1
<1>4. 0 .. n \subseteq G
  <2> HIDE DEF G
  <2>1. QED
    BY <1>2, <1>3, Descent
<1>5. v[m] = top
  BY <1>4
<1>6. QED
  BY <1>5 DEF v

(* Each digit hands its low bits, w of them as a number, to the one below. *)
Apart(w, v) == w \in Nat /\ w > 0 /\ v \in Nat /\ v > 0 /\ Base = w * v

BitsRight(f, t, n, w, v) == \A i \in 1 .. n : f[i] = (t[i] \div w) + v * (t[i + 1] % w)

LEMMA RightPlace ==
  ASSUME NEW w \in Nat, NEW v \in Nat, NEW q \in Int, NEW r \in Int, NEW F \in Int, NEW G \in Int, NEW p \in Int,
         G = w * F + r
  PROVE  w * ((q + v * r) + (w * v) * F) + p = (w * q + p) + (w * v) * G
<1> DEFINE x == v * r
           y == v * F
<1>1. x \in Int /\ y \in Int /\ (w * v) * F = w * y /\ (w * v) * G = w * (v * G)
  BY DEF x, y
<1>2. v * G = w * y + x
  BY DEF x, y
<1> HIDE DEF x, y
<1>3. w * ((q + x) + w * y) + p = (w * q + p) + w * (w * y + x)
  BY <1>1
<1>4. QED
  BY <1>1, <1>2, <1>3 DEF x

LEMMA RightBits ==
  ASSUME NEW n \in Nat, NEW t, Terms(t, n + 1, DigitSet), NEW w \in Nat, NEW v \in Nat, Apart(w, v),
         NEW top \in Int, w * top + (t[n + 1] % w) = top, NEW f, BitsRight(f, t, n, w, v)
  PROVE  /\ Terms(f, n, DigitSet)
         /\ Total(t, n, top) = w * Total(f, n, top) + (t[1] % w)
<1> DEFINE r(i) == t[i] % w
           q(i) == t[i] \div w
<1>1. ASSUME NEW i \in 1 .. (n + 1)
      PROVE  /\ t[i] \in Int /\ q(i) \in Nat /\ r(i) \in Nat /\ t[i] = w * q(i) + r(i)
             /\ q(i) < v /\ v * r(i) \in Nat /\ v * r(i) + v =< Base
  <2> DEFINE x == t[i]
  <2>1. x \in DigitSet /\ x \in Nat
    BY DigitsAre DEF Terms
  <2>2. Base = v * w /\ w > 0 /\ v > 0
    BY DEF Apart
  <2> HIDE DEF x
  <2>3. /\ x \div w \in 0 .. (v - 1) /\ x % w \in 0 .. (w - 1)
        /\ v * (x % w) \in Nat /\ v * (x % w) + v =< Base
    BY <2>1, <2>2, BitsApart
  <2>4. x = w * (x \div w) + (x % w)
    BY <2>1, <2>2, DivMod
  <2>5. QED
    BY <2>1, <2>3, <2>4 DEF x
<1>2. \A i \in 1 .. n : f[i] = q(i) + v * r(i + 1) /\ i + 1 \in 1 .. (n + 1) /\ i \in 1 .. (n + 1)
  BY DEF BitsRight
<1> HIDE DEF q, r
<1>3. Terms(f, n, DigitSet)
  <2>1. ASSUME NEW i \in 1 .. n PROVE f[i] \in DigitSet
    <3> DEFINE a == v * r(i + 1)
               b == q(i)
    <3>1. a \in Nat /\ a + v =< Base /\ b \in Nat /\ b < v /\ f[i] = b + a
      BY <1>1, <1>2
    <3>2. Base \in Nat
      BY BaseType
    <3> DEFINE c == Base
    <3> HIDE DEF a, b, c
    <3>3. a + b \in 0 .. (c - 1) /\ f[i] = a + b
      BY <3>1, <3>2 DEF c
    <3>4. QED
      BY <3>3 DEF DigitSet, c
  <2>2. QED
    BY <2>1 DEF Terms
<1> DEFINE F == ValuesFrom(f, n, top)
           G == [k \in 0 .. n |-> w * F[k] + r(k + 1)]
<1>4. F \in [0 .. n -> Int] /\ F[n] = top /\ \A k \in 0 .. (n - 1) : F[k] = f[k + 1] + Base * F[k + 1]
  <2>1. ValuesOf(F, f, n, top)
    BY <1>3, DigitTerms, ValuesDef
  <2>2. QED
    BY <2>1 DEF ValuesOf
<1> HIDE DEF F
<1>5. G[n] = top
  BY <1>4 DEF r
<1>6. ASSUME NEW k \in 0 .. (n - 1) PROVE G[k] = t[k + 1] + Base * G[k + 1]
  <2>1. k + 1 \in 1 .. n /\ k + 1 \in 0 .. n /\ k \in 0 .. n /\ (k + 1) + 1 \in 1 .. (n + 1) /\ k + 1 \in 1 .. (n + 1)
    OBVIOUS
  <2> DEFINE a == q(k + 1)
             b == r((k + 1) + 1)
             e == F[k + 1]
             g == G[k + 1]
             p == r(k + 1)
  <2>2. a \in Int /\ b \in Int /\ e \in Int /\ p \in Int /\ t[k + 1] = w * a + p
    <3>1. a \in Int /\ p \in Int /\ t[k + 1] = w * a + p
      BY <1>1, <2>1
    <3>2. b \in Int
      BY <1>1, <2>1
    <3>3. e \in Int
      BY <1>4, <2>1
    <3>4. QED
      BY <3>1, <3>2, <3>3
  <2>3. g = w * e + b /\ G[k] = w * F[k] + p /\ F[k] = (a + v * b) + Base * e
    BY <1>2, <1>4, <2>1
  <2> HIDE DEF a, b, e, p, g, G
  <2>4. g \in Int
    BY <2>2, <2>3
  <2>5. w * ((a + v * b) + (w * v) * e) + p = (w * a + p) + (w * v) * g
    BY <2>2, <2>3, <2>4, RightPlace
  <2>6. QED
    BY <2>2, <2>3, <2>5 DEF g, Apart
<1>7. \A k \in 0 .. n : G[k] = ValuesFrom(t, n, top)[k]
  <2>1. Terms(t, n, Int)
    BY <1>1 DEF Terms
  <2> HIDE DEF G
  <2>2. QED
    BY <1>5, <1>6, <2>1, ValuesAre
<1>8. G[0] = w * F[0] + r(1) /\ 0 \in 0 .. n
  OBVIOUS
<1>9. QED
  BY <1>3, <1>7, <1>8 DEF Total, F, r

LEMMA ModIs ==
  ASSUME NEW w \in Nat, w > 0, NEW q \in Int, NEW r \in 0 .. (w - 1), NEW a \in Int, a = w * q + r
  PROVE  a % w = r /\ a \div w = q
<1> DEFINE x == a \div w
           y == a % w
<1>1. x \in Int /\ y \in 0 .. (w - 1) /\ a = w * x + y
  BY DivMod
<1> HIDE DEF x, y
<1> DEFINE k == x - q
<1>2. w * k = r - y /\ k \in Int
  <2>1. w * (x - q) = w * x - w * q
    BY <1>1
  <2>2. w * x \in Int /\ w * q \in Int
    BY <1>1
  <2>3. QED
    BY <1>1, <2>1, <2>2
<1> HIDE DEF k
<1>3. k = 0
  <2>1. k >= 1 => w * k >= w
    BY <1>2
  <2>2. k =< -1 => w * k =< -w
    BY <1>2
  <2>3. -w < r - y /\ r - y < w
    BY <1>1
  <2>4. QED
    BY <1>2, <2>1, <2>2, <2>3
<1>4. x = q
  BY <1>1, <1>3 DEF k
<1>5. y = r
  <2>1. w * k = 0
    BY <1>3
  <2>2. QED
    BY <1>1, <1>2, <2>1
<1>6. QED
  BY <1>4, <1>5 DEF x, y

LEMMA FillBits ==
  ASSUME NEW w \in Nat, NEW v \in Nat, Apart(w, v), NEW fill, NEW top \in {0, -1}, Fills(fill, top)
  PROVE  w * top + (fill % w) = top
<1>1. w > 0 /\ v > 0 /\ Base = w * v /\ fill \in Int /\ fill + Base * top = top
  BY DigitsAre DEF Apart, Fills
<1>2. CASE top = 0
  <2> DEFINE r == 0
             q == 0
  <2>1. Base * 0 = 0 /\ w * 0 = 0
    BY <1>1, BaseType
  <2>2. fill = 0
    BY <1>1, <1>2, <2>1
  <2>3. fill = w * q + r /\ q \in Int /\ r \in 0 .. (w - 1)
    BY <1>1, <2>1, <2>2
  <2> HIDE DEF q, r
  <2>4. fill % w = r
    BY <1>1, <2>3, ModIs
  <2>5. QED
    BY <1>2, <2>1, <2>4 DEF r
<1>3. CASE top = -1
  <2> DEFINE r == w - 1
             q == v - 1
  <2>1. Base * (-1) = -Base /\ w * (-1) = -w /\ Base \in Nat
    BY <1>1, BaseType
  <2>2. fill = Base - 1
    BY <1>1, <1>3, <2>1
  <2>3. w * (v - 1) = w * v - w /\ w * v \in Nat
    OBVIOUS
  <2>4. fill = w * q + r /\ q \in Int /\ r \in 0 .. (w - 1)
    BY <1>1, <2>2, <2>3
  <2> HIDE DEF q, r
  <2>5. fill % w = r
    BY <1>1, <2>4, ModIs
  <2>6. QED
    BY <1>3, <2>1, <2>5 DEF r
<1>4. QED
  BY <1>2, <1>3

(* What a shift to the right leaves and what it drops.                     *)
Rightward(e, f, shift, top) ==
  \E rest \in 0 .. (2 ^ shift - 1) : Total(e, Len(e), top) = 2 ^ shift * Total(f, Len(e), top) + rest

LEMMA ShiftRightFillExact ==
  ASSUME NEW e \in Seq(DigitSet), NEW shift \in Nat, NEW fill, NEW top \in {0, -1}, Fills(fill, top),
         NEW f, f = ShiftRightFill(e, shift, fill)
  PROVE  /\ f \in Seq(DigitSet) /\ Len(f) = Len(e) /\ 2 ^ shift \in Nat /\ 2 ^ shift > 0
         /\ Rightward(e, f, shift, top)
<1> DEFINE n == Len(e)
           u == shift \div DigitBits
           b == shift % DigitBits
           w == 2 ^ b
           v == 2 ^ (DigitBits - b)
           t == [i \in 1 .. (n + 1) |-> IF i + u \in DOMAIN e THEN e[i + u] ELSE fill]
           p == [i \in 1 .. (n + u) |-> IF i \in 1 .. n THEN e[i] ELSE fill]
<1>1. n \in Nat /\ DOMAIN e = 1 .. n /\ Terms(e, n, DigitSet)
  BY SeqIsArray
<1>2. u \in Nat /\ w \in Nat /\ v \in Nat /\ Apart(w, v) /\ 2 ^ shift = Weight(u) * w
  BY ShiftParts DEF Apart
<1>3. fill \in DigitSet /\ top \in Int
  BY DEF Fills
<1>4. f = [i \in 1 .. n |-> ((IF i + u \in DOMAIN e THEN e[i + u] ELSE fill) \div w)
                            + (((IF (i + 1) + u \in DOMAIN e THEN e[(i + 1) + u] ELSE fill) * v) % Base)]
  BY <1>1 DEF ShiftRightFill
<1> HIDE DEF n, u, w, v, b
<1>5. \A i \in 1 .. (n + 1) : t[i] \in DigitSet
  BY <1>1, <1>3 DEF Terms
<1>6. \A i \in 1 .. n : f[i] = (t[i] \div w) + ((t[i + 1] * v) % Base) /\ i + 1 \in 1 .. (n + 1)
  BY <1>1, <1>4
<1>7. t[n + 1] = fill
  BY <1>1, <1>2
<1>8. \A j \in 1 .. n : t[j] = p[u + j]
  <2>1. \A j \in 1 .. n : u + j \in 1 .. (n + u) /\ j \in 1 .. (n + 1) /\ j + u = u + j
    BY <1>1, <1>2
  <2>2. QED
    BY <1>1, <2>1
<1>9. /\ \A i \in 1 .. (n + u) : p[i] \in DigitSet
      /\ \A i \in 1 .. n : p[i] = e[i]
      /\ \A i \in (n + 1) .. (n + u) : p[i] = fill
  <2>1. \A i \in 1 .. n : i \in 1 .. (n + u)
    BY <1>1, <1>2
  <2>2. \A i \in (n + 1) .. (n + u) : i \in 1 .. (n + u) /\ i \notin 1 .. n
    BY <1>1, <1>2
  <2>3. QED
    BY <1>1, <1>3, <2>1, <2>2 DEF Terms
<1>10. BitsRight(f, t, n, w, v)
  <2>1. ASSUME NEW i \in 1 .. n PROVE f[i] = (t[i] \div w) + v * (t[i + 1] % w)
    <3> DEFINE x == t[i + 1]
    <3>1. x \in DigitSet /\ f[i] = (t[i] \div w) + ((x * v) % Base)
      BY <1>5, <1>6
    <3>2. Base = v * w /\ w > 0 /\ v > 0
      BY <1>2 DEF Apart
    <3> HIDE DEF x
    <3>3. (x * v) % Base = v * (x % w)
      BY <1>2, <3>1, <3>2, BitsApart
    <3>4. QED
      BY <3>1, <3>3 DEF x
  <2>2. QED
    BY <2>1 DEF BitsRight
<1> HIDE DEF t, p
<1>11. Terms(t, n + 1, DigitSet) /\ Terms(p, n + u, DigitSet) /\ Terms(p, n + u, Int)
  <2>1. Terms(t, n + 1, DigitSet) /\ Terms(p, n + u, DigitSet)
    BY <1>5, <1>9 DEF Terms
  <2>2. QED
    BY <2>1, DigitTerms
<1> DEFINE F == Total(f, n, top)
           r == t[1] % w
           T == Total(t, n, top)
           V == ValuesFrom(p, n + u, top)
           W == Weight(u)
<1>12. Terms(f, n, DigitSet) /\ T = w * F + r
  <2>1. w * top + (t[n + 1] % w) = top
    BY <1>2, <1>7, FillBits
  <2>2. QED
    BY <1>1, <1>2, <1>3, <1>10, <1>11, <2>1, RightBits
<1>13. r \in 0 .. (w - 1)
  <2>1. 1 \in 1 .. (n + 1)
    BY <1>1
  <2>2. t[1] \in Int /\ w > 0
    <3>1. t[1] \in DigitSet
      BY <1>5, <2>1
    <3>2. w > 0
      BY <1>2 DEF Apart
    <3>3. t[1] \in Nat
      BY <3>1, DigitsAre
    <3>4. QED
      BY <3>2, <3>3
  <2>3. QED
    BY <1>2, <2>2, DivMod
<1>14. f \in Seq(DigitSet) /\ Len(f) = n
  <2>1. f = [i \in 1 .. n |-> f[i]]
    BY <1>4
  <2>2. f \in [1 .. n -> DigitSet]
    BY <1>12, <2>1 DEF Terms
  <2>3. QED
    BY <1>1, <2>2, ArrayIsSeq
<1>15. F \in Int
  BY <1>1, <1>3, <1>12, DigitTerms, TotalType
<1> HIDE DEF F, r, T
<1>16. n + u \in Nat /\ n \in 0 .. (n + u) /\ V[n + u] = top
  <2>1. ValuesOf(V, p, n + u, top) /\ n + u \in Nat
    BY <1>1, <1>2, <1>3, <1>11, ValuesDef
  <2>2. QED
    BY <1>1, <1>2, <2>1 DEF ValuesOf
<1>17. V[n] = top
  BY <1>3, <1>9, <1>11, <1>16, FillAbove
<1> HIDE DEF V
<1>18. V[u] = T
  <2>1. FromPlace(t, p, u, n) /\ u + n = n + u /\ u + n =< n + u
    BY <1>1, <1>2, <1>8 DEF FromPlace
  <2>2. V[u] = Total(t, n, V[u + n])
    BY <1>1, <1>2, <1>3, <1>11, <1>16, <2>1, Window DEF V
  <2>3. QED
    BY <1>16, <2>1, <2>2 DEF T
<1>19. V[0] = Total(e, n, top)
  <2> DEFINE z == 0
  <2>1. FromPlace(e, p, z, n) /\ z + n = n /\ z + n =< n + u /\ z \in Nat
    BY <1>1, <1>2, <1>9 DEF FromPlace
  <2> HIDE DEF z
  <2>2. V[z] = Total(e, n, V[z + n])
    BY <1>1, <1>3, <1>11, <1>16, <2>1, Window DEF V
  <2>3. QED
    BY <1>17, <2>1, <2>2 DEF z
<1>20. PICK lo \in Nat : lo < W /\ V[0] = lo + W * V[u] /\ W \in Nat
  <2> DEFINE z == 0
             low == [i \in 1 .. u |-> p[i]]
  <2>1. FromPlace(low, p, z, u) /\ z + u = u /\ z + u =< n + u /\ z \in Nat
    BY <1>1, <1>2 DEF FromPlace
  <2>2. Terms(low, u, DigitSet)
    <3>1. \A i \in 1 .. u : i \in 1 .. (n + u)
      BY <1>1, <1>2
    <3>2. QED
      BY <1>9, <3>1 DEF Terms
  <2>3. V[u] \in Int
    <3>1. ValuesOf(V, p, n + u, top) /\ u \in 0 .. (n + u)
      BY <1>1, <1>2, <1>3, <1>11, <1>16, ValuesDef DEF V
    <3>2. QED
      BY <3>1 DEF ValuesOf
  <2> HIDE DEF z, low
  <2>4. V[z] = Total(low, u, V[z + u])
    BY <1>2, <1>3, <1>11, <1>16, <2>1, Window DEF V
  <2>5. /\ W \in Nat
        /\ Total(low, u, 0) \in Nat /\ Total(low, u, 0) < W
        /\ Total(low, u, V[u]) = Total(low, u, 0) + W * V[u]
    BY <1>2, <2>2, <2>3, Weighted
  <2>6. QED
    BY <2>1, <2>4, <2>5 DEF z
<1> DEFINE rest == lo + W * r
<1>21. rest \in 0 .. (2 ^ shift - 1) /\ Total(e, n, top) = 2 ^ shift * F + rest /\ 2 ^ shift \in Nat /\ 2 ^ shift > 0
  <2>1. w \in Nat /\ r \in Nat /\ r < w /\ lo < W /\ W \in Nat
    BY <1>2, <1>13, <1>20
  <2> HIDE DEF W
  <2>2. lo + W * r < W * w
    BY <2>1, Under
  <2>3. W * (w * F + r) = (W * w) * F + W * r /\ W * r \in Nat /\ W * w \in Nat
    BY <1>15, <2>1
  <2>4. (W * w) * F \in Int
    <3> DEFINE k == W * w
    <3>1. k \in Nat
      BY <2>3
    <3> HIDE DEF k
    <3>2. k * F \in Int
      BY <1>15, <3>1
    <3>3. QED
      BY <3>2 DEF k
  <2> DEFINE k == W * w
             l == W * r
             m == k * F
  <2>5. k \in Nat /\ l \in Nat /\ m \in Int /\ lo + l < k /\ Total(e, n, top) = lo + (m + l) /\ 2 ^ shift = k
    BY <1>2, <1>12, <1>18, <1>19, <1>20, <2>2, <2>3, <2>4 DEF W
  <2>6. rest = lo + l
    OBVIOUS
  <2>7. 2 ^ shift * F = m
    BY <2>5
  <2> HIDE DEF k, l, m, rest
  <2>8. rest \in 0 .. (k - 1) /\ Total(e, n, top) = m + rest /\ k > 0
    BY <2>5, <2>6
  <2>9. QED
    BY <2>5, <2>7, <2>8
<1> HIDE DEF rest
<1>22. QED
  <2>1. \E x \in 0 .. (2 ^ shift - 1) : Total(e, n, top) = 2 ^ shift * F + x
    BY <1>21
  <2>2. QED
    BY <1>14, <1>21, <2>1 DEF Rightward, n, F

(* Each digit takes the high bits, w of them as a number, of the one below.*)
BitsLeft(f, t, n, w, v) == \A i \in 1 .. n : f[i] = w * (t[i] % v) + (t[i - 1] \div v)

LEMMA LeftPlace ==
  ASSUME NEW w \in Nat, NEW v \in Nat, NEW h \in Int, NEW r \in Int, NEW T \in Int, NEW g \in Int, NEW G \in Int,
         G = w * T + h
  PROVE  (w * r + g) + (w * v) * G = (w * ((v * h + r) + (w * v) * T)) + g
<1> DEFINE x == v * h
           y == v * T
<1>1. x \in Int /\ y \in Int /\ (w * v) * T = w * y /\ (w * v) * G = w * (v * G)
  BY DEF x, y
<1>2. v * G = w * y + x
  BY DEF x, y
<1> HIDE DEF x, y
<1>3. (w * r + g) + w * (w * y + x) = (w * ((x + r) + w * y)) + g
  BY <1>1
<1>4. QED
  BY <1>1, <1>2, <1>3 DEF x

LEMMA LeftBits ==
  ASSUME NEW n \in Nat, NEW t, \A i \in 0 .. n : t[i] \in DigitSet, NEW w \in Nat, NEW v \in Nat, Apart(w, v),
         t[0] \div v = 0, t[n] \div v = 0, NEW f, BitsLeft(f, t, n, w, v)
  PROVE  /\ Terms(f, n, DigitSet)
         /\ Total(f, n, 0) = w * Total(t, n, 0)
<1> DEFINE h(i) == t[i] \div v
           r(i) == t[i] % v
<1>1. ASSUME NEW i \in 0 .. n
      PROVE  /\ t[i] \in Int /\ h(i) \in Nat /\ r(i) \in Nat /\ t[i] = v * h(i) + r(i)
             /\ h(i) < w /\ w * r(i) \in Nat /\ w * r(i) + w =< Base
  <2> DEFINE x == t[i]
  <2>1. x \in DigitSet /\ x \in Nat
    BY DigitsAre
  <2>2. Base = w * v /\ w > 0 /\ v > 0
    BY DEF Apart
  <2> HIDE DEF x
  <2>3. /\ x \div v \in 0 .. (w - 1) /\ x % v \in 0 .. (v - 1)
        /\ w * (x % v) \in Nat /\ w * (x % v) + w =< Base
    BY <2>1, <2>2, BitsApart
  <2>4. x = v * (x \div v) + (x % v)
    BY <2>1, <2>2, DivMod
  <2>5. QED
    BY <2>1, <2>3, <2>4 DEF x
<1>2. \A i \in 1 .. n : f[i] = w * r(i) + h(i - 1) /\ i - 1 \in 0 .. n /\ i \in 0 .. n
  BY DEF BitsLeft
<1>3. h(0) = 0 /\ h(n) = 0
  OBVIOUS
<1> HIDE DEF h, r
<1>4. Terms(f, n, DigitSet)
  <2>1. ASSUME NEW i \in 1 .. n PROVE f[i] \in DigitSet
    <3> DEFINE a == w * r(i)
               b == h(i - 1)
               c == Base
    <3>1. a \in Nat /\ a + w =< c /\ b \in Nat /\ b < w /\ f[i] = a + b
      BY <1>1, <1>2
    <3>2. c \in Nat
      BY BaseType
    <3> HIDE DEF a, b, c
    <3>3. a + b \in 0 .. (c - 1) /\ f[i] = a + b
      BY <3>1, <3>2
    <3>4. QED
      BY <3>3 DEF DigitSet, c
  <2>2. QED
    BY <2>1 DEF Terms
<1>5. Terms(t, n, Int)
  BY <1>1 DEF Terms
<1> DEFINE T == ValuesFrom(t, n, 0)
           G == [k \in 0 .. n |-> w * T[k] + h(k)]
<1>6. T \in [0 .. n -> Int] /\ T[n] = 0 /\ \A k \in 0 .. (n - 1) : T[k] = t[k + 1] + Base * T[k + 1]
  <2>1. ValuesOf(T, t, n, 0)
    BY <1>5, ValuesDef
  <2>2. QED
    BY <2>1 DEF ValuesOf
<1> HIDE DEF T
<1>7. G[n] = 0
  <2>1. w * 0 = 0 /\ n \in 0 .. n
    OBVIOUS
  <2>2. QED
    BY <1>3, <1>6, <2>1
<1>8. ASSUME NEW k \in 0 .. (n - 1) PROVE G[k] = f[k + 1] + Base * G[k + 1]
  <2>1. k + 1 \in 1 .. n /\ k + 1 \in 0 .. n /\ k \in 0 .. n /\ (k + 1) - 1 = k
    OBVIOUS
  <2> DEFINE a == h(k + 1)
             b == r(k + 1)
             e == T[k + 1]
             g == h(k)
             z == G[k + 1]
  <2>2. a \in Int /\ b \in Int /\ t[k + 1] = v * a + b
    BY <1>1, <2>1
  <2>3. g \in Int
    BY <1>1, <2>1
  <2>4. e \in Int
    BY <1>6, <2>1
  <2>5. z = w * e + a /\ G[k] = w * T[k] + g /\ T[k] = t[k + 1] + Base * e
    BY <1>6, <2>1
  <2>6. f[k + 1] = w * b + g
    BY <1>2, <2>1
  <2> HIDE DEF a, b, e, g, z, G
  <2>7. z \in Int
    BY <2>2, <2>4, <2>5
  <2>8. (w * b + g) + (w * v) * z = (w * ((v * a + b) + (w * v) * e)) + g
    BY <2>2, <2>3, <2>4, <2>5, <2>7, LeftPlace
  <2>9. QED
    BY <2>2, <2>5, <2>6, <2>8 DEF z, Apart
<1>9. \A k \in 0 .. n : G[k] = ValuesFrom(f, n, 0)[k]
  <2>1. Terms(f, n, Int)
    BY <1>4, DigitTerms
  <2> HIDE DEF G
  <2>2. QED
    BY <1>7, <1>8, <2>1, ValuesAre
<1>10. G[0] = w * T[0] /\ 0 \in 0 .. n
  <2>1. 0 \in 0 .. n /\ T[0] \in Int
    BY <1>6
  <2>2. G[0] = w * T[0] + 0 /\ w * T[0] \in Int
    BY <1>3, <2>1
  <2>3. QED
    BY <2>1, <2>2
<1>11. QED
  BY <1>4, <1>9, <1>10 DEF Total, T

(* Nothing is shifted out.                                                 *)
LeftRoom(e, u, v) ==
  /\ u =< Len(e) /\ \A i \in (Len(e) - u + 1) .. Len(e) : e[i] = 0
  /\ Digit(e, Len(e) - u) \div v = 0

LEMMA ShiftLeftExact ==
  ASSUME NEW e \in Seq(DigitSet), NEW shift \in Nat, 
         LeftRoom(e, shift \div DigitBits, 2 ^ (DigitBits - (shift % DigitBits))), NEW f, f = ShiftLeft(e, shift)
  PROVE  f \in Seq(DigitSet) /\ Len(f) = Len(e) /\ ValueOf(f) = 2 ^ shift * ValueOf(e)
<1> DEFINE n == Len(e)
           u == shift \div DigitBits
           b == shift % DigitBits
           w == 2 ^ b
           v == 2 ^ (DigitBits - b)
           t == [i \in 0 .. n |-> Digit(e, i - u)]
           m == n - u
<1>1. n \in Nat /\ DOMAIN e = 1 .. n /\ Terms(e, n, DigitSet)
  BY SeqIsArray
<1>2. u \in Nat /\ w \in Nat /\ v \in Nat /\ Apart(w, v) /\ 2 ^ shift = Weight(u) * w
  BY ShiftParts DEF Apart
<1>3. f = [i \in 1 .. n |-> ((Digit(e, i - u) * w) % Base) + Digit(e, (i - 1) - u) \div v]
  BY <1>1 DEF ShiftLeft
<1>4. u =< n /\ (\A i \in (m + 1) .. n : e[i] = 0) /\ Digit(e, m) \div v = 0
  <2>1. LeftRoom(e, u, v)
    OBVIOUS
  <2> HIDE DEF u, v
  <2>2. QED
    BY <2>1 DEF LeftRoom
<1> HIDE DEF n, w, v, b, u
<1>5. m \in Nat /\ u + m = n /\ m =< n /\ m \in 0 .. n
  BY <1>1, <1>2, <1>4
<1>6. \A i \in 0 .. n : t[i] \in DigitSet
  <2>1. \A i \in Int : Digit(e, i) \in DigitSet
    BY <1>1, DigitsAre DEF Digit, Terms
  <2>2. QED
    BY <1>2, <2>1
<1>7. \A i \in 1 .. n : f[i] = ((t[i] * w) % Base) + t[i - 1] \div v
  <2>1. \A i \in 1 .. n : i \in 0 .. n /\ i - 1 \in 0 .. n
    BY <1>1
  <2>2. QED
    BY <1>3, <2>1
<1>8. t[n] = Digit(e, m) /\ (\A i \in 0 .. u : t[i] = 0) /\ \A j \in 1 .. m : t[u + j] = e[j]
  <2>1. n \in 0 .. n
    BY <1>1
  <2>2. ASSUME NEW i \in 0 .. u PROVE t[i] = 0
    <3>1. i \in 0 .. n /\ i - u \notin 1 .. n
      BY <1>1, <1>2, <1>4
    <3>2. QED
      BY <1>1, <3>1 DEF Digit
  <2>3. ASSUME NEW j \in 1 .. m PROVE t[u + j] = e[j]
    <3>1. u + j \in 0 .. n /\ (u + j) - u = j /\ j \in 1 .. n
      <4>1. u \in Nat /\ n \in Nat /\ m \in Nat /\ u + m = n
        BY <1>1, <1>2, <1>5
      <4> HIDE DEF m, t
      <4>2. QED
        BY <4>1
    <3>2. QED
      BY <1>1, <3>1 DEF Digit
  <2>4. QED
    BY <2>1, <2>2, <2>3
<1> HIDE DEF t, m
<1>9. BitsLeft(f, t, n, w, v)
  <2>1. ASSUME NEW i \in 1 .. n PROVE f[i] = w * (t[i] % v) + (t[i - 1] \div v)
    <3> DEFINE x == t[i]
    <3>1. x \in DigitSet /\ f[i] = ((x * w) % Base) + (t[i - 1] \div v)
      <4>1. i \in 0 .. n
        BY <1>1
      <4>2. QED
        BY <1>6, <1>7, <4>1
    <3>2. Base = w * v /\ w > 0 /\ v > 0
      BY <1>2 DEF Apart
    <3> HIDE DEF x
    <3>3. (x * w) % Base = w * (x % v)
      BY <1>2, <3>1, <3>2, BitsApart
    <3>4. QED
      BY <3>1, <3>3 DEF x
  <2>2. QED
    BY <2>1 DEF BitsLeft
<1>10. t[0] \div v = 0 /\ t[n] \div v = 0
  <2>1. 0 \in 0 .. u
    BY <1>2
  <2>2. 0 \div v = 0
    <3>1. v > 0
      BY <1>2 DEF Apart
    <3>2. \A k \in Nat : k > 0 => 0 \div k = 0
      OBVIOUS
    <3>3. QED
      BY <1>2, <3>1, <3>2
  <2>3. QED
    BY <1>4, <1>8, <2>1, <2>2
<1> DEFINE T == ValuesFrom(t, n, 0)
           W == Weight(u)
           E == ValueOf(e)
<1>11. Terms(f, n, DigitSet) /\ Total(f, n, 0) = w * T[0]
  <2>1. Terms(f, n, DigitSet) /\ Total(f, n, 0) = w * Total(t, n, 0)
    BY <1>1, <1>2, <1>6, <1>9, <1>10, LeftBits
  <2>2. QED
    BY <2>1 DEF Total
<1>12. f \in Seq(DigitSet) /\ Len(f) = n
  <2>1. f = [i \in 1 .. n |-> f[i]]
    BY <1>3
  <2>2. f \in [1 .. n -> DigitSet]
    BY <1>11, <2>1 DEF Terms
  <2>3. QED
    BY <1>1, <2>2, ArrayIsSeq
<1>13. Terms(t, n, DigitSet) /\ Terms(t, n, Int) /\ Terms(e, n, Int) /\ T \in [0 .. n -> Int] /\ T[n] = 0
  <2>1. \A i \in 1 .. n : i \in 0 .. n
    BY <1>1
  <2>2. Terms(t, n, DigitSet) /\ Terms(t, n, Int) /\ Terms(e, n, Int)
    <3>1. Terms(t, n, DigitSet)
      BY <1>6, <2>1 DEF Terms
    <3>2. QED
      BY <1>1, <3>1, DigitTerms
  <2>3. ValuesOf(T, t, n, 0)
    BY <1>1, <2>2, ValuesDef
  <2>4. QED
    BY <2>2, <2>3 DEF ValuesOf
<1> HIDE DEF T
<1>14. T[u] = E
  <2>1. FromPlace(e, t, u, m) /\ u + m =< n
    BY <1>1, <1>5, <1>8 DEF FromPlace
  <2> DEFINE z == 0
  <2>2. z \in Int
    OBVIOUS
  <2>3. T[u] = Total(e, m, T[u + m])
    <3>1. T = ValuesFrom(t, n, z)
      BY DEF T
    <3> HIDE DEF z
    <3>2. /\ n \in Nat /\ m \in Nat /\ u \in Nat /\ u + m =< n /\ Terms(t, n, Int) /\ z \in Int
          /\ FromPlace(e, t, u, m)
      BY <1>1, <1>2, <1>5, <1>13, <2>1, <2>2
    <3>3. ValuesFrom(t, n, z)[u] = Total(e, m, ValuesFrom(t, n, z)[u + m])
      BY <3>2, Window
    <3>4. QED
      BY <3>1, <3>3
  <2>4. Total(e, n, 0) = Total(e, m, 0)
    BY <1>1, <1>4, <1>5, <1>13, Longer
  <2>5. QED
    BY <1>5, <1>13, <2>3, <2>4 DEF ValueOf, n
<1>15. T[0] = W * T[u] /\ W \in Nat
  <2> DEFINE z == 0
             low == Zeros(u)
  <2>1. FromPlace(low, t, z, u) /\ z + u = u /\ z + u =< n /\ z \in Nat
    <3>1. \A j \in 1 .. u : j \in 0 .. u /\ z + j = j /\ low[j] = 0
      BY <1>2 DEF Zeros
    <3>2. QED
      BY <1>2, <1>4, <1>8, <3>1 DEF FromPlace
  <2>2. Terms(low, u, DigitSet) /\ Total(low, u, 0) = 0
    <3>1. low \in Seq(DigitSet) /\ Len(low) = u /\ \A k \in 0 .. u : Above(low, k) = 0
      BY <1>2, NoughtsExact
    <3>2. Terms(low, u, DigitSet)
      BY <3>1, SeqIsArray
    <3>3. 0 \in 0 .. u
      BY <1>2
    <3>4. Above(low, 0) = 0
      BY <3>1, <3>3
    <3>5. QED
      BY <3>1, <3>2, <3>4 DEF Above, Total
  <2>3. T[u] \in Int /\ u \in 0 .. n
    BY <1>1, <1>2, <1>4, <1>13
  <2> HIDE DEF low
  <2>4. T[z] = Total(low, u, T[z + u])
    <3> DEFINE o == 0
    <3>1. T = ValuesFrom(t, n, o) /\ o \in Int
      BY DEF T
    <3> HIDE DEF o, z
    <3>2. /\ n \in Nat /\ u \in Nat /\ z \in Nat /\ z + u =< n /\ Terms(t, n, Int) /\ o \in Int
          /\ FromPlace(low, t, z, u)
      BY <1>1, <1>2, <1>13, <2>1, <3>1
    <3>3. ValuesFrom(t, n, o)[z] = Total(low, u, ValuesFrom(t, n, o)[z + u])
      BY <3>2, Window
    <3>4. QED
      BY <3>1, <3>3
  <2>5. /\ W \in Nat
        /\ Total(low, u, T[u]) = Total(low, u, 0) + W * T[u]
    BY <1>2, <2>2, <2>3, Weighted
  <2>6. W * T[u] \in Int
    BY <2>3, <2>5
  <2>7. QED
    BY <2>1, <2>2, <2>4, <2>5, <2>6
<1>16. E \in Nat
  BY ValueType
<1> HIDE DEF E, W
<1>17. w * (W * E) = (W * w) * E
  BY <1>2, <1>15, <1>16
<1>18. ValueOf(f) = 2 ^ shift * E
  BY <1>2, <1>11, <1>12, <1>14, <1>15, <1>17 DEF ValueOf, W
<1>19. QED
  BY <1>12, <1>18 DEF n, E

(***************************************************************************)
(* The shift that sets the top bit of the denominator, and division with   *)
(* it.                                                                     *)
(***************************************************************************)
LEMMA Smallest ==
  ASSUME NEW S \in SUBSET Nat, S # {}
  PROVE  Min(S) \in S /\ \A y \in S : Min(S) =< y
<1>1. \E x \in S : \A y \in S : x <= y
  BY Least
<1>2. Min(S) = CHOOSE x \in S : \A y \in S : x <= y
  BY DEF Min
<1>3. QED
  BY <1>1, <1>2

(* How far the top bit of the denominator is from the top.                 *)
LEMMA TopShiftExact ==
  ASSUME NEW d \in Seq(DigitSet), d # <<>>, NEW top, top = d[Len(d)], top # 0, NEW s, s = TopShift(d)
  PROVE  s \in 0 .. (DigitBits - 1) /\ top * 2 ^ s \in Nat /\ top * 2 ^ s < Base /\ 2 * (top * 2 ^ s) >= Base
<1> DEFINE p(n) == 2 ^ n
           D == DigitBits
           h == D - 1
           S == {k \in 0 .. h : top * p(k) >= Base \div 2}
<1>1. D \in Nat /\ D > 1 /\ h \in Nat /\ h + 1 = D
  BY DigitBitsAssumption
<1>2. top \in DigitSet /\ top \in Nat /\ top >= 1 /\ top < Base /\ Base \in Nat
  <2>1. top \in DigitSet
    BY TopDigit
  <2>2. Base \in Nat /\ top \in 0 .. (Base - 1)
    BY <2>1, BaseType DEF DigitSet
  <2>3. QED
    BY <2>1, <2>2
<1>3. \A n \in Nat : p(n) \in Nat /\ p(n) > 0 /\ p(n + 1) = 2 * p(n)
  BY PowerOfTwo
<1>4. s = Min(S)
  BY DEF TopShift
<1>5. Base = p(D)
  BY DEF Base
<1>6. p(0) = 1
  <2>1. 2 ^ 0 = 1
    OBVIOUS
  <2>2. QED
    BY <2>1
<1> HIDE DEF p, D, h
<1>7. Base = 2 * p(h) /\ p(h) \in Nat /\ Base \div 2 = p(h)
  <2>1. Base = 2 * p(h) /\ p(h) \in Nat
    BY <1>1, <1>3, <1>5
  <2>2. \A x \in Nat : (2 * x) \div 2 = x
    OBVIOUS
  <2>3. QED
    BY <2>1, <2>2
<1>8. \A k \in Nat : top * p(k) \in Nat
  <2>1. ASSUME NEW k \in Nat PROVE top * p(k) \in Nat
    <3> DEFINE x == p(k)
    <3>1. x \in Nat
      BY <1>3
    <3> HIDE DEF x
    <3>2. top * x \in Nat
      BY <1>2, <3>1
    <3>3. QED
      BY <3>2 DEF x
  <2>2. QED
    BY <2>1
<1>9. h \in S
  <2>1. top * p(h) >= p(h)
    <3> DEFINE x == p(h)
    <3>1. x \in Nat
      BY <1>7
    <3> HIDE DEF x
    <3>2. top * x >= x
      BY <1>2, <3>1
    <3>3. QED
      BY <3>2 DEF x
  <2>2. QED
    BY <1>1, <1>7, <2>1
<1>10. s \in S /\ \A y \in S : s =< y
  <2>1. S \in SUBSET Nat /\ S # {}
    BY <1>1, <1>9
  <2> HIDE DEF S
  <2>2. QED
    BY <1>4, <2>1, Smallest
<1>11. s \in 0 .. h /\ s \in Nat /\ top * p(s) >= p(h)
  BY <1>1, <1>7, <1>10
<1>12. top * p(s) < Base
  <2>1. CASE s = 0
    <3>1. top * p(s) = top * 1
      BY <1>6, <2>1
    <3>2. QED
      BY <1>2, <3>1
  <2>2. CASE s # 0
    <3> DEFINE k == s - 1
    <3>1. k \in 0 .. h /\ k \in Nat /\ k + 1 = s /\ ~(s =< k)
      BY <1>1, <1>11, <2>2
    <3> HIDE DEF k
    <3>2. k \notin S
      BY <1>10, <3>1
    <3>3. top * p(k) < p(h)
      <4>1. ~(top * p(k) >= p(h))
        BY <1>7, <3>1, <3>2
      <4>2. QED
        BY SMTT(30), <1>7, <1>8, <3>1, <4>1
    <3>4. p(s) = 2 * p(k) /\ p(k) \in Nat
      BY <1>3, <3>1
    <3>5. top * (2 * p(k)) = 2 * (top * p(k))
      <4> DEFINE x == p(k)
      <4>1. x \in Nat
        BY <3>4
      <4> HIDE DEF x
      <4>2. top * (2 * x) = 2 * (top * x)
        BY <1>2, <4>1
      <4>3. QED
        BY <4>2 DEF x
    <3> DEFINE y == top * p(k)
    <3>6. y \in Nat /\ y < p(h) /\ top * p(s) = 2 * y
      BY <1>8, <3>1, <3>3, <3>4, <3>5
    <3> HIDE DEF y
    <3>7. 2 * y < 2 * p(h)
      BY <1>7, <3>6
    <3>8. QED
      BY <1>7, <3>6, <3>7
  <2>3. QED
    BY <2>1, <2>2
<1>13. top * p(s) \in Nat /\ 2 * (top * p(s)) >= Base
  BY SMTT(30), <1>7, <1>8, <1>11
<1>14. QED
  BY <1>11, <1>12, <1>13 DEF p, h, D

LEMMA ShiftWithin ==
  ASSUME NEW s \in 0 .. (DigitBits - 1)
  PROVE  s \div DigitBits = 0 /\ s % DigitBits = s /\ s \in Nat
<1> DEFINE D == DigitBits
           z == 0
<1>1. D \in Nat /\ D > 0 /\ s \in 0 .. (D - 1) /\ z \in Int
  BY DigitBitsAssumption
<1>2. D * z = 0
  BY <1>1
<1>3. s = D * z + s /\ s \in Int /\ s \in Nat
  BY <1>1, <1>2
<1> HIDE DEF D, z
<1>4. s % D = s /\ s \div D = z
  BY <1>1, <1>3, ModIs
<1>5. QED
  BY <1>3, <1>4 DEF D, z

(* The denominator with its top bit at the top.                            *)
LEMMA DenominatorShifted ==
  ASSUME NEW d, Normal(d), d # <<>>, NEW s, s = TopShift(d), NEW f, f = ShiftLeft(d, s)
  PROVE  s \in 0 .. (DigitBits - 1) /\ TopSet(f) /\ Len(f) = Len(d) /\ ValueOf(f) = 2 ^ s * ValueOf(d)
<1> DEFINE m == Len(d)
           top == d[m]
           w == 2 ^ s
           v == 2 ^ (DigitBits - s)
<1>1. d \in Seq(DigitSet) /\ top # 0
  BY DEF Normal
<1>2. m \in Nat /\ m >= 1 /\ DOMAIN d = 1 .. m /\ top \in DigitSet /\ top \in Nat
  <2>1. m \in Nat /\ DOMAIN d = 1 .. m /\ top \in DigitSet
    BY <1>1, SeqIsArray, TopDigit
  <2>2. top \in Nat
    BY <2>1, DigitsAre
  <2>3. m # 0
    BY <1>1
  <2>4. QED
    BY <2>1, <2>2, <2>3
<1>3. s \in 0 .. (DigitBits - 1) /\ top * w \in Nat /\ top * w < Base /\ 2 * (top * w) >= Base
  BY <1>1, TopShiftExact
<1>4. s \div DigitBits = 0 /\ s % DigitBits = s /\ s \in Nat
  BY <1>3, ShiftWithin
<1>5. w \in Nat /\ w > 0 /\ v \in Nat /\ v > 0 /\ Base = w * v
  <2> DEFINE b == s % DigitBits
  <2>1. 2 ^ b \in Nat /\ 2 ^ b > 0 /\ 2 ^ (DigitBits - b) \in Nat /\ 2 ^ (DigitBits - b) > 0
        /\ Base = 2 ^ b * 2 ^ (DigitBits - b)
    BY <1>4, ShiftParts
  <2> HIDE DEF b
  <2>2. b = s
    BY <1>4 DEF b
  <2>3. QED
    BY <2>1, <2>2
<1>6. f[m] = ((top * w) % Base) + Digit(d, m - 1) \div v /\ f \in [1 .. m -> Int]
  <2>1. f = [i \in 1 .. m |-> ((Digit(d, i - 0) * w) % Base) + Digit(d, (i - 1) - 0) \div v]
    BY <1>2, <1>4 DEF ShiftLeft
  <2>2. m \in 1 .. m /\ m - 0 = m /\ (m - 1) - 0 = m - 1 /\ Digit(d, m) = top
    BY <1>2 DEF Digit
  <2> HIDE DEF w, v, m, top
  <2>3. ASSUME NEW i \in Int PROVE Digit(d, i) \in Nat
    BY <1>1, SeqIsArray, DigitsAre DEF Digit, Terms
  <2>4. \A i \in 1 .. m : ((Digit(d, i - 0) * w) % Base) + Digit(d, (i - 1) - 0) \div v \in Int
    <3>1. ASSUME NEW i \in 1 .. m PROVE ((Digit(d, i - 0) * w) % Base) + Digit(d, (i - 1) - 0) \div v \in Int
      <4> DEFINE a == Digit(d, i - 0)
                 c == Digit(d, (i - 1) - 0)
      <4>1. a \in Nat /\ c \in Nat
        BY <2>3
      <4> HIDE DEF a, c
      <4>2. a * w \in Int
        BY <1>5, <4>1
      <4>3. (a * w) % Base \in Int /\ c \div v \in Int
        BY <1>5, <4>1, <4>2, Place, DivMod
      <4>4. QED
        BY <4>3 DEF a, c
    <3>2. QED
      BY <3>1
  <2>5. QED
    BY <2>1, <2>2, <2>4
<1> HIDE DEF w, v, m, top
<1>7. LeftRoom(d, s \div DigitBits, 2 ^ (DigitBits - (s % DigitBits)))
  <2>1. top \div v = 0
    <3> DEFINE z == 0
    <3>1. top < v
      <4>1. top >= v => top * w >= v * w
        BY <1>2, <1>5
      <4>2. v * w = w * v /\ w * v \in Nat
        BY <1>5
      <4>3. QED
        BY <1>2, <1>3, <1>5, <4>1, <4>2
    <3>2. v * z = 0
      BY <1>5
    <3>3. top = v * z + top /\ z \in Int /\ top \in 0 .. (v - 1) /\ top \in Int
      BY <1>2, <1>5, <3>1, <3>2
    <3> HIDE DEF z
    <3>4. top % v = top /\ top \div v = z
      BY <1>5, <3>3, ModIs
    <3>5. QED
      BY <3>4 DEF z
  <2>2. Digit(d, m) = top
    BY <1>2 DEF Digit, m, top
  <2>3. LeftRoom(d, 0, v)
    <3>1. 0 =< Len(d) /\ Len(d) - 0 = m /\ (Len(d) - 0 + 1) .. Len(d) = {}
      BY <1>2 DEF m
    <3>2. QED
      BY <2>1, <2>2, <3>1 DEF LeftRoom
  <2>4. QED
    BY <1>4, <2>3 DEF v
<1>8. f \in Seq(DigitSet) /\ Len(f) = m /\ ValueOf(f) = w * ValueOf(d)
  BY <1>1, <1>4, <1>7, ShiftLeftExact DEF w, m
<1>9. f[m] >= top * w
  <2> DEFINE a == top * w
             c == Digit(d, m - 1)
  <2>1. a \in Nat /\ a < Base /\ Base \in Nat
    BY <1>3, BaseType
  <2>2. c \in Nat /\ f[m] = (a % Base) + c \div v
    BY <1>1, <1>2, <1>6, SeqIsArray, DigitsAre DEF Digit, Terms
  <2> HIDE DEF a, c
  <2>3. a % Base = a
    BY <2>1
  <2>4. c \div v \in Nat
    BY <1>5, <2>2
  <2>5. QED
    BY <2>1, <2>2, <2>3, <2>4 DEF a
<1>10. TopSet(f)
  <2>1. f[m] \in Nat /\ f # <<>>
    <3>1. f # <<>> /\ f[Len(f)] \in DigitSet
      <4>1. f # <<>>
        BY <1>2, <1>8
      <4>2. QED
        BY <1>8, <4>1, TopDigit
    <3>2. f[m] \in DigitSet
      BY <1>8, <3>1
    <3>3. QED
      BY <3>1, <3>2, DigitsAre
  <2>2. 2 * f[m] >= Base /\ f[m] # 0
    <3> DEFINE a == top * w
               c == f[m]
    <3>1. a \in Nat /\ c \in Nat /\ c >= a /\ 2 * a >= Base /\ Base \in Nat /\ Base > 1
      BY <1>3, <1>9, <2>1, BaseType
    <3> HIDE DEF a, c
    <3>2. 2 * c >= Base /\ c # 0
      BY <3>1
    <3>3. QED
      BY <3>2 DEF c
  <2>3. QED
    BY <1>8, <2>1, <2>2 DEF TopSet, Normal
<1>11. QED
  BY <1>3, <1>8, <1>10 DEF w, m

LEMMA AppendNought ==
  ASSUME NEW e \in Seq(DigitSet)
  PROVE  Append(e, 0) \in Seq(DigitSet) /\ Len(Append(e, 0)) = Len(e) + 1 /\ ValueOf(Append(e, 0)) = ValueOf(e)
<1> DEFINE f == Append(e, 0)
           m == Len(e)
           n == m + 1
<1>1. m \in Nat /\ Terms(e, m, DigitSet) /\ 0 \in DigitSet
  BY SeqIsArray, DigitsAre
<1>2. f \in Seq(DigitSet) /\ Len(f) = n /\ (\A i \in 1 .. m : f[i] = e[i]) /\ f[n] = 0
  BY <1>1
<1>3. n \in Nat /\ m \in 0 .. n /\ \A i \in (m + 1) .. n : f[i] = 0
  BY <1>1, <1>2
<1> HIDE DEF f, m, n
<1>4. Terms(f, n, Int)
  BY <1>2, SeqIsArray, DigitTerms
<1>5. Total(f, n, 0) = Total(e, m, 0)
  BY <1>2, <1>3, <1>4, Longer
<1>6. QED
  BY <1>2, <1>5 DEF ValueOf, f, n, m

LEMMA NumeratorShifted ==
  ASSUME NEW e \in Seq(DigitSet), NEW s \in 0 .. (DigitBits - 1), NEW r, r = Norm(ShiftLeft(Append(e, 0), s))
  PROVE  Normal(r) /\ ValueOf(r) = 2 ^ s * ValueOf(e)
<1> DEFINE f == Append(e, 0)
           g == ShiftLeft(f, s)
           v == 2 ^ (DigitBits - s)
<1>1. f \in Seq(DigitSet) /\ Len(f) = Len(e) + 1 /\ ValueOf(f) = ValueOf(e)
  BY AppendNought
<1>2. Len(e) \in Nat /\ f[Len(e) + 1] = 0
  BY SeqIsArray
<1>3. s \div DigitBits = 0 /\ s % DigitBits = s /\ s \in Nat
  BY ShiftWithin
<1>4. v \in Nat /\ v > 0
  <2> DEFINE b == s % DigitBits
  <2>1. 2 ^ (DigitBits - b) \in Nat /\ 2 ^ (DigitBits - b) > 0
    BY <1>3, ShiftParts
  <2> HIDE DEF b
  <2>2. b = s
    BY <1>3 DEF b
  <2>3. QED
    BY <2>1, <2>2
<1> HIDE DEF f, v
<1>5. LeftRoom(f, s \div DigitBits, 2 ^ (DigitBits - (s % DigitBits)))
  <2>1. Digit(f, Len(f)) = 0
    <3>1. Len(f) \in DOMAIN f
      BY <1>1, <1>2, SeqIsArray
    <3>2. QED
      BY <1>1, <1>2, <3>1 DEF Digit
  <2>2. 0 \div v = 0
    <3>1. \A k \in Nat : k > 0 => 0 \div k = 0
      OBVIOUS
    <3>2. QED
      BY <1>4, <3>1
  <2>3. LeftRoom(f, 0, v)
    <3>1. 0 =< Len(f) /\ Len(f) - 0 = Len(f) /\ (Len(f) - 0 + 1) .. Len(f) = {}
      BY <1>1, <1>2
    <3>2. QED
      BY <2>1, <2>2, <3>1 DEF LeftRoom
  <2>4. QED
    BY <1>3, <2>3 DEF v
<1>6. g \in Seq(DigitSet) /\ ValueOf(g) = 2 ^ s * ValueOf(f)
  BY <1>1, <1>3, <1>5, ShiftLeftExact
<1> HIDE DEF g
<1>7. Normal(Norm(g)) /\ ValueOf(Norm(g)) = ValueOf(g)
  BY <1>6, NormExact
<1>8. r = Norm(g)
  BY DEF g, f
<1>9. QED
  BY <1>1, <1>6, <1>7, <1>8

(* A shift to the right is a division by a power of two.                   *)
LEMMA ShiftRightExact ==
  ASSUME NEW e \in Seq(DigitSet), NEW shift \in Nat, NEW f, f = Norm(ShiftRight(e, shift))
  PROVE  /\ Normal(f) /\ ValueOf(f) \in Nat /\ 2 ^ shift \in Nat /\ 2 ^ shift > 0 /\ Len(f) =< Len(e)
         /\ \E rest \in 0 .. (2 ^ shift - 1) : ValueOf(e) = 2 ^ shift * ValueOf(f) + rest
<1> DEFINE z == 0
           g == ShiftRightFill(e, shift, z)
<1>1. Fills(z, z) /\ z \in {0, -1}
  BY DigitsAre, BaseType DEF Fills
<1>2. f = Norm(g) /\ z = 0
  BY DEF ShiftRight
<1> HIDE DEF z
<1>3. /\ g \in Seq(DigitSet) /\ Len(g) = Len(e) /\ 2 ^ shift \in Nat /\ 2 ^ shift > 0
      /\ Rightward(e, g, shift, z)
  <2>1. g = ShiftRightFill(e, shift, z) /\ Fills(z, z) /\ z \in {0, -1}
    BY <1>1
  <2> HIDE DEF g
  <2>2. QED
    BY <2>1, ShiftRightFillExact
<1> HIDE DEF g
<1>4. Normal(Norm(g)) /\ ValueOf(Norm(g)) = ValueOf(g) /\ Len(Norm(g)) =< Len(g) /\ ValueOf(g) \in Nat
  BY <1>3, NormExact, ValueType
<1>5. Total(g, Len(e), z) = ValueOf(g) /\ Total(e, Len(e), z) = ValueOf(e)
  BY <1>2, <1>3 DEF ValueOf
<1>6. QED
  BY <1>2, <1>3, <1>4, <1>5 DEF Rightward

LEMMA ScaledDown ==
  ASSUME NEW p \in Nat, p > 0, NEW a \in Nat, NEW b \in Nat, NEW q \in Nat, NEW c \in Nat, NEW rest \in 0 .. (p - 1),
         NEW x, x = p * c + rest, p * a = (p * b) * q + x, x < p * b
  PROVE  a = b * q + c /\ c < b
<1> DEFINE y == b * q
           k == a - y - c
<1>1. y \in Nat /\ (p * b) * q = p * y
  OBVIOUS
<1> HIDE DEF y
<1>2. k \in Int /\ p * k = p * a - p * y - p * c
  BY <1>1
<1>3. p * a \in Int /\ p * y \in Int /\ p * c \in Int /\ p * b \in Int
  BY <1>1
<1>4. p * k = rest
  BY <1>1, <1>2, <1>3
<1> HIDE DEF k
<1>5. k = 0
  <2>1. k >= 1 => p * k >= p
    BY <1>2
  <2>2. k =< -1 => p * k =< -p
    BY <1>2
  <2>3. QED
    BY <1>2, <1>4, <2>1, <2>2
<1>6. a = y + c
  BY <1>1, <1>5 DEF k
<1>7. c < b
  <2>1. p * c < p * b
    BY <1>3
  <2>2. c >= b => p * c >= p * b
    OBVIOUS
  <2>3. QED
    BY <1>3, <2>1, <2>2
<1>8. QED
  BY <1>6, <1>7 DEF y

(* Long division is exact, whatever the digits: quotient and remainder     *)
(* have no leading noughts, make up the numerator, and the remainder is    *)
(* less than the denominator (bn_div, arith.cpp).                          *)
THEOREM DivExact ==
  ASSUME NEW num, Normal(num), NEW den, Normal(den), den # <<>>, ValueOf(den) =< ValueOf(num)
  PROVE  LET d == Div(num, den)
         IN  /\ Normal(d.quo) /\ Normal(d.rem)
             /\ ValueOf(num) = ValueOf(den) * ValueOf(d.quo) + ValueOf(d.rem)
             /\ ValueOf(d.rem) < ValueOf(den)
<1> DEFINE s == TopShift(den)
           p == 2 ^ s
           d == ShiftLeft(den, s)
           r == Norm(ShiftLeft(Append(num, 0), s))
           end == DivTurns(FirstTurn(d, r), d)
           quo == Norm(end.quo)
           rem == Norm(ShiftRight(end.rem, s))
           a == ValueOf(num)
           b == ValueOf(den)
<1>1. num \in Seq(DigitSet) /\ den \in Seq(DigitSet)
  BY DEF Normal
<1>2. s \in 0 .. (DigitBits - 1) /\ TopSet(d) /\ ValueOf(d) = p * b
  BY DenominatorShifted
<1>3. Normal(r) /\ ValueOf(r) = p * a
  BY <1>1, <1>2, NumeratorShifted
<1>4. s \in Nat /\ p \in Nat /\ p > 0
  BY <1>2, ShiftWithin, PowerOfTwo
<1>5. a \in Nat /\ b \in Nat /\ b =< a
  BY <1>1, ValueType
<1>6. Div(num, den) = [quo |-> quo, rem |-> rem]
  BY DEF Div, DivShifted, QuoRem, FirstTurn
<1> HIDE DEF s, p, d, r, a, b
<1>7. Len(d) =< Len(r)
  <2>1. p * b =< p * a
    <3>1. p * (a - b) \in Nat /\ p * (a - b) = p * a - p * b /\ p * a \in Nat /\ p * b \in Nat
      <4>1. a - b \in Nat
        BY <1>5
      <4>2. p * (a - b) \in Nat
        BY <1>4, <4>1
      <4>3. QED
        BY <1>4, <1>5, <4>2
    <3>2. QED
      BY <3>1
  <2>2. Normal(d) /\ ValueOf(d) =< ValueOf(r)
    BY <1>2, <1>3, <2>1 DEF TopSet
  <2>3. QED
    BY <1>3, <2>2, NoLonger
<1>8. Done(end, d, r)
  BY <1>2, <1>3, <1>7, DivTurnsExact DEF Normal
<1> HIDE DEF end
<1>9. end.quo \in Seq(DigitSet) /\ end.rem \in Seq(DigitSet)
  BY <1>8 DEF Done, DivStates
<1>10. Normal(quo) /\ ValueOf(quo) = ValueOf(end.quo) /\ ValueOf(quo) \in Nat
  BY <1>9, NormExact, ValueType
<1>11. Normal(rem) /\ ValueOf(rem) \in Nat
  BY <1>4, <1>9, ShiftRightExact
<1>12. PICK rest \in 0 .. (p - 1) : ValueOf(end.rem) = p * ValueOf(rem) + rest
  BY <1>4, <1>9, ShiftRightExact DEF p
<1> DEFINE x == ValueOf(end.rem)
           q == ValueOf(quo)
           c == ValueOf(rem)
<1>13. p * a = (p * b) * q + x /\ x < p * b /\ x = p * c + rest /\ q \in Nat /\ c \in Nat
  BY <1>2, <1>3, <1>8, <1>10, <1>11, <1>12 DEF Done
<1> HIDE DEF x, q, c, quo, rem
<1>14. a = b * q + c /\ c < b
  BY <1>4, <1>5, <1>13, ScaledDown
<1>15. QED
  BY <1>6, <1>10, <1>11, <1>14 DEF a, b, q, c

(***************************************************************************)
(* Integer division.                                                       *)
(***************************************************************************)
LEMMA SignedParts ==
  ASSUME NEW b, BignumObject(b)
  PROVE  /\ Sign(NumberOf(b)) = b.sign /\ Abs(NumberOf(b)) = ValueOf(b.elts) /\ NumberOf(b) \in Int
         /\ b.sign \in {-1, 0, 1} /\ ValueOf(b.elts) \in Nat /\ (b.sign = 0 <=> ValueOf(b.elts) = 0)
<1> DEFINE V == ValueOf(b.elts)
           s == b.sign
<1>1. s \in {-1, 0, 1} /\ NumberOf(b) = s * V /\ V \in Nat /\ (s = 0 <=> V = 0)
  BY BignumFields
<1> HIDE DEF V, s
<1>2. CASE s = 0
  BY <1>1, <1>2 DEF Sign, Abs, V, s
<1>3. CASE s = 1
  <2>1. NumberOf(b) = V /\ V > 0
    BY <1>1, <1>3
  <2>2. QED
    BY <1>1, <1>3, <2>1 DEF Sign, Abs, V, s
<1>4. CASE s = -1
  <2>1. NumberOf(b) = -V /\ V > 0
    BY <1>1, <1>4
  <2>2. Sign(-V) = -1 /\ Abs(-V) = V /\ -V \in Int
    BY <1>1, <2>1 DEF Sign, Abs
  <2>3. QED
    BY <1>1, <1>4, <2>1, <2>2 DEF V, s
<1>5. QED
  BY <1>1, <1>2, <1>3, <1>4

(* A number that is 0, 1 or -1 is a fixnum, as words of three bits hold it.*)
LEMMA SmallFixnum ==
  ASSUME NEW n \in {-1, 0, 1}, DigitBits > 2
  PROVE  IntegerObject(Fixnum(n)) /\ NumberOf(Fixnum(n)) = n
<1> DEFINE k == DigitBits - 3
           q == 2 ^ k
<1>1. k \in Nat /\ k + 1 = DigitBits - 2
  BY DigitBitsAssumption
<1>2. 2 ^ (k + 1) = 2 * q /\ q \in Nat /\ q > 0
  BY <1>1, PowerOfTwo
<1>3. FixnumMin = -(2 * q) /\ FixnumMax = 2 * q - 1
  BY <1>1, <1>2 DEF FixnumMin, FixnumMax
<1> HIDE DEF q
<1>4. n \in FixnumMin .. FixnumMax
  BY <1>2, <1>3
<1>5. QED
  BY <1>4 DEF IntegerObject, Fixnum, NumberOf, IsFixnum

(* What the digits of two numbers divide to.                               *)
LEMMA MagnitudesDivided ==
  ASSUME NEW l, Normal(l), NEW r, Normal(r), r # <<>>
  PROVE  LET L == ValueOf(l)
             R == ValueOf(r)
             test == Cmp(l, r)
         IN  /\ L \in Nat /\ R \in Nat /\ R > 0 /\ L \div R \in Nat /\ L % R \in Nat /\ L = R * (L \div R) + (L % R)
             /\ test < 0 => L \div R = 0 /\ L % R = L
             /\ test = 0 => L \div R = 1 /\ L % R = 0
             /\ ~(test < 0) /\ test # 0 => /\ Normal(Div(l, r).quo) /\ ValueOf(Div(l, r).quo) = L \div R
                                           /\ Normal(Div(l, r).rem) /\ ValueOf(Div(l, r).rem) = L % R
<1> DEFINE L == ValueOf(l)
           R == ValueOf(r)
           test == Cmp(l, r)
<1>1. L \in Nat /\ R \in Nat /\ R > 0
  <2>1. L \in Nat /\ R \in Nat /\ R # 0
    BY ValueSizes
  <2> HIDE DEF L, R
  <2>2. QED
    BY <2>1
<1>2. test = Sign(L - R)
  BY CmpExact
<1>3. L \div R \in Nat /\ L % R \in 0 .. (R - 1) /\ L = R * (L \div R) + (L % R)
  <2> HIDE DEF L, R
  <2>1. L \div R \in Int /\ L % R \in 0 .. (R - 1) /\ L = R * (L \div R) + (L % R)
    BY <1>1, DivMod
  <2>2. L \div R =< -1 => R * (L \div R) =< -R
    BY <1>1, <2>1
  <2>3. R * (L \div R) \in Int
    BY <1>1, <2>1
  <2>4. QED
    BY <1>1, <2>1, <2>2, <2>3
<1>4. ASSUME test < 0 PROVE L \div R = 0 /\ L % R = L
  <2> HIDE DEF L, R, test
  <2> DEFINE z == 0
  <2>1. L < R
    BY <1>1, <1>2, <1>4 DEF Sign
  <2>2. L = R * z + L /\ z \in Int /\ L \in 0 .. (R - 1) /\ L \in Int
    BY <1>1, <2>1
  <2> HIDE DEF z
  <2>3. L % R = L /\ L \div R = z
    BY <1>1, <2>2, ModIs
  <2>4. QED
    BY <2>3 DEF z
<1>5. ASSUME test = 0 PROVE L \div R = 1 /\ L % R = 0
  <2> HIDE DEF L, R, test
  <2> DEFINE z == 0
             o == 1
  <2>1. L = R
    BY <1>1, <1>2, <1>5 DEF Sign
  <2>2. L = R * o + z /\ o \in Int /\ z \in 0 .. (R - 1) /\ L \in Int
    BY <1>1, <2>1
  <2> HIDE DEF z, o
  <2>3. L % R = z /\ L \div R = o
    BY <1>1, <2>2, ModIs
  <2>4. QED
    BY <2>3 DEF z, o
<1>6. ASSUME ~(test < 0), test # 0
      PROVE  /\ Normal(Div(l, r).quo) /\ ValueOf(Div(l, r).quo) = L \div R
             /\ Normal(Div(l, r).rem) /\ ValueOf(Div(l, r).rem) = L % R
  <2>1. R =< L
    <3> HIDE DEF L, R, test
    <3>1. QED
      BY <1>1, <1>2, <1>6 DEF Sign
  <2> DEFINE d == Div(l, r)
             q == ValueOf(d.quo)
             c == ValueOf(d.rem)
  <2>2. Normal(d.quo) /\ Normal(d.rem) /\ L = R * q + c /\ c < R
    BY <2>1, DivExact
  <2>3. q \in Nat /\ c \in Nat
    BY <2>2, ValueSizes
  <2> HIDE DEF d, q, c, L, R
  <2>4. L % R = c /\ L \div R = q
    <3>1. q \in Int /\ c \in 0 .. (R - 1) /\ L \in Int
      BY <1>1, <2>2, <2>3
    <3>2. QED
      BY <1>1, <2>2, <3>1, ModIs
  <2>5. QED
    BY <2>2, <2>4 DEF d, q, c
<1>7. QED
  BY <1>1, <1>3, <1>4, <1>5, <1>6

MagnitudesDivide(l, r) ==
  LET L == ValueOf(l)
      R == ValueOf(r)
      test == Cmp(l, r)
  IN  /\ L \in Nat /\ R \in Nat /\ R > 0 /\ L \div R \in Nat
      /\ test < 0 => L \div R = 0
      /\ test = 0 => L \div R = 1
      /\ ~(test < 0) /\ test # 0 => Normal(Div(l, r).quo) /\ ValueOf(Div(l, r).quo) = L \div R

LEMMA MagnitudesAreDivided ==
  ASSUME NEW l, Normal(l), NEW r, Normal(r), r # <<>>
  PROVE  MagnitudesDivide(l, r)
BY MagnitudesDivided DEF MagnitudesDivide

(* The quotient and the remainder of two bignums, towards zero.            *)
LEMMA OprtrQuotientExact ==
  ASSUME NEW l, NEW r, BignumObject(l), BignumObject(r), r.sign # 0, DigitBits > 2
  PROVE  IntegerObject(OprtrQuotient(l, r)) /\ NumberOf(OprtrQuotient(l, r)) = CQuo(NumberOf(l), NumberOf(r))
<1> DEFINE L == ValueOf(l.elts)
           R == ValueOf(r.elts)
           q == L \div R
           x == OprtrQuotient(l, r)
           test == Cmp(l.elts, r.elts)
           sign == l.sign * r.sign
           d == Div(l.elts, r.elts)
<1>1. Normal(l.elts) /\ Normal(r.elts) /\ r.elts # <<>>
  BY BignumFields
<1>2. /\ L \in Nat /\ R \in Nat /\ R > 0 /\ q \in Nat
      /\ test < 0 => q = 0
      /\ test = 0 => q = 1
      /\ ~(test < 0) /\ test # 0 => Normal(d.quo) /\ ValueOf(d.quo) = q
  <2>1. MagnitudesDivide(l.elts, r.elts)
    BY <1>1, MagnitudesAreDivided
  <2>2. QED
    BY <2>1 DEF MagnitudesDivide
<1>3. /\ Sign(NumberOf(l)) = l.sign /\ Abs(NumberOf(l)) = L /\ l.sign \in {-1, 0, 1} /\ (l.sign = 0 <=> L = 0)
      /\ Sign(NumberOf(r)) = r.sign /\ Abs(NumberOf(r)) = R /\ r.sign \in {-1, 1}
  BY SignedParts
<1>4. CQuo(NumberOf(l), NumberOf(r)) = sign * q
  BY <1>3 DEF CQuo
<1>5. sign \in {-1, 0, 1} /\ (sign = 0 <=> l.sign = 0)
  BY <1>3
<1>0. l.sign = 0 => test < 0
  <2>1. test = Sign(L - R)
    BY <1>1, CmpExact
  <2> HIDE DEF L, R, test
  <2>2. QED
    BY <1>2, <1>3, <2>1 DEF Sign
<1>6. /\ (l.sign = 0 \/ test < 0) => x = Fixnum(0)
      /\ l.sign # 0 /\ ~(test < 0) /\ test = 0 => x = Fixnum(sign)
      /\ l.sign # 0 /\ ~(test < 0) /\ test # 0 => x = Make(sign, d.quo)
  <2>1. CASE l.sign = 0 \/ test < 0
    <3>1. ~(test = 0)
      <4> HIDE DEF test
      <4>1. QED
        BY <1>0, <2>1
    <3>2. QED
      BY <2>1, <3>1 DEF OprtrQuotient
  <2>2. CASE l.sign # 0 /\ ~(test < 0) /\ test = 0
    BY <2>2 DEF OprtrQuotient
  <2>3. CASE l.sign # 0 /\ ~(test < 0) /\ test # 0
    BY <2>3 DEF OprtrQuotient
  <2>4. QED
    BY <2>1, <2>2, <2>3
<1> HIDE DEF L, R, q, x, test, sign, d
<1>7. CASE l.sign = 0 \/ test < 0
  <2>1. x = Fixnum(0)
    BY <1>6, <1>7
  <2>2. sign * q = 0
    BY <1>2, <1>5, <1>7
  <2>3. IntegerObject(Fixnum(0)) /\ NumberOf(Fixnum(0)) = 0
    BY SmallFixnum
  <2>4. QED
    BY <1>4, <2>1, <2>2, <2>3 DEF x
<1>8. CASE l.sign # 0 /\ ~(test < 0) /\ test = 0
  <2>1. x = Fixnum(sign)
    BY <1>6, <1>8
  <2>2. sign * q = sign
    BY <1>2, <1>5, <1>8
  <2>3. IntegerObject(Fixnum(sign)) /\ NumberOf(Fixnum(sign)) = sign
    BY <1>5, SmallFixnum
  <2>4. QED
    BY <1>4, <2>1, <2>2, <2>3 DEF x
<1>9. CASE l.sign # 0 /\ ~(test < 0) /\ test # 0
  <2>1. x = Make(sign, d.quo)
    BY <1>6, <1>9
  <2>2. sign \in {-1, 1} /\ d.quo \in Seq(DigitSet)
    BY <1>2, <1>5, <1>9 DEF Normal
  <2>3. IntegerObject(Make(sign, d.quo)) /\ NumberOf(Make(sign, d.quo)) = sign * ValueOf(d.quo)
    BY <2>2, MakeExact
  <2>4. QED
    BY <1>2, <1>4, <1>9, <2>1, <2>3 DEF x
<1>10. QED
  BY <1>7, <1>8, <1>9

(* The signs of a remainder: that of the number divided.                   *)
LEMMA RemainderSigned ==
  ASSUME NEW s \in {-1, 0, 1}, NEW t \in {-1, 1}, NEW L \in Nat, NEW R \in Nat, NEW q \in Nat, NEW c \in Nat,
         L = R * q + c
  PROVE  s * L - (t * R) * ((s * t) * q) = s * c
<1> DEFINE p == R * q
<1>1. p \in Int /\ L = p + c
  OBVIOUS
<1>2. (t * R) * ((s * t) * q) = s * p
  <2>1. CASE s = 0
    BY <2>1
  <2>2. CASE s = 1 /\ t = 1
    BY <2>2
  <2>3. CASE s = 1 /\ t = -1
    <3>1. (-R) * ((-1) * q) = R * q
      OBVIOUS
    <3>2. QED
      BY <2>3, <3>1
  <2>4. CASE s = -1 /\ t = 1
    <3>1. R * ((-1) * q) = -(R * q)
      OBVIOUS
    <3>2. QED
      BY <2>4, <3>1
  <2>5. CASE s = -1 /\ t = -1
    <3>1. (-R) * q = -(R * q)
      OBVIOUS
    <3>2. QED
      BY <2>5, <3>1
  <2>6. QED
    BY <2>1, <2>2, <2>3, <2>4, <2>5
<1> HIDE DEF p
<1>3. s * L - s * p = s * c
  <2>1. CASE s = 0
    BY <1>1, <2>1
  <2>2. CASE s = 1
    BY <1>1, <2>2
  <2>3. CASE s = -1
    BY <1>1, <2>3
  <2>4. QED
    BY <2>1, <2>2, <2>3
<1>4. QED
  BY <1>2, <1>3

LEMMA OprtrRemainderExact ==
  ASSUME NEW l, NEW r, BignumObject(l), BignumObject(r), r.sign # 0, DigitBits > 2
  PROVE  IntegerObject(OprtrRemainder(l, r)) /\ NumberOf(OprtrRemainder(l, r)) = CRem(NumberOf(l), NumberOf(r))
<1> DEFINE L == ValueOf(l.elts)
           R == ValueOf(r.elts)
           q == L \div R
           c == L % R
           x == OprtrRemainder(l, r)
           test == Cmp(l.elts, r.elts)
           d == Div(l.elts, r.elts)
<1>1. Normal(l.elts) /\ Normal(r.elts) /\ r.elts # <<>> /\ NumberOf(l) = l.sign * L /\ NumberOf(r) = r.sign * R
  BY BignumFields
<1>2. /\ L \in Nat /\ R \in Nat /\ R > 0 /\ q \in Nat /\ c \in Nat /\ L = R * q + c
      /\ test < 0 => c = L
      /\ test = 0 => c = 0
      /\ ~(test < 0) /\ test # 0 => Normal(d.rem) /\ ValueOf(d.rem) = c
  BY <1>1, MagnitudesDivided
<1>3. /\ Sign(NumberOf(l)) = l.sign /\ Abs(NumberOf(l)) = L /\ l.sign \in {-1, 0, 1} /\ (l.sign = 0 <=> L = 0)
      /\ Sign(NumberOf(r)) = r.sign /\ Abs(NumberOf(r)) = R /\ r.sign \in {-1, 1}
  BY SignedParts
<1>4. CRem(NumberOf(l), NumberOf(r)) = l.sign * c
  <2>1. CRem(NumberOf(l), NumberOf(r)) = l.sign * L - (r.sign * R) * ((l.sign * r.sign) * q)
    BY <1>1, <1>3 DEF CRem, CQuo
  <2> HIDE DEF L, R, q, c
  <2>2. QED
    BY <1>2, <1>3, <2>1, RemainderSigned
<1>5. test = Sign(L - R)
  BY <1>1, CmpExact
<1>6. l.sign = 0 => test < 0 /\ test # 0
  <2> HIDE DEF L, R, test
  <2>1. QED
    BY <1>2, <1>3, <1>5 DEF Sign
<1>7. /\ l.sign = 0 => x = Fixnum(0) \/ x = ToInteger(l)
      /\ l.sign # 0 /\ test < 0 => x = ToInteger(l)
      /\ l.sign # 0 /\ ~(test < 0) /\ test = 0 => x = Fixnum(0)
      /\ l.sign # 0 /\ ~(test < 0) /\ test # 0 => x = Make(l.sign, d.rem)
  <2>1. CASE l.sign = 0
    BY <2>1 DEF OprtrRemainder
  <2>2. CASE l.sign # 0 /\ test < 0
    <3>1. test # 0
      <4> HIDE DEF test
      <4>1. QED
        BY <2>2
    <3>2. QED
      BY <2>2, <3>1 DEF OprtrRemainder
  <2>3. CASE l.sign # 0 /\ ~(test < 0) /\ test = 0
    BY <2>3 DEF OprtrRemainder
  <2>4. CASE l.sign # 0 /\ ~(test < 0) /\ test # 0
    BY <2>4 DEF OprtrRemainder
  <2>5. QED
    BY <2>1, <2>2, <2>3, <2>4
<1>8. IntegerObject(ToInteger(l)) /\ NumberOf(ToInteger(l)) = l.sign * L
  <2>1. l.sign \in {-1, 0, 1} /\ Normal(l.elts) /\ (l.sign = 0 => l.elts = <<>>) /\ l = Big(l.sign, l.elts)
    BY BignumFields
  <2>2. QED
    BY <2>1, ToIntegerExact
<1>9. IntegerObject(Fixnum(0)) /\ NumberOf(Fixnum(0)) = 0
  BY SmallFixnum
<1> HIDE DEF L, R, q, c, x, test, d
<1>10. CASE l.sign = 0
  <2>1. l.sign * L = 0 /\ l.sign * c = 0
    BY <1>2, <1>10
  <2>2. QED
    BY <1>4, <1>7, <1>8, <1>9, <1>10, <2>1 DEF x
<1>11. CASE l.sign # 0 /\ test < 0
  BY <1>2, <1>4, <1>7, <1>8, <1>11 DEF x
<1>12. CASE l.sign # 0 /\ ~(test < 0) /\ test = 0
  <2>1. l.sign * c = 0
    BY <1>2, <1>3, <1>12
  <2>2. QED
    BY <1>4, <1>7, <1>9, <1>12, <2>1 DEF x
<1>13. CASE l.sign # 0 /\ ~(test < 0) /\ test # 0
  <2>1. x = Make(l.sign, d.rem)
    BY <1>7, <1>13
  <2>2. l.sign \in {-1, 1} /\ d.rem \in Seq(DigitSet)
    BY <1>2, <1>3, <1>13 DEF Normal
  <2>3. IntegerObject(Make(l.sign, d.rem)) /\ NumberOf(Make(l.sign, d.rem)) = l.sign * ValueOf(d.rem)
    BY <2>2, MakeExact
  <2>4. QED
    BY <1>2, <1>4, <1>13, <2>1, <2>3 DEF x
<1>14. QED
  BY <1>10, <1>11, <1>12, <1>13

(* What fits a fixnum is made one as it is; the one quotient that does not *)
(* is made the least.                                                      *)
LEMMA MakeFixnumExact ==
  ASSUME NEW n \in FixnumMin .. FixnumMax
  PROVE  MakeFixnum(n) = Fixnum(n) /\ IntegerObject(MakeFixnum(n)) /\ NumberOf(MakeFixnum(n)) = n
<1> DEFINE k == DigitBits - 2
           p == 2 ^ k
           z == 0
           m == n + p
           w == 2 * p
<1>1. k \in Nat /\ k + 1 = DigitBits - 1
  BY DigitBitsAssumption
<1>2. 2 ^ (k + 1) = 2 * p /\ p \in Nat /\ p > 0
  BY <1>1, PowerOfTwo
<1>3. FixnumMin = -p /\ FixnumMax = p - 1 /\ 2 ^ (DigitBits - 1) = w
  BY <1>1, <1>2 DEF FixnumMin, FixnumMax
<1> HIDE DEF p
<1>4. w \in Nat /\ w > 0 /\ z \in Int /\ m = w * z + m /\ m \in 0 .. (w - 1) /\ m \in Int /\ n - FixnumMin = m
  BY <1>2, <1>3
<1>5. m + FixnumMin = n
  BY <1>2, <1>3
<1> HIDE DEF m, w, z
<1>6. m % w = m
  BY <1>4, ModIs
<1>7. MakeFixnum(n) = Fixnum(n)
  BY <1>3, <1>4, <1>5, <1>6 DEF MakeFixnum
<1>8. QED
  BY <1>7 DEF IntegerObject, Fixnum, NumberOf, IsFixnum

(* Quotients and remainders of fixnums.                                    *)
LEMMA SmallQuotients ==
  ASSUME NEW a \in FixnumMin .. FixnumMax, NEW b \in FixnumMin .. FixnumMax, b # 0
  PROVE  /\ CQuo(a, b) \in FixnumMin .. FixnumMax \/ (a = FixnumMin /\ b = -1 /\ CQuo(a, b) = -FixnumMin)
         /\ CRem(a, b) \in FixnumMin .. FixnumMax
<1> DEFINE A == Abs(a)
           B == Abs(b)
           q == A \div B
           c == A % B
           F == FixnumMax
           s == Sign(a)
           t == Sign(b)
<1>1. FixnumMin = -F - 1 /\ F \in Nat
  BY FixnumSizes
<1> HIDE DEF F
<1>2. /\ A \in Nat /\ B \in Nat /\ B > 0 /\ s \in {-1, 0, 1} /\ t \in {-1, 1} /\ a = s * A /\ b = t * B
      /\ A =< F + 1 /\ (A = F + 1 => a = FixnumMin) /\ (B = 1 /\ t = -1 => b = -1) /\ (s = 0 => A = 0)
  BY <1>1 DEF Abs, Sign, F
<1>3. CQuo(a, b) = (s * t) * q /\ CRem(a, b) = s * A - (t * B) * ((s * t) * q)
  BY <1>2 DEF CRem, CQuo
<1> HIDE DEF A, B, s, t
<1>4. q \in Nat /\ c \in Nat /\ c < B /\ A = B * q + c
  <2>1. q \in Int /\ c \in 0 .. (B - 1) /\ A = B * q + c
    BY <1>2, DivMod
  <2> HIDE DEF q, c
  <2>2. q =< -1 => B * q =< -B
    BY <1>2, <2>1
  <2>3. B * q \in Int
    BY <1>2, <2>1
  <2>4. QED
    BY <1>2, <2>1, <2>2, <2>3
<1> HIDE DEF q, c
<1>5. CRem(a, b) = s * c
  BY <1>2, <1>3, <1>4, RemainderSigned
<1>6. c =< A /\ q =< A /\ (B >= 2 => 2 * q =< A)
  <2>1. B * q \in Int /\ B * q >= q /\ (B >= 2 => B * q >= 2 * q)
    BY <1>2, <1>4
  <2>2. QED
    BY <1>2, <1>4, <2>1
<1>7. CRem(a, b) \in FixnumMin .. FixnumMax
  <2>1. c =< F
    BY <1>1, <1>2, <1>4, <1>6 DEF B, Abs, F
  <2>2. QED
    BY <1>1, <1>2, <1>4, <1>5, <2>1 DEF F
<1>8. CQuo(a, b) \in FixnumMin .. FixnumMax \/ (a = FixnumMin /\ b = -1 /\ CQuo(a, b) = -FixnumMin)
  <2> DEFINE u == s * t
  <2>1. u \in {-1, 0, 1} /\ CQuo(a, b) = u * q
    BY <1>2, <1>3
  <2> HIDE DEF u
  <2>2. CASE q =< F
    BY <1>1, <1>4, <2>1, <2>2 DEF F
  <2>3. CASE q > F /\ u # 1
    <3>1. q = F + 1
      BY <1>1, <1>2, <1>4, <1>6, <2>3
    <3>2. QED
      BY <1>1, <1>4, <2>1, <2>3, <3>1 DEF F
  <2>4. CASE q > F /\ u = 1
    <3>1. q = F + 1 /\ A = F + 1 /\ B = 1
      BY <1>1, <1>2, <1>4, <1>6, <2>4
    <3>2. a = FixnumMin /\ a < 0
      BY <1>1, <1>2, <3>1
    <3>3. s = -1
      BY <3>2, <1>1, <1>2 DEF s, Sign
    <3>4. t = -1
      BY <1>2, <2>4, <3>3 DEF u
    <3>5. QED
      BY <1>1, <1>2, <2>1, <2>4, <3>1, <3>2, <3>4
  <2>5. QED
    BY <1>1, <1>4, <2>1, <2>2, <2>3, <2>4
<1>9. QED
  BY <1>7, <1>8

(* The one quotient that is no fixnum.                                     *)
LEMMA LeastNegated == MakeFixnum(-FixnumMin) = Fixnum(FixnumMin)
<1> DEFINE k == DigitBits - 2
           p == 2 ^ k
           z == 0
           o == 1
           m == 2 * p
<1>1. k \in Nat /\ k + 1 = DigitBits - 1
  BY DigitBitsAssumption
<1>2. 2 ^ (k + 1) = 2 * p /\ p \in Nat /\ p > 0
  BY <1>1, PowerOfTwo
<1>3. FixnumMin = -p /\ 2 ^ (DigitBits - 1) = m
  BY <1>1, <1>2 DEF FixnumMin
<1> HIDE DEF p
<1>4. m \in Nat /\ m > 0 /\ m = m * o + z /\ o \in Int /\ z \in 0 .. (m - 1) /\ m \in Int
  BY <1>2
<1>5. -FixnumMin - FixnumMin = m /\ z + FixnumMin = FixnumMin
  BY <1>2, <1>3
<1> HIDE DEF m, o, z
<1>6. m % m = z
  BY <1>4, ModIs
<1>7. QED
  BY <1>3, <1>5, <1>6 DEF MakeFixnum

(* Two integers of which the second is not zero, as bignums.               *)
LEMMA DividedIntegers ==
  ASSUME NEW x, NEW y, IntegerObject(x), IntegerObject(y), NumberOf(y) # 0
  PROVE  /\ BignumObject(AsBignum(x)) /\ NumberOf(AsBignum(x)) = NumberOf(x) /\ NumberOf(x) \in Int
         /\ BignumObject(AsBignum(y)) /\ NumberOf(AsBignum(y)) = NumberOf(y) /\ NumberOf(y) \in Int
         /\ AsBignum(y).sign # 0
         /\ BothFixnums(x, y) => /\ x.n \in FixnumMin .. FixnumMax /\ NumberOf(x) = x.n /\ x = Fixnum(x.n)
                                 /\ y.n \in FixnumMin .. FixnumMax /\ NumberOf(y) = y.n /\ y = Fixnum(y.n)
<1>1. /\ BignumObject(AsBignum(x)) /\ NumberOf(AsBignum(x)) = NumberOf(x) /\ NumberOf(x) \in Int
      /\ IsFixnum(x) => x.n \in FixnumMin .. FixnumMax /\ NumberOf(x) = x.n
  BY AsBignumExact
<1>2. /\ BignumObject(AsBignum(y)) /\ NumberOf(AsBignum(y)) = NumberOf(y) /\ NumberOf(y) \in Int
      /\ IsFixnum(y) => y.n \in FixnumMin .. FixnumMax /\ NumberOf(y) = y.n
  BY AsBignumExact
<1>3. AsBignum(y).sign # 0
  <2> DEFINE b == AsBignum(y)
             V == ValueOf(b.elts)
  <2>1. NumberOf(b) = b.sign * V /\ V \in Nat
    BY <1>2, BignumFields
  <2> HIDE DEF V, b
  <2>2. b.sign # 0
    BY <1>2, <2>1 DEF b
  <2>3. QED
    BY <2>2 DEF b
<1>4. ASSUME NEW z, IntegerObject(z), IsFixnum(z)
      PROVE  z = Fixnum(z.n)
  <2>1. ~BignumObject(z)
    BY <1>4, BignumFields
  <2>2. PICK n \in FixnumMin .. FixnumMax : z = Fixnum(n)
    BY <1>4, <2>1 DEF IntegerObject
  <2>3. QED
    BY <2>2 DEF Fixnum
<1>5. QED
  BY <1>1, <1>2, <1>3, <1>4 DEF BothFixnums

(***************************************************************************)
(* quotient is the quotient towards zero, but that of the least fixnum by  *)
(* -1, which arith_quotient makes the least fixnum: MAKEFIXNUM keeps the   *)
(* bits that a fixnum has.                                                 *)
(***************************************************************************)
THEOREM QuotientExact ==
  ASSUME DigitBits > 2, NEW x, NEW y, IntegerObject(x), IntegerObject(y), NumberOf(y) # 0
  PROVE  LET q == Quotient(x, y)
         IN  /\ IntegerObject(q)
             /\ \/ NumberOf(q) = CQuo(NumberOf(x), NumberOf(y))
                \/ x = Fixnum(FixnumMin) /\ y = Fixnum(-1) /\ q = Fixnum(FixnumMin)
<1>1. /\ BignumObject(AsBignum(x)) /\ NumberOf(AsBignum(x)) = NumberOf(x) /\ NumberOf(x) \in Int
      /\ BignumObject(AsBignum(y)) /\ NumberOf(AsBignum(y)) = NumberOf(y) /\ NumberOf(y) \in Int
      /\ AsBignum(y).sign # 0
      /\ BothFixnums(x, y) => /\ x.n \in FixnumMin .. FixnumMax /\ NumberOf(x) = x.n /\ x = Fixnum(x.n)
                              /\ y.n \in FixnumMin .. FixnumMax /\ NumberOf(y) = y.n /\ y = Fixnum(y.n)
  BY DividedIntegers
<1>2. CASE ~BothFixnums(x, y)
  <2>1. Quotient(x, y) = OprtrQuotient(AsBignum(x), AsBignum(y))
    BY <1>2 DEF Quotient
  <2> DEFINE l == AsBignum(x)
             r == AsBignum(y)
  <2>2. BignumObject(l) /\ BignumObject(r) /\ r.sign # 0 /\ NumberOf(l) = NumberOf(x) /\ NumberOf(r) = NumberOf(y)
    BY <1>1
  <2> HIDE DEF l, r
  <2>3. IntegerObject(OprtrQuotient(l, r)) /\ NumberOf(OprtrQuotient(l, r)) = CQuo(NumberOf(l), NumberOf(r))
    BY <2>2, OprtrQuotientExact
  <2>4. IntegerObject(Quotient(x, y)) /\ NumberOf(Quotient(x, y)) = CQuo(NumberOf(x), NumberOf(y))
    BY <2>1, <2>2, <2>3 DEF l, r
  <2>5. QED
    BY <2>4
<1>3. CASE BothFixnums(x, y)
  <2> DEFINE c == CQuo(x.n, y.n)
  <2>1. Quotient(x, y) = MakeFixnum(c) /\ CQuo(NumberOf(x), NumberOf(y)) = c
    BY <1>1, <1>3 DEF Quotient
  <2>2. c \in FixnumMin .. FixnumMax \/ (x.n = FixnumMin /\ y.n = -1 /\ c = -FixnumMin)
    BY <1>1, <1>3, SmallQuotients
  <2> HIDE DEF c
  <2>3. CASE c \in FixnumMin .. FixnumMax
    <3>1. IntegerObject(MakeFixnum(c)) /\ NumberOf(MakeFixnum(c)) = c
      BY <2>3, MakeFixnumExact
    <3>2. IntegerObject(Quotient(x, y)) /\ NumberOf(Quotient(x, y)) = CQuo(NumberOf(x), NumberOf(y))
      BY <2>1, <3>1
    <3>3. QED
      BY <3>2
  <2>4. CASE x.n = FixnumMin /\ y.n = -1 /\ c = -FixnumMin
    <3>1. Quotient(x, y) = Fixnum(FixnumMin)
      BY <2>1, <2>4, LeastNegated
    <3>2. x = Fixnum(FixnumMin) /\ y = Fixnum(-1)
      BY <1>1, <1>3, <2>4
    <3>3. QED
      BY <3>1, <3>2
  <2>5. QED
    BY <2>2, <2>3, <2>4
<1>4. QED
  BY <1>2, <1>3

(***************************************************************************)
(* remainder is what the quotient towards zero leaves, and has the sign of *)
(* the number divided.                                                     *)
(***************************************************************************)
THEOREM RemainderExact ==
  ASSUME DigitBits > 2, NEW x, NEW y, IntegerObject(x), IntegerObject(y), NumberOf(y) # 0
  PROVE  IntegerObject(Remainder(x, y)) /\ NumberOf(Remainder(x, y)) = CRem(NumberOf(x), NumberOf(y))
<1>1. /\ BignumObject(AsBignum(x)) /\ NumberOf(AsBignum(x)) = NumberOf(x) /\ NumberOf(x) \in Int
      /\ BignumObject(AsBignum(y)) /\ NumberOf(AsBignum(y)) = NumberOf(y) /\ NumberOf(y) \in Int
      /\ AsBignum(y).sign # 0
      /\ BothFixnums(x, y) => /\ x.n \in FixnumMin .. FixnumMax /\ NumberOf(x) = x.n /\ x = Fixnum(x.n)
                              /\ y.n \in FixnumMin .. FixnumMax /\ NumberOf(y) = y.n /\ y = Fixnum(y.n)
  BY DividedIntegers
<1>2. CASE ~BothFixnums(x, y)
  <2>1. Remainder(x, y) = OprtrRemainder(AsBignum(x), AsBignum(y))
    BY <1>2 DEF Remainder
  <2>2. QED
    BY <1>1, <2>1, OprtrRemainderExact
<1>3. CASE BothFixnums(x, y)
  <2> DEFINE c == CRem(x.n, y.n)
  <2>1. Remainder(x, y) = MakeFixnum(c) /\ CRem(NumberOf(x), NumberOf(y)) = c
    BY <1>1, <1>3 DEF Remainder
  <2>2. c \in FixnumMin .. FixnumMax
    BY <1>1, <1>3, SmallQuotients
  <2> HIDE DEF c
  <2>3. IntegerObject(MakeFixnum(c)) /\ NumberOf(MakeFixnum(c)) = c
    BY <2>2, MakeFixnumExact
  <2>4. QED
    BY <2>1, <2>3
<1>4. QED
  BY <1>2, <1>3

(* The remainder of C, by its size and its sign.                           *)
LEMMA RemainderFacts ==
  ASSUME NEW a \in Int, NEW b \in Int, b # 0
  PROVE  /\ CQuo(a, b) \in Int /\ CRem(a, b) \in Int /\ a = b * CQuo(a, b) + CRem(a, b)
         /\ Abs(CRem(a, b)) < Abs(b) /\ (a >= 0 => CRem(a, b) >= 0) /\ (a =< 0 => CRem(a, b) =< 0)
<1> DEFINE A == Abs(a)
           B == Abs(b)
           q == A \div B
           c == A % B
           s == Sign(a)
           t == Sign(b)
           k == CQuo(a, b)
           m == CRem(a, b)
<1>1. /\ A \in Nat /\ B \in Nat /\ B > 0 /\ s \in {-1, 0, 1} /\ t \in {-1, 1} /\ a = s * A /\ b = t * B
      /\ (a >= 0 => s >= 0) /\ (a =< 0 => s =< 0)
  BY DEF Abs, Sign
<1>2. k = (s * t) * q /\ m = s * A - (t * B) * ((s * t) * q) /\ m = a - b * k
  BY <1>1 DEF CRem, CQuo
<1> HIDE DEF A, B, s, t, k, m
<1>3. q \in Nat /\ c \in Nat /\ c < B /\ A = B * q + c
  <2>1. q \in Int /\ c \in 0 .. (B - 1) /\ A = B * q + c
    BY <1>1, DivMod
  <2> HIDE DEF q, c
  <2>2. q =< -1 => B * q =< -B
    BY <1>1, <2>1
  <2>3. B * q \in Int
    BY <1>1, <2>1
  <2>4. QED
    BY <1>1, <2>1, <2>2, <2>3
<1> HIDE DEF q, c
<1>4. m = s * c
  BY <1>1, <1>2, <1>3, RemainderSigned
<1>5. k \in Int /\ b * k \in Int
  BY <1>1, <1>2, <1>3
<1>6. m \in Int /\ a = b * k + m
  BY <1>2, <1>5
<1>7. Abs(m) < B /\ (a >= 0 => m >= 0) /\ (a =< 0 => m =< 0)
  BY <1>1, <1>3, <1>4 DEF Abs
<1>8. QED
  BY <1>5, <1>6, <1>7 DEF B, k, m

(* SignOf of an integer is the sign of its number.                         *)
LEMMA SignOfExact ==
  ASSUME NEW x, IntegerObject(x)
  PROVE  SignOf(x) = Sign(NumberOf(x)) /\ NumberOf(x) \in Int
<1>1. CASE BignumObject(x)
  <2>1. Sign(NumberOf(x)) = x.sign /\ NumberOf(x) \in Int
    BY <1>1, SignedParts
  <2>2. x.type = "bignum"
    BY <1>1, BignumFields DEF Big
  <2>3. QED
    BY <2>1, <2>2 DEF SignOf, IsFixnum
<1>2. CASE ~BignumObject(x)
  <2>1. PICK n \in FixnumMin .. FixnumMax : x = Fixnum(n)
    BY <1>2 DEF IntegerObject
  <2>2. x.type = "fixnum" /\ x.n = n
    BY <2>1 DEF Fixnum
  <2>3. SignOf(x) = Sign(n)
    BY <2>2 DEF SignOf, IsFixnum
  <2>4. NumberOf(x) = n
    BY <2>2 DEF NumberOf, IsFixnum
  <2>5. QED
    BY <2>3, <2>4
<1>3. QED
  BY <1>1, <1>2

(***************************************************************************)
(* modulo is congruent to the number divided, nearer to zero than the      *)
(* divisor, and never of the other sign than the divisor.                  *)
(***************************************************************************)
THEOREM ModuloExact ==
  ASSUME DigitBits > 2, NEW x, NEW y, IntegerObject(x), IntegerObject(y), NumberOf(y) # 0
  PROVE  LET a == NumberOf(x)
             b == NumberOf(y)
             m == NumberOf(Modulo(x, y))
         IN  /\ IntegerObject(Modulo(x, y))
             /\ \E k \in Int : a = b * k + m
             /\ (b > 0 => m \in 0 .. (b - 1)) /\ (b < 0 => m \in (b + 1) .. 0)
<1> DEFINE a == NumberOf(x)
           b == NumberOf(y)
           c == Remainder(x, y)
           e == NumberOf(c)
           u == Modulo(x, y)
           m == NumberOf(u)
           k == CQuo(a, b)
<1>1. a \in Int /\ b \in Int /\ b # 0
  BY AsBignumExact
<1>2. IntegerObject(c) /\ e = CRem(a, b)
  BY RemainderExact
<1>3. /\ k \in Int /\ e \in Int /\ a = b * k + e /\ Abs(e) < Abs(b)
  BY <1>1, <1>2, RemainderFacts
<1>4. SignOf(c) = Sign(e) /\ SignOf(y) = Sign(b)
  BY <1>2, SignOfExact
<1>5. IntegerObject(AddInt(c, y)) /\ NumberOf(AddInt(c, y)) = e + b
  BY <1>2, AddExact
<1>6. u = IF Sign(e) * Sign(b) < 0 THEN AddInt(c, y) ELSE c
  BY <1>4 DEF Modulo, WithSignOf
<1> HIDE DEF a, b, c, e, k, u
<1>7. CASE Sign(e) * Sign(b) < 0
  <2> DEFINE j == k - 1
  <2>1. IntegerObject(u) /\ m = e + b
    BY <1>5, <1>6, <1>7
  <2>2. (e > 0 /\ b < 0) \/ (e < 0 /\ b > 0)
    <3>1. CASE e >= 0 /\ b > 0
      BY <1>1, <1>3, <1>7, <3>1 DEF Sign
    <3>2. CASE e =< 0 /\ b < 0
      BY <1>1, <1>3, <1>7, <3>2 DEF Sign
    <3>3. QED
      BY <1>1, <1>3, <3>1, <3>2
  <2>3. (b > 0 => e + b \in 0 .. (b - 1)) /\ (b < 0 => e + b \in (b + 1) .. 0)
    BY <1>1, <1>3, <2>2 DEF Abs
  <2>4. j \in Int /\ a = b * j + (e + b)
    <3>1. b * (k - 1) = b * k - b /\ b * k \in Int
      BY <1>1, <1>3
    <3>2. QED
      BY <1>1, <1>3, <3>1
  <2> HIDE DEF j, m
  <2>5. \E i \in Int : a = b * i + m
    BY <2>1, <2>4
  <2>6. QED
    BY <2>1, <2>3, <2>5 DEF a, b, u, m
<1>8. CASE ~(Sign(e) * Sign(b) < 0)
  <2>1. IntegerObject(u) /\ m = e
    BY <1>2, <1>6, <1>8 DEF e
  <2>2. (b > 0 => e >= 0) /\ (b < 0 => e =< 0)
    BY <1>1, <1>3, <1>8 DEF Sign
  <2>3. (b > 0 => e \in 0 .. (b - 1)) /\ (b < 0 => e \in (b + 1) .. 0)
    BY <1>1, <1>3, <2>2 DEF Abs
  <2> HIDE DEF m
  <2>4. \E i \in Int : a = b * i + m
    BY <1>3, <2>1
  <2>5. QED
    BY <2>1, <2>3, <2>4 DEF a, b, u, m
<1>9. QED
  BY <1>7, <1>8

(* An integer is a fixnum, or a bignum beyond the fixnums.                 *)
LEMMA OneOrOther ==
  ASSUME NEW x, IntegerObject(x)
  PROVE  /\ NumberOf(x) \in Int
         /\ IsFixnum(x) => x.n = NumberOf(x) /\ NumberOf(x) \in FixnumMin .. FixnumMax
         /\ ~IsFixnum(x) => /\ BignumObject(x) /\ x.sign \in {-1, 1} /\ NumberOf(x) = x.sign * ValueOf(x.elts)
                            /\ ValueOf(x.elts) \in Nat /\ Normal(x.elts)
                            /\ (x.sign = 1 => NumberOf(x) > FixnumMax /\ NumberOf(x) > 0)
                            /\ (x.sign = -1 => NumberOf(x) < FixnumMin /\ NumberOf(x) < 0)
<1>1. NumberOf(x) \in Int /\ (IsFixnum(x) => x.n = NumberOf(x) /\ NumberOf(x) \in FixnumMin .. FixnumMax)
  BY AsBignumExact
<1>2. ASSUME ~IsFixnum(x)
      PROVE  /\ BignumObject(x) /\ x.sign \in {-1, 1} /\ NumberOf(x) = x.sign * ValueOf(x.elts)
             /\ ValueOf(x.elts) \in Nat /\ Normal(x.elts)
             /\ (x.sign = 1 => NumberOf(x) > FixnumMax /\ NumberOf(x) > 0)
             /\ (x.sign = -1 => NumberOf(x) < FixnumMin /\ NumberOf(x) < 0)
  <2> DEFINE V == ValueOf(x.elts)
  <2>1. BignumObject(x) /\ NumberOf(x) \notin FixnumMin .. FixnumMax
    BY <1>2 DEF IntegerObject, Fixnum, IsFixnum
  <2>2. x.sign \in {-1, 0, 1} /\ NumberOf(x) = x.sign * V /\ V \in Nat /\ Normal(x.elts)
    BY <2>1, BignumFields
  <2>3. FixnumMin \in Int /\ FixnumMax \in Int /\ 0 \in FixnumMin .. FixnumMax
    BY FixnumSizes
  <2> HIDE DEF V
  <2>4. CASE x.sign = 0
    BY <2>1, <2>2, <2>3, <2>4
  <2>5. CASE x.sign = 1
    <3>1. NumberOf(x) = V
      BY <2>2, <2>5
    <3>2. QED
      BY <2>1, <2>2, <2>3, <2>5, <3>1 DEF V
  <2>6. CASE x.sign = -1
    <3>1. NumberOf(x) = -V
      BY <2>2, <2>6
    <3>2. QED
      BY <2>1, <2>2, <2>3, <2>6, <3>1 DEF V
  <2>7. QED
    BY <2>2, <2>4, <2>5, <2>6
<1>3. QED
  BY <1>1, <1>2

(* n_compare of two exact integers is the sign of their difference.        *)
THEOREM CompareExact ==
  ASSUME NEW x, NEW y, IntegerObject(x), IntegerObject(y)
  PROVE  CompareInt(x, y) = Sign(NumberOf(x) - NumberOf(y))
<1> DEFINE a == NumberOf(x)
           b == NumberOf(y)
           c == CompareInt(x, y)
           A == ValueOf(x.elts)
           B == ValueOf(y.elts)
<1>1. /\ a \in Int
      /\ IsFixnum(x) => x.n = a /\ a \in FixnumMin .. FixnumMax
      /\ ~IsFixnum(x) => /\ x.sign \in {-1, 1} /\ a = x.sign * A /\ A \in Nat /\ Normal(x.elts)
                         /\ (x.sign = 1 => a > FixnumMax /\ a > 0) /\ (x.sign = -1 => a < FixnumMin /\ a < 0)
  BY OneOrOther
<1>2. /\ b \in Int
      /\ IsFixnum(y) => y.n = b /\ b \in FixnumMin .. FixnumMax
      /\ ~IsFixnum(y) => /\ y.sign \in {-1, 1} /\ b = y.sign * B /\ B \in Nat /\ Normal(y.elts)
                         /\ (y.sign = 1 => b > FixnumMax /\ b > 0) /\ (y.sign = -1 => b < FixnumMin /\ b < 0)
  BY OneOrOther
<1>3. FixnumMin \in Int /\ FixnumMax \in Int
  BY FixnumSizes
<1>4. CASE IsFixnum(x) /\ IsFixnum(y)
  <2>1. c = Sign(x.n - y.n)
    BY <1>4 DEF CompareInt, BothFixnums
  <2>2. QED
    BY <1>1, <1>2, <1>4, <2>1
<1>5. CASE IsFixnum(x) /\ ~IsFixnum(y)
  <2>1. c = -y.sign
    BY <1>5 DEF CompareInt, BothFixnums
  <2> HIDE DEF a, b, c, B
  <2>2. c = Sign(a - b)
    BY <1>1, <1>2, <1>3, <1>5, <2>1 DEF Sign
  <2>3. QED
    BY <2>2 DEF a, b, c
<1>6. CASE ~IsFixnum(x) /\ IsFixnum(y)
  <2>1. c = x.sign
    BY <1>6 DEF CompareInt, BothFixnums
  <2> HIDE DEF a, b, c, A
  <2>2. c = Sign(a - b)
    BY <1>1, <1>2, <1>3, <1>6, <2>1 DEF Sign
  <2>3. QED
    BY <2>2 DEF a, b, c
<1>7. CASE ~IsFixnum(x) /\ ~IsFixnum(y)
  <2>1. c = IF x.sign = y.sign THEN x.sign * Cmp(x.elts, y.elts) ELSE Sign(x.sign - y.sign)
    BY <1>7 DEF CompareInt, BothFixnums
  <2>2. Cmp(x.elts, y.elts) = Sign(A - B)
    BY <1>1, <1>2, <1>7, CmpExact
  <2> HIDE DEF a, b, c, A, B
  <2>3. c = Sign(a - b)
    <3>1. CASE x.sign = 1 /\ y.sign = 1
      <4>1. c = Sign(A - B) /\ a = A /\ b = B
        BY <1>1, <1>2, <1>7, <2>1, <2>2, <3>1 DEF Sign
      <4>2. QED
        BY <4>1
    <3>2. CASE x.sign = -1 /\ y.sign = -1
      <4>1. c = -Sign(A - B) /\ a = -A /\ b = -B /\ A \in Nat /\ B \in Nat
        BY <1>1, <1>2, <1>7, <2>1, <2>2, <3>2 DEF Sign
      <4>2. QED
        BY <4>1 DEF Sign
    <3>3. CASE x.sign # y.sign
      <4>1. c = Sign(x.sign - y.sign)
        BY <2>1, <3>3
      <4>2. QED
        BY <1>1, <1>2, <1>3, <1>7, <3>3, <4>1 DEF Sign
    <3>4. QED
      BY <1>1, <1>2, <1>7, <3>1, <3>2, <3>3
  <2>4. QED
    BY <2>3 DEF a, b, c
<1>8. QED
  BY <1>4, <1>5, <1>6, <1>7

(***************************************************************************)
(* n_exact_equal_pred is equality, but for two bignums that differ in sign *)
(* alone: it compares the digits and not the signs.                        *)
(***************************************************************************)
THEOREM EqualExact ==
  ASSUME NEW x, NEW y, IntegerObject(x), IntegerObject(y)
  PROVE  EqualInt(x, y) <=> \/ NumberOf(x) = NumberOf(y)
                            \/ ~IsFixnum(x) /\ ~IsFixnum(y) /\ NumberOf(x) = -(NumberOf(y))
<1> DEFINE a == NumberOf(x)
           b == NumberOf(y)
           A == ValueOf(x.elts)
           B == ValueOf(y.elts)
<1>1. /\ a \in Int
      /\ IsFixnum(x) => x.n = a /\ a \in FixnumMin .. FixnumMax
      /\ ~IsFixnum(x) => /\ x.sign \in {-1, 1} /\ a = x.sign * A /\ A \in Nat /\ Normal(x.elts)
                         /\ (x.sign = 1 => a > FixnumMax /\ a > 0) /\ (x.sign = -1 => a < FixnumMin /\ a < 0)
  BY OneOrOther
<1>2. /\ b \in Int
      /\ IsFixnum(y) => y.n = b /\ b \in FixnumMin .. FixnumMax
      /\ ~IsFixnum(y) => /\ y.sign \in {-1, 1} /\ b = y.sign * B /\ B \in Nat /\ Normal(y.elts)
                         /\ (y.sign = 1 => b > FixnumMax /\ b > 0) /\ (y.sign = -1 => b < FixnumMin /\ b < 0)
  BY OneOrOther
<1>3. FixnumMin \in Int /\ FixnumMax \in Int
  BY FixnumSizes
<1>4. CASE IsFixnum(x) /\ IsFixnum(y)
  BY <1>1, <1>2, <1>4 DEF EqualInt, BothFixnums
<1>5. CASE IsFixnum(x) # IsFixnum(y)
  <2>1. EqualInt(x, y) = FALSE
    BY <1>5 DEF EqualInt, BothFixnums
  <2> HIDE DEF a, b, A, B
  <2>2. a # b
    <3>1. CASE IsFixnum(x) /\ ~IsFixnum(y)
      BY <1>1, <1>2, <1>3, <3>1
    <3>2. CASE ~IsFixnum(x) /\ IsFixnum(y)
      BY <1>1, <1>2, <1>3, <3>2
    <3>3. QED
      BY <1>5, <3>1, <3>2 DEF IsFixnum
  <2>3. IsFixnum(x) \/ IsFixnum(y)
    BY <1>5 DEF IsFixnum
  <2>4. ~EqualInt(x, y)
    BY <2>1
  <2>5. NumberOf(x) # NumberOf(y)
    BY <2>2 DEF a, b
  <2>6. QED
    BY <2>3, <2>4, <2>5
<1>6. CASE ~IsFixnum(x) /\ ~IsFixnum(y)
  <2>1. EqualInt(x, y) <=> Cmp(x.elts, y.elts) = 0
    <3>1. ~BothFixnums(x, y) /\ ~(IsFixnum(x) # IsFixnum(y))
      BY <1>6 DEF IsFixnum, BothFixnums
    <3>2. EqualInt(x, y) = (Cmp(x.elts, y.elts) = 0)
      BY <3>1 DEF EqualInt
    <3>3. QED
      BY <3>2
  <2>2. Cmp(x.elts, y.elts) = Sign(A - B)
    BY <1>1, <1>2, <1>6, CmpExact
  <2> HIDE DEF a, b, A, B
  <2>3. EqualInt(x, y) <=> A = B
    <3>1. Sign(A - B) = 0 <=> A = B
      BY <1>1, <1>2, <1>6 DEF Sign
    <3>2. QED
      BY <2>1, <2>2, <3>1
  <2>4. A = B <=> a = b \/ a = -b
    <3>1. (x.sign = 1 => a = A) /\ (x.sign = -1 => a = -A) /\ A \in Nat /\ x.sign \in {-1, 1}
      BY <1>1, <1>6
    <3>2. (y.sign = 1 => b = B) /\ (y.sign = -1 => b = -B) /\ B \in Nat /\ y.sign \in {-1, 1}
      BY <1>2, <1>6
    <3>3. QED
      BY <3>1, <3>2
  <2>5. QED
    BY <1>6, <2>3, <2>4 DEF a, b
<1>7. QED
  BY <1>4, <1>5, <1>6 DEF IsFixnum

(***************************************************************************)
(* Two's complement.                                                       *)
(***************************************************************************)
(* A number with a digit to spare, turned to the two's complement of its   *)
(* negative.                                                               *)
LEMMA TwosComplement ==
  ASSUME NEW e \in Seq(DigitSet), ValueOf(e) > 0, NEW f, f = Flip2sc(Append(e, 0))
  PROVE  /\ f \in Seq(DigitSet) /\ Len(f) = Len(e) + 1 /\ Total(f, Len(f), -1) = -ValueOf(e)
<1> DEFINE g == Append(e, 0)
           n == Len(e) + 1
           V == ValueOf(e)
           W == Weight(n)
<1>1. g \in Seq(DigitSet) /\ Len(g) = n /\ ValueOf(g) = V /\ V \in Nat /\ n \in Nat
  BY AppendNought, ValueType, SeqIsArray
<1> HIDE DEF g, n, V, W
<1>2. g \in [1 .. n -> DigitSet] /\ Terms(g, n, DigitSet)
  BY <1>1, SeqIsArray
<1>3. f = Flip2sc(g)
  BY DEF g
<1>4. f \in [1 .. n -> DigitSet] /\ \E out \in {0, 1} : Total(f, n, out) = -Total(g, n, -1)
  BY <1>1, <1>2, <1>3, FlipExact
<1>5. PICK out \in {0, 1} : Total(f, n, out) = -Total(g, n, -1)
  BY <1>4
<1>6. f \in Seq(DigitSet) /\ Len(f) = n /\ Terms(f, n, DigitSet)
  BY <1>1, <1>4, ArrayIsSeq, SeqIsArray
<1> DEFINE a == -1
           F == Total(f, n, 0)
<1>7. a \in Int /\ out \in Int
  OBVIOUS
<1>8. W \in Nat /\ W > 0 /\ F \in Nat /\ Total(f, n, out) = F + W * out /\ Total(f, n, a) = F + W * a
  BY <1>1, <1>6, <1>7, Weighted DEF W
<1>9. Total(g, n, a) = V + W * a
  <2>1. Total(g, n, a) = Total(g, n, 0) + W * a
    BY <1>1, <1>2, <1>7, Weighted DEF W
  <2>2. Total(g, n, 0) = V
    BY <1>1 DEF ValueOf
  <2>3. QED
    BY <2>1, <2>2
<1>10. F + W * out = W - V /\ V > 0
  <2>1. W * a = -W
    BY <1>8
  <2> HIDE DEF F
  <2>2. Total(g, n, a) = V - W /\ Total(f, n, out) = -Total(g, n, a)
    BY <1>1, <1>5, <1>8, <1>9, <2>1
  <2>3. QED
    BY <1>1, <1>8, <2>2 DEF V
<1> HIDE DEF F
<1>11. out = 0
  <2>1. CASE out = 1
    BY <1>1, <1>8, <1>10, <2>1
  <2>2. QED
    BY <2>1
<1>12. Total(f, n, a) = -V
  BY <1>1, <1>8, <1>10, <1>11
<1>13. QED
  BY <1>6, <1>12 DEF n, V

(* And back.                                                               *)
LEMMA BackFromTwos ==
  ASSUME NEW e \in Seq(DigitSet), NEW V \in Nat, Total(e, Len(e), -1) = -V, V < Weight(Len(e)),
         NEW f, f = Flip2sc(e)
  PROVE  f \in Seq(DigitSet) /\ ValueOf(f) = V
<1> DEFINE n == Len(e)
           W == Weight(n)
           F == Total(f, n, 0)
<1>1. n \in Nat /\ e \in [1 .. n -> DigitSet]
  BY SeqIsArray
<1>2. f \in [1 .. n -> DigitSet] /\ \E out \in {0, 1} : Total(f, n, out) = -Total(e, n, -1)
  BY <1>1, FlipExact
<1>3. PICK out \in {0, 1} : Total(f, n, out) = -Total(e, n, -1)
  BY <1>2
<1> HIDE DEF n
<1>4. f \in Seq(DigitSet) /\ Len(f) = n /\ Terms(f, n, DigitSet)
  BY <1>1, <1>2, ArrayIsSeq, SeqIsArray
<1>5. out \in Int
  OBVIOUS
<1>6. W \in Nat /\ W > 0 /\ F \in Nat /\ Total(f, n, out) = F + W * out
  BY <1>1, <1>4, <1>5, Weighted
<1>7. Total(f, n, out) = V /\ V < W
  BY <1>3 DEF n
<1> HIDE DEF F, W
<1>8. out = 0
  <2>1. CASE out = 1
    BY <1>6, <1>7, <2>1
  <2>2. QED
    BY <2>1
<1>9. F = V
  BY <1>6, <1>7, <1>8
<1>10. QED
  BY <1>4, <1>9 DEF F, ValueOf

(* Every bit turned over, those above the top too.                         *)
LEMMA ComplementExact ==
  ASSUME NEW e \in Seq(DigitSet), NEW x \in {0, -1}, NEW f, f = [i \in DOMAIN e |-> Base - 1 - e[i]]
  PROVE  f \in Seq(DigitSet) /\ Len(f) = Len(e) /\ Total(f, Len(f), -1 - x) = -1 - Total(e, Len(e), x)
<1> DEFINE n == Len(e)
           o == [i \in 1 .. n |-> Base - 1]
           y == -1 - x
           a == -1
<1>1. n \in Nat /\ DOMAIN e = 1 .. n /\ Terms(e, n, DigitSet)
  BY SeqIsArray
<1>2. \A i \in 1 .. n : e[i] \in DigitSet /\ f[i] = Base - 1 - e[i] /\ o[i] = Base - 1
  BY <1>1 DEF Terms
<1>3. \A i \in 1 .. n : f[i] \in DigitSet /\ f[i] = (-1) * e[i] + o[i] /\ o[i] \in Int
  BY <1>2, BaseType DEF DigitSet
<1>4. f \in [1 .. n -> DigitSet]
  BY <1>1, <1>3
<1> HIDE DEF n
<1>5. f \in Seq(DigitSet) /\ Len(f) = n
  BY <1>1, <1>4, ArrayIsSeq
<1>6. Total(o, n, a) = -1
  <2> DEFINE h == [k \in 0 .. n |-> a]
  <2>1. h[n] = a
    BY <1>1
  <2>2. ASSUME NEW k \in 0 .. (n - 1) PROVE h[k] = o[k + 1] + Base * h[k + 1]
    <3>1. h[k] = -1 /\ h[k + 1] = -1 /\ o[k + 1] = Base - 1
      BY <1>1, <1>2
    <3>2. QED
      BY <3>1, BaseType
  <2>3. a \in Int /\ 0 \in 0 .. n /\ h[0] = -1 /\ Terms(o, n, Int)
    BY <1>1, <1>3 DEF Terms
  <2> HIDE DEF h, o, a
  <2>4. \A k \in 0 .. n : h[k] = ValuesFrom(o, n, a)[k]
    BY <1>1, <2>1, <2>2, <2>3, ValuesAre
  <2>5. QED
    BY <2>3, <2>4 DEF Total
<1>7. Terms(e, n, Int) /\ Terms(o, n, Int) /\ Terms(f, n, Int)
  BY <1>1, <1>3, <1>5, DigitTerms, SeqIsArray DEF Terms
<1>8. Total(f, n, y) = (-1) * Total(e, n, x) + Total(o, n, a)
  <2>1. a \in Int /\ x \in Int /\ y = (-1) * x + a /\ y \in Int
    OBVIOUS
  <2>2. Combined(f, a, e, o, n)
    BY <1>3 DEF Combined
  <2> HIDE DEF o, y
  <2>3. QED
    BY <1>1, <1>7, <2>1, <2>2, Linear
<1>9. Total(e, n, x) \in Int
  BY <1>1, <1>7, TotalType
<1>10. Total(f, n, y) = -1 - Total(e, n, x)
  BY <1>6, <1>8, <1>9
<1>11. QED
  BY <1>5, <1>10 DEF n

LEMMA SameNorm ==
  ASSUME NEW e, Normal(e)
  PROVE  Norm(e) = e
<1> DEFINE n == Len(e)
           S == {0} \cup {i \in DOMAIN e : e[i] # 0}
<1>1. e \in Seq(DigitSet) /\ n \in Nat /\ DOMAIN e = 1 .. n
  BY SeqIsArray DEF Normal
<1>2. n \in S /\ \A i \in S : i \in Nat /\ i =< n
  <2>1. CASE e = <<>>
    BY <1>1, <2>1
  <2>2. CASE e # <<>>
    <3>1. e[n] # 0 /\ n \in DOMAIN e
      BY <1>1, <2>2 DEF Normal
    <3>2. QED
      BY <1>1, <3>1
  <2>3. QED
    BY <2>1, <2>2
<1>3. Max(S) = n
  BY <1>2 DEF Max
<1>4. Norm(e) = SubSeq(e, 1, n)
  BY <1>3 DEF Norm
<1>5. QED
  BY <1>1, <1>4

(* A number and one more fit where there is a digit to spare.              *)
LEMMA RoomAbove ==
  ASSUME NEW e \in Seq(DigitSet), e # <<>> \/ ValueOf(e) = 0
  PROVE  Weight(Len(e) + 1) \in Nat /\ ValueOf(e) + 1 < Weight(Len(e) + 1) /\ ValueOf(e) \in Nat
<1> DEFINE n == Len(e)
           W == Weight(n)
           V == ValueOf(e)
<1>1. n \in Nat /\ Terms(e, n, DigitSet) /\ 0 \in Int
  BY SeqIsArray
<1>2. W \in Nat /\ W > 0 /\ Total(e, n, 0) \in Nat /\ Total(e, n, 0) < W
  BY <1>1, Weighted
<1>3. V \in Nat /\ V < W
  BY <1>2 DEF ValueOf
<1>4. Weight(n + 1) = Base * W
  BY <1>1, WeightNext
<1> HIDE DEF W, V, n
<1>5. Base * W \in Nat /\ Base * W >= 2 * W
  <2> DEFINE b == Base
  <2>1. b \in Nat /\ b >= 2
    BY BaseType
  <2> HIDE DEF b
  <2>2. b * W \in Nat /\ b * W >= 2 * W
    BY <1>2, <2>1
  <2>3. QED
    BY <2>2 DEF b
<1>6. QED
  BY <1>2, <1>3, <1>4, <1>5 DEF n, V

(* lognot takes n to -n - 1.                                               *)
THEOREM LognotExact ==
  ASSUME NEW x, IntegerObject(x)
  PROVE  IntegerObject(Lognot(x)) /\ NumberOf(Lognot(x)) = -(NumberOf(x)) - 1
<1> DEFINE u == Lognot(x)
           E == x.elts
           V == ValueOf(E)
           g == Append(E, 0)
           n == Len(E) + 1
<1>1. /\ NumberOf(x) \in Int
      /\ IsFixnum(x) => x.n = NumberOf(x) /\ NumberOf(x) \in FixnumMin .. FixnumMax
      /\ ~IsFixnum(x) => /\ BignumObject(x) /\ x.sign \in {-1, 1} /\ NumberOf(x) = x.sign * V
                         /\ V \in Nat /\ Normal(E)
                         /\ (x.sign = 1 => NumberOf(x) > FixnumMax /\ NumberOf(x) > 0)
                         /\ (x.sign = -1 => NumberOf(x) < FixnumMin /\ NumberOf(x) < 0)
  BY OneOrOther
<1>2. CASE IsFixnum(x)
  <2> DEFINE k == -x.n - 1
  <2>1. u = IntToInteger(k)
    BY <1>2 DEF Lognot, IsFixnum
  <2>2. k \in Int /\ -(Base * Base) < k /\ k < Base * Base
    <3>1. x.n \in Int /\ -Base < 2 * x.n /\ 2 * x.n < Base
      BY <1>1, <1>2, FixnumSizes
    <3>2. Base * Base >= Base /\ Base * Base \in Int
      BY BaseType, BaseTimes
    <3>3. Base \in Int /\ Base >= 2
      BY BaseType
    <3>4. QED
      BY <3>1, <3>2, <3>3
  <2> HIDE DEF k
  <2>3. IntegerObject(u) /\ NumberOf(u) = k
    BY <2>1, <2>2, IntToIntegerExact
  <2>4. QED
    BY <1>1, <1>2, <2>3 DEF k
<1>3. CASE ~IsFixnum(x)
  <2>1. x.type = "bignum" /\ E \in Seq(DigitSet) /\ V > 0 /\ n \in Nat /\ Len(E) \in Nat
    <3>1. x.type = "bignum"
      BY <1>1, <1>3, BignumFields DEF Big
    <3>2. E \in Seq(DigitSet) /\ Len(E) \in Nat
      BY <1>1, <1>3, SeqIsArray DEF Normal
    <3> HIDE DEF V
    <3>3. V # 0
      BY <1>1, <1>3
    <3>4. QED
      BY <1>1, <1>3, <3>1, <3>2, <3>3
  <2>2. g \in Seq(DigitSet) /\ Len(g) = n /\ ValueOf(g) = V
    BY <2>1, AppendNought
  <2>3. CASE x.sign = 1
    <3> DEFINE c == [i \in DOMAIN g |-> Base - 1 - g[i]]
               z == 0
               y == -1 - z
               f == Flip2sc(c)
               m == V + 1
    <3>1. z \in {0, -1} /\ Total(g, Len(g), z) = V /\ z = 0 /\ y = -1
      BY <2>2 DEF ValueOf
    <3>2. u = Make(-1, Flip2sc(Norm(c)))
      <4>1. x.sign > 0 /\ x.type = "bignum" /\ x.type # "fixnum"
        BY <2>1, <2>3
      <4>2. QED
        BY <4>1 DEF Lognot, IsFixnum
    <3>3. g[n] = 0 /\ n \in DOMAIN g
      BY <2>1, <2>2, SeqIsArray
    <3>4. V + 1 < Weight(n) /\ V \in Nat
      <4>1. E # <<>> \/ V = 0
        BY <1>1, <1>3, ValueSizes
      <4>2. QED
        BY <2>1, <4>1, RoomAbove
    <3> HIDE DEF g, n, V, z, E
    <3>5. c \in Seq(DigitSet) /\ Len(c) = Len(g) /\ Total(c, Len(c), y) = -1 - Total(g, Len(g), z)
      <4> HIDE DEF c
      <4>1. c = [i \in DOMAIN g |-> Base - 1 - g[i]]
        BY DEF c
      <4>2. QED
        BY <2>2, <3>1, <4>1, ComplementExact
    <3>6. c[n] # 0 /\ Len(c) = n
      BY <2>2, <3>3, <3>5, BaseType
    <3>7. Norm(c) = c
      <4> HIDE DEF c
      <4>1. Normal(c)
        BY <3>5, <3>6 DEF Normal
      <4>2. QED
        BY <4>1, SameNorm
    <3> HIDE DEF c
    <3>8. Total(c, Len(c), -1) = -m /\ m \in Nat /\ m < Weight(Len(c))
      BY <3>1, <3>4, <3>5, <3>6
    <3> HIDE DEF m
    <3>9. f \in Seq(DigitSet) /\ ValueOf(f) = m
      BY <3>5, <3>8, BackFromTwos
    <3>10. u = Make(-1, f)
      BY <3>2, <3>7
    <3> HIDE DEF f
    <3>11. IntegerObject(Make(-1, f)) /\ NumberOf(Make(-1, f)) = (-1) * ValueOf(f)
      <4>1. -1 \in {-1, 1}
        OBVIOUS
      <4>2. QED
        BY <3>9, <4>1, MakeExact
    <3>12. IntegerObject(u) /\ NumberOf(u) = -V - 1
      BY <3>4, <3>9, <3>10, <3>11 DEF m
    <3>13. NumberOf(x) = V
      BY <1>1, <1>3, <2>3 DEF V
    <3>14. QED
      BY <3>12, <3>13
  <2>4. CASE x.sign = -1
    <3> DEFINE f == Flip2sc(g)
               c == [i \in DOMAIN f |-> Base - 1 - f[i]]
               a == -1
               y == -1 - a
               h == Norm(c)
    <3>1. u = Make(1, h)
      BY <1>3, <2>1, <2>4 DEF Lognot, IsFixnum
    <3>2. f \in Seq(DigitSet) /\ Total(f, Len(f), a) = -V
      BY <2>1, TwosComplement
    <3>3. a \in {0, -1} /\ y = 0 /\ V \in Nat
      BY <1>1, <1>3
    <3> HIDE DEF f, a, V
    <3>4. c \in Seq(DigitSet) /\ Total(c, Len(c), y) = -1 - Total(f, Len(f), a)
      <4> HIDE DEF c
      <4>1. c = [i \in DOMAIN f |-> Base - 1 - f[i]]
        BY DEF c
      <4>2. QED
        BY <3>2, <3>3, <4>1, ComplementExact
    <3> HIDE DEF c
    <3>5. ValueOf(c) = V - 1
      BY <3>2, <3>3, <3>4 DEF ValueOf
    <3>6. Normal(h) /\ ValueOf(h) = V - 1
      BY <3>4, <3>5, NormExact
    <3> HIDE DEF h
    <3>7. IntegerObject(Make(1, h)) /\ NumberOf(Make(1, h)) = 1 * ValueOf(h)
      <4>1. 1 \in {-1, 1} /\ h \in Seq(DigitSet)
        BY <3>6 DEF Normal
      <4>2. QED
        BY <4>1, MakeExact
    <3>8. IntegerObject(u) /\ NumberOf(u) = V - 1
      BY <3>1, <3>3, <3>6, <3>7
    <3>9. NumberOf(x) = -V
      BY <1>1, <1>3, <2>4 DEF V
    <3>10. QED
      BY <3>3, <3>8, <3>9
  <2>5. QED
    BY <1>1, <1>3, <2>3, <2>4
<1>4. QED
  BY <1>2, <1>3

(***************************************************************************)
(* Shifts of integers.  By s places to the left is a multiplication by     *)
(* 2^s, by s to the right a division that rounds down.                     *)
(***************************************************************************)
Shifted(a, b, shift) ==
  /\ shift >= 0 => b = 2 ^ shift * a
  /\ shift < 0 => \E rest \in 0 .. (2 ^ (-shift) - 1) : a = 2 ^ (-shift) * b + rest

(* The digits that a shift to the left of so many places takes.            *)
LEMMA PlacesTaken ==
  ASSUME NEW shift \in Nat, NEW u, u = shift \div DigitBits, NEW b, b = shift % DigitBits,
         NEW k, k = (shift + DigitBits - 1) \div DigitBits
  PROVE  k \in Nat /\ u =< k /\ (b # 0 => k = u + 1)
<1> DEFINE D == DigitBits
           s == shift + D - 1
           w == u + 1
           z == D - 1
           c == b - 1
<1>1. D \in Nat /\ D > 1
  BY DigitBitsAssumption
<1>2. u \in Nat /\ b \in Nat /\ b < D /\ shift = D * u + b
  <2>1. u \in Int /\ b \in 0 .. (D - 1) /\ shift = D * u + b
    BY <1>1, DivMod
  <2>2. u \in Nat
    BY ShiftParts
  <2>3. QED
    BY <1>1, <2>1, <2>2
<1> HIDE DEF D
<1>3. D * w = D * u + D /\ D * u \in Nat
  BY <1>1, <1>2
<1>4. CASE b = 0
  <2>1. s = D * u + z /\ u \in Int /\ z \in 0 .. (D - 1) /\ s \in Int
    BY <1>1, <1>2, <1>3, <1>4
  <2> HIDE DEF s, z
  <2>2. s \div D = u
    BY <1>1, <2>1, ModIs
  <2>3. k = u
    BY <2>2 DEF s, D
  <2>4. QED
    BY <1>2, <1>4, <2>3
<1>5. CASE b # 0
  <2>1. s = D * w + c /\ w \in Int /\ c \in 0 .. (D - 1) /\ s \in Int
    BY <1>1, <1>2, <1>3, <1>5
  <2> HIDE DEF s, w, c
  <2>2. s \div D = w
    BY <1>1, <2>1, ModIs
  <2>3. k = w
    BY <2>2 DEF s, D
  <2>4. QED
    BY <1>2, <2>3 DEF w
<1>6. QED
  BY <1>4, <1>5

LEMMA DigitsWidened ==
  ASSUME NEW e \in Seq(DigitSet), NEW shift \in Nat,
         NEW wide, wide = Pad(e, Len(e) + (shift + DigitBits - 1) \div DigitBits)
  PROVE  /\ ShiftLeft(wide, shift) \in Seq(DigitSet)
         /\ ValueOf(ShiftLeft(wide, shift)) = 2 ^ shift * ValueOf(e)
<1> DEFINE k == (shift + DigitBits - 1) \div DigitBits
           n == Len(e) + k
           u == shift \div DigitBits
           b == shift % DigitBits
           v == 2 ^ (DigitBits - b)
<1>1. k \in Nat /\ u =< k /\ (b # 0 => k = u + 1)
  BY PlacesTaken
<1>2. u \in Nat /\ v \in Nat /\ v > 0 /\ b \in Nat
  BY ShiftParts
<1>3. Len(e) \in Nat /\ n \in Nat /\ DOMAIN e = 1 .. Len(e) /\ Len(e) =< n
  BY <1>1, SeqIsArray
<1>4. wide \in [1 .. n -> DigitSet] /\ Total(wide, n, 0) = ValueOf(e)
  BY <1>3, PadExact
<1>5. wide \in Seq(DigitSet) /\ Len(wide) = n /\ DOMAIN wide = 1 .. n
  BY <1>3, <1>4, ArrayIsSeq
<1>6. ValueOf(wide) = ValueOf(e)
  BY <1>4, <1>5 DEF ValueOf
<1>7. ASSUME NEW i \in 1 .. n, i > Len(e) PROVE wide[i] = 0
  <2>1. wide = [j \in 1 .. n |-> Digit(e, j)]
    BY DEF Pad
  <2>2. i \notin DOMAIN e
    BY <1>3, <1>7
  <2>3. QED
    BY <2>1, <2>2 DEF Digit
<1>8. Digit(wide, n - u) \div v = 0
  <2>1. CASE b = 0
    <3>1. v = Base
      BY <2>1, DigitBitsAssumption DEF Base
    <3>2. Digit(wide, n - u) \in DigitSet
      <4>1. n - u \in Nat
        BY <1>1, <1>2, <1>3
      <4>2. QED
        BY <1>5, <4>1, DigitBound
    <3> DEFINE d == Digit(wide, n - u)
               z == 0
               q == Base
    <3>3. d = q * z + d /\ z \in Int /\ d \in 0 .. (q - 1) /\ d \in Int /\ q \in Nat /\ q > 0
      BY <3>2, BaseType DEF DigitSet
    <3> HIDE DEF d, z, q
    <3>4. d \div q = z
      BY <3>3, ModIs
    <3>5. QED
      BY <3>1, <3>4 DEF d, q, z
  <2>2. CASE b # 0
    <3>1. n - u = Len(e) + 1 /\ n - u \in 1 .. n
      BY <1>1, <1>2, <1>3, <2>2
    <3>2. wide[n - u] = 0
      BY <1>3, <1>7, <3>1
    <3>3. Digit(wide, n - u) = 0
      BY <1>5, <3>1, <3>2 DEF Digit
    <3>4. \A q \in Nat : q > 0 => 0 \div q = 0
      OBVIOUS
    <3>5. QED
      BY <1>2, <3>3, <3>4
  <2>3. QED
    BY <2>1, <2>2
<1>9. LeftRoom(wide, shift \div DigitBits, 2 ^ (DigitBits - (shift % DigitBits)))
  <2>1. u =< n /\ \A i \in (n - u + 1) .. n : i \in 1 .. n /\ i > Len(e)
    BY <1>1, <1>2, <1>3
  <2>2. \A i \in (n - u + 1) .. n : wide[i] = 0
    BY <1>7, <2>1
  <2>3. QED
    BY <1>5, <1>8, <2>1, <2>2 DEF LeftRoom
<1> DEFINE f == ShiftLeft(wide, shift)
<1>10. f = ShiftLeft(wide, shift)
  OBVIOUS
<1> HIDE DEF f, n, k, u, b, v
<1>11. f \in Seq(DigitSet) /\ ValueOf(f) = 2 ^ shift * ValueOf(wide)
  BY <1>5, <1>9, <1>10, ShiftLeftExact
<1>12. QED
  BY <1>6, <1>10, <1>11

(* A sign and any digits, zero too, as an integer.                         *)
LEMMA MakeSigned ==
  ASSUME NEW sign \in {-1, 0, 1}, NEW e \in Seq(DigitSet), sign = 0 => ValueOf(e) = 0
  PROVE  IntegerObject(Make(sign, e)) /\ NumberOf(Make(sign, e)) = sign * ValueOf(e)
<1> DEFINE f == Norm(e)
<1>1. Normal(f) /\ ValueOf(f) = ValueOf(e)
  BY NormExact
<1>2. sign = 0 => f = <<>>
  BY <1>1, ValueSizes
<1>3. Make(sign, e) = ToInteger(Big(sign, f))
  BY DEF Make
<1> HIDE DEF f
<1>4. IntegerObject(ToInteger(Big(sign, f))) /\ NumberOf(ToInteger(Big(sign, f))) = sign * ValueOf(f)
  BY <1>1, <1>2, ToIntegerExact
<1>5. QED
  BY <1>1, <1>3, <1>4

LEMMA BignumLeft ==
  ASSUME NEW b, BignumObject(b), NEW shift \in Nat, shift > 0
  PROVE  IntegerObject(OprtrLogash(b, shift)) /\ NumberOf(OprtrLogash(b, shift)) = 2 ^ shift * NumberOf(b)
<1> DEFINE e == b.elts
           wide == Pad(e, Len(e) + (shift + DigitBits - 1) \div DigitBits)
           f == ShiftLeft(wide, shift)
           w == 2 ^ shift
           V == ValueOf(e)
<1>1. e \in Seq(DigitSet) /\ b.sign \in {-1, 0, 1} /\ NumberOf(b) = b.sign * V /\ V \in Nat /\ (b.sign = 0 => V = 0)
  BY BignumFields
<1>2. OprtrLogash(b, shift) = Make(b.sign, f)
  BY DEF OprtrLogash
<1>3. f \in Seq(DigitSet) /\ ValueOf(f) = w * V
  BY <1>1, DigitsWidened
<1>4. w \in Nat
  BY PowerOfTwo
<1> HIDE DEF e, f, w, V
<1>5. b.sign = 0 => ValueOf(f) = 0
  BY <1>1, <1>3, <1>4
<1>6. IntegerObject(Make(b.sign, f)) /\ NumberOf(Make(b.sign, f)) = b.sign * ValueOf(f)
  BY <1>1, <1>3, <1>5, MakeSigned
<1>7. b.sign * (w * V) = w * (b.sign * V)
  BY <1>1, <1>4
<1>8. QED
  BY <1>1, <1>2, <1>3, <1>6, <1>7 DEF w

(* How far a magnitude may grow when it is shifted to the right in two's   *)
(* complement: no farther than it was.                                     *)
LEMMA Shrinks ==
  ASSUME NEW w \in Nat, w > 0, NEW V \in Nat, V > 0, NEW x \in Int, NEW rest \in 0 .. (w - 1), -V = w * (-x) + rest
  PROVE  x \in Nat /\ x =< V
<1>1. w * x = V + rest
  <2>1. w * (-x) = -(w * x) /\ w * x \in Int
    OBVIOUS
  <2>2. QED
    BY <2>1
<1>2. x > 0
  <2>1. x =< 0 => w * x =< 0
    OBVIOUS
  <2>2. QED
    BY <1>1, <2>1
<1>3. x =< V
  <2> DEFINE y == x - 1
  <2>1. y \in Nat /\ w * x = w * y + w
    BY <1>2
  <2>2. w * y >= y /\ w * y \in Nat
    <3> HIDE DEF y
    <3>1. QED
      BY <2>1
  <2>3. w * y =< V - 1
    BY <1>1, <2>1, <2>2
  <2>4. QED
    BY <2>1, <2>2, <2>3
<1>4. QED
  BY <1>2, <1>3

LEMMA BignumRight ==
  ASSUME NEW b, BignumObject(b), b.sign # 0, NEW s \in Nat, s > 0
  PROVE  /\ IntegerObject(OprtrLogash(b, -s))
         /\ \E rest \in 0 .. (2 ^ s - 1) : NumberOf(b) = 2 ^ s * NumberOf(OprtrLogash(b, -s)) + rest
<1> DEFINE e == b.elts
           V == ValueOf(e)
           u == OprtrLogash(b, -s)
           w == 2 ^ s
<1>1. /\ e \in Seq(DigitSet) /\ Normal(e) /\ b.sign \in {-1, 1} /\ NumberOf(b) = b.sign * V /\ V \in Nat /\ V # 0
      /\ e # <<>>
  BY BignumFields
<1>2. -s # 0 /\ ~(-s > 0) /\ -s < 0 /\ -(-s) = s
  OBVIOUS
<1>3. CASE b.sign = 1
  <2> DEFINE f == ShiftRight(e, s)
             g == Norm(f)
  <2>1. u = Make(1, f)
    <3>1. b.sign > 0
      BY <1>3
    <3>2. QED
      BY <1>2, <3>1 DEF OprtrLogash
  <2>2. /\ Normal(g) /\ ValueOf(g) \in Nat
        /\ \E rest \in 0 .. (w - 1) : V = w * ValueOf(g) + rest
    BY <1>1, ShiftRightExact
  <2>3. Make(1, f) = ToInteger(Big(1, g))
    BY DEF Make
  <2> HIDE DEF f, g
  <2>4. IntegerObject(ToInteger(Big(1, g))) /\ NumberOf(ToInteger(Big(1, g))) = 1 * ValueOf(g)
    <3>1. 1 \in {-1, 0, 1} /\ ~(1 = 0)
      OBVIOUS
    <3>2. QED
      BY <2>2, <3>1, ToIntegerExact
  <2>5. IntegerObject(u) /\ NumberOf(u) = ValueOf(g)
    BY <2>1, <2>2, <2>3, <2>4
  <2>6. NumberOf(b) = V
    BY <1>1, <1>3
  <2>7. QED
    BY <2>2, <2>5, <2>6
<1>4. CASE b.sign = -1
  <2> DEFINE c == Append(e, 0)
             f == Flip2sc(c)
             g == ShiftRight2sc(f, s)
             h == Flip2sc(g)
             a == -1
             fill == Base - 1
             n == Len(e) + 1
  <2>1. u = Make(-1, h)
    <3>1. ~(b.sign > 0)
      BY <1>4
    <3>2. QED
      BY <1>2, <3>1 DEF OprtrLogash
  <2>2. f \in Seq(DigitSet) /\ Len(f) = n /\ Total(f, Len(f), a) = -V /\ V > 0
    <3>1. ValueOf(e) > 0
      <4> HIDE DEF e
      <4>1. QED
        BY <1>1 DEF V
    <3>2. QED
      BY <1>1, <3>1, TwosComplement
  <2>3. g = ShiftRightFill(f, s, fill)
    BY DEF ShiftRight2sc
  <2>4. Fills(fill, a) /\ a \in {0, -1}
    <3>1. Base * (-1) = -Base /\ Base \in Nat
      BY BaseType
    <3>2. QED
      BY <3>1, BaseType DEF Fills, DigitSet
  <2> HIDE DEF f, g, fill, a
  <2>5. g \in Seq(DigitSet) /\ Len(g) = Len(f) /\ w \in Nat /\ w > 0 /\ Rightward(f, g, s, a)
    BY <2>2, <2>3, <2>4, ShiftRightFillExact
  <2> DEFINE x == -Total(g, Len(g), a)
  <2>6. Total(g, Len(g), a) \in Int
    <3>1. Len(g) \in Nat /\ Terms(g, Len(g), Int) /\ a \in Int
      BY <2>4, <2>5, SeqIsArray, DigitTerms
    <3>2. QED
      BY <3>1, TotalType
  <2>7. x \in Int /\ Total(g, Len(g), a) = -x
    BY <2>6
  <2>8. PICK rest \in 0 .. (w - 1) : -V = w * (-x) + rest
    <3>1. \E rest \in 0 .. (w - 1) : Total(f, Len(f), a) = w * Total(g, Len(g), a) + rest
      BY <2>5 DEF Rightward
    <3> HIDE DEF x
    <3>2. QED
      BY <2>2, <2>7, <3>1
  <2> HIDE DEF x, w, V
  <2>9. x \in Nat /\ x =< V
    BY <1>1, <2>2, <2>5, <2>7, <2>8, Shrinks
  <2>10. Weight(Len(g)) \in Nat /\ x < Weight(Len(g))
    <3>1. Weight(n) \in Nat /\ V + 1 < Weight(n)
      BY <1>1, RoomAbove DEF V
    <3>2. QED
      BY <1>1, <2>2, <2>5, <2>9, <3>1
  <2>11. Total(g, Len(g), -1) = -x /\ h = Flip2sc(g)
    BY <2>7 DEF a
  <2> HIDE DEF h
  <2>12. h \in Seq(DigitSet) /\ ValueOf(h) = x
    BY <2>5, <2>9, <2>10, <2>11, BackFromTwos
  <2>13. IntegerObject(Make(-1, h)) /\ NumberOf(Make(-1, h)) = (-1) * ValueOf(h)
    <3>1. -1 \in {-1, 1}
      OBVIOUS
    <3>2. QED
      BY <2>12, <3>1, MakeExact
  <2>14. IntegerObject(u) /\ NumberOf(u) = -x
    BY <2>1, <2>9, <2>12, <2>13
  <2>15. NumberOf(b) = -V
    BY <1>1, <1>4
  <2>16. NumberOf(b) = w * NumberOf(u) + rest
    BY <2>8, <2>14, <2>15
  <2>17. QED
    BY <2>14, <2>16 DEF w
<1>5. QED
  BY <1>1, <1>3, <1>4

(* What fits an int is one.                                                *)
IntMin == -(2 ^ (IntBits - 1))
IntMax == 2 ^ (IntBits - 1) - 1

LEMMA AsIntExact ==
  ASSUME NEW n \in IntMin .. IntMax
  PROVE  AsInt(n) = n
<1> DEFINE h == 2 ^ (IntBits - 1)
           w == 2 * h
           a == n + h
<1>1. h \in Nat /\ h > 0
  BY WidthsAssumption, PowerOfTwo
<1>2. n \in Int /\ -h =< n /\ n < h
  <2>1. n \in -h .. h - 1
    BY DEF IntMin, IntMax
  <2> HIDE DEF h
  <2>2. QED
    BY <1>1, <2>1
<1>3. AsInt(n) = (a % w) - h
  BY DEF AsInt
<1> HIDE DEF h
<1>4. w \in Nat /\ w > 0 /\ 0 \in Int /\ a \in 0 .. (w - 1) /\ a \in Int /\ a = w * 0 + a
  BY <1>1, <1>2
<1> HIDE DEF w
<1>5. a % w = a
  <2> HIDE DEF a
  <2>1. QED
    BY <1>4, ModIs
<1>6. QED
  BY <1>1, <1>2, <1>3, <1>5

(***************************************************************************)
(* arith_logash is exact: to the left a multiplication by a power of two,  *)
(* to the right a division by one that rounds down, if the shift is an int *)
(* (oprtr_logash takes no other, arith.cpp:1651, and adds a word's bits to *)
(* it), and less than two words to the right for a fixnum (from there on   *)
(* its shift is undefined, arith.cpp:2752).                                *)
(***************************************************************************)
THEOREM LogashExact ==
  ASSUME NEW x, IntegerObject(x), NEW shift \in IntMin .. IntMax, shift + DigitBits =< IntMax + 1,
         IsFixnum(x) => -shift < 2 * DigitBits
  PROVE  /\ IntegerObject(Logash(x, shift))
         /\ Shifted(NumberOf(x), NumberOf(Logash(x, shift)), shift)
<1> DEFINE n == IF shift > 0 THEN x.n * 2 ^ shift ELSE x.n \div 2 ^ (-shift)
           b == AsBignum(x)
           u == Logash(x, shift)
           N == NumberOf(x)
<1>1. /\ BignumObject(b) /\ NumberOf(b) = N /\ N \in Int
      /\ IsFixnum(x) => x.n \in FixnumMin .. FixnumMax /\ N = x.n
  BY AsBignumExact
<1>2. FixnumMin \in Int /\ FixnumMax \in Int /\ 0 \in FixnumMin .. FixnumMax
  BY FixnumSizes
<1>0. shift \in Int /\ AsInt(shift) = shift
  <2>1. IntMin \in Int /\ IntMax \in Int
    BY WidthsAssumption, PowerOfTwo DEF IntMin, IntMax
  <2>2. QED
    BY <2>1, AsIntExact
<1>3. u = IF IsFixnum(x) /\ shift =< DigitBits /\ n \in FixnumMin .. FixnumMax THEN Fixnum(n)
          ELSE OprtrLogash(b, shift)
  <2> DEFINE w == 2 * DigitBits
             k == -shift
             taken == IF shift > 0 THEN x.n * 2 ^ shift ELSE x.n \div 2 ^ (k % w)
  <2>1. u = IF IsFixnum(x) /\ shift =< DigitBits /\ taken \in FixnumMin .. FixnumMax THEN Fixnum(taken)
            ELSE OprtrLogash(b, AsInt(shift))
    BY DEF Logash
  <2>2. ASSUME IsFixnum(x), ~(shift > 0) PROVE k % w = k
    <3>1. w \in Nat /\ w > 0 /\ 0 \in Int /\ k \in 0 .. (w - 1) /\ k \in Int /\ k = w * 0 + k
      BY <1>0, <2>2, DigitBitsAssumption
    <3> HIDE DEF w, k
    <3>2. QED
      BY <3>1, ModIs
  <2>3. IsFixnum(x) => taken = n
    BY <2>2
  <2> HIDE DEF u, b, n, taken, w, k
  <2>4. QED
    BY <1>0, <2>1, <2>3
<1>4. (shift = 0 => 2 ^ shift = 1 /\ 2 ^ (-shift) = 1) /\ (shift >= 0 => 2 ^ shift \in Nat)
      /\ (shift =< 0 => 2 ^ (-shift) \in Nat /\ 2 ^ (-shift) > 0)
  <2>1. \A m \in Nat : 2 ^ m \in Nat /\ 2 ^ m > 0
    BY PowerOfTwo
  <2>2. 2 ^ 0 = 1
    BY PowerOfTwo
  <2>3. (shift >= 0 => shift \in Nat) /\ (shift =< 0 => -shift \in Nat)
    OBVIOUS
  <2>4. shift = 0 => -shift = 0
    <3> DEFINE s == -shift
    <3>1. s \in Int /\ s + shift = 0
      OBVIOUS
    <3> HIDE DEF s
    <3>2. shift = 0 => s = 0
      BY <3>1
    <3>3. QED
      BY <3>2 DEF s
  <2>5. shift = 0 => 2 ^ shift = 1 /\ 2 ^ (-shift) = 1
    BY <2>2, <2>4
  <2>6. QED
    BY <2>1, <2>3, <2>5
<1>5. ASSUME IsFixnum(x), shift =< 0
      PROVE  n \in Int /\ \E rest \in 0 .. (2 ^ (-shift) - 1) : N = 2 ^ (-shift) * n + rest
  <2> DEFINE w == 2 ^ (-shift)
             r == N % w
  <2>1. n = N \div w /\ w \in Nat /\ w > 0
    BY <1>1, <1>4, <1>5
  <2> HIDE DEF w, n
  <2>2. N \div w \in Int /\ r \in 0 .. (w - 1) /\ N = w * (N \div w) + r
    BY <1>1, <2>1, DivMod
  <2>3. QED
    BY <2>1, <2>2 DEF w
<1>6. ASSUME IsFixnum(x), shift =< 0, N = 0 \/ shift = 0
      PROVE  n \in FixnumMin .. FixnumMax
  <2>1. CASE shift = 0
    <3>1. n = x.n \div 1
      BY <1>4, <2>1
    <3> HIDE DEF n
    <3>2. n = x.n
      BY <1>1, <1>2, <1>6, <3>1
    <3>3. QED
      BY <1>1, <1>6, <3>2
  <2>2. CASE shift # 0 /\ N = 0
    <3>1. \A w \in Nat : w > 0 => 0 \div w = 0
      OBVIOUS
    <3>2. n = 0 \div 2 ^ (-shift)
      BY <1>1, <1>6, <2>2
    <3>3. n = 0
      BY <1>4, <1>6, <3>1, <3>2
    <3>4. QED
      BY <1>2, <3>3
  <2>3. QED
    BY <1>6, <2>1, <2>2
<1>7. CASE IsFixnum(x) /\ shift =< DigitBits /\ n \in FixnumMin .. FixnumMax
  <2>1. u = Fixnum(n)
    BY <1>3, <1>7
  <2>2. shift > 0 => n = 2 ^ shift * N
    <3>1. shift > 0 => n = N * 2 ^ shift
      BY <1>1, <1>7
    <3>2. QED
      BY <1>1, <1>4, <3>1
  <2>3. shift = 0 => n = N
    <3>1. CASE shift = 0
      <4>1. n = x.n \div 1
        BY <1>4, <3>1
      <4> HIDE DEF n
      <4>2. n = x.n
        BY <1>1, <1>2, <1>7, <4>1
      <4>3. QED
        BY <1>1, <1>7, <4>2
    <3>2. QED
      BY <3>1
  <2> HIDE DEF n
  <2>4. IntegerObject(u) /\ NumberOf(u) = n
    BY <1>7, <2>1 DEF IntegerObject, Fixnum, NumberOf, IsFixnum
  <2> HIDE DEF N, u
  <2>5. shift >= 0 => n = 2 ^ shift * N
    <3>1. CASE shift = 0
      BY <1>1, <1>4, <2>3, <3>1
    <3>2. QED
      BY <2>2, <3>1
  <2>6. Shifted(N, n, shift)
    BY <1>5, <1>7, <2>5 DEF Shifted
  <2>7. QED
    BY <2>4, <2>6 DEF N, u
<1>8. CASE ~(IsFixnum(x) /\ shift =< DigitBits /\ n \in FixnumMin .. FixnumMax)
  <2>1. u = OprtrLogash(b, shift)
    BY <1>3, <1>8
  <2>2. CASE shift = 0
    <3>1. ~IsFixnum(x)
      <4> HIDE DEF n
      <4>1. IsFixnum(x) => n \in FixnumMin .. FixnumMax
        BY <1>6, <2>2
      <4>2. QED
        BY <1>8, <2>2, <4>1, DigitBitsAssumption
    <3>2. b = x
      BY <3>1 DEF AsBignum
    <3>3. OprtrLogash(b, shift) = b
      BY <2>2 DEF OprtrLogash
    <3>4. u = x
      BY <2>1, <3>2, <3>3
    <3> HIDE DEF u, N, b, n
    <3>5. Shifted(N, N, shift)
      BY <1>1, <1>4, <2>2 DEF Shifted
    <3>6. QED
      BY <3>4, <3>5 DEF u, N
  <2>3. CASE shift > 0
    <3>1. shift \in Nat
      BY <2>3
    <3> HIDE DEF b, n
    <3>2. IntegerObject(OprtrLogash(b, shift)) /\ NumberOf(OprtrLogash(b, shift)) = 2 ^ shift * NumberOf(b)
      BY <1>1, <2>3, <3>1, BignumLeft
    <3> HIDE DEF u, N
    <3>3. Shifted(N, NumberOf(u), shift)
      BY <1>1, <2>1, <2>3, <3>2 DEF Shifted
    <3>4. QED
      BY <2>1, <3>2, <3>3 DEF u, N
  <2>4. CASE shift < 0
    <3> DEFINE s == -shift
    <3>1. s \in Nat /\ s > 0 /\ -s = shift
      BY <2>4
    <3>2. b.sign # 0
      <4>1. N # 0
        <5>1. CASE IsFixnum(x)
          <6> HIDE DEF n, N
          <6>1. shift =< DigitBits
            BY <2>4, DigitBitsAssumption
          <6>2. QED
            BY <1>6, <1>8, <2>4, <5>1, <6>1
        <5>2. CASE ~IsFixnum(x)
          BY <5>2, OneOrOther
        <5>3. QED
          BY <5>1, <5>2
      <4>2. b.sign = 0 => NumberOf(b) = 0
        BY <1>1, SignedParts DEF Sign
      <4>3. QED
        BY <1>1, <4>1, <4>2
    <3> HIDE DEF b, s, n
    <3>3. /\ IntegerObject(OprtrLogash(b, -s))
          /\ \E rest \in 0 .. (2 ^ s - 1) : NumberOf(b) = 2 ^ s * NumberOf(OprtrLogash(b, -s)) + rest
      BY <1>1, <3>1, <3>2, BignumRight
    <3> HIDE DEF u, N
    <3>4. IntegerObject(u) /\ \E rest \in 0 .. (2 ^ s - 1) : N = 2 ^ s * NumberOf(u) + rest
      BY <1>1, <2>1, <3>1, <3>3
    <3>5. Shifted(N, NumberOf(u), shift)
      BY <2>4, <3>1, <3>4 DEF Shifted, s
    <3>6. QED
      BY <3>4, <3>5 DEF u, N
  <2>5. QED
    BY <2>2, <2>3, <2>4
<1>9. QED
  BY <1>7, <1>8

(***************************************************************************)
(* The bits of an integer.                                                 *)
(***************************************************************************)
LEMMA BitSizeExact ==
  ASSUME NEW e, Normal(e), e # <<>>
  PROVE  LET k == BitSize(e)
         IN  k \in Nat /\ k > 0 /\ 2 ^ (k - 1) =< ValueOf(e) /\ ValueOf(e) < 2 ^ k
<1> DEFINE m == Len(e) - 1
           t == e[Len(e)]
           S == {j \in 0 .. DigitBits : t < 2 ^ j}
           j == Min(S)
           a == DigitBits * m
           W == Weight(m)
           V == ValueOf(e)
<1>1. e \in Seq(DigitSet) /\ m \in Nat /\ t \in DigitSet /\ t # 0
  <2>1. e \in Seq(DigitSet) /\ t # 0
    BY DEF Normal
  <2>2. Len(e) \in Nat /\ Len(e) # 0
    BY <2>1
  <2>3. Len(e) \in 1 .. Len(e)
    BY <2>2
  <2>4. t \in DigitSet
    BY <2>1, <2>3, SeqIsArray DEF Terms
  <2>5. QED
    BY <2>1, <2>2, <2>4
<1>2. t \in Nat /\ t > 0 /\ t < 2 ^ DigitBits
  BY <1>1, BaseType DEF DigitSet, Base
<1> HIDE DEF t
<1>3. j \in S /\ \A y \in S : j =< y
  <2>1. S \in SUBSET Nat /\ DigitBits \in S
    BY <1>2, DigitBitsAssumption
  <2> HIDE DEF S
  <2>2. QED
    BY <2>1, Smallest
<1>4. j \in 0 .. DigitBits /\ t < 2 ^ j
  BY <1>3
<1>5. j > 0 /\ j - 1 \in Nat /\ 2 ^ (j - 1) \in Nat /\ 2 ^ (j - 1) =< t
  <2> HIDE DEF j
  <2>1. 2 ^ 0 = 1
    BY PowerOfTwo
  <2>2. j # 0
    <3>1. ASSUME j = 0 PROVE FALSE
      <4>1. 2 ^ j = 1
        BY <2>1, <3>1
      <4>2. QED
        BY <1>2, <1>4, <4>1
    <3>2. QED
      BY <3>1
  <2>3. j > 0 /\ j - 1 \in Nat /\ j - 1 \in 0 .. DigitBits
    BY <1>4, <2>2, DigitBitsAssumption
  <2>4. ~(j - 1 \in S)
    BY <1>3, <1>4, <2>3
  <2>5. ~(t < 2 ^ (j - 1)) /\ 2 ^ (j - 1) \in Nat
    BY <2>3, <2>4, PowerOfTwo
  <2>6. QED
    BY <1>2, <2>3, <2>5
<1>6. BitSize(e) = a + j
  BY DEF BitSize, t
<1> HIDE DEF S, j
<1>7. W = 2 ^ a /\ a \in Nat
  <2> HIDE DEF m
  <2>1. QED
    BY <1>1, WeightPower
<1>8. PICK lo \in Nat : V = lo + W * t /\ lo < W
  BY <1>1, TopDigit DEF t
<1> DEFINE p == 2 ^ j
           q == 2 ^ (j - 1)
<1>9. W \in Nat /\ W > 0
  BY <1>1, Weighted, WeightPower, PowerOfTwo
<1>10. 2 ^ (a + j) = W * p /\ 2 ^ (a + (j - 1)) = W * q /\ p \in Nat /\ q \in Nat
  <2> HIDE DEF a
  <2>1. j \in Nat /\ j - 1 \in Nat
    BY <1>4, <1>5
  <2>2. 2 ^ (a + j) = 2 ^ a * 2 ^ j /\ 2 ^ j \in Nat
    BY <1>7, <2>1, PowerSum
  <2> DEFINE i == j - 1
  <2> HIDE DEF i
  <2>3. i \in Nat
    BY <2>1 DEF i
  <2>4. 2 ^ (a + i) = 2 ^ a * 2 ^ i /\ 2 ^ i \in Nat
    BY <1>7, <2>3, PowerSum
  <2>5. QED
    BY <1>7, <2>2, <2>4 DEF i
<1>11. t + 1 =< p /\ q =< t
  BY <1>2, <1>4, <1>5, <1>10
<1> HIDE DEF p, q, W, V
<1>12. W * t \in Nat /\ W * (t + 1) = W * t + W /\ W * (t + 1) =< W * p /\ W * q =< W * t /\ W * p \in Nat /\ W * q \in Nat
  <2>1. \A x \in Nat, y \in Nat : x =< y => W * x =< W * y
    BY <1>9
  <2>2. QED
    BY <1>2, <1>9, <1>10, <1>11, <2>1
<1>13. V < W * p /\ W * q =< V
  BY <1>8, <1>9, <1>12
<1>14. (a + j) - 1 = a + (j - 1) /\ a + j \in Nat /\ a + j > 0
  BY <1>4, <1>5, <1>7
<1>15. QED
  BY <1>6, <1>10, <1>13, <1>14 DEF V

(***************************************************************************)
(* bitwise-length: the bits of n, or of -n - 1 when n is negative.         *)
(***************************************************************************)
THEOREM BitLengthExact ==
  ASSUME NEW x, IntegerObject(x)
  PROVE  LET n == NumberOf(x)
             m == IF n < 0 THEN -n - 1 ELSE n
             k == BitLength(x)
         IN  k \in Nat /\ m < 2 ^ k /\ (k = 0 <=> m = 0) /\ (k > 0 => 2 ^ (k - 1) =< m)
<1> DEFINE n == NumberOf(x)
           m == IF n < 0 THEN -n - 1 ELSE n
           y == IF SignOf(x) < 0 THEN Lognot(x) ELSE x
           b == AsBignum(y)
           e == b.elts
           k == BitLength(x)
           V == ValueOf(e)
<1>1. n \in Int /\ SignOf(x) = Sign(n)
  BY SignOfExact
<1>2. IntegerObject(Lognot(x)) /\ NumberOf(Lognot(x)) = -n - 1
  BY LognotExact
<1>3. IntegerObject(y) /\ NumberOf(y) = m /\ m \in Nat
  BY <1>1, <1>2 DEF Sign
<1> HIDE DEF y
<1>4. BignumObject(b) /\ NumberOf(b) = m
  BY <1>3, AsBignumExact
<1>5. k = IF e = <<>> THEN 0 ELSE BitSize(e)
  BY DEF BitLength, y
<1> HIDE DEF b, k, n, m
<1>6. /\ Normal(e) /\ b.sign \in {-1, 0, 1} /\ m = b.sign * V /\ V \in Nat
      /\ (e = <<>> <=> V = 0) /\ (b.sign = 0 <=> e = <<>>)
  BY <1>4, BignumFields
<1> HIDE DEF e, V
<1>7. V = m
  BY <1>3, <1>6
<1>8. CASE e = <<>>
  <2>1. k = 0 /\ m = 0 /\ 2 ^ 0 = 1
    BY <1>5, <1>6, <1>7, <1>8, PowerOfTwo
  <2>2. 2 ^ k = 1
    BY <2>1
  <2>3. QED
    BY <2>1, <2>2 DEF k, m, n
<1>9. CASE e # <<>>
  <2>1. k = BitSize(e)
    BY <1>5, <1>9
  <2>2. k \in Nat /\ k > 0 /\ 2 ^ (k - 1) =< V /\ V < 2 ^ k
    BY <1>6, <1>9, <2>1, BitSizeExact DEF V
  <2>3. m # 0
    BY <1>6, <1>7, <1>9
  <2>4. QED
    BY <1>7, <2>2, <2>3 DEF k, m, n
<1>10. QED
  BY <1>8, <1>9

(***************************************************************************)
(* The square root.                                                        *)
(***************************************************************************)
(* A turn of Newton's iteration does not fall below the root.              *)
LEMMA NewtonAbove ==
  ASSUME NEW V \in Nat, NEW S \in Nat, NEW q \in Nat, NEW c \in Nat, NEW m \in Nat,
         V = S * q + c, c < S, q + S =< 2 * m + 1
  PROVE  V < (m + 1) * (m + 1)
<1> DEFINE y == q + 1
           d == m + 1
           p == S * y
           u == S + y
           g == S - y
<1>1. V < p /\ p \in Nat
  <2>1. S * y = S * q + S /\ S * q \in Nat
    OBVIOUS
  <2>2. QED
    BY <2>1
<1>2. u * u = 4 * p + g * g /\ g * g >= 0 /\ g * g \in Int
  <2>1. g \in Int /\ y \in Nat
    OBVIOUS
  <2>2. \A a \in Int : a * a >= 0
    OBVIOUS
  <2> HIDE DEF y
  <2>3. (S + y) * (S + y) = 4 * (S * y) + (S - y) * (S - y)
    BY <2>1
  <2>4. QED
    BY <2>1, <2>2, <2>3
<1>3. 4 * (d * d) >= u * u /\ d * d \in Nat /\ u * u \in Nat
  <2>1. u =< 2 * d /\ u \in Nat /\ d \in Nat
    OBVIOUS
  <2> HIDE DEF u, d
  <2>2. u * u =< (2 * d) * (2 * d)
    <3>1. u * u =< u * (2 * d)
      BY <2>1
    <3>2. u * (2 * d) =< (2 * d) * (2 * d)
      BY <2>1
    <3>3. u * u \in Nat /\ u * (2 * d) \in Nat /\ (2 * d) * (2 * d) \in Nat
      BY <2>1
    <3>4. QED
      BY <3>1, <3>2, <3>3
  <2>3. (2 * d) * (2 * d) = 4 * (d * d) /\ d * d \in Nat /\ u * u \in Nat
    BY <2>1
  <2>4. QED
    BY <2>2, <2>3
<1> DEFINE dd == d * d
           uu == u * u
           gg == g * g
<1> HIDE DEF p, u, g, d, y
<1>4. /\ V < p /\ p \in Nat /\ uu = 4 * p + gg /\ gg >= 0 /\ gg \in Int /\ 4 * dd >= uu /\ dd \in Nat /\ uu \in Nat
  BY <1>1, <1>2, <1>3
<1> HIDE DEF dd, uu, gg
<1>5. V < dd
  BY <1>4
<1>6. QED
  BY <1>5 DEF dd, d

(* Where it no longer falls it is at the root.                             *)
LEMMA NewtonEnds ==
  ASSUME NEW V \in Nat, NEW S \in Nat, NEW q \in Nat, NEW c \in Nat, NEW m \in Nat,
         V = S * q + c, 2 * m =< q + S, m >= S
  PROVE  S * S =< V
<1>1. q >= S
  OBVIOUS
<1>2. S * S =< S * q /\ S * q \in Nat /\ S * S \in Nat
  BY <1>1
<1>3. QED
  BY <1>2

LEMMA WeightOrder ==
  ASSUME NEW m \in Nat, NEW n \in Nat, m =< n
  PROVE  Weight(m) =< Weight(n) /\ Weight(m) \in Nat /\ Weight(n) \in Nat
<1> DEFINE G == {k \in 0 .. (n - m) : Weight(m) =< Weight(m + k)}
           l == n - m
<1>1. \A k \in Nat : Weight(k) \in Nat /\ Weight(k) > 0
  BY WeightPower, PowerOfTwo
<1>2. l \in Nat /\ m + l = n
  OBVIOUS
<1>3. 0 \in G
  BY <1>1
<1>4. ASSUME NEW k \in 0 .. (l - 1), k \in G PROVE k + 1 \in G
  <2>1. m + k \in Nat /\ m + (k + 1) = (m + k) + 1 /\ k + 1 \in 0 .. (n - m) /\ Weight(m) =< Weight(m + k)
    BY <1>4
  <2>2. Weight((m + k) + 1) = Base * Weight(m + k)
    BY <2>1, WeightNext
  <2> DEFINE a == Weight(m + k)
             b == Base
  <2>3. a \in Nat /\ b \in Nat /\ b > 1
    BY <1>1, <2>1, BaseType
  <2> HIDE DEF a, b
  <2>4. b * a >= a /\ b * a \in Nat
    BY <2>3
  <2>5. Weight(m) \in Nat
    BY <1>1
  <2>6. Weight(m) =< Weight(m + (k + 1))
    BY <2>1, <2>2, <2>3, <2>4, <2>5 DEF a, b
  <2>7. QED
    BY <2>1, <2>6
<1> HIDE DEF G, l
<1>5. 0 .. l \subseteq G
  BY <1>2, <1>3, <1>4, Ascent
<1>6. l \in G
  BY <1>2, <1>5
<1>7. QED
  BY <1>1, <1>2, <1>6 DEF G

(* A quotient not much smaller than the divisor has nearly its digits.     *)
LEMMA NearlyAsLong ==
  ASSUME NEW s, Normal(s), NEW quo, Normal(quo), ValueOf(s) < 4 * ValueOf(quo), DigitBits > 2
  PROVE  /\ Len(quo) + 1 \in Nat /\ Len(s) =< Len(quo) + 1 /\ Len(quo) =< Len(quo) + 1
         /\ ValueOf(quo) + ValueOf(s) < Weight(Len(quo) + 1)
<1> DEFINE n == Len(quo)
           k == Len(s)
           W == Weight(n)
           q == ValueOf(quo)
           S == ValueOf(s)
           b == Base
<1>1. n \in Nat /\ k \in Nat /\ quo \in Seq(DigitSet) /\ s \in Seq(DigitSet)
  BY DEF Normal
<1>2. W \in Nat /\ W > 0 /\ q \in Nat /\ q < W /\ S \in Nat
  <2>1. Terms(quo, n, DigitSet) /\ 0 \in Int
    BY <1>1, SeqIsArray
  <2>2. W \in Nat /\ W > 0 /\ Total(quo, n, 0) \in Nat /\ Total(quo, n, 0) < W
    BY <1>1, <2>1, Weighted
  <2>3. S \in Nat
    BY <1>1, ValueType
  <2>4. QED
    BY <2>2, <2>3 DEF ValueOf
<1>3. b \in Nat /\ b >= 8
  <2> DEFINE j == DigitBits - 3
  <2>1. j \in Nat /\ (j + 1) + 1 \in Nat /\ ((j + 1) + 1) + 1 = DigitBits
    BY DigitBitsAssumption
  <2> HIDE DEF j
  <2>2. 2 ^ j \in Nat /\ 2 ^ j > 0 /\ 2 ^ (j + 1) = 2 * 2 ^ j
    BY <2>1, PowerOfTwo
  <2>3. 2 ^ ((j + 1) + 1) = 2 * 2 ^ (j + 1)
    BY <2>1, PowerOfTwo
  <2>4. 2 ^ (((j + 1) + 1) + 1) = 2 * 2 ^ ((j + 1) + 1)
    BY <2>1, PowerOfTwo
  <2>5. b = 2 ^ (((j + 1) + 1) + 1)
    BY <2>1 DEF Base
  <2>6. QED
    BY <2>2, <2>3, <2>4, <2>5
<1>4. Weight(n + 1) = b * W
  BY <1>1, WeightNext
<1> HIDE DEF b, W, q, S
<1>5. b * W \in Nat /\ b * W >= 8 * W
  BY <1>2, <1>3
<1>6. S < 4 * q
  BY DEF S, q
<1>7. q + S < Weight(n + 1) /\ S < Weight(n + 1) /\ Weight(n + 1) \in Nat
  BY <1>2, <1>4, <1>5, <1>6
<1>8. k =< n + 1
  <2>1. CASE k < n + 2
    BY <1>1, <2>1
  <2>2. CASE k >= n + 2
    <3>1. s # <<>>
      BY <1>1, <2>2
    <3>2. /\ k - 1 \in Nat /\ s[k] \in DigitSet /\ Weight(k - 1) \in Nat
          /\ \E low \in Nat : low < Weight(k - 1) /\ S = low + Weight(k - 1) * s[k]
      BY <1>1, <3>1, TopDigit DEF S
    <3>3. s[k] # 0
      BY <3>1 DEF Normal
    <3> DEFINE t == s[k]
               w == Weight(k - 1)
    <3>4. t \in Nat /\ t > 0
      <4>1. t \in DigitSet /\ t # 0
        BY <3>2, <3>3
      <4> HIDE DEF t
      <4>2. t \in Nat
        BY <4>1, DigitsAre
      <4>3. QED
        BY <4>1, <4>2
    <3>5. PICK low \in Nat : S = low + w * t
      BY <3>2
    <3>6. Weight(n + 1) =< w /\ w \in Nat
      <4>1. n + 1 \in Nat /\ k - 1 \in Nat /\ n + 1 =< k - 1
        BY <1>1, <2>2
      <4>2. QED
        BY <4>1, WeightOrder
    <3> HIDE DEF t, w, k, n
    <3>7. w * t >= w /\ w * t \in Nat
      BY <3>4, <3>6
    <3>8. QED
      BY <1>2, <1>7, <3>5, <3>6, <3>7
  <2>3. QED
    BY <1>1, <2>1, <2>2
<1>9. QED
  BY <1>1, <1>7, <1>8 DEF q, S

(***************************************************************************)
(* What a turn of the iteration starts from and leaves: a number that is   *)
(* not below the root and not far above it, by a bound H that stays.       *)
(***************************************************************************)
Rooting(s, V, H) ==
  /\ Normal(s) /\ ValueOf(s) \in Nat /\ ValueOf(s) > 0
  /\ V < (ValueOf(s) + 1) * (ValueOf(s) + 1)
  /\ ValueOf(s) * H =< V /\ ValueOf(s) < 4 * H

Rooted(s, V) == ValueOf(s) * ValueOf(s) =< V

LEMMA FallExact ==
  ASSUME NEW e, Normal(e), NEW s, NEW H \in Nat, Rooting(s, ValueOf(e), H), DigitBits > 2, NEW f, f = Fall(e, s)
  PROVE  /\ Rooting(f, ValueOf(e), H)
         /\ (f = s /\ Rooted(s, ValueOf(e))) \/ ValueOf(f) < ValueOf(s)
<1> DEFINE V == ValueOf(e)
           S == ValueOf(s)
           quo == Div(e, s).quo
           rem == Div(e, s).rem
           q == ValueOf(quo)
           c == ValueOf(rem)
           n == Len(quo) + 1
           add == AddDigits(n, quo, s)
           sum == add.elts
           mid == Norm(ShiftRight(sum, 1))
           m == ValueOf(mid)
<1>1. Normal(s) /\ S \in Nat /\ S > 0 /\ V < (S + 1) * (S + 1) /\ S * H =< V /\ S < 4 * H
  BY DEF Rooting
<1>2. V \in Nat
  BY ValueSizes
<1>3. H > 0 /\ S =< V /\ s # <<>>
  <2>1. s # <<>>
    <3> HIDE DEF V
    <3>1. s # <<>>
      BY <1>1, ValueSizes
    <3>2. QED
      BY <3>1
  <2> HIDE DEF S, V
  <2>2. H > 0
    BY <1>1
  <2>3. S * H >= S /\ S * H \in Nat
    BY <1>1, <2>2
  <2>4. QED
    BY <1>1, <1>2, <2>1, <2>2, <2>3
<1>4. Normal(quo) /\ Normal(rem) /\ V = S * q + c /\ c < S
  BY <1>1, <1>3, DivExact
<1>5. q \in Nat /\ c \in Nat
  BY <1>4, ValueSizes
<1> HIDE DEF V, S, quo, rem, q, c
<1>6. S < 4 * q
  <2>1. H =< q
    <3>1. CASE q < H
      <4>1. S * (q + 1) =< S * H /\ S * (q + 1) = S * q + S /\ S * q \in Nat /\ S * H \in Nat
        BY <1>1, <1>5, <3>1
      <4>2. QED
        BY <1>1, <1>2, <1>4, <1>5, <4>1
    <3>2. QED
      BY <1>5, <3>1
  <2>2. QED
    BY <1>1, <1>5, <2>1
<1>7. /\ n \in Nat /\ Len(s) =< n /\ Len(quo) =< n /\ q + S < Weight(n)
  <2>1. ValueOf(s) < 4 * ValueOf(quo)
    BY <1>6 DEF S, q
  <2>2. QED
    BY <1>1, <1>4, <2>1, NearlyAsLong DEF q, S
<1> HIDE DEF n
<1>8. quo \in Seq(DigitSet) /\ s \in Seq(DigitSet)
  BY <1>1, <1>4 DEF Normal
<1>9. sum \in [1 .. n -> DigitSet] /\ add.out \in {0, 1} /\ Total(sum, n, add.out) = q + S
  BY <1>7, <1>8, AddDigitsExact DEF q, S
<1> DEFINE out == add.out
<1> HIDE DEF add
<1>10. sum \in Seq(DigitSet) /\ ValueOf(sum) = q + S
  <2>1. sum \in Seq(DigitSet) /\ Len(sum) = n
    BY <1>7, <1>9, ArrayIsSeq
  <2>2. Terms(sum, n, DigitSet) /\ out \in Int
    BY <1>9, <2>1, SeqIsArray
  <2> DEFINE F == Total(sum, n, 0)
             W == Weight(n)
  <2>3. W \in Nat /\ W > 0 /\ F \in Nat /\ Total(sum, n, out) = F + W * out
    BY <1>7, <2>2, Weighted
  <2>4. ValueOf(sum) = F
    BY <2>1 DEF ValueOf
  <2>5. F + W * out = q + S /\ q + S < W /\ out \in {0, 1}
    BY <1>7, <1>9, <2>3
  <2> HIDE DEF F, W, out
  <2>6. out = 0
    <3>1. CASE out = 1
      BY <2>3, <2>5, <3>1, <1>1, <1>5
    <3>2. QED
      BY <2>5, <3>1
  <2>7. F = q + S
    BY <2>3, <2>5, <2>6
  <2>8. QED
    BY <2>1, <2>4, <2>7
<1> HIDE DEF sum
<1> DEFINE o == 1
<1>11. Normal(mid) /\ m \in Nat /\ \E rest \in 0 .. (2 ^ o - 1) : q + S = 2 ^ o * m + rest
  <2>1. o \in Nat
    OBVIOUS
  <2>2. mid = Norm(ShiftRight(sum, o))
    OBVIOUS
  <2> HIDE DEF o, mid
  <2>3. /\ Normal(mid) /\ ValueOf(mid) \in Nat
        /\ \E rest \in 0 .. (2 ^ o - 1) : ValueOf(sum) = 2 ^ o * ValueOf(mid) + rest
    BY <1>10, <2>1, <2>2, ShiftRightExact
  <2>4. QED
    BY <1>10, <2>3
<1> HIDE DEF m
<1>12. 2 * m =< q + S /\ q + S =< 2 * m + 1
  <2>1. 2 ^ o = 2
    <3>1. 2 ^ 0 = 1 /\ 2 ^ (0 + 1) = 2 * 2 ^ 0
      BY PowerOfTwo
    <3>2. QED
      BY <3>1
  <2> HIDE DEF o
  <2>2. PICK rest \in 0 .. 1 : q + S = 2 * m + rest
    BY <1>11, <2>1
  <2>3. QED
    BY <1>1, <1>5, <1>11, <2>2
<1>13. f = IF Cmp(mid, s) >= 0 THEN s ELSE mid
  BY DEF Fall, sum, add, n, quo
<1>14. Cmp(mid, s) = Sign(m - S)
  BY <1>1, <1>11, CmpExact DEF m, S
<1> HIDE DEF mid, o
<1>15. CASE m >= S
  <2>1. f = s
    BY <1>1, <1>11, <1>13, <1>14, <1>15 DEF Sign
  <2>2. S * S =< V
    BY <1>1, <1>2, <1>4, <1>5, <1>11, <1>12, <1>15, NewtonEnds
  <2>3. QED
    BY <2>1, <2>2 DEF Rooted, S, V
<1>16. CASE m < S
  <2>1. f = mid
    BY <1>1, <1>11, <1>13, <1>14, <1>16 DEF Sign
  <2>2. V < (m + 1) * (m + 1)
    BY <1>1, <1>2, <1>4, <1>5, <1>11, <1>12, NewtonAbove
  <2>3. m > 0
    BY <1>1, <1>5, <1>6, <1>11, <1>12
  <2>4. m * H =< V
    <3>1. m * H =< S * H /\ m * H \in Nat /\ S * H \in Nat
      BY <1>1, <1>11, <1>16
    <3>2. QED
      BY <1>1, <1>2, <3>1
  <2>5. m < 4 * H
    BY <1>1, <1>11, <1>16
  <2>6. Rooting(mid, V, H)
    BY <1>11, <2>2, <2>3, <2>4, <2>5 DEF Rooting, m
  <2>7. ValueOf(f) < S
    BY <1>16, <2>1 DEF m
  <2>8. QED
    BY <2>1, <2>6, <2>7 DEF V, S
<1>17. QED
  BY <1>1, <1>11, <1>15, <1>16

(* What the iteration has come to after k turns, of n at most.             *)
RootAfter(V, H, n, k) ==
  {s \in Seq(DigitSet) : Rooting(s, V, H) /\ (Rooted(s, V) \/ ValueOf(s) + k =< n)}

LEMMA FallStep ==
  ASSUME NEW e, Normal(e), NEW H \in Nat, NEW n \in Nat, NEW k \in 1 .. n, DigitBits > 2,
         NEW s \in RootAfter(ValueOf(e), H, n, k - 1)
  PROVE  Fall(e, s) \in RootAfter(ValueOf(e), H, n, k)
<1> DEFINE V == ValueOf(e)
           f == Fall(e, s)
           S == ValueOf(s)
           F == ValueOf(f)
<1>1. Rooting(s, V, H) /\ (Rooted(s, V) \/ S + (k - 1) =< n)
  BY DEF RootAfter
<1>2. Rooting(f, V, H) /\ ((f = s /\ Rooted(s, V)) \/ F < S)
  BY <1>1, FallExact
<1>3. f \in Seq(DigitSet) /\ F \in Nat /\ V < (F + 1) * (F + 1)
  BY <1>2 DEF Rooting, Normal
<1>4. S \in Nat
  BY <1>1 DEF Rooting
<1>5. V \in Nat
  BY ValueSizes
<1> HIDE DEF f
<1>6. CASE f = s /\ Rooted(s, V)
  BY <1>2, <1>3, <1>6 DEF RootAfter, f
<1>7. CASE F < S
  <2>1. ~Rooted(s, V)
    <3>1. ASSUME S * S =< V PROVE FALSE
      <4> HIDE DEF F, S, V
      <4> DEFINE g == F + 1
      <4>1. g \in Nat /\ g =< S /\ V < g * g
        BY <1>3, <1>4, <1>7
      <4> HIDE DEF g
      <4>2. g * g =< g * S /\ g * S =< S * S /\ g * g \in Nat /\ g * S \in Nat /\ S * S \in Nat
        BY <1>4, <4>1
      <4>3. QED
        BY <1>5, <3>1, <4>1, <4>2
    <3>2. QED
      BY <3>1 DEF Rooted
  <2>2. F + k =< n
    <3> HIDE DEF F, S
    <3>1. QED
      BY <1>1, <1>3, <1>4, <1>7, <2>1
  <2>3. QED
    BY <1>2, <1>3, <2>2 DEF RootAfter, f
<1>8. QED
  BY <1>2, <1>6, <1>7

LEMMA SqrtFromExact ==
  ASSUME NEW e, Normal(e), NEW s, NEW H \in Nat, Rooting(s, ValueOf(e), H), DigitBits > 2
  PROVE  Rooting(SqrtFrom(e, s), ValueOf(e), H) /\ Rooted(SqrtFrom(e, s), ValueOf(e))
<1> DEFINE n == ValueOf(s)
           V == ValueOf(e)
           P == [k \in 0 .. n |-> RootAfter(V, H, n, k)]
           g == [i \in 1 .. n |-> [y \in P[i - 1] |-> Fall(e, y)]]
           X(f) == [k \in 0 .. n |-> IF k = 0 THEN s ELSE Fall(e, f[k - 1])]
<1>1. n \in Nat /\ n > 0 /\ s \in Seq(DigitSet)
  BY DEF Rooting, Normal
<1>2. s \in RootAfter(V, H, n, 0)
  <2>1. n + 0 =< n
    <3> HIDE DEF n
    <3>1. QED
      BY <1>1
  <2>2. QED
    BY <1>1, <2>1 DEF RootAfter
<1> HIDE DEF n, V
<1>3. s \in P[0]
  BY <1>1, <1>2
<1>4. \A i \in 1 .. n : \A y \in P[i - 1] : Fall(e, y) \in P[i]
  <2>1. ASSUME NEW i \in 1 .. n, NEW y \in P[i - 1] PROVE Fall(e, y) \in P[i]
    <3>1. i - 1 \in 0 .. n /\ i \in 0 .. n
      BY <1>1
    <3>2. y \in RootAfter(V, H, n, i - 1)
      BY <2>1, <3>1
    <3> HIDE DEF P
    <3>3. Fall(e, y) \in RootAfter(V, H, n, i)
      BY <1>1, <3>2, FallStep DEF V
    <3>4. QED
      BY <3>1, <3>3 DEF P
  <2>2. QED
    BY <2>1
<1> HIDE DEF P
<1>5. \A i \in 1 .. n : \A y \in P[i - 1] : g[i][y] = Fall(e, y)
  OBVIOUS
<1>6. PICK f : f = [i \in 0 .. n |-> f[i]] /\ Course(f, n, P, s, g)
  <2> HIDE DEF g
  <2>1. \A i \in 1 .. n : \A y \in P[i - 1] : g[i][y] \in P[i]
    BY <1>4, <1>5
  <2>2. Looped(n, P, s, g)
    BY <1>1, <1>3, <2>1, LoopExists
  <2>3. QED
    BY <2>2 DEF Looped
<1> HIDE DEF g
<1>7. f = X(f)
  <2>1. ASSUME NEW k \in 0 .. n PROVE f[k] = X(f)[k]
    <3>1. CASE k = 0
      BY <1>6, <3>1 DEF Course
    <3>2. CASE k # 0
      <4>1. k \in 1 .. n /\ k - 1 \in 0 .. n
        BY <1>1, <3>2
      <4>2. f[k] = g[k][f[k - 1]] /\ f[k - 1] \in P[k - 1]
        BY <1>6, <4>1 DEF Course
      <4>3. f[k] = Fall(e, f[k - 1])
        BY <1>5, <4>1, <4>2
      <4>4. QED
        BY <3>2, <4>3
    <3>3. QED
      BY <3>1, <3>2
  <2>2. QED
    BY <1>6, <2>1
<1> DEFINE root == CHOOSE h : h = X(h)
<1>8. root = X(root)
  <2>1. \E h : h = X(h)
    BY <1>7
  <2>2. QED
    <3> HIDE DEF X
    <3>1. QED
      BY <2>1
<1>9. SqrtFrom(e, s) = root[n]
  BY DEF SqrtFrom, n
<1> HIDE DEF root
<1>10. root[0] = s /\ \A k \in 1 .. n : root[k] = Fall(e, root[k - 1])
  BY <1>1, <1>8
<1> DEFINE G == {k \in 0 .. n : root[k] \in P[k]}
<1>11. 0 .. n \subseteq G
  <2>1. 0 \in G
    BY <1>1, <1>3, <1>10
  <2>2. ASSUME NEW k \in 0 .. (n - 1), k \in G PROVE k + 1 \in G
    <3>1. k + 1 \in 1 .. n /\ (k + 1) - 1 = k /\ root[k] \in P[(k + 1) - 1] /\ k + 1 \in 0 .. n
      BY <1>1, <2>2
    <3>2. root[k + 1] = Fall(e, root[k])
      BY <1>10, <3>1
    <3>3. root[k + 1] \in P[k + 1]
      BY <1>4, <3>1, <3>2
    <3>4. QED
      BY <3>1, <3>3
  <2> HIDE DEF G
  <2>3. QED
    BY <1>1, <2>1, <2>2, Ascent
<1>12. root[n] \in P[n] /\ n \in 0 .. n
  BY <1>1, <1>11
<1> DEFINE r == root[n]
<1>13. Rooting(r, V, H) /\ (Rooted(r, V) \/ ValueOf(r) + n =< n)
  BY <1>12 DEF P, RootAfter
<1> HIDE DEF r
<1>14. ValueOf(r) \in Nat /\ ValueOf(r) > 0
  BY <1>13 DEF Rooting
<1>15. Rooted(r, V)
  BY <1>1, <1>13, <1>14
<1>16. QED
  BY <1>9, <1>13, <1>15 DEF r, V

(* Half the bits of a number above its root.                               *)
LEMMA RootStart ==
  ASSUME NEW e, Normal(e), e # <<>>, NEW h, h = (BitSize(e) - 1) \div 2, NEW s, s = Norm(ShiftRight(e, h))
  PROVE  h \in Nat /\ 2 ^ h \in Nat /\ Rooting(s, ValueOf(e), 2 ^ h)
<1> DEFINE k == BitSize(e)
           j == k - 1
           V == ValueOf(e)
           H == 2 ^ h
           S == ValueOf(s)
           l == j % 2
<1>1. k \in Nat /\ k > 0 /\ 2 ^ (k - 1) =< V /\ V < 2 ^ k
  BY BitSizeExact
<1>2. V \in Nat
  BY ValueSizes
<1> HIDE DEF k
<1>3. j \in Nat /\ h \in Nat /\ l \in 0 .. 1 /\ j = 2 * h + l
  BY <1>1 DEF k
<1>4. H \in Nat /\ H > 0
  BY <1>3, PowerOfTwo
<1>5. H * H =< V /\ V < 4 * (H * H)
  <2>1. 2 ^ (h + h) = H * H
    BY <1>3, PowerSum
  <2> DEFINE m == h + h
             Q == H * H
  <2>2. m \in Nat /\ (j = m \/ j = m + 1) /\ (k = m + 1 \/ k = (m + 1) + 1) /\ m + 1 \in Nat
    BY SMTT(30), <1>1, <1>3
  <2> HIDE DEF m, H
  <2>3. 2 ^ m = Q /\ Q \in Nat
    BY <1>4, <2>1 DEF m
  <2>4. 2 ^ (m + 1) = 2 * Q /\ 2 ^ ((m + 1) + 1) = 4 * Q
    <3>1. 2 ^ (m + 1) = 2 * 2 ^ m
      BY <2>2, PowerOfTwo
    <3>2. 2 ^ ((m + 1) + 1) = 2 * 2 ^ (m + 1)
      BY <2>2, PowerOfTwo
    <3>3. QED
      BY <2>3, <3>1, <3>2
  <2> HIDE DEF Q
  <2>5. 2 ^ j >= Q /\ 2 ^ k =< 4 * Q /\ 2 ^ j \in Nat /\ 2 ^ k \in Nat
    <3>1. 2 ^ j = Q \/ 2 ^ j = 2 * Q
      BY <2>2, <2>3, <2>4
    <3>2. 2 ^ k = 2 * Q \/ 2 ^ k = 4 * Q
      BY <2>2, <2>4
    <3>3. QED
      BY <2>3, <3>1, <3>2
  <2>6. Q =< V /\ V < 4 * Q
    BY <1>1, <1>2, <2>3, <2>5
  <2>7. QED
    BY <2>6 DEF Q
<1>6. e \in Seq(DigitSet)
  BY DEF Normal
<1>7. Normal(s) /\ S \in Nat /\ \E rest \in 0 .. (H - 1) : V = H * S + rest
  BY SMTT(30), <1>3, <1>6, ShiftRightExact
<1>8. PICK rest \in 0 .. (H - 1) : V = H * S + rest
  BY <1>7
<1> HIDE DEF V, H, S
<1>9. S >= H
  <2>1. CASE S < H
    <3>1. H * (S + 1) =< H * H /\ H * (S + 1) = H * S + H /\ H * S \in Nat /\ H * H \in Nat
      BY <1>4, <1>7, <2>1
    <3>2. QED
      BY <1>2, <1>4, <1>5, <1>8, <3>1
  <2>2. QED
    BY <1>4, <1>7, <2>1
<1>10. S < 4 * H
  <2>1. CASE S >= 4 * H
    <3>1. H * (4 * H) =< H * S /\ H * (4 * H) = 4 * (H * H) /\ H * S \in Nat /\ H * H \in Nat
      BY <1>4, <1>7, <2>1
    <3>2. QED
      BY <1>2, <1>4, <1>5, <1>8, <3>1
  <2>2. QED
    BY <1>4, <1>7, <2>1
<1>11. S * H =< V
  <2>1. S * H = H * S /\ H * S \in Nat
    BY <1>4, <1>7
  <2>2. QED
    BY <1>2, <1>4, <1>8, <2>1
<1>12. V < (S + 1) * (S + 1)
  <2> DEFINE u == S + 1
  <2>1. u \in Nat /\ u >= H
    BY <1>4, <1>7, <1>9
  <2>2. H * u = H * S + H /\ H * S \in Nat
    BY <1>4, <1>7
  <2>3. V < H * u
    BY <1>2, <1>4, <1>8, <2>2
  <2> HIDE DEF u
  <2>4. H * u =< u * u /\ H * u \in Nat /\ u * u \in Nat
    BY <1>4, <2>1
  <2>5. V < u * u
    BY <1>2, <2>3, <2>4
  <2>6. QED
    BY <2>5 DEF u
<1>13. Rooting(s, V, H)
  BY <1>4, <1>7, <1>9, <1>10, <1>11, <1>12 DEF Rooting, S
<1>14. QED
  BY <1>3, <1>4, <1>13 DEF V, H

(***************************************************************************)
(* The digits bn_sqrt comes to are those of the root, rounded down.        *)
(***************************************************************************)
THEOREM SqrtExact ==
  ASSUME NEW e, Normal(e), e # <<>>, DigitBits > 2
  PROVE  LET r == Sqrt(e)
         IN  /\ Normal(r) /\ ValueOf(r) \in Nat
             /\ ValueOf(r) * ValueOf(r) =< ValueOf(e)
             /\ ValueOf(e) < (ValueOf(r) + 1) * (ValueOf(r) + 1)
<1> DEFINE h == (BitSize(e) - 1) \div 2
           s == Norm(ShiftRight(e, h))
           H == 2 ^ h
           V == ValueOf(e)
           r == SqrtFrom(e, s)
<1>1. H \in Nat /\ Rooting(s, V, H)
  BY RootStart
<1>2. Sqrt(e) = r
  BY DEF Sqrt
<1> HIDE DEF s, h, H
<1>3. Rooting(r, V, H) /\ Rooted(r, V)
  BY <1>1, SqrtFromExact
<1>4. QED
  BY <1>2, <1>3 DEF Rooting, Rooted

(***************************************************************************)
(* The root of a number that a double holds.                               *)
(***************************************************************************)
IsRootOf(r, n) == r * r =< n /\ n < (r + 1) * (r + 1)

LEMMA FloorRootExact ==
  ASSUME NEW n \in Nat
  PROVE  FloorRoot(n) \in 0 .. n /\ IsRootOf(FloorRoot(n), n)
<1> DEFINE S == {s \in 0 .. n : s * s =< n}
           r == Max(S)
<1>1. FloorRoot(n) = r
  BY DEF FloorRoot
<1>2. r \in S /\ \A y \in S : y =< r
  <2>1. S \in SUBSET (0 .. n) /\ 0 \in S
    OBVIOUS
  <2> HIDE DEF S
  <2>2. QED
    BY <2>1, Greatest
<1>3. r \in Nat /\ r =< n /\ r * r =< n
  BY <1>2
<1>4. n < (r + 1) * (r + 1)
  <2> HIDE DEF r
  <2> DEFINE z == r + 1
  <2>1. z \in Nat /\ z > r /\ z >= 1
    BY <1>3
  <2> HIDE DEF z
  <2>2. CASE z =< n
    <3>1. ~(z * z =< n)
      <4>1. z \in 0 .. n
        BY <2>1, <2>2
      <4>2. z \notin S
        BY <1>2, <1>3, <2>1
      <4>3. QED
        BY <4>1, <4>2
    <3>2. z * z \in Nat
      BY <2>1
    <3>3. n < z * z
      BY <3>1, <3>2
    <3>4. QED
      BY <3>3 DEF z
  <2>3. CASE z > n
    <3>1. z * z >= z /\ z * z \in Nat
      BY <2>1
    <3>2. n < z * z
      BY <2>1, <2>3, <3>1
    <3>3. QED
      BY <3>2 DEF z
  <2>4. QED
    BY <2>1, <2>2, <2>3
<1> HIDE DEF r
<1>5. QED
  BY <1>1, <1>3, <1>4 DEF IsRootOf

LEMMA HalvesExact ==
  ASSUME NEW k \in Nat, k > 1
  PROVE  \E e \in 0 .. DoubleBits :
           /\ 2 ^ e < k /\ \A i \in 0 .. DoubleBits : 2 ^ i < k => i =< e
           /\ Halves(k) = 2 ^ (DoubleBits - e) /\ Halves(k) \in Nat /\ Halves(k) > 0
           /\ 2 ^ e \in Nat /\ 2 ^ e > 0 /\ 2 ^ e * Halves(k) = 2 ^ DoubleBits
<1> DEFINE S == {i \in 0 .. DoubleBits : 2 ^ i < k}
           e == Max(S)
           d == DoubleBits - e
<1>1. e \in S /\ \A y \in S : y =< e
  <2>1. S \in SUBSET (0 .. DoubleBits) /\ DoubleBits \in Nat
    BY WidthsAssumption
  <2>2. 2 ^ 0 = 1
    BY PowerOfTwo
  <2>3. 0 \in S
    BY <2>1, <2>2
  <2> HIDE DEF S
  <2>4. QED
    BY <2>1, <2>3, Greatest
<1>2. e \in 0 .. DoubleBits /\ 2 ^ e < k /\ \A i \in 0 .. DoubleBits : 2 ^ i < k => i =< e
  BY <1>1
<1>3. Halves(k) = 2 ^ d
  BY DEF Halves
<1> HIDE DEF e
<1>4. e \in Nat /\ d \in Nat /\ e + d = DoubleBits
  BY <1>2, WidthsAssumption
<1> HIDE DEF d
<1>5. 2 ^ (e + d) = 2 ^ e * 2 ^ d /\ 2 ^ e \in Nat /\ 2 ^ d \in Nat /\ 2 ^ e > 0 /\ 2 ^ d > 0
  BY <1>4, PowerSum
<1>6. QED
  BY <1>2, <1>3, <1>4, <1>5 DEF d

(* What lies above k - 1/m is k * k - 1, and k is not far below m.         *)
RoundsUp(n, k, m) == n * (m * m) > (k * m - 1) * (k * m - 1)

LEMMA RoundedUp ==
  ASSUME NEW n \in Nat, NEW s \in Nat, IsRootOf(s, n), NEW m \in Nat, m > 0, NEW E \in Nat, E =< s,
         n < E * m, RoundsUp(n, s + 1, m)
  PROVE  n = (s + 1) * (s + 1) - 1 /\ E * m < 2 * ((s + 1) * (s + 1))
<1> DEFINE k == s + 1
           d == k * k - n
           t == d * m
<1>1. k \in Nat /\ k > s /\ k > 0
  OBVIOUS
<1>2. k * k \in Nat /\ n < k * k /\ d \in Nat /\ d > 0 /\ n = k * k - d
  <2>1. n < k * k /\ k * k \in Nat
    BY DEF IsRootOf
  <2> HIDE DEF k
  <2>2. QED
    BY <2>1
<1> HIDE DEF k
<1>3. t < 2 * k
  <2>1. n * (m * m) > (k * m - 1) * (k * m - 1)
    BY DEF RoundsUp, k
  <2> DEFINE km == k * m
             a == km * km
             c == t * m
  <2>2. km \in Nat
    BY <1>1
  <2>3. (km - 1) * (km - 1) = a - 2 * km + 1 /\ a \in Nat
    <3> HIDE DEF km
    <3>1. QED
      BY <2>2
  <2>4. n * (m * m) = a - c /\ c \in Nat
    <3>1. (k * k - d) * (m * m) = (k * k) * (m * m) - d * (m * m)
      <4> DEFINE p == k * k
                 q == m * m
      <4>1. p \in Nat /\ q \in Nat /\ d \in Nat
        BY <1>1, <1>2
      <4> HIDE DEF p, q, d
      <4>2. (p - d) * q = p * q - d * q
        BY <4>1
      <4>3. QED
        BY <4>2 DEF p, q
    <3>2. (k * k) * (m * m) = a
      BY <1>1
    <3>3. d * (m * m) = c
      <4>1. \A x \in Nat, y \in Nat : x * (y * y) = (x * y) * y
        OBVIOUS
      <4>2. d \in Nat /\ m \in Nat
        BY <1>2
      <4> HIDE DEF d
      <4>3. d * (m * m) = (d * m) * m
        BY <4>1, <4>2
      <4>4. QED
        BY <4>3
    <3>4. c \in Nat
      <4> HIDE DEF d
      <4>1. QED
        BY <1>2
    <3> HIDE DEF a, c, d
    <3>5. QED
      BY <1>2, <3>1, <3>2, <3>3, <3>4
  <2>5. c < 2 * km
    <3>1. n * (m * m) > (km - 1) * (km - 1)
      BY <2>1
    <3> HIDE DEF a, c, km
    <3>2. a - c > a - 2 * km + 1
      BY <2>3, <2>4, <3>1
    <3>3. QED
      BY <2>2, <2>3, <2>4, <3>2
  <2>6. t \in Nat
    <3> HIDE DEF d
    <3>1. QED
      BY <1>2
  <2>7. CASE t >= 2 * k
    <3> HIDE DEF t
    <3>1. t * m >= (2 * k) * m /\ (2 * k) * m = 2 * km
      BY <1>1, <2>6, <2>7
    <3>2. c \in Nat /\ km \in Nat /\ c >= 2 * km
      BY <2>2, <2>6, <3>1
    <3> HIDE DEF c, km
    <3>3. QED
      BY <2>5, <3>2
  <2>8. QED
    <3> HIDE DEF t
    <3>1. QED
      BY <1>1, <2>6, <2>7
<1> HIDE DEF d
<1>4. d = 1
  <2>1. CASE d >= 2
    <3>1. t >= 2 * m /\ t \in Nat
      BY <1>2, <2>1
    <3> HIDE DEF t
    <3>2. m =< s
      BY <1>1, <1>3, <3>1 DEF k
    <3>3. E * m =< s * s /\ E * m \in Nat /\ s * s \in Nat
      <4>1. E * m =< s * m
        OBVIOUS
      <4>2. s * m =< s * s
        BY <3>2
      <4>3. E * m \in Nat /\ s * m \in Nat /\ s * s \in Nat
        OBVIOUS
      <4>4. QED
        BY <4>1, <4>2, <4>3
    <3>4. s * s =< n
      BY DEF IsRootOf
    <3>5. QED
      BY <3>3, <3>4
  <2>2. QED
    BY <1>2, <2>1
<1>5. m < 2 * k
  <2>1. t = m
    BY <1>4
  <2>2. QED
    BY <1>3, <2>1
<1>6. E * m < 2 * (k * k)
  <2>1. E * m =< E * (2 * k)
    BY <1>1, <1>5
  <2>2. E * (2 * k) < k * (2 * k)
    <3>1. E < k /\ 2 * k \in Nat /\ 2 * k > 0
      BY <1>1
    <3> DEFINE g == 2 * k
    <3> HIDE DEF g
    <3>2. g \in Nat /\ g > 0
      BY <3>1 DEF g
    <3>3. E * g < k * g
      BY <1>1, <3>1, <3>2
    <3>4. QED
      BY <3>3 DEF g
  <2>3. k * (2 * k) = 2 * (k * k) /\ E * m \in Nat /\ E * (2 * k) \in Nat /\ k * k \in Nat
    BY <1>1
  <2>4. QED
    BY <2>1, <2>2, <2>3
<1>7. n = k * k - 1
  BY <1>2, <1>4
<1>8. QED
  BY <1>6, <1>7 DEF k

LEMMA DoubleRootExact ==
  ASSUME NEW n \in Nat, n > 0, n < 2 ^ DoubleBits
  PROVE  LET r == DoubleRoot(n)
         IN  /\ r \in 0 .. n
             /\ \/ IsRootOf(r, n)
                \/ n = r * r - 1 /\ 2 ^ DoubleBits < 2 * (r * r)
<1> DEFINE s == FloorRoot(n)
           k == s + 1
           m == Halves(k)
           r == DoubleRoot(n)
<1>1. s \in Nat /\ s =< n /\ IsRootOf(s, n)
  BY FloorRootExact
<1>2. r = IF RoundsUp(n, k, m) THEN k ELSE k - 1
  BY DEF DoubleRoot, RoundsUp
<1> HIDE DEF s, m, r
<1>3. s > 0 /\ k \in Nat /\ k > 1 /\ k - 1 = s
  <2>1. s # 0
    <3>1. ASSUME s = 0 PROVE FALSE
      <4>1. n < (0 + 1) * (0 + 1)
        BY <1>1, <3>1 DEF IsRootOf
      <4>2. QED
        BY <4>1
    <3>2. QED
      BY <3>1
  <2>2. QED
    BY <1>1, <2>1
<1> HIDE DEF k
<1>4. PICK e \in 0 .. DoubleBits :
        /\ 2 ^ e < k /\ m \in Nat /\ m > 0
        /\ 2 ^ e \in Nat /\ 2 ^ e > 0 /\ 2 ^ e * m = 2 ^ DoubleBits
  BY <1>3, HalvesExact DEF m
<1>5. CASE ~RoundsUp(n, k, m)
  <2>1. r = s /\ r \in 0 .. n /\ IsRootOf(r, n)
    BY <1>1, <1>2, <1>3, <1>5
  <2>2. QED
    BY <2>1 DEF r
<1>6. CASE RoundsUp(n, k, m)
  <2> DEFINE E == 2 ^ e
  <2>1. E \in Nat /\ E =< s /\ n < E * m /\ m \in Nat /\ m > 0 /\ RoundsUp(n, s + 1, m)
    BY <1>1, <1>3, <1>4, <1>6 DEF k
  <2> HIDE DEF E
  <2>2. n = (s + 1) * (s + 1) - 1 /\ E * m < 2 * ((s + 1) * (s + 1))
    BY <1>1, <2>1, RoundedUp
  <2>3. r = s + 1 /\ E * m = 2 ^ DoubleBits
    BY <1>2, <1>4, <1>6 DEF E, k
  <2>4. n = r * r - 1 /\ 2 ^ DoubleBits < 2 * (r * r)
    BY <2>2, <2>3
  <2>5. r \in 0 .. n
    <3>1. r \in Nat /\ r >= 2
      BY <1>1, <1>3, <2>3
    <3>2. r * r >= 2 * r /\ r * r \in Nat
      BY <3>1
    <3>3. n >= r
      BY <2>4, <3>1, <3>2
    <3>4. QED
      BY <3>1, <3>3
  <2>6. QED
    BY <2>4, <2>5 DEF r
<1>7. QED
  BY <1>5, <1>6 DEF r

(***************************************************************************)
(* exact-integer-sqrt gives the root of the greatest square that is not    *)
(* above the number, but for a fixnum of the form r * r - 1 that a double  *)
(* holds and whose root it does not: there it gives r (arith.cpp:3923).    *)
(***************************************************************************)
THEOREM ExactSqrtExact ==
  ASSUME DigitBits > 2, NEW x, IntegerObject(x), NumberOf(x) >= 0
  PROVE  LET n == NumberOf(x)
             r == NumberOf(ExactSqrt(x))
         IN  /\ IntegerObject(ExactSqrt(x)) /\ r \in Nat
             /\ \/ r * r =< n /\ n < (r + 1) * (r + 1)
                \/ /\ IsFixnum(x) /\ n < 2 ^ DoubleBits
                   /\ n = r * r - 1 /\ 2 ^ DoubleBits < 2 * (r * r)
<1> DEFINE n == NumberOf(x)
           u == ExactSqrt(x)
           b == AsBignum(x)
           e == b.elts
           V == ValueOf(e)
           T == 2 ^ DoubleBits
<1>1. /\ n \in Int /\ n >= 0 /\ BignumObject(b) /\ NumberOf(b) = n
      /\ IsFixnum(x) => x.n = n /\ n \in FixnumMin .. FixnumMax
  BY AsBignumExact
<1>2. T \in Nat /\ T > 0
  BY WidthsAssumption, PowerOfTwo
<1>3. \A r \in 0 .. n : IsFixnum(x) => IntegerObject(Fixnum(r)) /\ NumberOf(Fixnum(r)) = r
  <2>1. ASSUME NEW r \in 0 .. n, IsFixnum(x) PROVE r \in FixnumMin .. FixnumMax
    <3> HIDE DEF n
    <3>1. QED
      BY <1>1, <2>1, FixnumSizes
  <2>2. QED
    BY <2>1 DEF IntegerObject, Fixnum, NumberOf, IsFixnum
<1>4. CASE x = Fixnum(0)
  <2>1. n = 0 /\ u = Fixnum(0) /\ IsFixnum(x)
    BY <1>1, <1>4 DEF ExactSqrt, Fixnum, IsFixnum, NumberOf
  <2> HIDE DEF n, u
  <2>2. IntegerObject(u) /\ NumberOf(u) = 0
    BY <1>1, <1>3, <2>1
  <2>3. QED
    BY <2>1, <2>2 DEF n, u
<1>5. CASE x # Fixnum(0) /\ IsFixnum(x) /\ n < T
  <2> DEFINE r == DoubleRoot(n)
  <2>1. n # 0
    <3>1. x = Fixnum(x.n)
      BY <1>5 DEF IntegerObject, Fixnum, IsFixnum, BignumObject, Big
    <3> HIDE DEF n
    <3>2. QED
      BY <1>1, <1>5, <3>1
  <2>2. n \in Nat /\ n > 0
    <3> HIDE DEF n
    <3>1. QED
      BY <1>1, <2>1
  <2>3. u = Fixnum(r)
    <3>1. x.n \in 1 .. (T - 1) /\ x.n = n
      <4> HIDE DEF n, T
      <4>1. QED
        BY <1>1, <1>2, <1>5, <2>2
    <3>2. u = Fixnum(DoubleRoot(x.n))
      BY <1>5, <3>1 DEF ExactSqrt
    <3>3. QED
      BY <3>1, <3>2
  <2> HIDE DEF n, u
  <2>4. r \in 0 .. n /\ (IsRootOf(r, n) \/ (n = r * r - 1 /\ T < 2 * (r * r)))
    BY <1>5, <2>2, DoubleRootExact
  <2> HIDE DEF r, T
  <2>5. IntegerObject(u) /\ NumberOf(u) = r
    BY <1>3, <1>5, <2>3, <2>4
  <2>6. QED
    BY <1>1, <1>5, <2>4, <2>5 DEF n, u, T, IsRootOf
<1>6. CASE x # Fixnum(0) /\ ~(IsFixnum(x) /\ n < T)
  <2> DEFINE r == Sqrt(e)
             R == ValueOf(r)
  <2>1. u = Make(1, r)
    <3>1. ~(IsFixnum(x) /\ x.n \in 1 .. (T - 1))
      <4> HIDE DEF n, T
      <4>1. QED
        BY <1>1, <1>2, <1>6
    <3>2. QED
      BY <1>6, <3>1 DEF ExactSqrt
  <2>2. n > 0
    <3>1. IsFixnum(x) => n >= T
      <4> HIDE DEF n, T
      <4>1. QED
        BY <1>1, <1>2, <1>6
    <3>2. ~IsFixnum(x) => n # 0
      BY OneOrOther
    <3> HIDE DEF n, T
    <3>3. QED
      BY <1>1, <1>2, <3>1, <3>2
  <2> HIDE DEF n, b
  <2>3. Normal(e) /\ n = b.sign * V /\ b.sign \in {-1, 0, 1} /\ V \in Nat /\ (e = <<>> <=> V = 0)
    BY <1>1, BignumFields
  <2> HIDE DEF V, e
  <2>4. n = V /\ e # <<>>
    BY <1>1, <2>2, <2>3
  <2>5. Normal(r) /\ R \in Nat /\ R * R =< V /\ V < (R + 1) * (R + 1)
    BY <2>3, <2>4, SqrtExact DEF V
  <2> HIDE DEF r
  <2>6. IntegerObject(Make(1, r)) /\ NumberOf(Make(1, r)) = 1 * ValueOf(r)
    <3>1. 1 \in {-1, 1} /\ r \in Seq(DigitSet)
      BY <2>5 DEF Normal
    <3>2. QED
      BY <3>1, MakeExact
  <2>7. IntegerObject(u) /\ NumberOf(u) = R
    BY <2>1, <2>5, <2>6
  <2>8. QED
    BY <2>4, <2>5, <2>7 DEF n
<1>7. QED
  BY <1>4, <1>5, <1>6

(***************************************************************************)
(* The exception is met: of the 53 bits of a double, h is 26, and every k  *)
(* above 2^26 is the root that is given for k * k - 1.                     *)
(***************************************************************************)
THEOREM RootMissed ==
  ASSUME NEW h \in Nat, DoubleBits = 2 * h + 1, NEW k \in Nat, 2 ^ h < k,
         k * k - 1 < 2 ^ DoubleBits
  PROVE  ExactSqrt(Fixnum(k * k - 1)) = Fixnum(k)
<1> DEFINE n == k * k - 1
           s == FloorRoot(n)
           m == Halves(k)
<1>1. 2 ^ h \in Nat /\ 2 ^ h > 0
  BY PowerOfTwo
<1>2. k > 1 /\ k * k >= 2 * k
  BY <1>1
<1>3. n \in Nat /\ n >= k /\ k * k \in Nat
  BY <1>2
<1>4. s = k - 1
  <2>1. s \in Nat /\ s * s =< n /\ n < (s + 1) * (s + 1)
    <3> HIDE DEF n
    <3>1. QED
      BY <1>3, FloorRootExact DEF IsRootOf
  <2> HIDE DEF s
  <2> DEFINE z == s + 1
  <2>2. z \in Nat /\ z * z \in Nat /\ s * s \in Nat /\ s * s < k * k /\ k * k =< z * z
    <3>1. z \in Nat /\ z * z \in Nat /\ s * s \in Nat /\ k * k \in Nat
      BY <2>1
    <3>2. s * s < k * k
      <4> DEFINE p == s * s
                 q == k * k
      <4>1. p \in Nat /\ q \in Nat /\ p =< q - 1
        BY <2>1, <3>1
      <4> HIDE DEF p, q
      <4>2. p < q
        BY <4>1
      <4>3. QED
        BY <4>2 DEF p, q
    <3>3. k * k =< z * z
      <4> DEFINE p == z * z
                 q == k * k
      <4>1. p \in Nat /\ q \in Nat /\ q - 1 < p
        BY <2>1, <3>1
      <4> HIDE DEF p, q
      <4>2. q =< p
        BY <4>1
      <4>3. QED
        BY <4>2 DEF p, q
    <3>4. QED
      BY <3>1, <3>2, <3>3
  <2> HIDE DEF z
  <2>3. s < k
    <3>1. CASE s >= k
      <4>1. s * s >= k * k
        BY <2>1, <3>1
      <4>2. QED
        BY <1>3, <2>2, <4>1
    <3>2. QED
      BY <2>1, <3>1
  <2>4. k =< z
    <3>1. CASE k > z
      <4>1. k * k > z * z
        BY <2>2, <3>1
      <4>2. QED
        BY <1>3, <2>2, <4>1
    <3>2. QED
      BY <2>2, <3>1
  <2>5. QED
    BY <2>1, <2>3, <2>4 DEF z
<1>5. PICK e \in 0 .. DoubleBits :
        /\ 2 ^ e < k /\ (\A i \in 0 .. DoubleBits : 2 ^ i < k => i =< e)
        /\ m = 2 ^ (DoubleBits - e) /\ m \in Nat /\ m > 0
        /\ 2 ^ e \in Nat /\ 2 ^ e > 0 /\ 2 ^ e * m = 2 ^ DoubleBits
  BY <1>2, HalvesExact
<1> HIDE DEF n, m
<1>6. m < 2 * k
  <2> DEFINE j == e - h
             d == DoubleBits - e
  <2>1. j \in Nat /\ d \in Nat /\ d + j = h + 1
    <3>1. h \in 0 .. DoubleBits
      OBVIOUS
    <3>2. h =< e /\ e \in Nat /\ e =< DoubleBits
      BY <1>5, <3>1
    <3>3. QED
      BY <3>2
  <2> HIDE DEF j, d
  <2>2. 2 ^ (d + j) = 2 ^ d * 2 ^ j /\ 2 ^ j \in Nat /\ 2 ^ j > 0 /\ 2 ^ d \in Nat
    BY <2>1, PowerSum
  <2>3. 2 ^ (h + 1) = 2 * 2 ^ h
    BY PowerOfTwo
  <2>4. m = 2 ^ d
    BY <1>5 DEF d
  <2> DEFINE y == 2 ^ j
             w == 2 ^ h
  <2>5. m * y = 2 * w /\ m \in Nat /\ y \in Nat /\ y > 0 /\ w \in Nat /\ w < k
    BY <1>1, <1>5, <2>1, <2>2, <2>3, <2>4
  <2> HIDE DEF y, w
  <2>6. m =< m * y
    BY <2>5
  <2>7. QED
    BY <2>5, <2>6
<1>7. m >= 2
  <2>1. ASSUME m = 1 PROVE FALSE
    <3> DEFINE E == 2 ^ e
               T == 2 ^ DoubleBits
    <3>1. E = T /\ E \in Nat /\ E < k /\ n < T
      BY <1>5, <2>1 DEF n
    <3> HIDE DEF E, T
    <3>2. QED
      BY <1>3, <3>1
  <2>2. QED
    BY <1>5, <2>1
<1>8. RoundsUp(n, k, m)
  <2> DEFINE km == k * m
             a == km * km
             q == m * m
  <2>1. km \in Nat /\ a \in Nat /\ q \in Nat
    BY <1>5
  <2>2. n * q = a - q
    <3> DEFINE p == k * k
    <3>1. n = p - 1 /\ p \in Nat
      BY <1>3 DEF n
    <3>2. p * q = a
      BY <1>5
    <3> HIDE DEF p, q, a
    <3>3. (p - 1) * q = p * q - q
      BY <2>1, <3>1
    <3>4. QED
      BY <3>1, <3>2, <3>3
  <2>3. q < 2 * km - 1
    <3> DEFINE c == 2 * k - 1
    <3>1. c \in Nat /\ m =< c
      BY <1>2, <1>5, <1>6
    <3>2. c * m = 2 * km - m
      BY <1>5
    <3> HIDE DEF c
    <3>3. q =< c * m
      BY <1>5, <3>1
    <3> HIDE DEF q, km
    <3>4. QED
      BY <1>5, <1>7, <2>1, <3>2, <3>3
  <2>4. (km - 1) * (km - 1) = a - 2 * km + 1
    <3>1. km \in Nat
      BY <2>1
    <3> HIDE DEF km
    <3>2. QED
      BY <3>1
  <2>5. n * q > (km - 1) * (km - 1)
    <3> HIDE DEF q, km, a
    <3>1. QED
      BY <2>1, <2>2, <2>3, <2>4
  <2>6. QED
    BY <2>5 DEF RoundsUp
<1>9. DoubleRoot(n) = k
  <2>1. s + 1 = k
    BY <1>4
  <2>2. RoundsUp(n, s + 1, Halves(s + 1))
    BY <1>8, <2>1 DEF m
  <2>3. DoubleRoot(n) = s + 1
    BY <2>2 DEF DoubleRoot, RoundsUp
  <2>4. QED
    BY <2>1, <2>3
<1>10. n \in 1 .. (2 ^ DoubleBits - 1) /\ n # 0
  <2>1. 2 ^ DoubleBits \in Nat /\ n < 2 ^ DoubleBits
    BY WidthsAssumption, PowerOfTwo DEF n
  <2>2. QED
    BY <1>2, <1>3, <2>1
<1>11. ExactSqrt(Fixnum(n)) = Fixnum(DoubleRoot(n))
  <2>1. IsFixnum(Fixnum(n)) /\ Fixnum(n).n = n /\ Fixnum(n) # Fixnum(0)
    BY <1>10 DEF IsFixnum, Fixnum
  <2>2. QED
    BY <1>10, <2>1 DEF ExactSqrt
<1>12. QED
  BY <1>9, <1>11 DEF n

(***************************************************************************)
(* Greatest common divisors.  Two numbers span all that can be made of     *)
(* them; a turn of either algorithm leaves what is spanned as it was.      *)
(***************************************************************************)
Combination(x, a, b) == \E u \in Int, v \in Int : x = u * a + v * b

Spans(x, y, a, b) ==
  /\ Combination(a, x, y) /\ Combination(b, x, y)
  /\ Combination(x, a, b) /\ Combination(y, a, b)

(* What is made of combinations is a combination.                          *)
LEMMA Combine ==
  ASSUME NEW a \in Int, NEW b \in Int, NEW x \in Int, NEW y \in Int, NEW c \in Int, NEW e \in Int,
         Combination(x, a, b), Combination(y, a, b)
  PROVE  Combination(c * x + e * y, a, b)
<1>1. PICK u \in Int, v \in Int : x = u * a + v * b
  BY DEF Combination
<1>2. PICK s \in Int, t \in Int : y = s * a + t * b
  BY DEF Combination
<1> DEFINE m == c * u + e * s
           n == c * v + e * t
<1>3. m \in Int /\ n \in Int
  OBVIOUS
<1>4. c * x + e * y = m * a + n * b
  <2>1. c * x = (c * u) * a + (c * v) * b
    BY <1>1
  <2>2. e * y = (e * s) * a + (e * t) * b
    BY <1>2
  <2>3. m * a = (c * u) * a + (e * s) * a /\ n * b = (c * v) * b + (e * t) * b
    OBVIOUS
  <2>4. QED
    <3> DEFINE p1 == (c * u) * a
               p2 == (c * v) * b
               p3 == (e * s) * a
               p4 == (e * t) * b
               l1 == c * x
               l2 == e * y
               r1 == m * a
               r2 == n * b
    <3>1. p1 \in Int /\ p2 \in Int /\ p3 \in Int /\ p4 \in Int
      OBVIOUS
    <3>2. l1 = p1 + p2 /\ l2 = p3 + p4 /\ r1 = p1 + p3 /\ r2 = p2 + p4
      BY <2>1, <2>2, <2>3
    <3> HIDE DEF p1, p2, p3, p4, m, n, l1, l2, r1, r2
    <3>3. l1 + l2 = r1 + r2
      BY <3>1, <3>2
    <3>4. QED
      BY <3>3 DEF l1, l2, r1, r2
<1> HIDE DEF m, n
<1>5. QED
  BY <1>3, <1>4 DEF Combination

LEMMA CombineTwice ==
  ASSUME NEW a \in Int, NEW b \in Int, NEW x \in Int, NEW y \in Int, NEW z \in Int,
         Combination(x, a, b), Combination(y, a, b), Combination(z, x, y)
  PROVE  Combination(z, a, b)
<1>1. PICK u \in Int, v \in Int : z = u * x + v * y
  BY DEF Combination
<1>2. Combination(u * x + v * y, a, b)
  BY Combine
<1>3. QED
  BY <1>1, <1>2

LEMMA SpanTwice ==
  ASSUME NEW a \in Int, NEW b \in Int, NEW x \in Int, NEW y \in Int, NEW z \in Int, NEW w \in Int,
         Spans(x, y, a, b), Spans(z, w, x, y)
  PROVE  Spans(z, w, a, b)
<1>1. Combination(z, a, b) /\ Combination(w, a, b)
  BY CombineTwice DEF Spans
<1>2. Combination(a, z, w) /\ Combination(b, z, w)
  BY CombineTwice DEF Spans
<1>3. QED
  BY <1>1, <1>2 DEF Spans

LEMMA Itself ==
  ASSUME NEW a \in Int, NEW b \in Int
  PROVE  Combination(a, a, b) /\ Combination(b, a, b) /\ Spans(a, b, a, b) /\ Spans(b, a, a, b)
<1>1. a = 1 * a + 0 * b /\ b = 0 * a + 1 * b
  OBVIOUS
<1>2. Combination(a, a, b) /\ Combination(b, a, b)
  BY <1>1 DEF Combination
<1>3. a = 0 * b + 1 * a /\ b = 1 * b + 0 * a
  OBVIOUS
<1>4. Combination(a, b, a) /\ Combination(b, b, a)
  BY <1>3 DEF Combination
<1>5. QED
  BY <1>2, <1>4 DEF Spans

(* A multiple of the one is taken off the other.                           *)
LEMMA SpanLess ==
  ASSUME NEW x \in Int, NEW y \in Int, NEW q \in Int, NEW r \in Int, r = x - q * y
  PROVE  Spans(y, r, x, y) /\ Spans(r, y, x, y)
<1> DEFINE p == q * y
<1>1. p \in Int /\ 1 * x + (-q) * y = x - p /\ q * y + 1 * r = p + r /\ 1 * r + q * y = p + r
  OBVIOUS
<1>2. r = 1 * x + (-q) * y /\ x = q * y + 1 * r /\ x = 1 * r + q * y
  <2>1. r = x - p
    OBVIOUS
  <2> HIDE DEF p
  <2>2. QED
    BY <1>1, <2>1
<1>3. Combination(r, x, y) /\ Combination(x, y, r) /\ Combination(x, r, y)
  <2>1. Combination(r, x, y)
    <3> DEFINE u == 1
               v == -q
    <3>1. u \in Int /\ v \in Int /\ r = u * x + v * y
      BY <1>2
    <3> HIDE DEF u, v
    <3>2. QED
      BY <3>1 DEF Combination
  <2>2. Combination(x, y, r)
    <3> DEFINE u == q
               v == 1
    <3>1. u \in Int /\ v \in Int /\ x = u * y + v * r
      BY <1>2
    <3> HIDE DEF u, v
    <3>2. QED
      BY <3>1 DEF Combination
  <2>3. Combination(x, r, y)
    <3> DEFINE u == 1
               v == q
    <3>1. u \in Int /\ v \in Int /\ x = u * r + v * y
      BY <1>2
    <3> HIDE DEF u, v
    <3>2. QED
      BY <3>1 DEF Combination
  <2>4. QED
    BY <2>1, <2>2, <2>3
<1>4. Combination(y, x, y) /\ Combination(y, y, r) /\ Combination(y, r, y)
  BY Itself
<1>5. QED
  BY <1>3, <1>4 DEF Spans

(* The half of the one does as well, if the other is odd.                  *)
LEMMA SpanHalf ==
  ASSUME NEW h \in Int, NEW k \in Int, NEW x \in Int, x = 2 * h, NEW y \in Int, y = 2 * k + 1
  PROVE  Spans(h, y, x, y) /\ Spans(y, h, y, x)
<1>1. (-k) * x + h * y = h /\ 2 * h + 0 * y = x
  <2> DEFINE p == k * h
  <2>1. (-k) * x = -(2 * p) /\ h * y = 2 * p + h /\ p \in Int
    OBVIOUS
  <2> HIDE DEF p
  <2>2. QED
    BY <2>1
<1>2. h * y + (-k) * x = h /\ 0 * y + 2 * h = x
  <2>1. (-k) * x \in Int /\ h * y \in Int
    OBVIOUS
  <2>2. QED
    BY <1>1, <2>1
<1>3. Combination(h, x, y) /\ Combination(x, h, y) /\ Combination(h, y, x) /\ Combination(x, y, h)
  <2>1. Combination(h, x, y)
    <3> DEFINE u == -k
               v == h
    <3>1. u \in Int /\ v \in Int /\ h = u * x + v * y
      BY <1>1
    <3> HIDE DEF u, v
    <3>2. QED
      BY <3>1 DEF Combination
  <2>2. Combination(x, h, y)
    <3> DEFINE u == 2
               v == 0
    <3>1. u \in Int /\ v \in Int /\ x = u * h + v * y
      BY <1>1
    <3> HIDE DEF u, v
    <3>2. QED
      BY <3>1 DEF Combination
  <2>3. Combination(h, y, x)
    <3> DEFINE u == h
               v == -k
    <3>1. u \in Int /\ v \in Int /\ h = u * y + v * x
      BY <1>2
    <3> HIDE DEF u, v
    <3>2. QED
      BY <3>1 DEF Combination
  <2>4. Combination(x, y, h)
    <3> DEFINE u == 0
               v == 2
    <3>1. u \in Int /\ v \in Int /\ x = u * y + v * h
      BY <1>2
    <3> HIDE DEF u, v
    <3>2. QED
      BY <3>1 DEF Combination
  <2>5. QED
    BY <2>1, <2>2, <2>3, <2>4
<1>4. Combination(y, x, y) /\ Combination(y, h, y) /\ Combination(y, y, x) /\ Combination(y, y, h)
  BY Itself
<1>5. QED
  BY <1>3, <1>4 DEF Spans

Parts(g, n, d, a, b) == n \in Nat /\ d \in Nat /\ a = g * n /\ b = g * d /\ Combination(1, n, d)

(* What spans alone divides both, and the quotients have no divisor in     *)
(* common.                                                                 *)
LEMMA SpansAlone ==
  ASSUME NEW a \in Nat, NEW b \in Nat, NEW g \in Nat, g > 0, Spans(g, 0, a, b)
  PROVE  \E n \in Nat, d \in Nat : Parts(g, n, d, a, b)
<1>1. PICK n \in Int, n0 \in Int : a = n * g + n0 * 0
  BY DEF Spans, Combination
<1>2. PICK d \in Int, d0 \in Int : b = d * g + d0 * 0
  BY DEF Spans, Combination
<1>3. PICK u \in Int, v \in Int : g = u * a + v * b
  BY DEF Spans, Combination
<1>4. a = g * n /\ b = g * d
  BY <1>1, <1>2
<1>5. \A m \in Int : g * m >= 0 => m >= 0
  <2> SUFFICES ASSUME NEW m \in Int, m =< -1 PROVE g * m < 0
    OBVIOUS
  <2>1. g * m =< g * (-1)
    OBVIOUS
  <2>2. QED
    BY <2>1
<1>6. n \in Nat /\ d \in Nat
  <2>1. g * n >= 0 /\ g * d >= 0
    BY <1>4
  <2>2. n >= 0 /\ d >= 0
    BY <1>5, <2>1
  <2>3. QED
    BY <2>2
<1>7. 1 = u * n + v * d
  <2> DEFINE c == u * n + v * d
  <2>1. c \in Int /\ g * c = u * (g * n) + v * (g * d)
    OBVIOUS
  <2>2. g = g * c
    BY <1>3, <1>4, <2>1
  <2> HIDE DEF c
  <2>3. c >= 2 => g * c >= g * 2
    BY <2>1
  <2>4. c =< 0 => g * c =< g * 0
    BY <2>1
  <2>5. c = 1
    BY <2>1, <2>2, <2>3, <2>4
  <2>6. QED
    BY <2>5 DEF c
<1>8. Combination(1, n, d)
  BY <1>7 DEF Combination
<1>9. QED
  BY <1>4, <1>6, <1>8 DEF Parts

(***************************************************************************)
(* Euclid's loop.                                                          *)
(***************************************************************************)
(* The loop has the course it is defined by; a turn keeps what is spanned. *)
LEMMA EuclidCourse ==
  ASSUME NEW n \in Nat, NEW P, NEW a \in P[0], \A i \in 1 .. n : \A y \in P[i - 1] : EuclidTurn(y) \in P[i]
  PROVE  EuclidTurns(a, n) \in P[n]
<1> DEFINE g == [i \in 1 .. n |-> [y \in P[i - 1] |-> EuclidTurn(y)]]
           X(f) == [k \in 0 .. n |-> IF k = 0 THEN a ELSE EuclidTurn(f[k - 1])]
<1>1. \A i \in 1 .. n : \A y \in P[i - 1] : g[i][y] = EuclidTurn(y) /\ g[i][y] \in P[i]
  OBVIOUS
<1> HIDE DEF g
<1>2. PICK f : f = [i \in 0 .. n |-> f[i]] /\ Course(f, n, P, a, g)
  <2>1. Looped(n, P, a, g)
    BY <1>1, LoopExists
  <2>2. QED
    BY <2>1 DEF Looped
<1>3. f = X(f)
  <2>1. ASSUME NEW k \in 0 .. n PROVE f[k] = X(f)[k]
    <3>1. CASE k = 0
      BY <1>2, <3>1 DEF Course
    <3>2. CASE k # 0
      <4>1. k \in 1 .. n /\ k - 1 \in 0 .. n
        BY <3>2
      <4>2. f[k] = g[k][f[k - 1]] /\ f[k - 1] \in P[k - 1]
        BY <1>2, <4>1 DEF Course
      <4>3. f[k] = EuclidTurn(f[k - 1])
        BY <1>1, <4>1, <4>2
      <4>4. QED
        BY <3>2, <4>3
    <3>3. QED
      BY <3>1, <3>2
  <2>2. QED
    BY <1>2, <2>1
<1> DEFINE turns == CHOOSE h : h = X(h)
<1>4. turns = X(turns)
  <2>1. \E h : h = X(h)
    BY <1>3
  <2>2. QED
    <3> HIDE DEF X
    <3>1. QED
      BY <2>1
<1>5. EuclidTurns(a, n) = turns[n]
  BY DEF EuclidTurns
<1> HIDE DEF turns
<1>6. turns[0] = a /\ \A k \in 1 .. n : turns[k] = EuclidTurn(turns[k - 1])
  BY <1>4
<1> HIDE DEF X
<1> DEFINE G == {k \in 0 .. n : turns[k] \in P[k]}
<1>7. 0 .. n \subseteq G
  <2>1. 0 \in G
    BY <1>6
  <2>2. ASSUME NEW k \in 0 .. (n - 1), k \in G PROVE k + 1 \in G
    <3>1. k + 1 \in 1 .. n /\ (k + 1) - 1 = k /\ turns[k] \in P[(k + 1) - 1] /\ k + 1 \in 0 .. n
      BY <2>2
    <3>2. turns[k + 1] = EuclidTurn(turns[k])
      BY <1>6, <3>1
    <3>3. turns[k + 1] \in P[k + 1]
      BY <3>1, <3>2
    <3>4. QED
      BY <3>1, <3>3
  <2> HIDE DEF G
  <2>3. QED
    BY <2>1, <2>2, Ascent
<1>8. QED
  BY <1>5, <1>7


Words == [n1 : Nat, n2 : Nat]

EuclidAfter(a, b, k) ==
  {p \in Words : Spans(p.n1, p.n2, a, b) /\ p.n1 + p.n2 > 0 /\ (p.n2 = 0 \/ p.n2 + k =< b)}

LEMMA EuclidStep ==
  ASSUME NEW a \in Nat, NEW b \in Nat, NEW k \in 1 .. b, NEW p \in EuclidAfter(a, b, k - 1)
  PROVE  EuclidTurn(p) \in EuclidAfter(a, b, k)
<1> DEFINE x == p.n1
           y == p.n2
<1>1. p \in Words /\ x \in Nat /\ y \in Nat /\ Spans(x, y, a, b) /\ x + y > 0 /\ (y = 0 \/ y + (k - 1) =< b)
  BY DEF EuclidAfter, Words
<1>2. CASE y = 0
  <2>1. EuclidTurn(p) = p
    BY <1>2 DEF EuclidTurn
  <2>2. QED
    BY <1>1, <1>2, <2>1 DEF EuclidAfter
<1>3. CASE y # 0
  <2> DEFINE q == x \div y
             r == x % y
             t == EuclidTurn(p)
  <2>1. t = [n1 |-> y, n2 |-> r]
    BY <1>3 DEF EuclidTurn
  <2>2. q \in Int /\ r \in 0 .. (y - 1) /\ x = y * q + r
    <3>1. y \in Nat /\ y > 0 /\ x \in Int
      BY <1>1, <1>3
    <3> HIDE DEF x, y
    <3>2. QED
      BY <3>1, DivMod
  <2> HIDE DEF q, r, t
  <2>3. r \in Nat /\ r < y /\ r = x - q * y
    <3> DEFINE m == y * q
    <3>1. m \in Int /\ m = q * y
      BY <1>1, <2>2
    <3>2. x = m + r
      BY <2>2
    <3> HIDE DEF m
    <3>3. r = x - m /\ r \in Nat /\ r < y
      BY <1>1, <2>2, <3>1, <3>2
    <3>4. QED
      BY <3>1, <3>3
  <2>4. Spans(y, r, x, y)
    BY <1>1, <2>2, <2>3, SpanLess
  <2>5. Spans(y, r, a, b)
    BY <1>1, <2>3, <2>4, SpanTwice
  <2>6. t \in Words /\ t.n1 = y /\ t.n2 = r
    BY <1>1, <2>1, <2>3 DEF Words
  <2> HIDE DEF x, y
  <2>7. y + r > 0 /\ (r = 0 \/ r + k =< b)
    BY <1>1, <1>3, <2>3
  <2>8. QED
    BY <2>5, <2>6, <2>7 DEF EuclidAfter, t
<1>4. QED
  BY <1>2, <1>3

(* What Euclid's loop ends with spans what the two words do.               *)
LEMMA GcdExact ==
  ASSUME NEW a \in Nat, NEW b \in Nat, b > 0
  PROVE  Gcd(a, b) \in Nat /\ Gcd(a, b) > 0 /\ Spans(Gcd(a, b), 0, a, b)
<1> DEFINE P == [k \in 0 .. b |-> EuclidAfter(a, b, k)]
           s == [n1 |-> a, n2 |-> b]
           e == EuclidTurns(s, b)
<1>1. s \in P[0]
  <2>1. s \in Words /\ s.n1 = a /\ s.n2 = b /\ a + b > 0 /\ b + 0 =< b
    BY DEF Words
  <2>2. Spans(a, b, a, b)
    BY Itself
  <2>3. s \in EuclidAfter(a, b, 0)
    BY <2>1, <2>2 DEF EuclidAfter
  <2>4. QED
    BY <2>3
<1>2. \A i \in 1 .. b : \A y \in P[i - 1] : EuclidTurn(y) \in P[i]
  <2>1. ASSUME NEW i \in 1 .. b, NEW y \in P[i - 1] PROVE EuclidTurn(y) \in P[i]
    <3>1. i - 1 \in 0 .. b /\ i \in 0 .. b
      OBVIOUS
    <3>2. y \in EuclidAfter(a, b, i - 1)
      BY <3>1
    <3>3. EuclidTurn(y) \in EuclidAfter(a, b, i)
      BY <3>2, EuclidStep
    <3>4. QED
      BY <3>1, <3>3
  <2>2. QED
    BY <2>1
<1> HIDE DEF P, s
<1>3. e \in P[b]
  BY <1>1, <1>2, EuclidCourse
<1> HIDE DEF e
<1>4. e \in EuclidAfter(a, b, b)
  BY <1>3 DEF P
<1>5. e.n1 \in Nat /\ e.n2 \in Nat /\ Spans(e.n1, e.n2, a, b) /\ e.n1 + e.n2 > 0 /\ (e.n2 = 0 \/ e.n2 + b =< b)
  BY <1>4 DEF EuclidAfter, Words
<1>6. e.n2 = 0 /\ e.n1 > 0
  BY <1>5
<1>7. Gcd(a, b) = e.n1
  BY DEF Gcd, e, s
<1>8. QED
  BY <1>5, <1>6, <1>7

(***************************************************************************)
(* Halves.                                                                 *)
(***************************************************************************)
(* The first digit tells an even number from an odd one, and a shift by    *)
(* one place halves it.                                                    *)
LEMMA HalfExact ==
  ASSUME NEW e, Normal(e)
  PROVE  /\ ValueOf(e) \in Nat /\ Normal(Half(e)) /\ ValueOf(Half(e)) \in Nat
         /\ Even(e) => ValueOf(e) = 2 * ValueOf(Half(e))
         /\ ~Even(e) => ValueOf(e) = 2 * ValueOf(Half(e)) + 1
<1> DEFINE f == Half(e)
           V == ValueOf(e)
           H == ValueOf(f)
           one == 1
           low == Digit(e, 1)
<1>1. e \in Seq(DigitSet) /\ V \in Nat
  BY ValueType DEF Normal
<1>2. 2 ^ one = 2
  <2>1. 2 ^ (0 + 1) = 2 * 2 ^ 0 /\ 2 ^ 0 = 1
    BY PowerOfTwo
  <2>2. QED
    BY <2>1
<1>3. f = Norm(ShiftRight(e, one)) /\ one \in Nat
  BY DEF Half
<1> HIDE DEF f, one
<1>4. /\ Normal(f) /\ H \in Nat
      /\ \E rest \in 0 .. (2 ^ one - 1) : V = 2 ^ one * H + rest
  BY <1>1, <1>3, ShiftRightExact
<1>5. PICK rest \in {0, 1} : V = 2 * H + rest
  BY <1>2, <1>4
<1>6. low \in DigitSet /\ \E x \in Nat : V = low + Base * x
  <2>1. CASE Len(e) = 0
    <3>1. V = 0 /\ low = 0
      <4>1. e = <<>>
        BY <1>1, <2>1
      <4>2. V = 0
        BY <4>1, ValueSizes
      <4>3. QED
        BY <4>1, <4>2 DEF Digit
    <3>2. V = low + Base * 0
      BY <3>1, BaseType
    <3>3. QED
      BY <3>1, <3>2, DigitsAre
  <2>2. CASE Len(e) # 0
    <3>1. 0 \in 0 .. (Len(e) - 1) /\ 1 \in 0 .. Len(e) /\ 1 \in DOMAIN e
      <4>1. Len(e) \in Nat /\ DOMAIN e = 1 .. Len(e)
        BY <1>1
      <4>2. QED
        BY <2>2, <4>1
    <3>2. e[0 + 1] \in DigitSet /\ Above(e, 0) = e[0 + 1] + Base * Above(e, 0 + 1) /\ Above(e, 1) \in Nat /\ V = Above(e, 0)
      BY <1>1, <3>1, AboveDef
    <3>3. low = e[1]
      BY <3>1 DEF Digit
    <3> HIDE DEF low, V
    <3>4. low \in DigitSet /\ V = low + Base * Above(e, 1)
      BY <3>2, <3>3
    <3>5. QED
      BY <3>2, <3>4
  <2>3. QED
    BY <2>1, <2>2
<1>7. PICK x \in Nat : V = low + Base * x
  BY <1>6
<1>8. \E w \in Nat : Base = 2 * w
  <2> DEFINE j == DigitBits - 1
  <2>1. j \in Nat /\ j + 1 = DigitBits
    BY DigitBitsAssumption
  <2> HIDE DEF j
  <2>2. 2 ^ j \in Nat /\ 2 ^ (j + 1) = 2 * 2 ^ j
    BY <2>1, PowerOfTwo
  <2>3. QED
    BY <2>1, <2>2 DEF Base
<1>9. PICK w \in Nat : Base = 2 * w
  BY <1>8
<1>10. low \in Nat
  BY <1>6, DigitsAre
<1>11. Even(e) <=> low % 2 = 0
  BY DEF Even
<1> HIDE DEF low, V, H
<1>12. \E y \in Nat : V = low + 2 * y
  <2> DEFINE y == w * x
  <2>1. y \in Nat /\ (2 * w) * x = 2 * y
    OBVIOUS
  <2>2. V = low + (2 * w) * x
    BY <1>7, <1>9
  <2> HIDE DEF y
  <2>3. V = low + 2 * y
    BY <2>1, <2>2
  <2>4. QED
    BY <2>1, <2>3
<1>13. PICK y \in Nat : V = low + 2 * y
  BY <1>12
<1>14. low % 2 = rest
  BY <1>4, <1>5, <1>10, <1>13
<1>15. QED
  BY <1>1, <1>4, <1>5, <1>11, <1>14 DEF V, H, f

(* Half of what is left of the larger number.                              *)
LEMMA HalfLessExact ==
  ASSUME NEW l, Normal(l), ~Even(l), NEW r, Normal(r), ~Even(r), ValueOf(r) =< ValueOf(l)
  PROVE  LET h == HalfLess(l, r)
         IN  Normal(h) /\ ValueOf(h) \in Nat /\ ValueOf(l) - ValueOf(r) = 2 * ValueOf(h)
<1> DEFINE n == Len(l)
           s == SubDigits(n, l, r)
           e == s.elts
           z == Norm(e)
           h == HalfLess(l, r)
           L == ValueOf(l)
           R == ValueOf(r)
<1>1. l \in Seq(DigitSet) /\ r \in Seq(DigitSet) /\ n \in Nat /\ Len(l) =< n /\ Len(r) =< n
  <2>1. Len(r) =< Len(l)
    BY NoLonger
  <2>2. QED
    BY <2>1 DEF Normal
<1>2. L \in Nat /\ R \in Nat
  BY <1>1, ValueType
<1>3. e \in [1 .. n -> DigitSet] /\ s.out = 0 /\ Total(e, n, s.out) = L - R
  <2>1. e \in [1 .. n -> DigitSet] /\ s.out \in {-1, 0} /\ Total(e, n, s.out) = L - R /\ (s.out >= 0 <=> L >= R)
    <3> HIDE DEF n, s, e, L, R
    <3>1. QED
      BY <1>1, SubDigitsExact DEF s, e, L, R
  <2>2. L >= R
    BY <1>2
  <2> HIDE DEF s, e, L, R
  <2>3. QED
    BY <2>1, <2>2
<1> HIDE DEF s
<1>4. e \in Seq(DigitSet) /\ Len(e) = n
  <2> HIDE DEF e
  <2>1. QED
    BY <1>1, <1>3, ArrayIsSeq
<1>5. ValueOf(e) = L - R
  BY <1>3, <1>4 DEF ValueOf
<1>6. h = Half(e)
  BY DEF HalfLess, s
<1> HIDE DEF e, h, L, R
<1>7. L = 2 * ValueOf(Half(l)) + 1 /\ R = 2 * ValueOf(Half(r)) + 1 /\ ValueOf(Half(l)) \in Nat /\ ValueOf(Half(r)) \in Nat
  BY HalfExact DEF L, R
<1> DEFINE one == 1
<1>8. 2 ^ one = 2 /\ one \in Nat
  <2>1. 2 ^ (0 + 1) = 2 * 2 ^ 0 /\ 2 ^ 0 = 1
    BY PowerOfTwo
  <2>2. QED
    BY <2>1
<1>9. h = Norm(ShiftRight(e, one))
  BY <1>6 DEF Half
<1> HIDE DEF one
<1>10. /\ Normal(h) /\ ValueOf(h) \in Nat
       /\ \E rest \in 0 .. (2 ^ one - 1) : ValueOf(e) = 2 ^ one * ValueOf(h) + rest
  BY <1>4, <1>8, <1>9, ShiftRightExact
<1>11. PICK rest \in {0, 1} : L - R = 2 * ValueOf(h) + rest
  BY <1>5, <1>8, <1>10
<1>12. L - R = 2 * ValueOf(h)
  BY <1>2, <1>7, <1>10, <1>11
<1>13. QED
  BY <1>10, <1>12 DEF h, L, R

(***************************************************************************)
(* The binary algorithm.                                                   *)
(***************************************************************************)
(* Two odd numbers, of which one is taken off the other and half is kept.  *)
LEMMA SpanOdds ==
  ASSUME NEW x \in Nat, NEW y \in Nat, NEW c \in Nat, x = 2 * c + 1, NEW k \in Nat, y = 2 * k + 1,
         NEW h \in Nat, x - y = 2 * h
  PROVE  Spans(h, y, x, y) /\ Spans(y, h, y, x)
<1> DEFINE r == x - y
           q == 1
<1>1. x \in Int /\ y \in Int /\ k \in Int /\ h \in Int /\ r \in Int /\ r = x - q * y /\ q \in Int
  OBVIOUS
<1>2. Spans(y, r, x, y) /\ Spans(r, y, x, y)
  <2> HIDE DEF r, q
  <2>1. QED
    BY <1>1, SpanLess
<1>3. Spans(h, y, r, y) /\ Spans(y, h, y, r)
  <2>1. r = 2 * h /\ y = 2 * k + 1
    OBVIOUS
  <2> HIDE DEF r
  <2>2. QED
    BY <1>1, <2>1, SpanHalf
<1> HIDE DEF r
<1>4. Spans(h, y, x, y)
  BY <1>1, <1>2, <1>3, SpanTwice
<1>5. Spans(x, y, y, x)
  BY Itself
<1>6. Spans(y, r, y, x)
  BY <1>1, <1>2, <1>5, SpanTwice
<1>7. Spans(y, h, y, x)
  BY <1>1, <1>3, <1>6, SpanTwice
<1>8. QED
  BY <1>4, <1>7

Under2(v, x) == x \in Nat /\ v < 2 ^ x

LEMMA OneBitLess ==
  ASSUME NEW v \in Nat, v > 0, NEW x, Under2(v, x), NEW h \in Nat, 2 * h =< v
  PROVE  x > 0 /\ Under2(h, x - 1)
<1>1. x \in Nat /\ v < 2 ^ x
  BY DEF Under2
<1>2. x # 0
  <2>1. ASSUME x = 0 PROVE FALSE
    <3>1. 2 ^ 0 = 1
      BY PowerOfTwo
    <3>2. v < 1
      BY <1>1, <2>1, <3>1
    <3>3. QED
      BY <3>2
  <2>2. QED
    BY <2>1
<1> DEFINE i == x - 1
<1>3. i \in Nat /\ i + 1 = x
  BY <1>1, <1>2
<1> HIDE DEF i
<1>4. 2 ^ (i + 1) = 2 * 2 ^ i /\ 2 ^ i \in Nat
  BY <1>3, PowerOfTwo
<1>5. v < 2 * 2 ^ i
  BY <1>1, <1>3, <1>4
<1>6. h < 2 ^ i
  BY <1>4, <1>5
<1>7. QED
  BY <1>1, <1>2, <1>3, <1>6 DEF Under2, i

Pairs == [n1 : Seq(DigitSet), n2 : Seq(DigitSet)]

(* Every turn of the binary algorithm keeps what is spanned, one of the    *)
(* two odd and the second not nought, and takes a bit off.                 *)
BinaryAt(p, a, b) ==
  /\ p \in Pairs /\ Normal(p.n1) /\ Normal(p.n2)
  /\ ValueOf(p.n2) > 0 /\ (~Even(p.n1) \/ ~Even(p.n2))
  /\ Spans(ValueOf(p.n1), ValueOf(p.n2), a, b)

BitsIn(p, m) == \E x \in Nat, y \in Nat : Under2(ValueOf(p.n1), x) /\ Under2(ValueOf(p.n2), y) /\ x + y =< m

BinaryAfter(a, b, n, k) == {p \in Pairs : BinaryAt(p, a, b) /\ (p.n1 = <<>> \/ BitsIn(p, n - k))}

(* What a turn makes of them.                                              *)
BinaryStepped(p, t) ==
  /\ t \in Pairs /\ Normal(t.n1) /\ Normal(t.n2) /\ ValueOf(t.n2) > 0 /\ (~Even(t.n1) \/ ~Even(t.n2))
  /\ Spans(ValueOf(t.n1), ValueOf(t.n2), ValueOf(p.n1), ValueOf(p.n2))
  /\ \/ t.n2 = p.n2 /\ ValueOf(p.n1) > 0 /\ 2 * ValueOf(t.n1) =< ValueOf(p.n1)
     \/ t.n1 = p.n1 /\ ValueOf(p.n2) > 0 /\ 2 * ValueOf(t.n2) =< ValueOf(p.n2)

LEMMA BinaryTurnExact ==
  ASSUME NEW p \in Pairs, Normal(p.n1), Normal(p.n2), p.n1 # <<>>, ValueOf(p.n2) > 0, ~Even(p.n1) \/ ~Even(p.n2)
  PROVE  BinaryStepped(p, BinaryTurn(p))
<1> DEFINE l == p.n1
           r == p.n2
           L == ValueOf(l)
           R == ValueOf(r)
           hl == Half(l)
           hr == Half(r)
           t == BinaryTurn(p)
           lr == HalfLess(l, r)
           rl == HalfLess(r, l)
<1>1. p = [n1 |-> l, n2 |-> r] /\ l \in Seq(DigitSet) /\ r \in Seq(DigitSet) /\ Normal(l) /\ Normal(r) /\ l # <<>>
  BY DEF Pairs
<1>2. L \in Nat /\ R \in Nat /\ L > 0 /\ R > 0
  <2>1. L \in Nat /\ R \in Nat /\ (l = <<>> <=> L = 0)
    BY <1>1, ValueSizes
  <2>2. QED
    BY <1>1, <2>1
<1>3. /\ Normal(hl) /\ Normal(hr) /\ ValueOf(hl) \in Nat /\ ValueOf(hr) \in Nat
      /\ (Even(l) => L = 2 * ValueOf(hl)) /\ (~Even(l) => L = 2 * ValueOf(hl) + 1)
      /\ (Even(r) => R = 2 * ValueOf(hr)) /\ (~Even(r) => R = 2 * ValueOf(hr) + 1)
  BY <1>1, HalfExact
<1>4. ~Even(l) \/ ~Even(r)
  OBVIOUS
<1>5. CASE Even(l)
  <2>1. t = [n1 |-> hl, n2 |-> r]
    <3>1. t = [p EXCEPT !.n1 = Half(@)]
      BY <1>1, <1>4, <1>5 DEF BinaryTurn
    <3>2. QED
      BY <1>1, <3>1
  <2> HIDE DEF t, hl, hr, L, R
  <2>2. Spans(ValueOf(hl), R, L, R)
    <3>1. /\ ValueOf(hl) \in Int /\ ValueOf(hr) \in Int /\ L \in Int /\ R \in Int
          /\ L = 2 * ValueOf(hl) /\ R = 2 * ValueOf(hr) + 1
      BY <1>2, <1>3, <1>4, <1>5
    <3>2. QED
      BY <3>1, SpanHalf
  <2>3. 2 * ValueOf(hl) =< L
    BY <1>3, <1>5
  <2> HIDE DEF l, r
  <2>4. t \in Pairs /\ t.n1 = hl /\ t.n2 = r
    BY <1>1, <1>3, <2>1 DEF Pairs, Normal
  <2>5. BinaryStepped(p, t)
    BY <1>1, <1>2, <1>3, <1>4, <1>5, <2>2, <2>3, <2>4 DEF BinaryStepped, L, R, l, r
  <2>6. QED
    BY <2>5 DEF t
<1>6. CASE ~Even(l) /\ Even(r)
  <2>1. t = [n1 |-> l, n2 |-> hr]
    <3>1. t = [p EXCEPT !.n2 = Half(@)]
      BY <1>1, <1>6 DEF BinaryTurn
    <3>2. QED
      BY <1>1, <3>1
  <2> HIDE DEF t, hl, hr, L, R
  <2>2. Spans(L, ValueOf(hr), L, R)
    BY <1>2, <1>3, <1>6, SpanHalf
  <2>3. 2 * ValueOf(hr) =< R /\ ValueOf(hr) > 0
    BY <1>2, <1>3, <1>6
  <2> HIDE DEF l, r
  <2>4. t \in Pairs /\ t.n1 = l /\ t.n2 = hr
    BY <1>1, <1>3, <2>1 DEF Pairs, Normal
  <2>5. BinaryStepped(p, t)
    BY <1>1, <1>2, <1>3, <1>6, <2>2, <2>3, <2>4 DEF BinaryStepped, L, R, l, r
  <2>6. QED
    BY <2>5 DEF t
<1>7. CASE ~Even(l) /\ ~Even(r) /\ L < R
  <2>1. Cmp(l, r) < 0
    <3>1. Cmp(l, r) = Sign(L - R)
      BY <1>1, CmpExact
    <3>2. Sign(L - R) = -1
      BY <1>2, <1>7 DEF Sign
    <3>3. QED
      BY <3>1, <3>2
  <2>2. t = [n1 |-> l, n2 |-> rl]
    <3>1. t = [p EXCEPT !.n2 = HalfLess(@, l)]
      BY <1>1, <1>7, <2>1 DEF BinaryTurn
    <3>2. QED
      BY <1>1, <3>1
  <2>3. Normal(rl) /\ ValueOf(rl) \in Nat /\ R - L = 2 * ValueOf(rl)
    <3>1. ValueOf(l) =< ValueOf(r)
      BY <1>2, <1>7
    <3> HIDE DEF L, R, l, r
    <3>2. QED
      BY <1>1, <1>7, <3>1, HalfLessExact DEF L, R
  <2> HIDE DEF t, hl, hr, L, R, rl
  <2>4. Spans(L, ValueOf(rl), L, R)
    BY <1>2, <1>3, <1>7, <2>3, SpanOdds
  <2>5. 2 * ValueOf(rl) =< R /\ ValueOf(rl) > 0
    BY <1>2, <1>7, <2>3
  <2> HIDE DEF l, r
  <2>6. t \in Pairs /\ t.n1 = l /\ t.n2 = rl
    BY <1>1, <2>2, <2>3 DEF Pairs, Normal
  <2>7. BinaryStepped(p, t)
    BY <1>1, <1>2, <1>7, <2>3, <2>4, <2>5, <2>6 DEF BinaryStepped, L, R, l, r
  <2>8. QED
    BY <2>7 DEF t
<1>8. CASE ~Even(l) /\ ~Even(r) /\ ~(L < R)
  <2>1. ~(Cmp(l, r) < 0)
    <3>1. Cmp(l, r) = Sign(L - R)
      BY <1>1, CmpExact
    <3>2. Sign(L - R) \in {0, 1}
      BY <1>2, <1>8 DEF Sign
    <3>3. QED
      BY <3>1, <3>2
  <2>2. t = [n1 |-> lr, n2 |-> r]
    <3>1. t = [p EXCEPT !.n1 = HalfLess(@, r)]
      BY <1>1, <1>8, <2>1 DEF BinaryTurn
    <3>2. QED
      BY <1>1, <3>1
  <2>3. Normal(lr) /\ ValueOf(lr) \in Nat /\ L - R = 2 * ValueOf(lr)
    <3>1. ValueOf(r) =< ValueOf(l)
      BY <1>2, <1>8
    <3> HIDE DEF L, R, l, r
    <3>2. QED
      BY <1>1, <1>8, <3>1, HalfLessExact DEF L, R
  <2> HIDE DEF t, hl, hr, L, R, lr
  <2>4. Spans(ValueOf(lr), R, L, R)
    BY <1>2, <1>3, <1>8, <2>3, SpanOdds
  <2>5. 2 * ValueOf(lr) =< L
    BY <1>2, <1>8, <2>3
  <2> HIDE DEF l, r
  <2>6. t \in Pairs /\ t.n1 = lr /\ t.n2 = r
    BY <1>1, <2>2, <2>3 DEF Pairs, Normal
  <2>7. BinaryStepped(p, t)
    BY <1>1, <1>2, <1>8, <2>3, <2>4, <2>5, <2>6 DEF BinaryStepped, L, R, l, r
  <2>8. QED
    BY <2>7 DEF t
<1>9. QED
  BY <1>5, <1>6, <1>7, <1>8

LEMMA BinaryStep ==
  ASSUME NEW a \in Nat, NEW b \in Nat, NEW n \in Nat, NEW k \in 1 .. n, NEW p \in BinaryAfter(a, b, n, k - 1)
  PROVE  BinaryTurn(p) \in BinaryAfter(a, b, n, k)
<1> DEFINE t == BinaryTurn(p)
           L == ValueOf(p.n1)
           R == ValueOf(p.n2)
           Lt == ValueOf(t.n1)
           Rt == ValueOf(t.n2)
<1>1. BinaryAt(p, a, b) /\ (p.n1 = <<>> \/ BitsIn(p, n - (k - 1)))
  BY DEF BinaryAfter
<1>2. p \in Pairs /\ Normal(p.n1) /\ Normal(p.n2) /\ R > 0 /\ (~Even(p.n1) \/ ~Even(p.n2)) /\ Spans(L, R, a, b)
  BY <1>1 DEF BinaryAt
<1>3. CASE p.n1 = <<>>
  <2>1. t = p
    <3>1. Even(p.n1)
      BY <1>3 DEF Even, Digit
    <3>2. QED
      BY <1>3, <3>1 DEF BinaryTurn
  <2>2. QED
    BY <1>1, <1>2, <1>3, <2>1 DEF BinaryAfter
<1>4. CASE p.n1 # <<>>
  <2>1. BinaryStepped(p, t)
    BY <1>2, <1>4, BinaryTurnExact
  <2> HIDE DEF t
  <2>2. /\ t \in Pairs /\ Normal(t.n1) /\ Normal(t.n2) /\ Rt > 0 /\ (~Even(t.n1) \/ ~Even(t.n2))
        /\ Spans(Lt, Rt, L, R)
        /\ \/ t.n2 = p.n2 /\ L > 0 /\ 2 * Lt =< L
           \/ t.n1 = p.n1 /\ R > 0 /\ 2 * Rt =< R
    BY <2>1 DEF BinaryStepped
  <2>3. L \in Nat /\ R \in Nat /\ Lt \in Nat /\ Rt \in Nat
    BY <1>2, <2>2, ValueSizes
  <2>4. BitsIn(p, n - (k - 1))
    BY <1>1, <1>4
  <2>5. PICK x \in Nat, y \in Nat : Under2(L, x) /\ Under2(R, y) /\ x + y =< n - (k - 1)
    BY <2>4 DEF BitsIn
  <2>6. \E u \in Nat, v \in Nat : Under2(Lt, u) /\ Under2(Rt, v) /\ u + v =< n - k
    <3> HIDE DEF L, R, Lt, Rt
    <3>1. CASE t.n2 = p.n2 /\ L > 0 /\ 2 * Lt =< L
      <4>1. x > 0 /\ Under2(Lt, x - 1)
        BY <2>3, <2>5, <3>1, OneBitLess
      <4>2. x - 1 \in Nat /\ (x - 1) + y =< n - k
        BY <2>5, <4>1
      <4>3. Rt = R
        BY <3>1 DEF R, Rt
      <4>4. QED
        BY <2>5, <4>1, <4>2, <4>3
    <3>2. CASE t.n1 = p.n1 /\ R > 0 /\ 2 * Rt =< R
      <4>1. y > 0 /\ Under2(Rt, y - 1)
        BY <2>3, <2>5, <3>2, OneBitLess
      <4>2. y - 1 \in Nat /\ x + (y - 1) =< n - k
        BY <2>5, <4>1
      <4>3. Lt = L
        BY <3>2 DEF L, Lt
      <4>4. QED
        BY <2>5, <4>1, <4>2, <4>3
    <3>3. QED
      BY <2>2, <3>1, <3>2
  <2>7. Spans(Lt, Rt, a, b)
    <3> HIDE DEF L, R, Lt, Rt
    <3>1. QED
      BY <1>2, <2>2, <2>3, SpanTwice
  <2>8. BitsIn(t, n - k)
    BY <2>6 DEF BitsIn
  <2>9. BinaryAt(t, a, b)
    BY <2>2, <2>7 DEF BinaryAt
  <2>10. t \in BinaryAfter(a, b, n, k)
    BY <2>2, <2>8, <2>9 DEF BinaryAfter
  <2>11. QED
    BY <2>10 DEF t
<1>5. QED
  BY <1>3, <1>4

LEMMA BinaryCourse ==
  ASSUME NEW n \in Nat, NEW P, NEW a \in P[0], \A i \in 1 .. n : \A y \in P[i - 1] : BinaryTurn(y) \in P[i]
  PROVE  BinaryTurns(a, n) \in P[n]
<1> DEFINE g == [i \in 1 .. n |-> [y \in P[i - 1] |-> BinaryTurn(y)]]
           X(f) == [k \in 0 .. n |-> IF k = 0 THEN a ELSE BinaryTurn(f[k - 1])]
<1>1. \A i \in 1 .. n : \A y \in P[i - 1] : g[i][y] = BinaryTurn(y) /\ g[i][y] \in P[i]
  OBVIOUS
<1> HIDE DEF g
<1>2. PICK f : f = [i \in 0 .. n |-> f[i]] /\ Course(f, n, P, a, g)
  <2>1. Looped(n, P, a, g)
    BY <1>1, LoopExists
  <2>2. QED
    BY <2>1 DEF Looped
<1>3. f = X(f)
  <2>1. ASSUME NEW k \in 0 .. n PROVE f[k] = X(f)[k]
    <3>1. CASE k = 0
      BY <1>2, <3>1 DEF Course
    <3>2. CASE k # 0
      <4>1. k \in 1 .. n /\ k - 1 \in 0 .. n
        BY <3>2
      <4>2. f[k] = g[k][f[k - 1]] /\ f[k - 1] \in P[k - 1]
        BY <1>2, <4>1 DEF Course
      <4>3. f[k] = BinaryTurn(f[k - 1])
        BY <1>1, <4>1, <4>2
      <4>4. QED
        BY <3>2, <4>3
    <3>3. QED
      BY <3>1, <3>2
  <2>2. QED
    BY <1>2, <2>1
<1> DEFINE turns == CHOOSE h : h = X(h)
<1>4. turns = X(turns)
  <2>1. \E h : h = X(h)
    BY <1>3
  <2>2. QED
    <3> HIDE DEF X
    <3>1. QED
      BY <2>1
<1>5. BinaryTurns(a, n) = turns[n]
  BY DEF BinaryTurns
<1> HIDE DEF turns
<1>6. turns[0] = a /\ \A k \in 1 .. n : turns[k] = BinaryTurn(turns[k - 1])
  BY <1>4
<1> HIDE DEF X
<1> DEFINE G == {k \in 0 .. n : turns[k] \in P[k]}
<1>7. 0 .. n \subseteq G
  <2>1. 0 \in G
    BY <1>6
  <2>2. ASSUME NEW k \in 0 .. (n - 1), k \in G PROVE k + 1 \in G
    <3>1. k + 1 \in 1 .. n /\ (k + 1) - 1 = k /\ turns[k] \in P[(k + 1) - 1] /\ k + 1 \in 0 .. n
      BY <2>2
    <3>2. turns[k + 1] = BinaryTurn(turns[k])
      BY <1>6, <3>1
    <3>3. turns[k + 1] \in P[k + 1]
      BY <3>1, <3>2
    <3>4. QED
      BY <3>1, <3>3
  <2> HIDE DEF G
  <2>3. QED
    BY <2>1, <2>2, Ascent
<1>8. QED
  BY <1>5, <1>7


(* What the binary algorithm ends with spans what the two numbers do.      *)
LEMMA BinaryGcdExact ==
  ASSUME NEW l, Normal(l), l # <<>>, NEW r, Normal(r), r # <<>>, ~Even(l) \/ ~Even(r)
  PROVE  LET g == BinaryGcd(l, r)
         IN  Normal(g) /\ ValueOf(g) \in Nat /\ ValueOf(g) > 0 /\ Spans(ValueOf(g), 0, ValueOf(l), ValueOf(r))
<1> DEFINE a == ValueOf(l)
           b == ValueOf(r)
           n == DigitBits * (Len(l) + Len(r))
           P == [k \in 0 .. n |-> BinaryAfter(a, b, n, k)]
           s == [n1 |-> l, n2 |-> r]
           e == BinaryTurns(s, n)
           x == DigitBits * Len(l)
           y == DigitBits * Len(r)
<1>1. l \in Seq(DigitSet) /\ r \in Seq(DigitSet) /\ Len(l) \in Nat /\ Len(r) \in Nat
  BY DEF Normal
<1>2. a \in Nat /\ b \in Nat /\ a > 0 /\ b > 0
  <2>1. a \in Nat /\ b \in Nat /\ (l = <<>> <=> a = 0) /\ (r = <<>> <=> b = 0)
    BY ValueSizes
  <2>2. QED
    BY <2>1
<1>3. a < Weight(Len(l)) /\ b < Weight(Len(r))
  BY <1>1, SeqBelow
<1>4. Weight(Len(l)) = 2 ^ x /\ Weight(Len(r)) = 2 ^ y /\ x \in Nat /\ y \in Nat
  BY <1>1, WeightPower
<1>5. n = x + y /\ n \in Nat
  <2>1. DigitBits * (Len(l) + Len(r)) = DigitBits * Len(l) + DigitBits * Len(r)
    BY <1>1, DigitBitsAssumption
  <2>2. n = x + y
    BY <2>1
  <2> HIDE DEF n, x, y
  <2>3. QED
    BY <1>4, <2>2
<1>6. BitsIn(s, n - 0)
  <2>1. Under2(a, x) /\ Under2(b, y)
    BY <1>3, <1>4 DEF Under2
  <2>2. x + y =< n - 0
    <3> HIDE DEF x, y, n
    <3>1. QED
      BY <1>4, <1>5
  <2>3. s.n1 = l /\ s.n2 = r
    OBVIOUS
  <2> HIDE DEF s, x, y, n
  <2>4. QED
    BY <1>4, <2>1, <2>2, <2>3 DEF BitsIn
<1>7. s \in Pairs /\ BinaryAt(s, a, b)
  <2>1. s \in Pairs /\ s.n1 = l /\ s.n2 = r
    BY <1>1 DEF Pairs
  <2>2. Spans(a, b, a, b)
    BY <1>2, Itself
  <2> HIDE DEF s
  <2>3. QED
    BY <1>2, <2>1, <2>2 DEF BinaryAt
<1>8. s \in P[0]
  <2> HIDE DEF s, n, a, b
  <2>1. s \in BinaryAfter(a, b, n, 0)
    BY <1>6, <1>7 DEF BinaryAfter
  <2>2. 0 \in 0 .. n
    BY <1>5
  <2>3. QED
    BY <2>1, <2>2
<1> HIDE DEF s, n, a, b
<1>9. \A i \in 1 .. n : \A z \in P[i - 1] : BinaryTurn(z) \in P[i]
  <2>1. ASSUME NEW i \in 1 .. n, NEW z \in P[i - 1] PROVE BinaryTurn(z) \in P[i]
    <3>1. i - 1 \in 0 .. n /\ i \in 0 .. n
      BY <1>5
    <3>2. z \in BinaryAfter(a, b, n, i - 1)
      BY <3>1
    <3>3. BinaryTurn(z) \in BinaryAfter(a, b, n, i)
      BY <1>2, <1>5, <3>2, BinaryStep
    <3>4. QED
      BY <3>1, <3>3
  <2>2. QED
    BY <2>1
<1> HIDE DEF P
<1>10. e \in P[n]
  BY <1>5, <1>8, <1>9, BinaryCourse
<1> HIDE DEF e
<1>11. e \in BinaryAfter(a, b, n, n)
  BY <1>5, <1>10 DEF P
<1>12. /\ e \in Pairs /\ Normal(e.n1) /\ Normal(e.n2) /\ ValueOf(e.n2) > 0
       /\ Spans(ValueOf(e.n1), ValueOf(e.n2), a, b)
       /\ (e.n1 = <<>> \/ BitsIn(e, n - n))
  BY <1>11 DEF BinaryAfter, BinaryAt
<1> DEFINE L == ValueOf(e.n1)
           g == e.n2
<1>13. L = 0
  <2>1. CASE e.n1 = <<>>
    BY <1>12, <2>1, ValueSizes
  <2>2. CASE BitsIn(e, n - n)
    <3>1. PICK u \in Nat, v \in Nat : Under2(L, u) /\ u + v =< n - n
      BY <2>2 DEF BitsIn
    <3>2. u = 0
      BY <1>5, <3>1
    <3>3. L < 2 ^ u
      BY <3>1 DEF Under2
    <3>4. 2 ^ 0 = 1
      BY PowerOfTwo
    <3>5. L \in Nat
      BY <1>12, ValueSizes
    <3> HIDE DEF L
    <3>6. L < 1
      BY <3>2, <3>3, <3>4
    <3>7. QED
      BY <3>5, <3>6
  <2>3. QED
    BY <1>12, <2>1, <2>2
<1>14. BinaryGcd(l, r) = g
  BY DEF BinaryGcd, e, s, n
<1> HIDE DEF L, g
<1>15. Normal(g) /\ ValueOf(g) \in Nat /\ ValueOf(g) > 0 /\ Spans(0, ValueOf(g), a, b)
  <2>1. Spans(L, ValueOf(g), a, b) /\ Normal(g) /\ ValueOf(g) > 0
    BY <1>12 DEF L, g
  <2>2. QED
    BY <1>13, <2>1, ValueSizes
<1> DEFINE zero == 0
<1>16. Spans(ValueOf(g), zero, zero, ValueOf(g)) /\ zero \in Int /\ zero = 0
  BY <1>15, Itself
<1> HIDE DEF zero
<1>17. Spans(ValueOf(g), zero, a, b)
  BY <1>2, <1>15, <1>16, SpanTwice
<1>18. QED
  BY <1>14, <1>15, <1>16, <1>17 DEF a, b

(* The common powers of two, shifted out one by one.                       *)
TwosStates == [n1 : Seq(DigitSet), n2 : Seq(DigitSet), shift : Nat]

Scaled(v, shift, w) == v = 2 ^ shift * w

TwosAt(p, l, r) ==
  /\ p \in TwosStates /\ Normal(p.n1) /\ Normal(p.n2)
  /\ Scaled(ValueOf(l), p.shift, ValueOf(p.n1)) /\ Scaled(ValueOf(r), p.shift, ValueOf(p.n2))

TwosAfter(l, r, k) == {p \in TwosStates : TwosAt(p, l, r) /\ (~Even(p.n1) \/ ~Even(p.n2) \/ p.shift = k)}

LEMMA ScaledHalf ==
  ASSUME NEW v \in Nat, NEW shift \in Nat, NEW w \in Nat, Scaled(v, shift, w), NEW h \in Nat, w = 2 * h
  PROVE  Scaled(v, shift + 1, h)
<1> DEFINE p == 2 ^ shift
<1>1. 2 ^ (shift + 1) = 2 * p /\ p \in Nat
  BY PowerOfTwo
<1>2. v = p * w
  BY DEF Scaled
<1> HIDE DEF p
<1>3. p * w = (2 * p) * h
  BY <1>1
<1>4. QED
  BY <1>1, <1>2, <1>3 DEF Scaled

LEMMA TwosStep ==
  ASSUME NEW l, Normal(l), NEW r, Normal(r), NEW n \in Nat, NEW k \in 1 .. n, NEW p \in TwosAfter(l, r, k - 1)
  PROVE  TwosTurn(p) \in TwosAfter(l, r, k)
<1>1. TwosAt(p, l, r) /\ (~Even(p.n1) \/ ~Even(p.n2) \/ p.shift = k - 1)
  BY DEF TwosAfter
<1>2. /\ p \in TwosStates /\ Normal(p.n1) /\ Normal(p.n2) /\ p.shift \in Nat
      /\ Scaled(ValueOf(l), p.shift, ValueOf(p.n1)) /\ Scaled(ValueOf(r), p.shift, ValueOf(p.n2))
  BY <1>1 DEF TwosAt, TwosStates
<1> DEFINE t == TwosTurn(p)
           h1 == Half(p.n1)
           h2 == Half(p.n2)
           i == p.shift + 1
<1>3. CASE ~(Even(p.n1) /\ Even(p.n2))
  <2>1. t = p
    BY <1>3 DEF TwosTurn
  <2>2. QED
    BY <1>1, <1>2, <1>3, <2>1 DEF TwosAfter
<1>4. CASE Even(p.n1) /\ Even(p.n2)
  <2>1. t = [n1 |-> h1, n2 |-> h2, shift |-> i]
    BY <1>4 DEF TwosTurn
  <2>2. i = k /\ i \in Nat
    BY <1>1, <1>2, <1>4
  <2>3. /\ Normal(h1) /\ Normal(h2) /\ ValueOf(h1) \in Nat /\ ValueOf(h2) \in Nat
        /\ ValueOf(p.n1) \in Nat /\ ValueOf(p.n2) \in Nat
        /\ ValueOf(p.n1) = 2 * ValueOf(h1) /\ ValueOf(p.n2) = 2 * ValueOf(h2)
    BY <1>2, <1>4, HalfExact
  <2>4. ValueOf(l) \in Nat /\ ValueOf(r) \in Nat
    BY ValueSizes
  <2> HIDE DEF h1, h2, t
  <2>5. Scaled(ValueOf(l), p.shift + 1, ValueOf(h1)) /\ Scaled(ValueOf(r), p.shift + 1, ValueOf(h2))
    BY <1>2, <2>3, <2>4, ScaledHalf
  <2>6. t \in TwosStates /\ t.n1 = h1 /\ t.n2 = h2 /\ t.shift = i
    BY <2>1, <2>2, <2>3 DEF TwosStates, Normal
  <2> HIDE DEF i
  <2>7. TwosAt(t, l, r)
    BY <2>3, <2>5, <2>6 DEF TwosAt, i
  <2>8. t \in TwosAfter(l, r, k)
    BY <2>2, <2>6, <2>7 DEF TwosAfter
  <2>9. QED
    BY <2>8 DEF t
<1>5. QED
  BY <1>3, <1>4

LEMMA TwosCourse ==
  ASSUME NEW n \in Nat, NEW P, NEW a \in P[0], \A i \in 1 .. n : \A y \in P[i - 1] : TwosTurn(y) \in P[i]
  PROVE  TwosTurns(a, n) \in P[n]
<1> DEFINE g == [i \in 1 .. n |-> [y \in P[i - 1] |-> TwosTurn(y)]]
           X(f) == [k \in 0 .. n |-> IF k = 0 THEN a ELSE TwosTurn(f[k - 1])]
<1>1. \A i \in 1 .. n : \A y \in P[i - 1] : g[i][y] = TwosTurn(y) /\ g[i][y] \in P[i]
  OBVIOUS
<1> HIDE DEF g
<1>2. PICK f : f = [i \in 0 .. n |-> f[i]] /\ Course(f, n, P, a, g)
  <2>1. Looped(n, P, a, g)
    BY <1>1, LoopExists
  <2>2. QED
    BY <2>1 DEF Looped
<1>3. f = X(f)
  <2>1. ASSUME NEW k \in 0 .. n PROVE f[k] = X(f)[k]
    <3>1. CASE k = 0
      BY <1>2, <3>1 DEF Course
    <3>2. CASE k # 0
      <4>1. k \in 1 .. n /\ k - 1 \in 0 .. n
        BY <3>2
      <4>2. f[k] = g[k][f[k - 1]] /\ f[k - 1] \in P[k - 1]
        BY <1>2, <4>1 DEF Course
      <4>3. f[k] = TwosTurn(f[k - 1])
        BY <1>1, <4>1, <4>2
      <4>4. QED
        BY <3>2, <4>3
    <3>3. QED
      BY <3>1, <3>2
  <2>2. QED
    BY <1>2, <2>1
<1> DEFINE turns == CHOOSE h : h = X(h)
<1>4. turns = X(turns)
  <2>1. \E h : h = X(h)
    BY <1>3
  <2>2. QED
    <3> HIDE DEF X
    <3>1. QED
      BY <2>1
<1>5. TwosTurns(a, n) = turns[n]
  BY DEF TwosTurns
<1> HIDE DEF turns
<1>6. turns[0] = a /\ \A k \in 1 .. n : turns[k] = TwosTurn(turns[k - 1])
  BY <1>4
<1> HIDE DEF X
<1> DEFINE G == {k \in 0 .. n : turns[k] \in P[k]}
<1>7. 0 .. n \subseteq G
  <2>1. 0 \in G
    BY <1>6
  <2>2. ASSUME NEW k \in 0 .. (n - 1), k \in G PROVE k + 1 \in G
    <3>1. k + 1 \in 1 .. n /\ (k + 1) - 1 = k /\ turns[k] \in P[(k + 1) - 1] /\ k + 1 \in 0 .. n
      BY <2>2
    <3>2. turns[k + 1] = TwosTurn(turns[k])
      BY <1>6, <3>1
    <3>3. turns[k + 1] \in P[k + 1]
      BY <3>1, <3>2
    <3>4. QED
      BY <3>1, <3>3
  <2> HIDE DEF G
  <2>3. QED
    BY <2>1, <2>2, Ascent
<1>8. QED
  BY <1>5, <1>7


(* What is left when the powers of two are shifted out: one is odd.        *)
LEMMA WithoutTwosExact ==
  ASSUME NEW l, Normal(l), l # <<>>, NEW r, Normal(r), r # <<>>
  PROVE  LET p == WithoutTwos(l, r)
         IN  /\ TwosAt(p, l, r) /\ (~Even(p.n1) \/ ~Even(p.n2))
             /\ p.n1 # <<>> /\ p.n2 # <<>>
<1> DEFINE n == DigitBits * Len(l)
           P == [k \in 0 .. n |-> TwosAfter(l, r, k)]
           s == [n1 |-> l, n2 |-> r, shift |-> 0]
           e == TwosTurns(s, n)
<1>1. l \in Seq(DigitSet) /\ r \in Seq(DigitSet) /\ Len(l) \in Nat /\ Len(r) \in Nat
  BY DEF Normal
<1>2. ValueOf(l) \in Nat /\ ValueOf(r) \in Nat /\ ValueOf(l) > 0 /\ ValueOf(r) > 0
  <2>1. ValueOf(l) \in Nat /\ ValueOf(r) \in Nat /\ (l = <<>> <=> ValueOf(l) = 0) /\ (r = <<>> <=> ValueOf(r) = 0)
    BY ValueSizes
  <2>2. QED
    BY <2>1
<1>3. ValueOf(l) < 2 ^ n /\ n \in Nat
  BY <1>1, SeqBelow, WeightPower
<1>4. s \in P[0]
  <2>1. s \in TwosStates /\ s.n1 = l /\ s.n2 = r /\ s.shift = 0
    BY <1>1 DEF TwosStates
  <2>2. Scaled(ValueOf(l), 0, ValueOf(l)) /\ Scaled(ValueOf(r), 0, ValueOf(r))
    <3>1. 2 ^ 0 = 1
      BY PowerOfTwo
    <3>2. QED
      BY <1>2, <3>1 DEF Scaled
  <2> HIDE DEF s, n
  <2>3. TwosAt(s, l, r)
    BY <2>1, <2>2 DEF TwosAt
  <2>4. s \in TwosAfter(l, r, 0)
    BY <2>1, <2>3 DEF TwosAfter
  <2>5. QED
    BY <1>3, <2>4
<1> HIDE DEF s, n
<1>5. \A i \in 1 .. n : \A z \in P[i - 1] : TwosTurn(z) \in P[i]
  <2>1. ASSUME NEW i \in 1 .. n, NEW z \in P[i - 1] PROVE TwosTurn(z) \in P[i]
    <3>1. i - 1 \in 0 .. n /\ i \in 0 .. n
      BY <1>3
    <3>2. z \in TwosAfter(l, r, i - 1)
      BY <3>1
    <3>3. TwosTurn(z) \in TwosAfter(l, r, i)
      BY <1>3, <3>2, TwosStep
    <3>4. QED
      BY <3>1, <3>3
  <2>2. QED
    BY <2>1
<1> HIDE DEF P
<1>6. e \in P[n]
  BY <1>3, <1>4, <1>5, TwosCourse
<1> HIDE DEF e
<1>7. e \in TwosAfter(l, r, n)
  BY <1>3, <1>6 DEF P
<1>8. e \in TwosStates /\ TwosAt(e, l, r) /\ (~Even(e.n1) \/ ~Even(e.n2) \/ e.shift = n)
  BY <1>7 DEF TwosAfter
<1>9. WithoutTwos(l, r) = e
  BY DEF WithoutTwos, e, s, n
<1> DEFINE L == ValueOf(e.n1)
           R == ValueOf(e.n2)
           p == 2 ^ e.shift
<1>10. /\ Normal(e.n1) /\ Normal(e.n2) /\ L \in Nat /\ R \in Nat /\ p \in Nat
       /\ (e.n1 = <<>> <=> L = 0) /\ (e.n2 = <<>> <=> R = 0)
       /\ ValueOf(l) = p * L /\ ValueOf(r) = p * R
  <2>1. /\ Normal(e.n1) /\ Normal(e.n2) /\ e.shift \in Nat
        /\ ValueOf(l) = p * L /\ ValueOf(r) = p * R
    BY <1>8 DEF TwosAt, TwosStates, Scaled
  <2>2. L \in Nat /\ R \in Nat /\ (e.n1 = <<>> <=> L = 0) /\ (e.n2 = <<>> <=> R = 0)
    BY <2>1, ValueSizes
  <2>3. p \in Nat
    BY <2>1, PowerOfTwo
  <2>4. QED
    BY <2>1, <2>2, <2>3
<1>11. e.shift = n => p = 2 ^ n
  OBVIOUS
<1> HIDE DEF L, R, p
<1>12. L # 0 /\ R # 0
  <2>1. p * 0 = 0
    BY <1>10
  <2>2. QED
    BY <1>2, <1>10, <2>1
<1>13. e.shift # n
  <2>1. ASSUME e.shift = n PROVE FALSE
    <3>1. ValueOf(l) < p
      BY <1>3, <1>11, <2>1
    <3>2. p * L >= p * 1
      BY <1>10, <1>12
    <3> DEFINE m == p * L
    <3>3. m \in Nat /\ m >= p /\ ValueOf(l) = m
      BY <1>10, <3>2
    <3> HIDE DEF m
    <3>4. QED
      BY <1>2, <1>10, <3>1, <3>3
  <2>2. QED
    BY <2>1
<1>14. QED
  BY <1>8, <1>9, <1>10, <1>12, <1>13

(* A number without its powers of two, over a divisor.                     *)
LEMMA PartExact ==
  ASSUME NEW e, Normal(e), e # <<>>, NEW shift \in Nat, NEW w \in Nat, Scaled(ValueOf(e), shift, w),
         NEW d, Normal(d), d # <<>>, NEW q \in Nat, w = ValueOf(d) * q
  PROVE  LET p == Div(Norm(ShiftRight(e, shift)), d).quo
         IN  p \in Seq(DigitSet) /\ Normal(p) /\ ValueOf(p) = q
<1> DEFINE f == Norm(ShiftRight(e, shift))
           V == ValueOf(e)
           F == ValueOf(f)
           g == ValueOf(d)
           t == 2 ^ shift
<1>1. e \in Seq(DigitSet) /\ V \in Nat /\ V # 0 /\ g \in Nat /\ g # 0
  <2>1. e \in Seq(DigitSet)
    BY DEF Normal
  <2>2. V \in Nat /\ (e = <<>> <=> V = 0) /\ g \in Nat /\ (d = <<>> <=> g = 0)
    BY ValueSizes
  <2>3. QED
    BY <2>1, <2>2
<1>2. /\ Normal(f) /\ F \in Nat /\ t \in Nat /\ t > 0
      /\ \E rest \in 0 .. (t - 1) : V = t * F + rest
  <2> HIDE DEF f
  <2>1. QED
    BY <1>1, ShiftRightExact DEF f
<1>3. PICK rest \in 0 .. (t - 1) : V = t * F + rest
  BY <1>2
<1>4. V = t * w
  BY DEF Scaled
<1> HIDE DEF t, F, V, f
<1>5. F = w
  <2>1. V = t * w + 0 /\ 0 \in 0 .. (t - 1) /\ w \in Int /\ F \in Int /\ V \in Int
    <3> DEFINE m == t * w
    <3>1. m \in Nat /\ V = m
      BY <1>2, <1>4
    <3>2. t \in Nat /\ t > 0 /\ F \in Nat /\ V \in Nat
      BY <1>1, <1>2
    <3> HIDE DEF m
    <3>3. V = m + 0 /\ 0 \in 0 .. (t - 1) /\ w \in Int /\ F \in Int /\ V \in Int
      BY <3>1, <3>2
    <3>4. QED
      BY <3>3 DEF m
  <2> DEFINE zero == 0
  <2>2. V \div t = w
    <3>1. V = t * w + zero /\ zero \in 0 .. (t - 1) /\ w \in Int /\ V \in Int
      BY <2>1
    <3>2. t \in Nat /\ t > 0
      BY <1>2
    <3> HIDE DEF zero
    <3>3. QED
      BY <3>1, <3>2, ModIs
  <2>3. V \div t = F
    <3>1. V = t * F + rest /\ F \in Int /\ V \in Int
      BY <1>3, <2>1
    <3>2. t \in Nat /\ t > 0
      BY <1>2
    <3>3. QED
      BY <3>1, <3>2, ModIs
  <2>4. QED
    BY <2>2, <2>3
<1>6. q # 0
  <2>1. t * 0 = 0 /\ g * 0 = 0
    BY <1>1, <1>2
  <2>2. QED
    BY <1>1, <1>4, <2>1
<1>7. w = g * q
  OBVIOUS
<1>8. g =< F
  <2> DEFINE m == g * q
  <2> HIDE DEF g
  <2>1. m \in Nat /\ m >= g * 1
    BY <1>1, <1>6
  <2>2. F = m
    BY <1>5, <1>7
  <2> HIDE DEF m
  <2>3. QED
    BY <1>1, <2>1, <2>2
<1> DEFINE c == Div(f, d)
           x == ValueOf(c.quo)
           y == ValueOf(c.rem)
<1>9. Normal(c.quo) /\ Normal(c.rem) /\ F = g * x + y /\ y < g
  <2>1. Normal(f) /\ ValueOf(d) =< ValueOf(f)
    BY <1>2, <1>8 DEF F
  <2> HIDE DEF c
  <2>2. QED
    BY <2>1, DivExact DEF c, F
<1>10. x \in Nat /\ y \in Nat
  BY <1>9, ValueSizes
<1> HIDE DEF g, x, y, c
<1>11. x = q
  <2>1. F = g * q + 0 /\ 0 \in 0 .. (g - 1)
    <3> DEFINE m == g * q
    <3>1. m \in Nat /\ F = m
      BY <1>1, <1>5, <1>7
    <3> HIDE DEF m
    <3>2. F = m + 0 /\ 0 \in 0 .. (g - 1)
      BY <1>1, <3>1
    <3>3. QED
      BY <3>2 DEF m
  <2>2. y \in 0 .. (g - 1) /\ F \in Int /\ q \in Int /\ x \in Int /\ g > 0 /\ g \in Nat
    BY <1>1, <1>2, <1>9, <1>10
  <2>3. F \div g = x
    BY <1>9, <2>2, ModIs
  <2> DEFINE zero == 0
  <2>4. F \div g = q
    <3>1. F = g * q + zero /\ zero \in 0 .. (g - 1)
      BY <2>1
    <3> HIDE DEF zero
    <3>2. QED
      BY <2>2, <3>1, ModIs
  <2>5. QED
    BY <2>3, <2>4
<1>12. QED
  BY <1>9, <1>11 DEF x, c, f, Normal

(***************************************************************************)
(* Exact reals.  A fraction has a denominator of two or more, and no       *)
(* number but 1 divides both its parts.                                    *)
(***************************************************************************)
Divides(k, n) == \E u \in Int : n = k * u

LowestTerms(n, d) == \A k \in Nat : Divides(k, n) /\ Divides(k, d) => k = 1

FractionObject(x) ==
  \E nume, deno :
    /\ x = Rational(nume, deno) /\ IntegerObject(nume) /\ IntegerObject(deno)
    /\ NumberOf(deno) > 1 /\ LowestTerms(NumberOf(nume), NumberOf(deno))

RealObject(x) == IntegerObject(x) \/ FractionObject(x)

Num(x) == NumberOf(Nume(x))

Den(x) == NumberOf(Deno(x))

(* x is n over d.                                                          *)
StandsFor(x, n, d) == RealObject(x) /\ Num(x) * d = Den(x) * n

LEMMA IntegerParts ==
  ASSUME DigitBits > 2, NEW x, IntegerObject(x)
  PROVE  IsInteger(x) /\ Nume(x) = x /\ Deno(x) = Fixnum(1) /\ Num(x) = NumberOf(x) /\ Den(x) = 1 /\ NumberOf(x) \in Int
<1>1. IsInteger(x)
  BY DEF IntegerObject, BignumObject, Big, Fixnum, IsInteger
<1>2. NumberOf(Fixnum(1)) = 1
  BY SmallFixnum
<1>3. NumberOf(x) \in Int
  BY AsBignumExact
<1>4. QED
  BY <1>1, <1>2, <1>3 DEF Nume, Deno, Num, Den

LEMMA FractionParts ==
  ASSUME NEW nume, NEW deno
  PROVE  LET x == Rational(nume, deno)
         IN  ~IsInteger(x) /\ Nume(x) = nume /\ Deno(x) = deno /\ Num(x) = NumberOf(nume) /\ Den(x) = NumberOf(deno)
BY DEF Rational, IsInteger, Nume, Deno, Num, Den

LEMMA RealParts ==
  ASSUME DigitBits > 2, NEW x, RealObject(x)
  PROVE  /\ IntegerObject(Nume(x)) /\ IntegerObject(Deno(x)) /\ Num(x) \in Int /\ Den(x) \in Int /\ Den(x) > 0
         /\ IsInteger(x) => IntegerObject(x) /\ Nume(x) = x /\ Num(x) = NumberOf(x) /\ Den(x) = 1
         /\ ~IsInteger(x) => /\ x = Rational(Nume(x), Deno(x)) /\ x.nume = Nume(x) /\ x.deno = Deno(x)
                             /\ Den(x) > 1 /\ LowestTerms(Num(x), Den(x))
<1>1. CASE IntegerObject(x)
  <2>1. IntegerObject(Fixnum(1))
    BY SmallFixnum
  <2>2. QED
    BY <1>1, <2>1, IntegerParts
<1>2. CASE FractionObject(x)
  <2>1. PICK nume, deno :
          /\ x = Rational(nume, deno) /\ IntegerObject(nume) /\ IntegerObject(deno)
          /\ NumberOf(deno) > 1 /\ LowestTerms(NumberOf(nume), NumberOf(deno))
    BY <1>2 DEF FractionObject
  <2>2. NumberOf(nume) \in Int /\ NumberOf(deno) \in Int
    BY <2>1, AsBignumExact
  <2>3. ~IsInteger(x) /\ Nume(x) = nume /\ Deno(x) = deno /\ Num(x) = NumberOf(nume) /\ Den(x) = NumberOf(deno)
    BY <2>1, FractionParts
  <2>4. x.nume = nume /\ x.deno = deno
    BY <2>1 DEF Rational
  <2>5. QED
    BY <2>1, <2>2, <2>3, <2>4
<1>3. QED
  BY <1>1, <1>2 DEF RealObject

(* What divides both divides all that is made of them.                     *)
LEMMA LowestOf ==
  ASSUME NEW n \in Int, NEW d \in Int, Combination(1, n, d)
  PROVE  LowestTerms(n, d)
<1> SUFFICES ASSUME NEW k \in Nat, Divides(k, n), Divides(k, d) PROVE k = 1
  BY DEF LowestTerms
<1>1. PICK u \in Int, v \in Int : 1 = u * n + v * d
  BY DEF Combination
<1>2. PICK a \in Int : n = k * a
  BY DEF Divides
<1>3. PICK b \in Int : d = k * b
  BY DEF Divides
<1> DEFINE c == u * a + v * b
<1>4. c \in Int /\ 1 = k * c
  <2>1. k * c = u * (k * a) + v * (k * b)
    OBVIOUS
  <2>2. QED
    BY <1>1, <1>2, <1>3, <2>1
<1> HIDE DEF c
<1>5. c >= 1 => k * c >= k * 1
  BY <1>4
<1>6. c =< 0 => k * c =< k * 0
  BY <1>4
<1> DEFINE m == k * c
<1>7. m = 1
  BY <1>4
<1> HIDE DEF m
<1>8. c >= 1 => m >= k
  BY <1>5 DEF m
<1>9. c =< 0 => m =< 0
  BY <1>6 DEF m
<1>10. k =< 1 /\ k # 0
  <2>1. k * c = 1
    BY <1>4
  <2>2. 0 * c = 0
    BY <1>4
  <2>3. k # 0
    BY <2>1, <2>2
  <2>4. k =< 1
    BY <1>4, <1>7, <1>8, <1>9
  <2>5. QED
    BY <2>3, <2>4
<1>11. QED
  BY <1>10

LEMMA TurnCombination ==
  ASSUME NEW e \in {-1, 1}, NEW n \in Int, NEW d \in Int, Combination(1, n, d)
  PROVE  Combination(1, e * n, d)
<1>1. PICK u \in Int, v \in Int : 1 = u * n + v * d
  BY DEF Combination
<1> DEFINE w == e * u
<1>2. w \in Int /\ w * (e * n) = u * n
  OBVIOUS
<1> HIDE DEF w
<1>3. 1 = w * (e * n) + v * d
  BY <1>1, <1>2
<1>4. QED
  BY <1>2, <1>3 DEF Combination

(* The two signs of a fraction, and its value without them.                *)
LEMMA SignedFraction ==
  ASSUME NEW n \in Int, NEW d \in Int, d # 0, NEW g \in Nat, g > 0, NEW N, NEW D, Parts(g, N, D, Abs(n), Abs(d)),
         NEW x \in Int, x = (Sign(n) * Sign(d)) * N
  PROVE  D > 0 /\ D \in Nat /\ N \in Nat /\ x * d = D * n /\ LowestTerms(x, D) /\ (D = 1 => x * d = n)
<1>1. N \in Nat /\ D \in Nat /\ Abs(n) = g * N /\ Abs(d) = g * D /\ Combination(1, N, D)
  BY DEF Parts
<1>2. D > 0
  <2>1. ASSUME D = 0 PROVE FALSE
    <3>1. g * D = 0
      BY <2>1
    <3>2. QED
      BY <1>1, <3>1 DEF Abs
  <2>2. QED
    BY <1>1, <2>1
<1> DEFINE p == g * (D * N)
<1>3. p \in Nat /\ (g * D) * N = p /\ D * (g * N) = p /\ D * (-(g * N)) = -p /\ (-(g * D)) * N = -p
  BY <1>1
<1>4. CASE n = 0
  <2>1. N = 0
    <3>1. g * N = 0
      BY <1>1, <1>4 DEF Abs
    <3>2. N > 0 => g * N >= g * 1
      BY <1>1
    <3> DEFINE m == g * N
    <3> HIDE DEF m
    <3>3. N > 0 => m >= g
      BY <3>2 DEF m
    <3>4. m = 0
      BY <3>1 DEF m
    <3>5. QED
      BY <1>1, <3>3, <3>4
  <2>2. x = 0
    BY <1>4, <2>1 DEF Sign
  <2>3. LowestTerms(x, D)
    BY <1>1, <2>1, <2>2, LowestOf
  <2>4. x * d = 0 /\ D * n = 0 /\ n = 0
    BY <1>1, <1>4, <2>2
  <2>5. QED
    BY <1>1, <1>2, <2>3, <2>4
<1>5. CASE n # 0
  <2>1. LowestTerms(x, D)
    <3>1. Sign(n) * Sign(d) \in {-1, 1}
      BY <1>5 DEF Sign
    <3> DEFINE e == Sign(n) * Sign(d)
    <3>2. e \in {-1, 1} /\ x = e * N
      BY <3>1
    <3> HIDE DEF e
    <3>3. Combination(1, e * N, D)
      BY <1>1, <3>2, TurnCombination
    <3>4. QED
      BY <1>1, <3>2, <3>3, LowestOf
  <2>2. x * d = D * n
    <3>1. CASE n > 0 /\ d > 0
      <4>1. n = g * N /\ d = g * D /\ x = N
        BY <1>1, <3>1 DEF Abs, Sign
      <4>2. x * d = (g * D) * N
        BY <1>1, <4>1
      <4>3. D * n = D * (g * N)
        BY <4>1
      <4>4. QED
        BY <1>3, <4>2, <4>3
    <3>2. CASE n > 0 /\ d < 0
      <4>1. n = g * N /\ d = -(g * D) /\ x = -N
        BY <1>1, <3>2 DEF Abs, Sign
      <4>2. x * d = (g * D) * N
        BY <1>1, <4>1
      <4>3. D * n = D * (g * N)
        BY <4>1
      <4>4. QED
        BY <1>3, <4>2, <4>3
    <3>3. CASE n < 0 /\ d > 0
      <4>1. n = -(g * N) /\ d = g * D /\ x = -N
        BY <1>1, <3>3 DEF Abs, Sign
      <4>2. x * d = (-(g * D)) * N
        BY <1>1, <4>1
      <4>3. D * n = D * (-(g * N))
        BY <4>1
      <4>4. QED
        BY <1>3, <4>2, <4>3
    <3>4. CASE n < 0 /\ d < 0
      <4>1. n = -(g * N) /\ d = -(g * D) /\ x = N
        BY <1>1, <3>4 DEF Abs, Sign
      <4>2. x * d = (-(g * D)) * N
        BY <1>1, <4>1
      <4>3. D * n = D * (-(g * N))
        BY <4>1
      <4>4. QED
        BY <1>3, <4>2, <4>3
    <3>5. QED
      BY <1>5, <3>1, <3>2, <3>3, <3>4
  <2>3. D = 1 => D * n = n
    OBVIOUS
  <2>4. QED
    BY <1>1, <1>2, <2>1, <2>2, <2>3
<1>6. QED
  BY <1>4, <1>5

LEMMA StandsInteger ==
  ASSUME DigitBits > 2, NEW x, IntegerObject(x), NEW n \in Int, NEW d, NumberOf(x) * d = n
  PROVE  StandsFor(x, n, d)
<1>1. Num(x) * d = n /\ Den(x) = 1 /\ 1 * n = n
  BY IntegerParts
<1>2. QED
  BY <1>1 DEF StandsFor, RealObject

Reducing(n, d, g, N, D, nume, deno) ==
  /\ Parts(g, N, D, Abs(n), Abs(d)) /\ IntegerObject(nume) /\ NumberOf(nume) = (Sign(n) * Sign(d)) * N
  /\ D # 1 => IntegerObject(deno) /\ NumberOf(deno) = D

LEMMA Reduced ==
  ASSUME DigitBits > 2, NEW n \in Int, NEW d \in Int, d # 0, NEW g \in Nat, g > 0, NEW N, NEW D, NEW nume, NEW deno,
         Reducing(n, d, g, N, D, nume, deno)
  PROVE  /\ D \in Nat /\ D > 0
         /\ D = 1 => StandsFor(nume, n, d)
         /\ D # 1 => StandsFor(Rational(nume, deno), n, d)
<1> DEFINE x == NumberOf(nume)
<1>1. Parts(g, N, D, Abs(n), Abs(d)) /\ x = (Sign(n) * Sign(d)) * N /\ x \in Int /\ IntegerObject(nume)
  BY AsBignumExact DEF Reducing
<1> HIDE DEF x
<1>2. D > 0 /\ D \in Nat /\ N \in Nat /\ x * d = D * n /\ LowestTerms(x, D) /\ (D = 1 => x * d = n)
  BY <1>1, SignedFraction
<1>3. D = 1 => StandsFor(nume, n, d)
  BY <1>1, <1>2, StandsInteger DEF x
<1>4. ASSUME D # 1 PROVE StandsFor(Rational(nume, deno), n, d)
  <2>1. IntegerObject(deno) /\ NumberOf(deno) = D /\ D > 1
    BY <1>2, <1>4 DEF Reducing
  <2>2. FractionObject(Rational(nume, deno))
    BY <1>1, <1>2, <2>1 DEF FractionObject, x
  <2>3. Num(Rational(nume, deno)) = x /\ Den(Rational(nume, deno)) = D
    BY <2>1, FractionParts DEF x
  <2>4. QED
    BY <1>2, <2>2, <2>3 DEF StandsFor, RealObject
<1>5. QED
  BY <1>2, <1>3, <1>4

LEMMA PartsTurned ==
  ASSUME NEW g \in Nat, NEW N, NEW D, NEW a, NEW b, Parts(g, N, D, a, b)
  PROVE  Parts(g, D, N, b, a)
<1>1. N \in Nat /\ D \in Nat /\ a = g * N /\ b = g * D /\ Combination(1, N, D)
  BY DEF Parts
<1>2. PICK u \in Int, v \in Int : 1 = u * N + v * D
  BY <1>1 DEF Combination
<1>3. 1 = v * D + u * N
  BY <1>1, <1>2
<1>4. Combination(1, D, N)
  BY <1>3 DEF Combination
<1>5. QED
  BY <1>1, <1>4 DEF Parts

(* The quotient of what is a multiple.                                     *)
LEMMA WholeQuotient ==
  ASSUME NEW g \in Nat, g > 0, NEW m \in Int, NEW x \in Int, x = g * m
  PROVE  x \div g = m
<1> DEFINE zero == 0
           y == g * m
<1>1. y \in Int /\ x = y
  OBVIOUS
<1> HIDE DEF y
<1>2. x = y + zero /\ zero \in 0 .. (g - 1)
  BY <1>1
<1> HIDE DEF zero
<1>3. x = g * m + zero
  BY <1>2 DEF y
<1>4. QED
  BY <1>2, <1>3, ModIs

LEMMA GcdParts ==
  ASSUME NEW a \in Nat, NEW b \in Nat, b > 0
  PROVE  /\ Gcd(a, b) \in Nat /\ Gcd(a, b) > 0 /\ Gcd(a, b) =< b
         /\ \E N \in Nat, D \in Nat : Parts(Gcd(a, b), N, D, a, b) /\ b \div Gcd(a, b) = D
<1> DEFINE g == Gcd(a, b)
<1>1. g \in Nat /\ g > 0 /\ Spans(g, 0, a, b)
  BY GcdExact
<1> HIDE DEF g
<1>2. PICK N \in Nat, D \in Nat : Parts(g, N, D, a, b)
  BY <1>1, SpansAlone
<1>3. a = g * N /\ b = g * D
  BY <1>2 DEF Parts
<1>4. b \div g = D
  BY <1>1, <1>3, WholeQuotient
<1>5. g =< b
  <2>1. D # 0
    <3>1. g * 0 = 0
      BY <1>1
    <3>2. QED
      BY <1>3, <3>1
  <2>2. g * D >= g * 1
    BY <1>1, <2>1
  <2> DEFINE m == g * D
  <2>3. m \in Nat /\ m >= g /\ b = m
    BY <1>1, <1>3, <2>2
  <2> HIDE DEF m
  <2>4. QED
    BY <1>1, <2>3
<1>6. QED
  BY <1>1, <1>2, <1>4, <1>5 DEF g

(* The greatest common divisor of a number of any size and a word, by way  *)
(* of the remainder.                                                       *)
LEMMA DigitGcdParts ==
  ASSUME NEW e \in Seq(DigitSet), NEW m \in 1 .. (Base - 1), NEW g, g = Gcd(RemainderDigit(e, m), m)
  PROVE  /\ g \in Nat /\ g > 0 /\ g =< m /\ g \in 1 .. (Base - 1)
         /\ \E N \in Nat, D \in Nat : /\ Parts(g, N, D, ValueOf(e), m) /\ m \div g = D
                                      /\ Normal(DivDigit(e, g).quo) /\ ValueOf(DivDigit(e, g).quo) = N
<1> DEFINE V == ValueOf(e)
           c == DivDigit(e, m)
           q == ValueOf(c.quo)
           r == c.rem
<1>1. m \in Nat /\ m > 0 /\ V \in Nat /\ Base \in Nat
  BY BaseType, ValueType
<1>2. Normal(c.quo) /\ r \in 0 .. (m - 1) /\ V = m * q + r
  <2> HIDE DEF c
  <2>1. QED
    BY DivDigitExact DEF c
<1>3. q \in Nat
  BY <1>2, ValueSizes
<1>4. g = Gcd(r, m)
  BY DEF RemainderDigit
<1> HIDE DEF c, q, r, V
<1>5. r \in Nat /\ r \in Int /\ m \in Int /\ V \in Int /\ q \in Int /\ r = V - q * m
  <2> DEFINE p == m * q
  <2>1. p \in Int /\ q * m = p /\ V = p + r
    BY <1>1, <1>2, <1>3
  <2> HIDE DEF p
  <2>2. r = V - p
    BY <1>1, <1>2, <2>1
  <2>3. QED
    BY <1>1, <1>2, <1>3, <2>1, <2>2
<1>6. g \in Nat /\ g > 0 /\ Spans(g, 0, r, m) /\ g =< m
  BY <1>1, <1>4, <1>5, GcdExact, GcdParts
<1>7. Spans(r, m, V, m)
  BY <1>5, SpanLess
<1>8. Spans(g, 0, V, m)
  BY <1>5, <1>6, <1>7, SpanTwice
<1>9. PICK N \in Nat, D \in Nat : Parts(g, N, D, V, m)
  BY <1>1, <1>6, <1>8, SpansAlone
<1>10. V = g * N /\ m = g * D
  BY <1>9 DEF Parts
<1>11. m \div g = D
  BY <1>6, <1>10, WholeQuotient
<1>12. g \in 1 .. (Base - 1)
  BY <1>1, <1>6
<1> DEFINE f == DivDigit(e, g)
           y == ValueOf(f.quo)
           z == f.rem
<1>13. Normal(f.quo) /\ z \in 0 .. (g - 1) /\ V = g * y + z
  <2> HIDE DEF f
  <2>1. QED
    BY <1>12, DivDigitExact DEF f, V
<1>14. y \in Nat
  BY <1>13, ValueSizes
<1> HIDE DEF f, y, z
<1>15. V \div g = y
  <2>1. g \in Nat /\ g > 0 /\ V \in Int /\ y \in Int /\ z \in 0 .. (g - 1) /\ V = g * y + z
    BY <1>5, <1>6, <1>13, <1>14
  <2>2. QED
    BY <2>1, ModIs
<1>16. V \div g = N
  BY <1>1, <1>6, <1>10, WholeQuotient
<1>17. Normal(f.quo) /\ y = N
  BY <1>13, <1>15, <1>16
<1>18. QED
  BY <1>6, <1>9, <1>11, <1>12, <1>17 DEF V, y, f

(***************************************************************************)
(* The four forms of reduce().                                             *)
(***************************************************************************)
LEMMA SmallNumbers ==
  ASSUME DigitBits > 2
  PROVE  /\ FixnumMin \in Int /\ FixnumMax \in Int /\ FixnumMax >= 1 /\ FixnumMin = -(FixnumMax + 1)
         /\ 2 * FixnumMax < Base /\ FixnumMax + 1 < Base
         /\ \E w \in Nat : FixnumMax + 1 = 2 * w
<1>1. FixnumMin \in Int /\ FixnumMax \in Int /\ FixnumMin = -(FixnumMax + 1) /\ 0 \in FixnumMin .. FixnumMax
  BY FixnumSizes
<1>2. 2 * FixnumMax < Base /\ -Base < 2 * FixnumMin
  <2>1. FixnumMax \in FixnumMin .. FixnumMax /\ FixnumMin \in FixnumMin .. FixnumMax
    BY <1>1
  <2>2. QED
    BY <2>1, FixnumSizes
<1>3. 1 \in FixnumMin .. FixnumMax
  <2> DEFINE one == Fixnum(1)
  <2>1. IntegerObject(one) /\ IsFixnum(one) /\ one.n = 1
    BY SmallFixnum DEF Fixnum, IsFixnum
  <2> HIDE DEF one
  <2>2. one.n \in FixnumMin .. FixnumMax
    BY <2>1, AsBignumExact
  <2>3. QED
    BY <2>1, <2>2
<1>4. \E w \in Nat : FixnumMax + 1 = 2 * w
  <2> DEFINE j == DigitBits - 3
             i == j + 1
  <2>1. j \in Nat /\ i = DigitBits - 2
    BY DigitBitsAssumption
  <2> HIDE DEF j
  <2>2. 2 ^ i = 2 * 2 ^ j /\ 2 ^ j \in Nat
    BY <2>1, PowerOfTwo
  <2> HIDE DEF i
  <2>3. FixnumMax = 2 ^ i - 1
    BY <2>1 DEF FixnumMax
  <2>4. FixnumMax + 1 = 2 * 2 ^ j
    BY <2>2, <2>3
  <2>5. QED
    BY <2>2, <2>4
<1>5. FixnumMax + 1 < Base
  BY <1>1, <1>2, BaseType
<1>6. QED
  BY <1>1, <1>2, <1>3, <1>4, <1>5

LEMMA BigSize ==
  ASSUME DigitBits > 2, NEW d, IntegerObject(d), ~IsFixnum(d)
  PROVE  /\ BignumObject(d) /\ d.sign \in {-1, 1} /\ NumberOf(d) \in Int /\ NumberOf(d) # 0
         /\ Sign(NumberOf(d)) = d.sign /\ Abs(NumberOf(d)) = ValueOf(d.elts) /\ ValueOf(d.elts) > 1
         /\ ValueOf(d.elts) \in Nat /\ ValueOf(d.elts) > FixnumMax
         /\ d.elts \in Seq(DigitSet) /\ Normal(d.elts) /\ d.elts # <<>>
<1>1. /\ NumberOf(d) \in Int /\ BignumObject(d) /\ d.sign \in {-1, 1}
      /\ ValueOf(d.elts) \in Nat /\ Normal(d.elts)
      /\ (d.sign = 1 => NumberOf(d) > FixnumMax /\ NumberOf(d) > 0)
      /\ (d.sign = -1 => NumberOf(d) < FixnumMin /\ NumberOf(d) < 0)
  BY OneOrOther
<1>2. Sign(NumberOf(d)) = d.sign /\ Abs(NumberOf(d)) = ValueOf(d.elts)
  BY <1>1, SignedParts
<1>3. ValueOf(d.elts) > FixnumMax /\ ValueOf(d.elts) > 1
  BY <1>1, <1>2, SmallNumbers DEF Abs
<1>4. d.elts # <<>> /\ d.elts \in Seq(DigitSet)
  BY <1>1, <1>3, ValueSizes DEF Normal
<1>5. NumberOf(d) # 0
  BY <1>1
<1>6. QED
  BY <1>1, <1>2, <1>3, <1>4, <1>5

LEMMA SignedWord ==
  ASSUME NEW e \in {-1, 0, 1}, NEW m \in 0 .. (Base - 1), NEW x, x = e * m
  PROVE  IntegerObject(IntToInteger(x)) /\ NumberOf(IntToInteger(x)) = x
<1>1. Base \in Nat /\ Base > 1
  BY BaseType
<1>2. Base * Base >= Base
  BY <1>1
<1> DEFINE s == Base * Base
<1>3. s \in Nat /\ s >= Base
  BY <1>1, <1>2
<1> HIDE DEF s
<1>4. x \in Int /\ -s < x /\ x < s
  BY <1>1, <1>3
<1>5. QED
  BY <1>4, IntToIntegerExact DEF s

LEMMA ReducedLowest ==
  ASSUME DigitBits > 2, NEW n \in Int, NEW d \in Int, d # 0, NEW g \in Nat, g > 0, NEW N, NEW D, NEW nume, NEW deno,
         Reducing(n, d, g, N, D, nume, deno), IntegerObject(deno), NumberOf(deno) = D
  PROVE  StandsFor(Lowest(nume, deno), n, d)
<1>1. /\ D = 1 => StandsFor(nume, n, d)
      /\ D # 1 => StandsFor(Rational(nume, deno), n, d)
  BY Reduced
<1>2. deno = Fixnum(1) <=> D = 1
  <2>1. IntegerObject(Fixnum(1)) /\ NumberOf(Fixnum(1)) = 1
    BY SmallFixnum
  <2>2. D = 1 => deno = Fixnum(1)
    BY <2>1, OneForm
  <2>3. QED
    BY <2>1, <2>2
<1>3. QED
  BY <1>1, <1>2 DEF Lowest

(* Over a numerator of one.                                                *)
LEMMA Units ==
  ASSUME NEW n \in {1, -1}, NEW b \in Nat
  PROVE  Parts(1, 1, b, Abs(n), b) /\ Sign(n) = n
<1>1. 1 = 1 * 1 + 0 * b /\ b = 1 * b
  OBVIOUS
<1>2. Combination(1, 1, b)
  BY <1>1 DEF Combination
<1>3. Abs(n) = 1 * 1 /\ Sign(n) = n
  BY DEF Abs, Sign
<1>4. QED
  BY <1>1, <1>2, <1>3 DEF Parts

LEMMA ReduceFixnumBignumExact ==
  ASSUME DigitBits > 2, NEW n \in FixnumMin .. FixnumMax, NEW d, IntegerObject(d), ~IsFixnum(d)
  PROVE  StandsFor(ReduceFixnumBignum(n, d), n, NumberOf(d))
<1> DEFINE m == Abs(n)
           b == NumberOf(d)
           V == ValueOf(d.elts)
           x == ReduceFixnumBignum(n, d)
<1>1. /\ d.sign \in {-1, 1} /\ b \in Int /\ b # 0 /\ Sign(b) = d.sign /\ Abs(b) = V /\ V > 1 /\ V \in Nat
      /\ d.elts \in Seq(DigitSet)
  BY BigSize
<1>2. n \in Int /\ FixnumMin \in Int /\ FixnumMax \in Int
  BY FixnumSizes
<1>3. CASE n = 0
  <2>1. x = Fixnum(0)
    BY <1>3 DEF ReduceFixnumBignum
  <2>2. IntegerObject(Fixnum(0)) /\ NumberOf(Fixnum(0)) = 0
    BY SmallFixnum
  <2>3. 0 * b = 0
    BY <1>1
  <2> HIDE DEF b
  <2>4. StandsFor(Fixnum(0), 0, b)
    BY <2>2, <2>3, StandsInteger
  <2>5. QED
    BY <1>3, <2>1, <2>4 DEF b
<1>4. CASE n \in {1, -1}
  <2> DEFINE nume == IF d.sign < 0 THEN Fixnum(-n) ELSE Fixnum(n)
             deno == IF d.sign < 0 THEN NegateInt(d) ELSE d
  <2>1. x = Rational(nume, deno)
    BY <1>1, <1>4 DEF ReduceFixnumBignum
  <2>2. Parts(1, 1, V, m, V) /\ Sign(n) = n
    <3> HIDE DEF V
    <3>1. QED
      BY <1>1, <1>4, Units
  <2>3. IntegerObject(nume) /\ NumberOf(nume) = (Sign(n) * Sign(b)) * 1
    <3>1. -n \in {-1, 0, 1} /\ n \in {-1, 0, 1}
      BY <1>4
    <3>2. /\ IntegerObject(Fixnum(-n)) /\ NumberOf(Fixnum(-n)) = -n
          /\ IntegerObject(Fixnum(n)) /\ NumberOf(Fixnum(n)) = n
      BY <3>1, SmallFixnum
    <3>3. CASE d.sign = 1
      BY <1>1, <1>2, <2>2, <3>2, <3>3
    <3>4. CASE d.sign = -1
      <4>1. (Sign(n) * Sign(b)) * 1 = -n
        BY <1>1, <1>2, <2>2, <3>4
      <4>2. QED
        BY <3>2, <3>4, <4>1
    <3>5. QED
      BY <1>1, <3>3, <3>4
  <2>4. IntegerObject(deno) /\ NumberOf(deno) = V
    <3>1. IntegerObject(NegateInt(d)) /\ NumberOf(NegateInt(d)) = -b
      BY NegateExact
    <3>2. CASE d.sign = 1
      <4>1. b = V
        <5> HIDE DEF b, V
        <5>1. QED
          BY <1>1, <3>2 DEF Abs, Sign
      <4>2. QED
        BY <3>2, <4>1
    <3>3. CASE d.sign = -1
      <4>1. -b = V
        <5> HIDE DEF b, V
        <5>1. QED
          BY <1>1, <3>3 DEF Abs, Sign
      <4>2. QED
        BY <3>1, <3>3, <4>1
    <3>4. QED
      BY <1>1, <3>2, <3>3
  <2> HIDE DEF nume, deno, b, V, x, m
  <2>5. Reducing(n, b, 1, 1, V, nume, deno)
    BY <1>1, <2>2, <2>3, <2>4 DEF Reducing, m
  <2>6. StandsFor(Rational(nume, deno), n, b)
    BY <1>1, <1>2, <2>5, Reduced
  <2>7. QED
    BY <2>1, <2>6 DEF x, b
<1>5. CASE n \notin {0, 1, -1}
  <2> DEFINE g == Gcd(RemainderDigit(d.elts, m), m)
             nume == IntToInteger(Sign(n) * d.sign * (m \div g))
             quo == DivDigit(d.elts, g).quo
             deno == Make(1, quo)
  <2>1. m \in Nat /\ m \in 1 .. (Base - 1)
    <3>1. m \in Nat /\ m > 0 /\ m =< FixnumMax + 1
      BY <1>2, <1>5, FixnumSizes DEF Abs
    <3> HIDE DEF m
    <3>2. QED
      BY <3>1, SmallNumbers, BaseType
  <2>2. x = Lowest(nume, deno)
    BY <1>5 DEF ReduceFixnumBignum
  <2> HIDE DEF m, V
  <2>3. /\ g \in Nat /\ g > 0 /\ g =< m
        /\ \E N \in Nat, D \in Nat : Parts(g, N, D, V, m) /\ m \div g = D /\ Normal(quo) /\ ValueOf(quo) = N
    <3> DEFINE e == d.elts
    <3>1. e \in Seq(DigitSet) /\ g = Gcd(RemainderDigit(e, m), m)
      BY <1>1
    <3> HIDE DEF g, e
    <3>2. /\ g \in Nat /\ g > 0 /\ g =< m
          /\ \E N \in Nat, D \in Nat : /\ Parts(g, N, D, ValueOf(e), m) /\ m \div g = D
                                       /\ Normal(DivDigit(e, g).quo) /\ ValueOf(DivDigit(e, g).quo) = N
      BY <2>1, <3>1, DigitGcdParts
    <3>3. QED
      BY <3>2 DEF e, V
  <2> HIDE DEF g
  <2>4. PICK N \in Nat, D \in Nat : Parts(g, N, D, V, m) /\ m \div g = D /\ Normal(quo) /\ ValueOf(quo) = N
    BY <2>3
  <2>5. Parts(g, D, N, m, V)
    BY <2>3, <2>4, PartsTurned
  <2>6. IntegerObject(nume) /\ NumberOf(nume) = (Sign(n) * Sign(b)) * D
    <3> DEFINE y == Sign(n) * d.sign
    <3>1. y \in {-1, 0, 1}
      BY <1>1, <1>2 DEF Sign
    <3>2. D \in 0 .. (Base - 1)
      <4>1. m = g * D
        BY <2>4 DEF Parts
      <4>2. g * D >= 1 * D
        BY <2>3
      <4> DEFINE p == g * D
      <4>3. p \in Nat /\ p >= D /\ m = p
        BY <2>3, <4>1, <4>2
      <4> HIDE DEF p
      <4>4. QED
        BY <2>1, <4>3, BaseType
    <3>3. nume = IntToInteger(y * D)
      BY <2>4
    <3>4. y = Sign(n) * Sign(b)
      BY <1>1
    <3> HIDE DEF nume, y
    <3>5. IntegerObject(IntToInteger(y * D)) /\ NumberOf(IntToInteger(y * D)) = y * D
      BY <3>1, <3>2, SignedWord
    <3>6. QED
      BY <3>3, <3>4, <3>5
  <2> HIDE DEF quo
  <2>7. IntegerObject(deno) /\ NumberOf(deno) = N
    <3>1. quo \in Seq(DigitSet) /\ 1 \in {-1, 1} /\ 1 * N = N
      BY <2>4 DEF Normal
    <3>2. QED
      BY <2>4, <3>1, MakeExact
  <2> HIDE DEF nume, deno, b, x
  <2>8. Reducing(n, b, g, D, N, nume, deno)
    BY <1>1, <2>5, <2>6, <2>7 DEF Reducing, m
  <2>9. StandsFor(Lowest(nume, deno), n, b)
    BY <1>1, <1>2, <2>3, <2>7, <2>8, ReducedLowest
  <2>10. QED
    BY <2>2, <2>9 DEF x, b
<1>6. QED
  BY <1>3, <1>4, <1>5

LEMMA ReduceBignumFixnumExact ==
  ASSUME DigitBits > 2, NEW n, IntegerObject(n), ~IsFixnum(n), NEW d \in FixnumMin .. FixnumMax, d # 0
  PROVE  StandsFor(ReduceBignumFixnum(n, d), NumberOf(n), d)
<1> DEFINE m == Abs(d)
           a == NumberOf(n)
           V == ValueOf(n.elts)
           x == ReduceBignumFixnum(n, d)
<1>1. /\ n.sign \in {-1, 1} /\ a \in Int /\ a # 0 /\ Sign(a) = n.sign /\ Abs(a) = V /\ V > 1 /\ V \in Nat
      /\ n.elts \in Seq(DigitSet)
  BY BigSize
<1>2. d \in Int /\ FixnumMin \in Int /\ FixnumMax \in Int
  BY FixnumSizes
<1>3. CASE d = 1
  <2>1. x = n
    BY <1>3 DEF ReduceBignumFixnum
  <2>2. a * 1 = a
    BY <1>1
  <2>3. StandsFor(n, a, 1)
    BY <1>1, <2>2, StandsInteger
  <2>4. QED
    BY <1>3, <2>1, <2>3
<1>4. CASE d = -1
  <2>1. x = NegateInt(n)
    BY <1>4 DEF ReduceBignumFixnum
  <2>2. IntegerObject(NegateInt(n)) /\ NumberOf(NegateInt(n)) = -a
    BY NegateExact
  <2>3. (-a) * (-1) = a
    BY <1>1
  <2> DEFINE z == NegateInt(n)
             u == -1
  <2>4. IntegerObject(z) /\ NumberOf(z) * u = a
    BY <2>2, <2>3
  <2> HIDE DEF z, u, a
  <2>5. StandsFor(z, a, u)
    BY <1>1, <2>4, StandsInteger
  <2>6. QED
    BY <1>4, <2>1, <2>5 DEF z, u, a
<1>5. CASE d \notin {1, -1}
  <2> DEFINE g == Gcd(RemainderDigit(n.elts, m), m)
             quo == DivDigit(n.elts, g).quo
             nume == Make(n.sign * Sign(d), quo)
             deno == IntToInteger(m \div g)
  <2>1. m \in Nat /\ m \in 1 .. (Base - 1)
    <3>1. m \in Nat /\ m > 0 /\ m =< FixnumMax + 1
      BY <1>2, FixnumSizes DEF Abs
    <3> HIDE DEF m
    <3>2. QED
      BY <3>1, SmallNumbers, BaseType
  <2>2. x = IF m \div g = 1 THEN nume ELSE Rational(nume, deno)
    BY <1>5 DEF ReduceBignumFixnum
  <2> HIDE DEF m, V
  <2>3. /\ g \in Nat /\ g > 0 /\ g =< m
        /\ \E N \in Nat, D \in Nat : Parts(g, N, D, V, m) /\ m \div g = D /\ Normal(quo) /\ ValueOf(quo) = N
    <3> DEFINE e == n.elts
    <3>1. e \in Seq(DigitSet) /\ g = Gcd(RemainderDigit(e, m), m)
      BY <1>1
    <3> HIDE DEF g, e
    <3>2. /\ g \in Nat /\ g > 0 /\ g =< m
          /\ \E N \in Nat, D \in Nat : /\ Parts(g, N, D, ValueOf(e), m) /\ m \div g = D
                                       /\ Normal(DivDigit(e, g).quo) /\ ValueOf(DivDigit(e, g).quo) = N
      BY <2>1, <3>1, DigitGcdParts
    <3>3. QED
      BY <3>2 DEF e, V
  <2> HIDE DEF g
  <2>4. PICK N \in Nat, D \in Nat : Parts(g, N, D, V, m) /\ m \div g = D /\ Normal(quo) /\ ValueOf(quo) = N
    BY <2>3
  <2>5. IntegerObject(deno) /\ NumberOf(deno) = D
    <3>1. D \in 0 .. (Base - 1)
      <4>1. m = g * D
        BY <2>4 DEF Parts
      <4>2. g * D >= 1 * D
        BY <2>3
      <4> DEFINE p == g * D
      <4>3. p \in Nat /\ p >= D /\ m = p
        BY <2>3, <4>1, <4>2
      <4> HIDE DEF p
      <4>4. QED
        BY <2>1, <4>3, BaseType
    <3>2. D = 1 * D /\ 1 \in {-1, 0, 1}
      OBVIOUS
    <3>3. IntegerObject(IntToInteger(D)) /\ NumberOf(IntToInteger(D)) = D
      BY <3>1, <3>2, SignedWord
    <3>4. QED
      BY <2>4, <3>3
  <2> HIDE DEF quo, deno
  <2>6. IntegerObject(nume) /\ NumberOf(nume) = (Sign(a) * Sign(d)) * N
    <3> DEFINE y == n.sign * Sign(d)
    <3>1. y \in {-1, 1} /\ y = Sign(a) * Sign(d) /\ nume = Make(y, quo)
      BY <1>1, <1>2 DEF Sign
    <3>2. quo \in Seq(DigitSet)
      BY <2>4 DEF Normal
    <3> HIDE DEF y, nume
    <3>3. IntegerObject(Make(y, quo)) /\ NumberOf(Make(y, quo)) = y * N
      BY <2>4, <3>1, <3>2, MakeExact
    <3>4. QED
      BY <3>1, <3>3
  <2> HIDE DEF nume, a, x
  <2>7. Reducing(a, d, g, N, D, nume, deno)
    BY <1>1, <2>4, <2>5, <2>6 DEF Reducing, m
  <2>8. (D = 1 => StandsFor(nume, a, d)) /\ (D # 1 => StandsFor(Rational(nume, deno), a, d))
    BY <1>1, <1>2, <2>3, <2>7, Reduced
  <2>9. StandsFor(x, a, d)
    BY <2>2, <2>4, <2>8
  <2>10. QED
    BY <2>9 DEF x, a
<1>6. QED
  BY <1>3, <1>4, <1>5

(* The fraction of two fixnums whose denominator does not fit one.         *)
DoesNotFit(n, d) == IsFixnum(n) /\ d = Fixnum(FixnumMin) /\ n.n % 2 = 1 /\ n.n \notin {1, -1}

LEMMA ReduceFixnumsExact ==
  ASSUME DigitBits > 2, NEW n \in FixnumMin .. FixnumMax, NEW d \in FixnumMin .. FixnumMax, d # 0,
         ~(d = FixnumMin /\ n % 2 = 1 /\ n \notin {1, -1})
  PROVE  StandsFor(ReduceFixnums(n, d), n, d)
<1> DEFINE a == Abs(n)
           b == Abs(d)
           x == ReduceFixnums(n, d)
<1>1. n \in Int /\ d \in Int /\ FixnumMin \in Int /\ FixnumMax \in Int
  BY FixnumSizes
<1>2. IntegerObject(Fixnum(n)) /\ NumberOf(Fixnum(n)) = n
  BY DEF IntegerObject, NumberOf, Fixnum, IsFixnum
<1>3. CASE d = 1
  <2>1. x = Fixnum(n)
    BY <1>3 DEF ReduceFixnums
  <2>2. n * 1 = n
    BY <1>1
  <2>3. StandsFor(Fixnum(n), n, 1)
    BY <1>1, <1>2, <2>2, StandsInteger
  <2>4. QED
    BY <1>3, <2>1, <2>3
<1>4. CASE d = -1
  <2> DEFINE z == NegateInt(Fixnum(n))
             u == -1
  <2>1. x = z
    BY <1>4 DEF ReduceFixnums
  <2>2. IntegerObject(z) /\ NumberOf(z) = -n
    BY <1>2, NegateExact
  <2>3. NumberOf(z) * u = n
    BY <1>1, <2>2
  <2> HIDE DEF z, u
  <2>4. StandsFor(z, n, u)
    BY <1>1, <2>2, <2>3, StandsInteger
  <2>5. QED
    BY <1>4, <2>1, <2>4 DEF u
<1>5. CASE d \notin {1, -1} /\ n = 0
  <2>1. x = Fixnum(0)
    BY <1>5 DEF ReduceFixnums
  <2>2. IntegerObject(Fixnum(0)) /\ NumberOf(Fixnum(0)) = 0
    BY SmallFixnum
  <2>3. 0 * d = 0
    BY <1>1
  <2>4. StandsFor(Fixnum(0), 0, d)
    BY <2>2, <2>3, StandsInteger
  <2>5. QED
    BY <1>5, <2>1, <2>4
<1>6. CASE d \notin {1, -1} /\ n \in {1, -1}
  <2> DEFINE nume == Fixnum(Sign(d) * n)
             deno == IntToInteger(b)
  <2>1. x = Rational(nume, deno)
    BY <1>6 DEF ReduceFixnums
  <2>2. b \in Nat /\ b > 1 /\ b \in 0 .. (Base - 1)
    <3>1. b \in Nat /\ b > 1 /\ b =< FixnumMax + 1
      BY <1>1, <1>6, FixnumSizes DEF Abs
    <3> HIDE DEF b
    <3>2. QED
      BY <3>1, SmallNumbers, BaseType
  <2>3. Parts(1, 1, b, a, b) /\ Sign(n) = n
    <3> HIDE DEF b
    <3>1. QED
      BY <1>6, <2>2, Units
  <2>4. IntegerObject(nume) /\ NumberOf(nume) = (Sign(n) * Sign(d)) * 1
    <3>1. Sign(d) * n \in {-1, 0, 1} /\ Sign(d) * n = (n * Sign(d)) * 1
      BY <1>1, <1>6 DEF Sign
    <3> DEFINE y == Sign(d) * n
    <3>2. y \in {-1, 0, 1} /\ y = (Sign(n) * Sign(d)) * 1
      BY <2>3, <3>1
    <3> HIDE DEF y
    <3>3. IntegerObject(Fixnum(y)) /\ NumberOf(Fixnum(y)) = y
      BY <3>2, SmallFixnum
    <3>4. QED
      BY <3>2, <3>3 DEF y
  <2>5. IntegerObject(deno) /\ NumberOf(deno) = b
    <3>1. b = 1 * b /\ 1 \in {-1, 0, 1}
      BY <2>2
    <3> HIDE DEF b
    <3>2. QED
      BY <2>2, <3>1, SignedWord
  <2> HIDE DEF nume, deno, b, x, a
  <2>6. Reducing(n, d, 1, 1, b, nume, deno)
    BY <2>3, <2>4, <2>5 DEF Reducing, a, b
  <2>7. StandsFor(Rational(nume, deno), n, d)
    BY <1>1, <2>2, <2>6, Reduced
  <2>8. QED
    BY <2>1, <2>7 DEF x
<1>7. CASE d \notin {1, -1} /\ n \notin {0, 1, -1}
  <2> DEFINE g == Gcd(a, b)
             nume == IntToInteger((Sign(d) * n) \div g)
             deno == MakeFixnum(b \div g)
  <2>1. /\ a \in Nat /\ b \in Nat /\ a > 0 /\ b > 0 /\ a < Base /\ b =< FixnumMax + 1
        /\ (d # FixnumMin => b =< FixnumMax) /\ (d = FixnumMin => b = FixnumMax + 1)
        /\ (n % 2 # 1 => a % 2 = 0)
    <3>1. /\ a \in Nat /\ b \in Nat /\ a > 0 /\ b > 0 /\ a =< FixnumMax + 1 /\ b =< FixnumMax + 1
          /\ (d # FixnumMin => b =< FixnumMax) /\ (d = FixnumMin => b = FixnumMax + 1)
      BY <1>1, <1>7, FixnumSizes DEF Abs
    <3>2. n % 2 # 1 => a % 2 = 0
      BY <1>1 DEF Abs
    <3> HIDE DEF a, b
    <3>3. QED
      BY <3>1, <3>2, SmallNumbers, BaseType
  <2>2. x = IF b = g THEN nume ELSE Rational(nume, deno)
    BY <1>7 DEF ReduceFixnums
  <2>3. /\ Sign(d) \in {-1, 1} /\ Sign(n) \in {-1, 1}
        /\ (Sign(d) * n = a \/ Sign(d) * n = -a)
        /\ (Sign(d) * n = a => Sign(n) * Sign(d) = 1) /\ (Sign(d) * n = -a => Sign(n) * Sign(d) = -1)
    BY <1>1, <1>7 DEF Sign, Abs
  <2> HIDE DEF a, b, x
  <2>4. g \in Nat /\ g > 0 /\ g =< b /\ \E N \in Nat, D \in Nat : Parts(g, N, D, a, b) /\ b \div g = D
    BY <2>1, GcdParts
  <2> HIDE DEF g
  <2>5. PICK N \in Nat, D \in Nat : Parts(g, N, D, a, b) /\ b \div g = D
    BY <2>4
  <2>6. a = g * N /\ b = g * D /\ Combination(1, N, D)
    BY <2>5 DEF Parts
  <2>7. D = 1 <=> b = g
    <3>1. D = 1 => b = g
      BY <2>4, <2>6
    <3>2. b = g => b \div g = 1
      BY <2>4
    <3>3. QED
      BY <2>5, <3>1, <3>2
  <2>8. N =< a /\ D =< b /\ N # 0 /\ D # 0
    <3>1. g * N >= 1 * N /\ g * D >= 1 * D /\ g * 0 = 0
      BY <2>4
    <3> DEFINE p == g * N
               q == g * D
    <3>2. p >= N /\ q >= D /\ a = p /\ b = q
      BY <2>6, <3>1
    <3> HIDE DEF p, q
    <3>3. QED
      BY <2>1, <2>6, <3>1, <3>2
  <2>9. IntegerObject(nume) /\ NumberOf(nume) = (Sign(n) * Sign(d)) * N
    <3> DEFINE e == Sign(n) * Sign(d)
               y == (Sign(d) * n) \div g
    <3>1. e \in {-1, 1} /\ Sign(d) * n = e * a
      BY <2>1, <2>3
    <3> HIDE DEF e
    <3>2. e * a = g * (e * N)
      BY <2>4, <2>6, <3>1
    <3>3. y = e * N
      <4> DEFINE m == e * N
      <4>1. m \in Int /\ Sign(d) * n = g * m /\ Sign(d) * n \in Int
        BY <2>1, <2>3, <3>1, <3>2
      <4> HIDE DEF m
      <4>2. QED
        BY <2>4, <4>1, WholeQuotient DEF m
    <3>4. N \in 0 .. (Base - 1)
      BY <2>1, <2>8, BaseType
    <3> HIDE DEF y
    <3>5. IntegerObject(IntToInteger(y)) /\ NumberOf(IntToInteger(y)) = y
      BY <3>1, <3>3, <3>4, SignedWord
    <3>6. QED
      BY <3>3, <3>5 DEF e, y
  <2>10. D # 1 => IntegerObject(deno) /\ NumberOf(deno) = D
    <3>1. D =< FixnumMax
      <4>1. CASE d # FixnumMin
        BY <1>1, <2>1, <2>8, <4>1
      <4>2. CASE d = FixnumMin
        <5>1. a % 2 = 0
          BY <1>7, <2>1, <4>2
        <5>2. PICK w \in Nat : FixnumMax + 1 = 2 * w
          BY SmallNumbers
        <5>3. g # 1
          <6>1. ASSUME g = 1 PROVE FALSE
            <7>1. N = a /\ D = b /\ b = 2 * w
              BY <2>1, <2>6, <4>2, <5>2, <6>1
            <7>2. \E v \in Nat : a = 2 * v
              <8> DEFINE v == a \div 2
              <8>1. v \in Nat /\ a = 2 * v
                BY <2>1, <5>1
              <8>2. QED
                BY <8>1
            <7>3. PICK v \in Nat : a = 2 * v
              BY <7>2
            <7>4. Divides(2, N) /\ Divides(2, D)
              BY <7>1, <7>3 DEF Divides
            <7>5. LowestTerms(N, D)
              BY <2>6, LowestOf
            <7>6. QED
              BY <7>4, <7>5 DEF LowestTerms
          <6>2. QED
            BY <6>1
        <5>4. g * D >= 2 * D
          BY <2>4, <5>3
        <5> DEFINE p == g * D
        <5>5. p \in Nat /\ p >= 2 * D /\ b = p
          BY <2>4, <2>6, <5>4
        <5> HIDE DEF p
        <5>6. QED
          BY <1>1, <2>1, <2>8, <5>5, SmallNumbers
      <4>3. QED
        BY <4>1, <4>2
    <3>2. D \in FixnumMin .. FixnumMax
      BY <1>1, <3>1, FixnumSizes
    <3>3. deno = MakeFixnum(D)
      BY <2>5
    <3>4. QED
      BY <3>2, <3>3, MakeFixnumExact
  <2> HIDE DEF nume, deno
  <2>11. Reducing(n, d, g, N, D, nume, deno)
    BY <2>5, <2>9, <2>10 DEF Reducing, a, b
  <2>12. (D = 1 => StandsFor(nume, n, d)) /\ (D # 1 => StandsFor(Rational(nume, deno), n, d))
    BY <1>1, <2>4, <2>11, Reduced
  <2>13. StandsFor(x, n, d)
    BY <2>2, <2>7, <2>12
  <2>14. QED
    BY <2>13 DEF x
<1>8. QED
  BY <1>3, <1>4, <1>5, <1>6, <1>7

LEMMA ReduceBignumsExact ==
  ASSUME DigitBits > 2, NEW n, IntegerObject(n), ~IsFixnum(n), NEW d, IntegerObject(d), ~IsFixnum(d)
  PROVE  StandsFor(ReduceBignums(n, d), NumberOf(n), NumberOf(d))
<1> DEFINE a == NumberOf(n)
           b == NumberOf(d)
           l == n.elts
           r == d.elts
           V == ValueOf(l)
           W == ValueOf(r)
           odd == WithoutTwos(l, r)
           s == odd.shift
           div == BinaryGcd(odd.n1, odd.n2)
           Part(e) == Div(Norm(ShiftRight(e, s)), div).quo
           x == ReduceBignums(n, d)
           h == ValueOf(div)
           L == ValueOf(odd.n1)
           R == ValueOf(odd.n2)
           p == 2 ^ s
           g == p * h
<1>1. /\ n.sign \in {-1, 1} /\ a \in Int /\ a # 0 /\ Sign(a) = n.sign /\ Abs(a) = V /\ V > 1 /\ V \in Nat
      /\ l \in Seq(DigitSet) /\ Normal(l) /\ l # <<>>
  BY BigSize
<1>2. /\ d.sign \in {-1, 1} /\ b \in Int /\ b # 0 /\ Sign(b) = d.sign /\ Abs(b) = W /\ W > 1 /\ W \in Nat
      /\ r \in Seq(DigitSet) /\ Normal(r) /\ r # <<>>
  BY BigSize
<1>3. x = IF div = <<1>> /\ s = 0
          THEN IF d.sign < 0 THEN Rational(NegateInt(n), NegateInt(d)) ELSE Rational(n, d)
          ELSE Lowest(Make(n.sign * d.sign, Part(l)), Make(1, Part(r)))
  BY DEF ReduceBignums
<1> HIDE DEF x, V, W, a, b
<1>4. TwosAt(odd, l, r) /\ (~Even(odd.n1) \/ ~Even(odd.n2)) /\ odd.n1 # <<>> /\ odd.n2 # <<>>
  <2> HIDE DEF odd, l, r
  <2>1. QED
    BY <1>1, <1>2, WithoutTwosExact DEF odd
<1> HIDE DEF odd
<1>5. s \in Nat /\ Normal(odd.n1) /\ Normal(odd.n2) /\ V = p * L /\ W = p * R /\ Scaled(V, s, L) /\ Scaled(W, s, R)
  BY <1>4 DEF TwosAt, TwosStates, Scaled, V, W
<1>6. p \in Nat /\ p > 0
  BY <1>5, PowerOfTwo
<1>7. Normal(div) /\ h \in Nat /\ h > 0 /\ Spans(h, 0, L, R) /\ L \in Nat /\ R \in Nat
  <2>1. L \in Nat /\ R \in Nat
    BY <1>5, ValueSizes
  <2> DEFINE l1 == odd.n1
             r1 == odd.n2
  <2>2. Normal(l1) /\ Normal(r1) /\ l1 # <<>> /\ r1 # <<>> /\ (~Even(l1) \/ ~Even(r1))
    BY <1>4, <1>5
  <2> HIDE DEF l1, r1, div
  <2>3. Normal(BinaryGcd(l1, r1)) /\ ValueOf(BinaryGcd(l1, r1)) \in Nat /\ ValueOf(BinaryGcd(l1, r1)) > 0
        /\ Spans(ValueOf(BinaryGcd(l1, r1)), 0, ValueOf(l1), ValueOf(r1))
    BY <2>2, BinaryGcdExact
  <2>4. QED
    BY <2>1, <2>3 DEF div, l1, r1
<1> HIDE DEF div, p, L, R
<1>8. div # <<>>
  BY <1>7, ValueSizes
<1>9. PICK N \in Nat, D \in Nat : Parts(h, N, D, L, R)
  BY <1>7, SpansAlone
<1>10. L = h * N /\ R = h * D /\ Combination(1, N, D)
  BY <1>9 DEF Parts
<1>11. g \in Nat /\ g > 0 /\ V = g * N /\ W = g * D
  <2>1. p * h >= 1 * 1 /\ p * h \in Nat
    BY <1>6, <1>7
  <2>2. p * (h * N) = (p * h) * N /\ p * (h * D) = (p * h) * D
    BY <1>6, <1>7
  <2>3. QED
    BY <1>5, <1>10, <2>1, <2>2
<1>12. Parts(g, N, D, Abs(a), Abs(b))
  BY <1>1, <1>2, <1>10, <1>11 DEF Parts
<1>13. CASE div = <<1>> /\ s = 0
  <2>1. h = 1 /\ p = 1
    <3>1. p = 1
      BY <1>13, PowerOfTwo DEF p
    <3>2. h = 1
      <4>1. Len(div) = 1 /\ div[1] = 1
        BY <1>13
      <4>2. QED
        BY <1>7, <4>1, ValueSizes
    <3>3. QED
      BY <3>1, <3>2
  <2> HIDE DEF h
  <2>2. N = V /\ D = W
    <3>1. g = 1
      BY <2>1
    <3>2. QED
      BY <1>11, <3>1
  <2> DEFINE nume == IF d.sign < 0 THEN NegateInt(n) ELSE n
             deno == IF d.sign < 0 THEN NegateInt(d) ELSE d
  <2>3. x = Rational(nume, deno)
    BY <1>2, <1>3, <1>13
  <2>4. /\ IntegerObject(NegateInt(n)) /\ NumberOf(NegateInt(n)) = -a
        /\ IntegerObject(NegateInt(d)) /\ NumberOf(NegateInt(d)) = -b
    BY NegateExact DEF a, b
  <2>5. (d.sign = 1 => b = W) /\ (d.sign = -1 => -b = W)
    BY <1>2 DEF Abs, Sign
  <2>6. a = n.sign * V
    BY <1>1 DEF Abs, Sign
  <2>7. IntegerObject(nume) /\ NumberOf(nume) = (Sign(a) * Sign(b)) * N
    <3>1. CASE d.sign = 1
      <4>1. nume = n /\ (Sign(a) * Sign(b)) * N = n.sign * V
        BY <1>1, <1>2, <2>2, <3>1
      <4>2. QED
        BY <2>6, <4>1 DEF a
    <3>2. CASE d.sign = -1
      <4>1. nume = NegateInt(n) /\ (Sign(a) * Sign(b)) * N = -(n.sign * V)
        BY <1>1, <1>2, <2>2, <3>2
      <4>2. QED
        BY <2>4, <2>6, <4>1
    <3>3. QED
      BY <1>2, <3>1, <3>2
  <2>8. IntegerObject(deno) /\ NumberOf(deno) = D
    <3>1. CASE d.sign = 1
      <4>1. deno = d
        BY <3>1
      <4>2. QED
        BY <2>2, <2>5, <3>1, <4>1 DEF b
    <3>2. CASE d.sign = -1
      <4>1. deno = NegateInt(d)
        BY <3>2
      <4>2. QED
        BY <2>2, <2>4, <2>5, <3>2, <4>1
    <3>3. QED
      BY <1>2, <3>1, <3>2
  <2> HIDE DEF nume, deno, g
  <2>9. Reducing(a, b, g, N, D, nume, deno)
    BY <1>12, <2>7, <2>8 DEF Reducing
  <2>10. D # 1
    BY <1>2, <2>2
  <2>11. StandsFor(Rational(nume, deno), a, b)
    BY <1>1, <1>2, <1>11, <2>9, <2>10, Reduced
  <2>12. QED
    BY <2>3, <2>11 DEF x, a, b
<1>14. CASE ~(div = <<1>> /\ s = 0)
  <2> DEFINE nume == Make(n.sign * d.sign, Part(l))
             deno == Make(1, Part(r))
  <2>1. x = Lowest(nume, deno)
    BY <1>3, <1>14
  <2>2. Part(l) \in Seq(DigitSet) /\ ValueOf(Part(l)) = N
    <3> HIDE DEF l, s
    <3>1. Scaled(ValueOf(l), s, L) /\ L = ValueOf(div) * N
      BY <1>5, <1>10 DEF V
    <3>2. QED
      BY <1>1, <1>5, <1>7, <1>8, <3>1, PartExact
  <2>3. Part(r) \in Seq(DigitSet) /\ ValueOf(Part(r)) = D
    <3> HIDE DEF r, s
    <3>1. Scaled(ValueOf(r), s, R) /\ R = ValueOf(div) * D
      BY <1>5, <1>10 DEF W
    <3>2. QED
      BY <1>2, <1>5, <1>7, <1>8, <3>1, PartExact
  <2> DEFINE u == Part(l)
             v == Part(r)
             e == n.sign * d.sign
  <2>4. u \in Seq(DigitSet) /\ ValueOf(u) = N /\ v \in Seq(DigitSet) /\ ValueOf(v) = D /\ nume = Make(e, u) /\ deno = Make(1, v)
    BY <2>2, <2>3
  <2>5. e \in {-1, 1} /\ e = Sign(a) * Sign(b)
    BY <1>1, <1>2
  <2> HIDE DEF nume, deno, u, v, e, Part
  <2>6. IntegerObject(nume) /\ NumberOf(nume) = (Sign(a) * Sign(b)) * N
    <3>1. IntegerObject(Make(e, u)) /\ NumberOf(Make(e, u)) = e * ValueOf(u)
      BY <2>4, <2>5, MakeExact
    <3>2. QED
      BY <2>4, <2>5, <3>1
  <2>7. IntegerObject(deno) /\ NumberOf(deno) = D
    <3>1. IntegerObject(Make(1, v)) /\ NumberOf(Make(1, v)) = 1 * ValueOf(v)
      BY <2>4, MakeExact
    <3>2. QED
      BY <2>4, <3>1
  <2> HIDE DEF g
  <2>8. Reducing(a, b, g, N, D, nume, deno)
    BY <1>12, <2>6, <2>7 DEF Reducing
  <2>9. StandsFor(Lowest(nume, deno), a, b)
    BY <1>1, <1>2, <1>11, <2>7, <2>8, ReducedLowest
  <2>10. QED
    BY <2>1, <2>9 DEF x, a, b
<1>15. QED
  BY <1>13, <1>14

(***************************************************************************)
(* reduce(): the fraction of two integers is the one in lowest terms that  *)
(* stands for their quotient, but when two fixnums are reduced whose       *)
(* denominator, of the least fixnum's size, does not fit one (arith.cpp).  *)
(***************************************************************************)
THEOREM ReduceExact ==
  ASSUME DigitBits > 2, NEW n, NEW d, IntegerObject(n), IntegerObject(d), NumberOf(d) # 0, ~DoesNotFit(n, d)
  PROVE  StandsFor(Reduce(n, d), NumberOf(n), NumberOf(d))
<1>1. (IsFixnum(n) => n.n = NumberOf(n) /\ NumberOf(n) \in FixnumMin .. FixnumMax)
      /\ (IsFixnum(d) => d.n = NumberOf(d) /\ NumberOf(d) \in FixnumMin .. FixnumMax)
  BY OneOrOther
<1>2. CASE IsFixnum(n) /\ IsFixnum(d)
  <2>1. Reduce(n, d) = ReduceFixnums(n.n, d.n)
    BY <1>2 DEF Reduce, BothFixnums
  <2>2. n = Fixnum(n.n) /\ d = Fixnum(d.n)
    BY <1>2 DEF IntegerObject, BignumObject, Big, Fixnum, IsFixnum
  <2>3. ~(d.n = FixnumMin /\ n.n % 2 = 1 /\ n.n \notin {1, -1})
    BY <1>2, <2>2 DEF DoesNotFit
  <2> DEFINE i == n.n
             j == d.n
  <2>4. i \in FixnumMin .. FixnumMax /\ j \in FixnumMin .. FixnumMax /\ j # 0 /\ ~(j = FixnumMin /\ i % 2 = 1 /\ i \notin {1, -1})
    BY <1>1, <1>2, <2>3
  <2> HIDE DEF i, j
  <2>5. StandsFor(ReduceFixnums(i, j), i, j)
    BY <2>4, ReduceFixnumsExact
  <2>6. QED
    BY <1>1, <1>2, <2>1, <2>5 DEF i, j
<1>3. CASE IsFixnum(n) /\ ~IsFixnum(d)
  <2>1. Reduce(n, d) = ReduceFixnumBignum(n.n, d)
    BY <1>3 DEF Reduce, BothFixnums
  <2>2. StandsFor(ReduceFixnumBignum(NumberOf(n), d), NumberOf(n), NumberOf(d))
    BY <1>1, <1>3, ReduceFixnumBignumExact
  <2>3. QED
    BY <1>1, <1>3, <2>1, <2>2
<1>4. CASE ~IsFixnum(n) /\ IsFixnum(d)
  <2>1. Reduce(n, d) = ReduceBignumFixnum(n, d.n)
    BY <1>4 DEF Reduce, BothFixnums
  <2>2. StandsFor(ReduceBignumFixnum(n, NumberOf(d)), NumberOf(n), NumberOf(d))
    BY <1>1, <1>4, ReduceBignumFixnumExact
  <2>3. QED
    BY <1>1, <1>4, <2>1, <2>2
<1>5. CASE ~IsFixnum(n) /\ ~IsFixnum(d)
  <2>1. Reduce(n, d) = ReduceBignums(n, d)
    BY <1>5 DEF Reduce, BothFixnums
  <2>2. QED
    BY <1>5, <2>1, ReduceBignumsExact
<1>6. QED
  BY <1>2, <1>3, <1>4, <1>5

(***************************************************************************)
(* Sums, products and quotients of exact reals.                            *)
(***************************************************************************)
LEMMA PositiveFits ==
  ASSUME DigitBits > 2, NEW n, NEW d, IntegerObject(d), NumberOf(d) > 0
  PROVE  ~DoesNotFit(n, d)
<1>1. ASSUME DoesNotFit(n, d) PROVE FALSE
  <2>1. d = Fixnum(FixnumMin)
    BY <1>1 DEF DoesNotFit
  <2>2. NumberOf(d) = FixnumMin
    BY <2>1 DEF NumberOf, Fixnum, IsFixnum
  <2>3. QED
    BY <2>2, SmallNumbers
<1>2. QED
  BY <1>1

(* Two numerators and two denominators, crossed and multiplied.            *)
LEMMA Crossed ==
  ASSUME DigitBits > 2, NEW l, NEW r, RealObject(l), RealObject(r)
  PROVE  LET a == MulInt(Nume(l), Deno(r))
             b == MulInt(Deno(l), Nume(r))
             c == MulInt(Deno(l), Deno(r))
             d == MulInt(Nume(l), Nume(r))
         IN  /\ IntegerObject(a) /\ NumberOf(a) = Num(l) * Den(r)
             /\ IntegerObject(b) /\ NumberOf(b) = Den(l) * Num(r)
             /\ IntegerObject(c) /\ NumberOf(c) = Den(l) * Den(r) /\ NumberOf(c) > 0
             /\ IntegerObject(d) /\ NumberOf(d) = Num(l) * Num(r)
             /\ Num(l) \in Int /\ Num(r) \in Int /\ Den(l) \in Int /\ Den(r) \in Int /\ Den(l) > 0 /\ Den(r) > 0
<1>1. /\ IntegerObject(Nume(l)) /\ IntegerObject(Deno(l)) /\ IntegerObject(Nume(r)) /\ IntegerObject(Deno(r))
      /\ Num(l) \in Int /\ Num(r) \in Int /\ Den(l) \in Int /\ Den(r) \in Int /\ Den(l) > 0 /\ Den(r) > 0
  BY RealParts
<1>2. /\ IntegerObject(MulInt(Nume(l), Deno(r))) /\ NumberOf(MulInt(Nume(l), Deno(r))) = Num(l) * Den(r)
      /\ IntegerObject(MulInt(Deno(l), Nume(r))) /\ NumberOf(MulInt(Deno(l), Nume(r))) = Den(l) * Num(r)
      /\ IntegerObject(MulInt(Deno(l), Deno(r))) /\ NumberOf(MulInt(Deno(l), Deno(r))) = Den(l) * Den(r)
      /\ IntegerObject(MulInt(Nume(l), Nume(r))) /\ NumberOf(MulInt(Nume(l), Nume(r))) = Num(l) * Num(r)
  BY <1>1, MulExact DEF Num, Den
<1>3. Den(l) * Den(r) >= 1 * 1
  <2> DEFINE u == Den(l)
             v == Den(r)
  <2>1. u \in Int /\ v \in Int /\ u > 0 /\ v > 0
    BY <1>1
  <2> HIDE DEF u, v
  <2>2. u * v >= u * 1
    BY <2>1
  <2> DEFINE w == u * v
  <2>3. w >= u /\ w \in Int
    BY <2>1, <2>2
  <2> HIDE DEF w
  <2>4. w >= 1
    BY <2>1, <2>3
  <2>5. QED
    BY <2>4 DEF w, u, v
<1>4. NumberOf(MulInt(Deno(l), Deno(r))) > 0
  <2> DEFINE w == Den(l) * Den(r)
  <2>1. w \in Int /\ w >= 1
    BY <1>1, <1>3
  <2> HIDE DEF w
  <2>2. w > 0
    BY <2>1
  <2>3. QED
    BY <1>2, <2>2 DEF w
<1>5. QED
  BY <1>1, <1>2, <1>4

LEMMA BothParts ==
  ASSUME DigitBits > 2, NEW l, NEW r, RealObject(l), RealObject(r), BothIntegers(l, r)
  PROVE  /\ IntegerObject(l) /\ IntegerObject(r) /\ Num(l) = NumberOf(l) /\ Num(r) = NumberOf(r)
         /\ Den(l) = 1 /\ Den(r) = 1 /\ NumberOf(l) \in Int /\ NumberOf(r) \in Int
<1>1. IsInteger(l) /\ IsInteger(r)
  BY DEF BothIntegers
<1>2. QED
  BY <1>1, RealParts

(* The sum of two exact reals, in lowest terms.                            *)
THEOREM AddRealExact ==
  ASSUME DigitBits > 2, NEW l, NEW r, RealObject(l), RealObject(r)
  PROVE  StandsFor(AddReal(l, r), Num(l) * Den(r) + Den(l) * Num(r), Den(l) * Den(r))
<1>1. CASE BothIntegers(l, r)
  <2> DEFINE i == NumberOf(l)
             j == NumberOf(r)
             x == AddInt(l, r)
  <2>1. AddReal(l, r) = x
    BY <1>1 DEF AddReal
  <2>2. IntegerObject(l) /\ IntegerObject(r) /\ Num(l) = i /\ Num(r) = j /\ Den(l) = 1 /\ Den(r) = 1 /\ i \in Int /\ j \in Int
    BY <1>1, BothParts
  <2>3. IntegerObject(x) /\ NumberOf(x) = i + j
    BY <2>2, AddExact
  <2> HIDE DEF i, j, x
  <2>4. Num(l) * Den(r) + Den(l) * Num(r) = i + j /\ Den(l) * Den(r) = 1 /\ (i + j) * 1 = i + j /\ i + j \in Int
    BY <2>2
  <2>5. StandsFor(x, i + j, 1)
    BY <2>3, <2>4, StandsInteger
  <2>6. QED
    BY <2>1, <2>4, <2>5
<1>2. CASE ~BothIntegers(l, r)
  <2> DEFINE a == MulInt(Nume(l), Deno(r))
             b == MulInt(Deno(l), Nume(r))
             d == MulInt(Deno(l), Deno(r))
             n == AddInt(a, b)
  <2>1. AddReal(l, r) = Reduce(n, d)
    BY <1>2 DEF AddReal
  <2>2. /\ IntegerObject(a) /\ NumberOf(a) = Num(l) * Den(r)
        /\ IntegerObject(b) /\ NumberOf(b) = Den(l) * Num(r)
        /\ IntegerObject(d) /\ NumberOf(d) = Den(l) * Den(r) /\ NumberOf(d) > 0
    BY Crossed
  <2> HIDE DEF a, b, d
  <2>3. IntegerObject(n) /\ NumberOf(n) = NumberOf(a) + NumberOf(b)
    BY <2>2, AddExact
  <2> HIDE DEF n
  <2>4. ~DoesNotFit(n, d) /\ NumberOf(d) # 0
    BY <2>2, PositiveFits
  <2>5. StandsFor(Reduce(n, d), NumberOf(n), NumberOf(d))
    BY <2>2, <2>3, <2>4, ReduceExact
  <2>6. QED
    BY <2>1, <2>2, <2>3, <2>5
<1>3. QED
  BY <1>1, <1>2

(* The difference of two exact reals, in lowest terms.                     *)
THEOREM SubRealExact ==
  ASSUME DigitBits > 2, NEW l, NEW r, RealObject(l), RealObject(r)
  PROVE  StandsFor(SubReal(l, r), Num(l) * Den(r) - Den(l) * Num(r), Den(l) * Den(r))
<1>1. CASE BothIntegers(l, r)
  <2> DEFINE i == NumberOf(l)
             j == NumberOf(r)
             x == SubInt(l, r)
  <2>1. SubReal(l, r) = x
    BY <1>1 DEF SubReal
  <2>2. IntegerObject(l) /\ IntegerObject(r) /\ Num(l) = i /\ Num(r) = j /\ Den(l) = 1 /\ Den(r) = 1 /\ i \in Int /\ j \in Int
    BY <1>1, BothParts
  <2>3. IntegerObject(x) /\ NumberOf(x) = i - j
    BY <2>2, SubExact
  <2> HIDE DEF i, j, x
  <2>4. Num(l) * Den(r) - Den(l) * Num(r) = i - j /\ Den(l) * Den(r) = 1 /\ (i - j) * 1 = i - j /\ i - j \in Int
    BY <2>2
  <2>5. StandsFor(x, i - j, 1)
    BY <2>3, <2>4, StandsInteger
  <2>6. QED
    BY <2>1, <2>4, <2>5
<1>2. CASE ~BothIntegers(l, r)
  <2> DEFINE a == MulInt(Nume(l), Deno(r))
             b == MulInt(Deno(l), Nume(r))
             d == MulInt(Deno(l), Deno(r))
             n == SubInt(a, b)
  <2>1. SubReal(l, r) = Reduce(n, d)
    BY <1>2 DEF SubReal
  <2>2. /\ IntegerObject(a) /\ NumberOf(a) = Num(l) * Den(r)
        /\ IntegerObject(b) /\ NumberOf(b) = Den(l) * Num(r)
        /\ IntegerObject(d) /\ NumberOf(d) = Den(l) * Den(r) /\ NumberOf(d) > 0
    BY Crossed
  <2> HIDE DEF a, b, d
  <2>3. IntegerObject(n) /\ NumberOf(n) = NumberOf(a) - NumberOf(b)
    BY <2>2, SubExact
  <2> HIDE DEF n
  <2>4. ~DoesNotFit(n, d) /\ NumberOf(d) # 0
    BY <2>2, PositiveFits
  <2>5. StandsFor(Reduce(n, d), NumberOf(n), NumberOf(d))
    BY <2>2, <2>3, <2>4, ReduceExact
  <2>6. QED
    BY <2>1, <2>2, <2>3, <2>5
<1>3. QED
  BY <1>1, <1>2

LEMMA DividesTurned ==
  ASSUME NEW k \in Nat, NEW n \in Int, Divides(k, -n)
  PROVE  Divides(k, n)
<1>1. PICK u \in Int : -n = k * u
  BY DEF Divides
<1> DEFINE v == -u
<1>2. v \in Int /\ k * v = -(k * u)
  OBVIOUS
<1>3. n = k * v
  <2> DEFINE m == k * u
  <2>1. m \in Int /\ -n = m /\ k * v = -m
    BY <1>1, <1>2
  <2> HIDE DEF m, v
  <2>2. QED
    BY <2>1
<1> HIDE DEF v
<1>4. QED
  BY <1>2, <1>3 DEF Divides

LEMMA LowestTurned ==
  ASSUME NEW n \in Int, NEW d \in Int, LowestTerms(n, d)
  PROVE  LowestTerms(-n, d) /\ LowestTerms(d, n) /\ LowestTerms(-d, -n)
<1>1. ASSUME NEW k \in Nat, Divides(k, -n), Divides(k, d) PROVE k = 1
  BY <1>1, DividesTurned DEF LowestTerms
<1>2. ASSUME NEW k \in Nat, Divides(k, -d), Divides(k, -n) PROVE k = 1
  BY <1>2, DividesTurned DEF LowestTerms
<1>3. QED
  BY <1>1, <1>2 DEF LowestTerms

(* The negation of an exact real.                                          *)
THEOREM NegateRealExact ==
  ASSUME DigitBits > 2, NEW x, RealObject(x)
  PROVE  LET y == NegateReal(x) IN RealObject(y) /\ Num(y) = -(Num(x)) /\ Den(y) = Den(x)
<1>1. CASE IsInteger(x)
  <2> DEFINE z == NegateInt(x)
  <2>1. NegateReal(x) = z
    BY <1>1 DEF NegateReal
  <2>2. IntegerObject(x) /\ Num(x) = NumberOf(x) /\ Den(x) = 1
    BY <1>1, RealParts
  <2>3. IntegerObject(z) /\ NumberOf(z) = -(NumberOf(x))
    BY <2>2, NegateExact
  <2> HIDE DEF z
  <2>4. Num(z) = NumberOf(z) /\ Den(z) = 1
    BY <2>3, IntegerParts
  <2>5. QED
    BY <2>1, <2>2, <2>3, <2>4 DEF RealObject
<1>2. CASE ~IsInteger(x)
  <2> DEFINE p == Nume(x)
             q == Deno(x)
             i == NumberOf(p)
             j == NumberOf(q)
             m == NegateInt(p)
             z == Rational(m, q)
  <2>1. /\ IntegerObject(p) /\ IntegerObject(q) /\ x.nume = p /\ x.deno = q
        /\ i \in Int /\ j \in Int /\ j > 1 /\ LowestTerms(i, j) /\ Num(x) = i /\ Den(x) = j
    BY <1>2, RealParts DEF Num, Den
  <2>2. NegateReal(x) = z
    BY <1>2, <2>1 DEF NegateReal
  <2>3. IntegerObject(m) /\ NumberOf(m) = -i
    BY <2>1, NegateExact
  <2> HIDE DEF p, q, m
  <2>4. LowestTerms(-i, j)
    <3> HIDE DEF i, j
    <3>1. QED
      BY <2>1, LowestTurned
  <2>5. FractionObject(z) /\ Num(z) = -i /\ Den(z) = j
    <3>1. Num(z) = -i /\ Den(z) = j
      BY <2>3, FractionParts
    <3>2. FractionObject(z)
      BY <2>1, <2>3, <2>4 DEF FractionObject
    <3>3. QED
      BY <3>1, <3>2
  <2>6. QED
    BY <2>1, <2>2, <2>5 DEF RealObject
<1>3. QED
  BY <1>1, <1>2

(* An integer by 1/n or -1/n.                                              *)
LEMMA MulUnit ==
  ASSUME DigitBits > 2, NEW i, IntegerObject(i), NEW u, RealObject(u), ~IsInteger(u), Nume(u) = Fixnum(-1)
  PROVE  StandsFor(NegateReal(Reduce(i, u.deno)), -(NumberOf(i)), Den(u)) /\ Num(u) = -1
<1> DEFINE d == u.deno
           y == Reduce(i, d)
           n == NumberOf(i)
           m == Den(u)
<1>1. IntegerObject(d) /\ NumberOf(d) = m /\ m \in Int /\ m > 0
  BY RealParts DEF Den
<1>2. Num(u) = -1
  BY SmallFixnum DEF Num
<1>3. n \in Int
  BY AsBignumExact
<1> HIDE DEF d, m
<1>4. StandsFor(y, n, m)
  <2>1. ~DoesNotFit(i, d) /\ NumberOf(d) # 0
    BY <1>1, PositiveFits
  <2>2. QED
    BY <1>1, <2>1, ReduceExact
<1> DEFINE z == NegateReal(y)
<1> HIDE DEF y
<1>5. RealObject(z) /\ Num(z) = -(Num(y)) /\ Den(z) = Den(y) /\ Num(y) \in Int /\ Den(y) \in Int /\ Num(y) * m = Den(y) * n
  BY <1>4, NegateRealExact, RealParts DEF StandsFor
<1> HIDE DEF z, n
<1>6. (-(Num(y))) * m = -(Num(y) * m) /\ Den(y) * (-n) = -(Den(y) * n)
  BY <1>1, <1>3, <1>5
<1>7. Num(z) * m = Den(z) * (-n)
  BY <1>5, <1>6
<1>8. StandsFor(z, -n, m)
  BY <1>5, <1>7 DEF StandsFor
<1>9. QED
  BY <1>2, <1>8 DEF z, y, n, m, d

(* The product of two exact reals, in lowest terms.                        *)
THEOREM MulRealExact ==
  ASSUME DigitBits > 2, NEW l, NEW r, RealObject(l), RealObject(r)
  PROVE  StandsFor(MulReal(l, r), Num(l) * Num(r), Den(l) * Den(r))
<1> DEFINE unit == IF IsInteger(l) THEN r ELSE l
           int  == IF IsInteger(l) THEN l ELSE r
           none == Fixnum(0) \in {l, r}
           less == IsInteger(int) /\ Nume(unit) = Fixnum(-1)
           n == MulInt(Nume(l), Nume(r))
           d == MulInt(Deno(l), Deno(r))
           x == MulReal(l, r)
<1>1. x = CASE BothIntegers(l, r) -> MulInt(l, r)
            [] ~BothIntegers(l, r) /\ none -> Fixnum(0)
            [] ~BothIntegers(l, r) /\ ~none /\ less -> NegateReal(Reduce(int, unit.deno))
            [] OTHER -> Reduce(n, d)
  BY DEF MulReal
<1> HIDE DEF x
<1>2. /\ IntegerObject(d) /\ NumberOf(d) = Den(l) * Den(r) /\ NumberOf(d) > 0
      /\ IntegerObject(n) /\ NumberOf(n) = Num(l) * Num(r)
      /\ Num(l) \in Int /\ Num(r) \in Int /\ Den(l) \in Int /\ Den(r) \in Int
  BY Crossed
<1> HIDE DEF n, d
<1>3. CASE BothIntegers(l, r)
  <2> DEFINE i == NumberOf(l)
             j == NumberOf(r)
             y == MulInt(l, r)
  <2>1. x = y
    BY <1>1, <1>3
  <2>2. IntegerObject(l) /\ IntegerObject(r) /\ Num(l) = i /\ Num(r) = j /\ Den(l) = 1 /\ Den(r) = 1 /\ i \in Int /\ j \in Int
    BY <1>3, BothParts
  <2>3. IntegerObject(y) /\ NumberOf(y) = i * j
    BY <2>2, MulExact
  <2> HIDE DEF i, j, y
  <2>4. Den(l) * Den(r) = 1 /\ (i * j) * 1 = i * j /\ i * j \in Int
    BY <2>2
  <2>5. StandsFor(y, i * j, 1)
    BY <2>3, <2>4, StandsInteger
  <2>6. QED
    BY <2>1, <2>2, <2>4, <2>5 DEF x
<1>4. CASE ~BothIntegers(l, r) /\ none
  <2>1. x = Fixnum(0)
    BY <1>1, <1>4
  <2>2. IntegerObject(Fixnum(0)) /\ NumberOf(Fixnum(0)) = 0
    BY SmallFixnum
  <2>3. Num(Fixnum(0)) = 0
    BY <2>2, IntegerParts
  <2>4. Num(l) * Num(r) = 0
    BY <1>2, <1>4, <2>3
  <2> DEFINE e == Den(l) * Den(r)
  <2>5. 0 * e = 0
    BY <1>2
  <2> HIDE DEF e
  <2>6. StandsFor(Fixnum(0), 0, e)
    BY <2>2, <2>5, StandsInteger
  <2>7. QED
    BY <2>1, <2>4, <2>6 DEF e, x
<1>5. CASE ~BothIntegers(l, r) /\ ~none /\ less
  <2> DEFINE y == NegateReal(Reduce(int, unit.deno))
  <2>1. x = y
    BY <1>1, <1>5
  <2>2. ~IsInteger(unit) /\ RealObject(unit) /\ RealObject(int) /\ IsInteger(int) /\ Nume(unit) = Fixnum(-1)
    BY <1>5 DEF BothIntegers
  <2>3. (int = l /\ unit = r) \/ (int = r /\ unit = l)
    OBVIOUS
  <2> HIDE DEF int, unit, none
  <2>4. IntegerObject(int) /\ Den(int) = 1 /\ Num(int) = NumberOf(int)
    BY <2>2, RealParts
  <2>5. StandsFor(y, -(NumberOf(int)), Den(unit)) /\ Num(unit) = -1
    BY <2>2, <2>4, MulUnit
  <2>6. Num(l) * Num(r) = -(NumberOf(int)) /\ Den(l) * Den(r) = Den(unit)
    <3>1. CASE int = l /\ unit = r
      <4>1. Num(l) = NumberOf(int) /\ Num(r) = -1 /\ Den(l) = 1
        BY <2>4, <2>5, <3>1
      <4>2. QED
        BY <1>2, <3>1, <4>1
    <3>2. CASE int = r /\ unit = l
      <4>1. Num(r) = NumberOf(int) /\ Num(l) = -1 /\ Den(r) = 1
        BY <2>4, <2>5, <3>2
      <4>2. QED
        BY <1>2, <3>2, <4>1
    <3>3. QED
      BY <2>3, <3>1, <3>2
  <2>7. QED
    BY <2>1, <2>5, <2>6 DEF x
<1>6. CASE ~BothIntegers(l, r) /\ ~none /\ ~less
  <2>1. x = Reduce(n, d)
    BY <1>1, <1>6
  <2>2. ~DoesNotFit(n, d) /\ NumberOf(d) # 0
    BY <1>2, PositiveFits
  <2>3. StandsFor(Reduce(n, d), NumberOf(n), NumberOf(d))
    BY <1>2, <2>2, ReduceExact
  <2>4. QED
    BY <1>2, <2>1, <2>3 DEF x
<1>7. QED
  BY <1>3, <1>4, <1>5, <1>6

(* The quotient of two exact reals, in lowest terms: but for the fraction  *)
(* of two fixnums whose denominator does not fit one.                      *)
THEOREM DivRealExact ==
  ASSUME DigitBits > 2, NEW l, NEW r, RealObject(l), RealObject(r), Num(r) # 0,
         ~DoesNotFit(MulInt(Nume(l), Deno(r)), MulInt(Deno(l), Nume(r)))
  PROVE  StandsFor(DivReal(l, r), Num(l) * Den(r), Den(l) * Num(r))
<1> DEFINE n == MulInt(Nume(l), Deno(r))
           d == MulInt(Deno(l), Nume(r))
<1>1. /\ IntegerObject(n) /\ NumberOf(n) = Num(l) * Den(r)
      /\ IntegerObject(d) /\ NumberOf(d) = Den(l) * Num(r)
      /\ Num(l) \in Int /\ Num(r) \in Int /\ Den(l) \in Int /\ Den(r) \in Int /\ Den(l) > 0
  BY Crossed
<1>2. ~DoesNotFit(n, d)
  OBVIOUS
<1> HIDE DEF n, d
<1>3. CASE l = Fixnum(0)
  <2>1. DivReal(l, r) = Fixnum(0)
    BY <1>3 DEF DivReal
  <2>2. IntegerObject(Fixnum(0)) /\ NumberOf(Fixnum(0)) = 0
    BY SmallFixnum
  <2>3. Num(l) = 0
    BY <1>3, <2>2, IntegerParts
  <2>4. Num(l) * Den(r) = 0
    BY <1>1, <2>3
  <2> DEFINE e == Den(l) * Num(r)
  <2>5. 0 * e = 0
    BY <1>1
  <2> HIDE DEF e
  <2>6. StandsFor(Fixnum(0), 0, e)
    BY <2>2, <2>5, StandsInteger
  <2>7. QED
    BY <2>1, <2>4, <2>6 DEF e
<1>4. CASE l # Fixnum(0)
  <2>1. DivReal(l, r) = Reduce(n, d)
    BY <1>4 DEF DivReal, n, d
  <2>2. NumberOf(d) # 0
    <3> DEFINE u == Den(l)
               v == Num(r)
    <3>1. u \in Int /\ v \in Int /\ u > 0 /\ v # 0
      BY <1>1
    <3> HIDE DEF u, v
    <3>2. u * v # 0
      <4>1. v >= 1 => u * v >= u * 1
        BY <3>1
      <4>2. v =< -1 => u * v =< u * (-1)
        BY <3>1
      <4> DEFINE m == u * v
      <4>3. m \in Int /\ (v >= 1 => m >= u) /\ (v =< -1 => m =< -u)
        BY <3>1, <4>1, <4>2
      <4> HIDE DEF m
      <4>4. m # 0
        BY <3>1, <4>3
      <4>5. QED
        BY <4>4 DEF m
    <3>3. QED
      BY <1>1, <3>2 DEF u, v
  <2>3. StandsFor(Reduce(n, d), NumberOf(n), NumberOf(d))
    BY <1>1, <1>2, <2>2, ReduceExact
  <2>4. QED
    BY <1>1, <2>1, <2>3
<1>5. QED
  BY <1>3, <1>4

(* Exact reals are ordered as their numbers are.                           *)
THEOREM CompareRealExact ==
  ASSUME DigitBits > 2, NEW l, NEW r, RealObject(l), RealObject(r)
  PROVE  Compare(l, r) = Sign(Num(l) * Den(r) - Num(r) * Den(l))
<1> DEFINE a == MulInt(Nume(l), Deno(r))
           b == MulInt(Nume(r), Deno(l))
<1>1. IntegerObject(a) /\ NumberOf(a) = Num(l) * Den(r) /\ IntegerObject(b) /\ NumberOf(b) = Num(r) * Den(l)
  BY Crossed
<1>2. Compare(l, r) = CompareInt(a, b)
  BY DEF Compare
<1> HIDE DEF a, b
<1>3. CompareInt(a, b) = Sign(NumberOf(a) - NumberOf(b))
  BY <1>1, CompareExact
<1>4. QED
  BY <1>1, <1>2, <1>3

(* An odd divisor of a power of two is 1.                                  *)
LEMMA OddDivisor ==
  ASSUME NEW g \in Nat, NEW c \in Nat, g = 2 * c + 1, NEW k \in Nat, NEW D \in Nat, g * D = 2 ^ k
  PROVE  g = 1
<1> DEFINE G == {i \in 0 .. k : \A d \in Nat : g * d = 2 ^ i => g = 1}
<1>1. 0 \in G
  <2>1. ASSUME NEW d \in Nat, g * d = 2 ^ 0 PROVE g = 1
    <3>1. g * d = 1 /\ g * 0 = 0
      BY <2>1, PowerOfTwo
    <3>2. d # 0
      BY <3>1
    <3>3. g * d >= g * 1
      BY <3>2
    <3> DEFINE m == g * d
    <3>4. m = 1 /\ m >= g
      BY <3>1, <3>3
    <3> HIDE DEF m
    <3>5. QED
      BY <3>4
  <2>2. QED
    BY <2>1
<1>2. ASSUME NEW i \in 0 .. (k - 1), i \in G PROVE i + 1 \in G
  <2>1. ASSUME NEW d \in Nat, g * d = 2 ^ (i + 1) PROVE g = 1
    <3>1. 2 ^ (i + 1) = 2 * 2 ^ i /\ 2 ^ i \in Nat
      BY PowerOfTwo
    <3> DEFINE p == 2 ^ i
               e == d \div 2
               m == c * d
    <3>2. g * d = 2 * p /\ p \in Nat
      BY <2>1, <3>1
    <3>3. m \in Nat /\ g * d = 2 * m + d
      OBVIOUS
    <3> HIDE DEF p, m
    <3>4. 2 * m + d = 2 * p
      BY <3>2, <3>3
    <3>5. e \in Nat /\ d = 2 * e
      BY <3>2, <3>3, <3>4
    <3> HIDE DEF e
    <3>6. g * d = 2 * (g * e)
      BY <3>5
    <3> DEFINE q == g * e
    <3>7. q \in Nat /\ 2 * q = 2 * p
      BY <3>2, <3>5, <3>6
    <3> HIDE DEF q
    <3>8. q = p
      BY <3>2, <3>7
    <3>9. g * e = 2 ^ i
      BY <3>8 DEF q, p
    <3>10. QED
      BY <1>2, <3>5, <3>9
  <2>2. i + 1 \in 0 .. k
    OBVIOUS
  <2>3. QED
    BY <2>1, <2>2
<1> HIDE DEF G
<1>3. k \in G
  <2>1. 0 .. k \subseteq G
    BY <1>1, <1>2, Ascent
  <2>2. QED
    BY <2>1
<1>4. QED
  BY <1>3 DEF G

(***************************************************************************)
(* What happens where the denominator does not fit: an odd number over the *)
(* least fixnum keeps a negative denominator, MAKEFIXNUM having lost the   *)
(* bit that makes it positive (arith.cpp:1251).                            *)
(***************************************************************************)
THEOREM LeastDenominator ==
  ASSUME DigitBits > 2, NEW n, NEW d, IntegerObject(n), DoesNotFit(n, d)
  PROVE  Reduce(n, d) = Rational(Fixnum(-NumberOf(n)), Fixnum(FixnumMin))
<1> DEFINE i == n.n
           j == FixnumMin
           a == Abs(i)
           b == Abs(j)
           g == Gcd(a, b)
           k == DigitBits - 2
<1>1. i = NumberOf(n) /\ i \in FixnumMin .. FixnumMax /\ IsFixnum(n) /\ d = Fixnum(j) /\ i % 2 = 1 /\ i \notin {1, -1}
  BY OneOrOther DEF DoesNotFit
<1>2. j \in Int /\ FixnumMax \in Int /\ FixnumMax >= 1 /\ j = -(FixnumMax + 1) /\ i \in Int /\ -(FixnumMin) \in Int
  BY <1>1, SmallNumbers
<1>3. Reduce(n, d) = ReduceFixnums(i, j)
  BY <1>1 DEF Reduce, BothFixnums, IsFixnum, Fixnum
<1>4. b = 2 ^ k /\ b = -j /\ b \in Nat /\ b > 1 /\ k \in Nat
  <2>1. b = -j /\ b \in Nat /\ b > 1
    BY <1>2 DEF Abs
  <2>2. k \in Nat
    BY DigitBitsAssumption
  <2>3. -j = 2 ^ k
    <3>1. 2 ^ k \in Nat
      BY <2>2, PowerOfTwo
    <3>2. j = -(2 ^ k)
      BY DEF FixnumMin
    <3> HIDE DEF j, k
    <3>3. QED
      BY <3>1, <3>2
  <2>4. QED
    BY <2>1, <2>2, <2>3
<1>5. a \in Nat /\ a % 2 = 1
  BY <1>1, <1>2 DEF Abs
<1> HIDE DEF a, b, k, i
<1>6. g \in Nat /\ g > 0 /\ \E N \in Nat, D \in Nat : Parts(g, N, D, a, b)
  <2>1. a \in Nat /\ b \in Nat /\ b > 0
    BY <1>4, <1>5
  <2> HIDE DEF g
  <2>2. Gcd(a, b) \in Nat /\ Gcd(a, b) > 0 /\ \E N \in Nat, D \in Nat : Parts(Gcd(a, b), N, D, a, b)
    BY <2>1, GcdParts
  <2>3. QED
    BY <2>2 DEF g
<1> HIDE DEF g
<1>7. PICK N \in Nat, D \in Nat : a = g * N /\ b = g * D
  BY <1>6 DEF Parts
<1>8. \E c \in Nat : g = 2 * c + 1
  <2> DEFINE c == g \div 2
  <2>1. c \in Nat /\ (g = 2 * c \/ g = 2 * c + 1)
    BY <1>6
  <2> HIDE DEF c
  <2>2. g # 2 * c
    <3>1. ASSUME g = 2 * c PROVE FALSE
      <4>1. g * N = 2 * (c * N)
        BY <2>1, <3>1
      <4> DEFINE m == c * N
      <4>2. m \in Nat /\ a = 2 * m
        BY <1>7, <2>1, <4>1
      <4> HIDE DEF m
      <4>3. QED
        BY <1>5, <4>2
    <3>2. QED
      BY <3>1
  <2>3. QED
    BY <2>1, <2>2
<1>9. PICK c \in Nat : g = 2 * c + 1
  BY <1>8
<1>10. g = 1
  <2>1. g * D = 2 ^ k
    BY <1>4, <1>7
  <2>2. QED
    BY <1>4, <1>6, <1>9, <2>1, OddDivisor
<1>11. j \notin {1, -1} /\ i \notin {0, 1, -1} /\ Sign(j) = -1
  BY <1>1, <1>2 DEF Sign
<1>12. ReduceFixnums(i, j) = IF b = g THEN IntToInteger((Sign(j) * i) \div g)
                             ELSE Rational(IntToInteger((Sign(j) * i) \div g), MakeFixnum(b \div g))
  BY <1>11 DEF ReduceFixnums, g, a, b
<1>13. b # g /\ b \div g = b /\ (Sign(j) * i) \div g = -i
  BY <1>1, <1>2, <1>4, <1>10, <1>11
<1>14. ReduceFixnums(i, j) = Rational(IntToInteger(-i), MakeFixnum(-j))
  BY <1>4, <1>12, <1>13
<1>15. -i \in FixnumMin .. FixnumMax
  <2>1. i # FixnumMin
    <3>1. PICK w \in Nat : FixnumMax + 1 = 2 * w
      BY SmallNumbers
    <3>2. ASSUME i = FixnumMin PROVE FALSE
      <4>1. i = -(2 * w)
        BY <1>2, <3>1, <3>2
      <4>2. QED
        BY <1>1, <4>1
    <3>3. QED
      BY <3>2
  <2>2. QED
    BY <1>1, <1>2, <2>1
<1>16. IntToInteger(-i) = Fixnum(-i)
  BY <1>15 DEF IntToInteger
<1>17. QED
  BY <1>1, <1>3, <1>14, <1>16, LeastNegated

(* A fraction in lowest terms is 1 when its parts are put together.        *)
LEMMA LowestCombination ==
  ASSUME NEW n \in Int, NEW d \in Nat, d > 0, LowestTerms(n, d)
  PROVE  Combination(1, n, d)
<1> DEFINE a == Abs(n)
           g == Gcd(a, d)
<1>1. a \in Nat /\ (n = a \/ n = -a)
  BY DEF Abs
<1> HIDE DEF a
<1>2. g \in Nat /\ g > 0 /\ \E N \in Nat, D \in Nat : Parts(g, N, D, a, d)
  BY <1>1, GcdParts
<1> HIDE DEF g
<1>3. PICK N \in Nat, D \in Nat : Parts(g, N, D, a, d)
  BY <1>2
<1>4. a = g * N /\ d = g * D /\ Combination(1, N, D)
  BY <1>3 DEF Parts
<1>5. Divides(g, d)
  BY <1>4 DEF Divides
<1>6. Divides(g, n)
  <2>1. Divides(g, a)
    BY <1>4 DEF Divides
  <2>2. CASE n = a
    BY <2>1, <2>2
  <2>3. CASE n = -a
    <3>1. -n = a
      BY <1>1, <2>3
    <3>2. Divides(g, -n)
      BY <2>1, <3>1
    <3>3. QED
      BY <1>2, <3>2, DividesTurned
  <2>4. QED
    BY <1>1, <2>2, <2>3
<1>7. g = 1
  BY <1>2, <1>5, <1>6 DEF LowestTerms
<1>8. N = a /\ D = d
  BY <1>4, <1>7
<1>9. Combination(1, a, d)
  BY <1>4, <1>8
<1>10. Combination(1, -a, d)
  <2> DEFINE u == -1
  <2>1. u \in {-1, 1} /\ u * a = -a /\ a \in Int /\ d \in Int
    BY <1>1
  <2> HIDE DEF u
  <2>2. Combination(1, u * a, d)
    BY <1>9, <2>1, TurnCombination
  <2>3. QED
    BY <2>1, <2>2
<1>11. QED
  BY <1>1, <1>9, <1>10

(* A denominator divides that of every equal fraction.                     *)
LEMMA DenominatorDivides ==
  ASSUME NEW a \in Int, NEW b \in Int, NEW c \in Int, NEW d \in Int, a * d = c * b, Combination(1, a, b)
  PROVE  Divides(b, d)
<1>1. PICK u \in Int, v \in Int : 1 = u * a + v * b
  BY DEF Combination
<1> DEFINE w == u * c + v * d
<1>2. w \in Int
  OBVIOUS
<1>3. d = b * w
  <2>1. d = (u * a + v * b) * d
    BY <1>1
  <2>2. (u * a + v * b) * d = u * (a * d) + b * (v * d)
    OBVIOUS
  <2>3. u * (c * b) + b * (v * d) = b * w
    OBVIOUS
  <2>4. a * d = c * b
    OBVIOUS
  <2>5. u * (a * d) = u * (c * b)
    BY <2>4
  <2>6. QED
    BY <2>1, <2>2, <2>3, <2>5
<1> HIDE DEF w
<1>4. QED
  BY <1>2, <1>3 DEF Divides

LEMMA DividesEachOther ==
  ASSUME NEW b \in Nat, b > 0, NEW d \in Nat, d > 0, Divides(b, d)
  PROVE  b =< d
<1>1. PICK w \in Int : d = b * w
  BY DEF Divides
<1>2. w =< 0 => b * w =< b * 0
  OBVIOUS
<1>3. w >= 1 => b * w >= b * 1
  OBVIOUS
<1> DEFINE m == b * w
<1>4. m \in Int /\ d = m /\ (w =< 0 => m =< 0) /\ (w >= 1 => m >= b)
  BY <1>1, <1>2, <1>3
<1> HIDE DEF m
<1>5. QED
  BY <1>4

(***************************************************************************)
(* An exact real has one object: two that stand for the same number are    *)
(* the same, so that they can be compared part by part (arith.cpp:2257).   *)
(***************************************************************************)
THEOREM OneFraction ==
  ASSUME DigitBits > 2, NEW x, NEW y, RealObject(x), RealObject(y), Num(x) * Den(y) = Num(y) * Den(x)
  PROVE  x = y
<1> DEFINE a == Num(x)
           b == Den(x)
           c == Num(y)
           d == Den(y)
<1>1. /\ a \in Int /\ b \in Nat /\ b > 0 /\ IntegerObject(Nume(x)) /\ IntegerObject(Deno(x))
      /\ IsInteger(x) => Nume(x) = x /\ b = 1
      /\ ~IsInteger(x) => x = Rational(Nume(x), Deno(x)) /\ b > 1 /\ LowestTerms(a, b)
  BY RealParts
<1>2. /\ c \in Int /\ d \in Nat /\ d > 0 /\ IntegerObject(Nume(y)) /\ IntegerObject(Deno(y))
      /\ IsInteger(y) => Nume(y) = y /\ d = 1
      /\ ~IsInteger(y) => y = Rational(Nume(y), Deno(y)) /\ d > 1 /\ LowestTerms(c, d)
  BY RealParts
<1>3. a * d = c * b /\ c * b = a * d
  OBVIOUS
<1> HIDE DEF a, b, c, d
<1>4. \A i \in Int : Combination(1, i, 1)
  <2>1. ASSUME NEW i \in Int PROVE Combination(1, i, 1)
    <3>1. 1 = 0 * i + 1 * 1
      BY <2>1
    <3>2. QED
      BY <3>1 DEF Combination
  <2>2. QED
    BY <2>1
<1>5. Combination(1, a, b) /\ Combination(1, c, d)
  BY <1>1, <1>2, <1>4, LowestCombination
<1>6. Divides(b, d) /\ Divides(d, b)
  <2>1. a \in Int /\ b \in Int /\ c \in Int /\ d \in Int
    BY <1>1, <1>2
  <2>2. Divides(b, d)
    BY <1>3, <1>5, <2>1, DenominatorDivides
  <2>3. Divides(d, b)
    BY <1>3, <1>5, <2>1, DenominatorDivides
  <2>4. QED
    BY <2>2, <2>3
<1>7. b = d
  BY <1>1, <1>2, <1>6, DividesEachOther
<1>8. a = c
  <2>1. a * b = c * b
    BY <1>3, <1>7
  <2>2. (a - c) * b = a * b - c * b
    BY <1>1, <1>2
  <2> DEFINE m == a - c
             p == m * b
             q == a * b
             r == c * b
  <2>3. q = r /\ q \in Int /\ r \in Int /\ p = q - r /\ m \in Int
    BY <1>1, <1>2, <2>1, <2>2
  <2>4. p = 0
    <3> HIDE DEF p, q, r, m
    <3>1. QED
      BY <2>3
  <2> HIDE DEF m
  <2>5. (m >= 1 => m * b >= 1 * b) /\ (m =< -1 => m * b =< (-1) * b)
    BY <1>1, <2>3
  <2>6. m = 0
    <3>1. (m >= 1 => p >= b) /\ (m =< -1 => p =< -b)
      BY <1>1, <2>5
    <3> HIDE DEF p
    <3>2. QED
      BY <1>1, <2>3, <2>4, <3>1
  <2>7. QED
    BY <1>1, <1>2, <2>6 DEF m
<1>9. Nume(x) = Nume(y)
  BY <1>1, <1>2, <1>8, OneForm DEF a, c, Num
<1>10. Deno(x) = Deno(y)
  BY <1>1, <1>2, <1>7, OneForm DEF b, d, Den
<1>11. QED
  BY <1>1, <1>2, <1>7, <1>9, <1>10

(* A fraction turned over.                                                 *)
LEMMA TurnedFraction ==
  ASSUME DigitBits > 2, NEW nume, NEW deno, IntegerObject(nume), IntegerObject(deno),
         NEW n \in Int, NEW d \in Int, LowestTerms(d, n), n # 0, d > 0, NumberOf(deno) > 1,
         \/ NumberOf(nume) = d /\ NumberOf(deno) = n
         \/ NumberOf(nume) = -d /\ NumberOf(deno) = -n
  PROVE  StandsFor(Rational(nume, deno), d, n)
<1> DEFINE x == Rational(nume, deno)
           p == NumberOf(nume)
           q == NumberOf(deno)
<1>1. Num(x) = p /\ Den(x) = q /\ p \in Int /\ q \in Int
  BY FractionParts, AsBignumExact
<1>2. LowestTerms(p, q)
  <2>1. CASE p = d /\ q = n
    BY <2>1
  <2>2. CASE p = -d /\ q = -n
    <3>1. LowestTerms(n, d)
      BY LowestTurned
    <3>2. LowestTerms(-d, -n)
      BY <3>1, LowestTurned
    <3>3. QED
      BY <2>2, <3>2
  <2>3. QED
    BY <2>1, <2>2
<1>3. FractionObject(x)
  BY <1>2 DEF FractionObject
<1> HIDE DEF x, p, q
<1>4. p * n = q * d
  <2>1. CASE p = d /\ q = n
    BY <2>1
  <2>2. CASE p = -d /\ q = -n
    BY <2>2
  <2>3. QED
    BY <2>1, <2>2 DEF p, q
<1>5. QED
  BY <1>1, <1>3, <1>4 DEF StandsFor, RealObject, x

(* The reciprocal of an exact real that is not nought, in lowest terms.    *)
THEOREM ReciprocalExact ==
  ASSUME DigitBits > 2, NEW x, RealObject(x), Num(x) # 0
  PROVE  StandsFor(ReciprocalReal(x), Den(x), Num(x))
<1> DEFINE n == Num(x)
           d == Den(x)
           r == ReciprocalReal(x)
<1>1. /\ IntegerObject(Nume(x)) /\ IntegerObject(Deno(x)) /\ n \in Int /\ d \in Int /\ d > 0
      /\ IsInteger(x) => IntegerObject(x) /\ n = NumberOf(x) /\ d = 1
      /\ ~IsInteger(x) => x = Rational(Nume(x), Deno(x)) /\ x.nume = Nume(x) /\ x.deno = Deno(x) /\ d > 1 /\ LowestTerms(n, d)
  BY RealParts
<1>2. n = NumberOf(Nume(x)) /\ d = NumberOf(Deno(x)) /\ n # 0
  BY DEF Num, Den
<1>3. /\ IntegerObject(Fixnum(1)) /\ NumberOf(Fixnum(1)) = 1
      /\ IntegerObject(Fixnum(-1)) /\ NumberOf(Fixnum(-1)) = -1
  BY SmallFixnum
<1> HIDE DEF n, d
<1>4. CASE IsInteger(x)
  <2>1. r = ReciprocalInt(x)
    BY <1>4 DEF ReciprocalReal
  <2>2. IntegerObject(x) /\ n = NumberOf(x) /\ d = 1 /\ SignOf(x) = Sign(n)
    BY <1>1, <1>4, SignOfExact
  <2>3. CASE x \in {Fixnum(1), Fixnum(-1)}
    <3>1. r = x
      BY <2>1, <2>3 DEF ReciprocalInt
    <3>2. n * n = 1 /\ n \in {1, -1}
      BY <1>3, <2>2, <2>3
    <3>3. StandsFor(x, 1, n)
      BY <2>2, <3>2, StandsInteger
    <3>4. QED
      BY <2>2, <3>1, <3>3 DEF n, d
  <2>4. CASE x \notin {Fixnum(1), Fixnum(-1)}
    <3>1. n \notin {1, -1}
      BY <1>3, <2>2, <2>4, OneForm
    <3>2. LowestTerms(1, n)
      <4>1. 1 = 1 * 1 + 0 * n
        BY <1>1
      <4>2. Combination(1, 1, n)
        BY <4>1 DEF Combination
      <4>3. QED
        BY <1>1, <4>2, LowestOf
    <3> DEFINE z == NegateInt(x)
    <3>3. IntegerObject(z) /\ NumberOf(z) = -n
      BY <2>2, NegateExact
    <3>4. CASE n > 0
      <4>1. r = Rational(Fixnum(1), x)
        BY <1>1, <2>1, <2>2, <2>4, <3>4 DEF ReciprocalInt, Sign
      <4>2. StandsFor(Rational(Fixnum(1), x), 1, n)
        <5>1. NumberOf(x) > 1
          BY <1>1, <2>2, <3>1, <3>4
        <5>2. QED
          BY <1>1, <1>2, <1>3, <2>2, <3>2, <5>1, TurnedFraction
      <4>3. QED
        BY <2>2, <4>1, <4>2 DEF n, d
    <3>5. CASE n < 0
      <4>1. r = Rational(Fixnum(-1), z)
        BY <1>1, <2>1, <2>2, <2>4, <3>5 DEF ReciprocalInt, Sign
      <4> HIDE DEF z
      <4>2. StandsFor(Rational(Fixnum(-1), z), 1, n)
        <5>1. NumberOf(z) > 1
          BY <1>1, <3>1, <3>3, <3>5
        <5>2. QED
          BY <1>1, <1>2, <1>3, <3>2, <3>3, <5>1, TurnedFraction
      <4>3. QED
        BY <2>2, <4>1, <4>2 DEF n, d
    <3>6. QED
      BY <1>1, <1>2, <3>4, <3>5
  <2>5. QED
    BY <2>3, <2>4
<1>5. CASE ~IsInteger(x)
  <2> DEFINE p == Nume(x)
             q == Deno(x)
             mp == NegateInt(p)
             mq == NegateInt(q)
  <2>1. /\ IntegerObject(p) /\ IntegerObject(q) /\ x.nume = p /\ x.deno = q /\ NumberOf(p) = n /\ NumberOf(q) = d
        /\ d > 1 /\ LowestTerms(n, d) /\ x = Rational(p, q)
    BY <1>1, <1>2, <1>5
  <2>2. IntegerObject(mp) /\ NumberOf(mp) = -n /\ IntegerObject(mq) /\ NumberOf(mq) = -d
    BY <2>1, NegateExact
  <2>3. LowestTerms(d, n)
    BY <1>1, <2>1, LowestTurned
  <2>4. SignOf(x) = Sign(n)
    <3>1. SignOf(p) = Sign(n)
      BY <2>1, SignOfExact
    <3>2. p.type \in {"fixnum", "bignum"}
      BY <2>1, IntegerParts DEF IsInteger
    <3>3. SignOf(p) = IF IsFixnum(p) THEN Sign(p.n) ELSE p.sign
      BY <3>2 DEF SignOf, IsFixnum
    <3>4. SignOf(x) = IF IsFixnum(p) THEN Sign(p.n) ELSE p.sign
      BY <2>1 DEF SignOf, IsFixnum, Rational
    <3>5. QED
      BY <3>1, <3>3, <3>4
  <2>5. (p = Fixnum(1) <=> n = 1) /\ (p = Fixnum(-1) <=> n = -1)
    BY <1>3, <2>1, OneForm
  <2> HIDE DEF p, q, mp, mq
  <2>6. CASE n = 1
    <3>1. r = q
      BY <1>5, <2>1, <2>5, <2>6 DEF ReciprocalReal
    <3>2. d * n = d
      BY <1>1, <2>6
    <3>3. StandsFor(q, d, n)
      BY <1>1, <2>1, <3>2, StandsInteger
    <3>4. QED
      BY <3>1, <3>3 DEF n, d
  <2>7. CASE n = -1
    <3>1. x.nume # Fixnum(1) /\ x.nume = Fixnum(-1)
      BY <2>1, <2>5, <2>7
    <3>2. r = mq
      BY <1>5, <2>1, <3>1 DEF ReciprocalReal, mq
    <3>3. (-d) * n = d
      BY <1>1, <2>7
    <3>4. StandsFor(mq, d, n)
      BY <1>1, <2>2, <3>3, StandsInteger
    <3>5. QED
      BY <3>2, <3>4 DEF n, d
  <2>8. CASE n \notin {1, -1} /\ n > 0
    <3>1. x.nume # Fixnum(1) /\ x.nume # Fixnum(-1) /\ SignOf(x) > 0
      BY <1>1, <2>1, <2>4, <2>5, <2>8 DEF Sign
    <3>2. r = Rational(q, p)
      BY <1>5, <2>1, <3>1 DEF ReciprocalReal
    <3>3. NumberOf(p) > 1
      BY <1>1, <2>1, <2>8
    <3>4. StandsFor(Rational(q, p), d, n)
      BY <1>1, <1>2, <2>1, <2>3, <3>3, TurnedFraction
    <3>5. QED
      BY <3>2, <3>4 DEF n, d
  <2>9. CASE n \notin {1, -1} /\ n < 0
    <3>1. x.nume # Fixnum(1) /\ x.nume # Fixnum(-1) /\ ~(SignOf(x) > 0)
      BY <1>1, <2>1, <2>4, <2>5, <2>9 DEF Sign
    <3>2. r = Rational(mq, mp)
      BY <1>5, <2>1, <3>1 DEF ReciprocalReal, mp, mq
    <3>3. NumberOf(mp) > 1
      BY <1>1, <2>2, <2>9
    <3>4. StandsFor(Rational(mq, mp), d, n)
      BY <1>1, <1>2, <2>2, <2>3, <3>3, TurnedFraction
    <3>5. QED
      BY <3>2, <3>4 DEF n, d
  <2>10. QED
    BY <1>1, <1>2, <2>6, <2>7, <2>8, <2>9
<1>6. QED
  BY <1>4, <1>5

(***************************************************************************)
(* Rounding.                                                               *)
(***************************************************************************)
LEMMA SignOfReal ==
  ASSUME DigitBits > 2, NEW x, RealObject(x)
  PROVE  SignOf(x) = Sign(Num(x))
<1>1. CASE IsInteger(x)
  <2>1. IntegerObject(x) /\ Num(x) = NumberOf(x)
    BY <1>1, RealParts
  <2>2. QED
    BY <2>1, SignOfExact
<1>2. CASE ~IsInteger(x)
  <2> DEFINE p == Nume(x)
             q == Deno(x)
  <2>1. IntegerObject(p) /\ x.nume = p /\ x = Rational(p, q) /\ NumberOf(p) = Num(x)
    BY <1>2, RealParts DEF Num
  <2> HIDE DEF p, q
  <2>2. SignOf(p) = Sign(Num(x))
    BY <2>1, SignOfExact
  <2>3. p.type \in {"fixnum", "bignum"}
    BY <2>1, IntegerParts DEF IsInteger
  <2>4. SignOf(p) = IF IsFixnum(p) THEN Sign(p.n) ELSE p.sign
    BY <2>3 DEF SignOf, IsFixnum
  <2>5. SignOf(x) = IF IsFixnum(p) THEN Sign(p.n) ELSE p.sign
    BY <2>1 DEF SignOf, IsFixnum, Rational
  <2>6. QED
    BY <2>2, <2>4, <2>5
<1>3. QED
  BY <1>1, <1>2

(* What is left when a fraction is cut off is not nought.                  *)
CutOff(a, b, q, m) == a = b * q + m /\ (a > 0 => m > 0 /\ m < b) /\ (a < 0 => m < 0 /\ -m < b)

LEMMA TruncationParts ==
  ASSUME DigitBits > 2, NEW x, RealObject(x)
  PROVE  LET t == Truncation(x)
             a == Num(x)
             b == Den(x)
         IN  /\ IntegerObject(t) /\ NumberOf(t) \in Int /\ NumberOf(t) = CQuo(a, b)
             /\ IsInteger(x) => NumberOf(t) = a /\ b = 1
             /\ ~IsInteger(x) => a # 0 /\ \E m \in Int : CutOff(a, b, NumberOf(t), m)
<1> DEFINE t == Truncation(x)
           a == Num(x)
           b == Den(x)
<1>1. /\ a \in Int /\ b \in Int /\ b > 0
      /\ IsInteger(x) => IntegerObject(x) /\ a = NumberOf(x) /\ b = 1
      /\ ~IsInteger(x) => /\ IntegerObject(x.nume) /\ IntegerObject(x.deno) /\ a = NumberOf(x.nume) /\ b = NumberOf(x.deno)
                          /\ b > 1 /\ LowestTerms(a, b)
  BY RealParts DEF Num, Den
<1> HIDE DEF a, b
<1>2. CASE IsInteger(x)
  <2>1. t = x
    BY <1>2 DEF Truncation
  <2>2. CQuo(a, 1) = a
    <3>1. CASE a > 0
      BY <1>1, <3>1 DEF CQuo, Sign, Abs
    <3>2. CASE a = 0
      BY <3>2 DEF CQuo, Sign, Abs
    <3>3. CASE a < 0
      BY <1>1, <3>3 DEF CQuo, Sign, Abs
    <3>4. QED
      BY <1>1, <3>1, <3>2, <3>3
  <2>3. QED
    BY <1>1, <1>2, <2>1, <2>2 DEF a, b
<1>3. CASE ~IsInteger(x)
  <2> DEFINE p == x.nume
             d == x.deno
             q == CQuo(a, b)
             m == CRem(a, b)
  <2>1. t = Quotient(p, d)
    BY <1>3 DEF Truncation
  <2>2. IntegerObject(p) /\ IntegerObject(d) /\ NumberOf(p) = a /\ NumberOf(d) = b /\ b > 1 /\ LowestTerms(a, b)
    BY <1>1, <1>3
  <2> HIDE DEF t, p, d
  <2>3. d # Fixnum(-1) /\ NumberOf(d) # 0
    BY <1>1, <2>2, SmallFixnum
  <2>4. IntegerObject(t) /\ NumberOf(t) = q
    BY <2>1, <2>2, <2>3, QuotientExact
  <2>5. q \in Int /\ m \in Int /\ a = b * q + m /\ Abs(m) < Abs(b) /\ (a >= 0 => m >= 0) /\ (a =< 0 => m =< 0)
    <3> HIDE DEF q, m
    <3>1. b # 0
      BY <1>1
    <3>2. QED
      BY <1>1, <3>1, RemainderFacts DEF q, m
  <2> HIDE DEF q, m
  <2>6. m # 0
    <3>1. ASSUME m = 0 PROVE FALSE
      <4> DEFINE u == b * q
      <4>1. u \in Int /\ a = u + m
        BY <1>1, <2>5
      <4> HIDE DEF u
      <4>2. a = u
        BY <3>1, <4>1
      <4>3. a = b * q /\ b = b * 1
        BY <1>1, <4>2 DEF u
      <4>4. Divides(b, a) /\ Divides(b, b)
        BY <2>5, <4>3 DEF Divides
      <4>5. b = 1
        BY <1>1, <2>2, <4>4 DEF LowestTerms
      <4>6. QED
        BY <2>2, <4>5
    <3>2. QED
      BY <3>1
  <2>7. a # 0 /\ (a > 0 => m > 0 /\ m < b) /\ (a < 0 => m < 0 /\ -m < b)
    BY <1>1, <2>5, <2>6 DEF Abs
  <2>8. CutOff(a, b, q, m)
    BY <2>5, <2>7 DEF CutOff
  <2>9. QED
    BY <1>3, <2>4, <2>5, <2>7, <2>8 DEF a, b, t, q
<1>4. QED
  BY <1>2, <1>3

(* floor, the greatest integer that is not above the number.               *)
THEOREM FloorExact ==
  ASSUME DigitBits > 2, NEW x, RealObject(x)
  PROVE  LET f == NumberOf(Floor(x))
         IN  IntegerObject(Floor(x)) /\ f \in Int /\ f * Den(x) =< Num(x) /\ Num(x) < (f + 1) * Den(x)
<1> DEFINE t == Truncation(x)
           a == Num(x)
           b == Den(x)
           q == NumberOf(t)
           r == Floor(x)
           f == NumberOf(r)
           p == b * q
<1>1. /\ IntegerObject(t) /\ q \in Int
      /\ IsInteger(x) => q = a /\ b = 1
      /\ ~IsInteger(x) => a # 0 /\ \E m \in Int : CutOff(a, b, q, m)
  BY TruncationParts
<1>2. a \in Int /\ b \in Int /\ b > 0 /\ SignOf(x) = Sign(a)
  BY RealParts, SignOfReal
<1> HIDE DEF a, b, t
<1>3. IntegerObject(Fixnum(1)) /\ NumberOf(Fixnum(1)) = 1
  BY SmallFixnum
<1>4. p \in Int /\ q * b = p /\ (q + 1) * b = p + b /\ (q - 1) * b = p - b /\ ((q - 1) + 1) * b = p
  BY <1>1, <1>2
<1>5. CASE IsInteger(x)
  <2>1. r = t
    BY <1>5 DEF Floor, t
  <2>2. p = a
    BY <1>1, <1>2, <1>5
  <2> HIDE DEF p, r, q
  <2>3. f = q
    BY <2>1 DEF q
  <2>4. QED
    BY <1>1, <1>2, <1>4, <2>1, <2>2, <2>3 DEF a, b, r
<1>6. CASE ~IsInteger(x) /\ a < 0
  <2> DEFINE z == SubInt(t, Fixnum(1))
  <2>1. r = z
    BY <1>2, <1>6 DEF Floor, Sign, t
  <2>2. IntegerObject(z) /\ NumberOf(z) = q - 1
    BY <1>1, <1>3, SubExact
  <2>3. PICK m \in Int : CutOff(a, b, q, m)
    BY <1>1, <1>6
  <2>4. a = p + m /\ m < 0 /\ -m < b
    BY <1>6, <2>3 DEF CutOff
  <2> HIDE DEF p, r, q, z
  <2>5. f = q - 1
    BY <2>1, <2>2
  <2>6. p - b =< a /\ a < p
    BY <1>2, <1>4, <2>4
  <2>7. QED
    BY <1>1, <1>4, <2>1, <2>2, <2>5, <2>6 DEF a, b, r
<1>7. CASE ~IsInteger(x) /\ ~(a < 0)
  <2>1. r = t
    BY <1>2, <1>7 DEF Floor, Sign, t
  <2>2. PICK m \in Int : CutOff(a, b, q, m)
    BY <1>1, <1>7
  <2>3. a = p + m /\ m > 0 /\ m < b
    BY <1>1, <1>2, <1>7, <2>2 DEF CutOff
  <2> HIDE DEF p, r, q
  <2>4. f = q
    BY <2>1 DEF q
  <2>5. p =< a /\ a < p + b
    BY <1>2, <1>4, <2>3
  <2>6. QED
    BY <1>1, <1>4, <2>1, <2>4, <2>5 DEF a, b, r
<1>8. QED
  BY <1>5, <1>6, <1>7

(* ceiling, the least integer that is not below the number.                *)
THEOREM CeilingExact ==
  ASSUME DigitBits > 2, NEW x, RealObject(x)
  PROVE  LET c == NumberOf(Ceiling(x))
         IN  IntegerObject(Ceiling(x)) /\ c \in Int /\ (c - 1) * Den(x) < Num(x) /\ Num(x) =< c * Den(x)
<1> DEFINE t == Truncation(x)
           a == Num(x)
           b == Den(x)
           q == NumberOf(t)
           r == Ceiling(x)
           f == NumberOf(r)
           p == b * q
<1>1. /\ IntegerObject(t) /\ q \in Int
      /\ IsInteger(x) => q = a /\ b = 1
      /\ ~IsInteger(x) => a # 0 /\ \E m \in Int : CutOff(a, b, q, m)
  BY TruncationParts
<1>2. a \in Int /\ b \in Int /\ b > 0 /\ SignOf(x) = Sign(a)
  BY RealParts, SignOfReal
<1> HIDE DEF a, b, t
<1>3. IntegerObject(Fixnum(1)) /\ NumberOf(Fixnum(1)) = 1
  BY SmallFixnum
<1>4. p \in Int /\ q * b = p /\ (q + 1) * b = p + b /\ (q - 1) * b = p - b /\ ((q + 1) - 1) * b = p
  BY <1>1, <1>2
<1>5. CASE IsInteger(x)
  <2>1. r = t
    BY <1>5 DEF Ceiling, t
  <2>2. p = a
    BY <1>1, <1>2, <1>5
  <2> HIDE DEF p, r, q
  <2>3. f = q
    BY <2>1 DEF q
  <2>4. QED
    BY <1>1, <1>2, <1>4, <2>1, <2>2, <2>3 DEF a, b, r
<1>6. CASE ~IsInteger(x) /\ a < 0
  <2>1. r = t
    BY <1>2, <1>6 DEF Ceiling, Sign, t
  <2>2. PICK m \in Int : CutOff(a, b, q, m)
    BY <1>1, <1>6
  <2>3. a = p + m /\ m < 0 /\ -m < b
    BY <1>6, <2>2 DEF CutOff
  <2> HIDE DEF p, r, q
  <2>4. f = q
    BY <2>1 DEF q
  <2>5. p - b < a /\ a =< p
    BY <1>2, <1>4, <2>3
  <2>6. QED
    BY <1>1, <1>4, <2>1, <2>4, <2>5 DEF a, b, r
<1>7. CASE ~IsInteger(x) /\ ~(a < 0)
  <2> DEFINE z == AddInt(t, Fixnum(1))
  <2>1. r = z
    BY <1>2, <1>7 DEF Ceiling, Sign, t
  <2>2. IntegerObject(z) /\ NumberOf(z) = q + 1
    BY <1>1, <1>3, AddExact
  <2>3. PICK m \in Int : CutOff(a, b, q, m)
    BY <1>1, <1>7
  <2>4. a = p + m /\ m > 0 /\ m < b
    BY <1>1, <1>2, <1>7, <2>3 DEF CutOff
  <2> HIDE DEF p, r, q, z
  <2>5. f = q + 1
    BY <2>1, <2>2
  <2>6. p < a /\ a =< p + b
    BY <1>2, <1>4, <2>4
  <2>7. QED
    BY <1>1, <1>4, <2>1, <2>2, <2>5, <2>6 DEF a, b, r
<1>8. QED
  BY <1>5, <1>6, <1>7

(***************************************************************************)
(* The integer division of R6RS.                                           *)
(***************************************************************************)
(* The quotient that leaves a remainder from nought up to the divisor.     *)
Leaves(a, b, q) == q \in Int /\ a - b * q >= 0 /\ a - b * q < Abs(b)

LEMMA LeavesIs ==
  ASSUME NEW a \in Int, NEW b \in Int, NEW q \in Int, NEW p \in Int, p = b * q, p =< a, a < p + Abs(b)
  PROVE  Leaves(a, b, q)
<1>1. a - p >= 0 /\ a - p < Abs(b)
  BY DEF Abs
<1>2. QED
  BY <1>1 DEF Leaves

LEMMA DivFixnumsExact ==
  ASSUME NEW l \in FixnumMin .. FixnumMax, NEW r \in FixnumMin .. FixnumMax, r # 0
  PROVE  IntegerObject(DivFixnums(l, r)) /\ Leaves(l, r, NumberOf(DivFixnums(l, r)))
<1> DEFINE B == Abs(r)
           n == CASE l >= 0         -> CQuo(l, r)
                  [] l < 0 /\ r > 0 -> CQuo(l - r + 1, r)
                  [] OTHER          -> CQuo(l + r + 1, r)
<1>1. /\ l \in Int /\ r \in Int /\ B \in Nat /\ B > 0 /\ (r > 0 => r = B) /\ (r < 0 => r = -B) /\ 2 * B =< Base
      /\ -Base < 2 * l /\ 2 * l < Base
  <2>1. l \in Int /\ r \in Int /\ -Base < 2 * l /\ 2 * l < Base /\ -Base < 2 * r /\ 2 * r < Base
    BY FixnumSizes
  <2>2. QED
    BY <2>1, BaseType DEF Abs
<1>2. DivFixnums(l, r) = IntToInteger(n)
  BY DEF DivFixnums
<1> HIDE DEF B
<1>3. n \in Int /\ -Base < n /\ n < Base /\ Leaves(l, r, n)
  <2>1. CASE l >= 0
    <3> DEFINE k == l \div B
               c == l % B
               p == B * k
    <3>1. k \in Int /\ c \in 0 .. (B - 1) /\ l = p + c
      BY <1>1, DivMod
    <3>2. k \in 0 .. l
      BY <1>1, <2>1
    <3>3. p \in Int
      BY <1>1, <3>1
    <3>4. (r > 0 => n = k) /\ (r < 0 => n = -k)
      <4>1. n = Sign(l) * Sign(r) * (Abs(l) \div B)
        BY <2>1 DEF CQuo, B
      <4>2. Abs(l) = l
        BY <2>1 DEF Abs
      <4>3. CASE l = 0
        <5>1. Sign(l) = 0 /\ k = 0 /\ Sign(r) \in Int
          BY <1>1, <3>2, <4>3 DEF Sign
        <5>2. n = 0
          BY <4>1, <4>2, <5>1
        <5>3. QED
          BY <5>1, <5>2
      <4>4. CASE l > 0
        <5>1. Sign(l) = 1 /\ (r > 0 => Sign(r) = 1) /\ (r < 0 => Sign(r) = -1)
          BY <1>1, <4>4 DEF Sign
        <5> HIDE DEF n
        <5>2. n = Sign(l) * Sign(r) * k
          BY <4>1, <4>2
        <5> HIDE DEF k
        <5>3. QED
          BY <1>1, <3>1, <5>1, <5>2
      <4>5. QED
        BY <1>1, <2>1, <4>3, <4>4
    <3>5. r * n = p
      <4>1. CASE r > 0
        BY <1>1, <3>4, <4>1
      <4>2. CASE r < 0
        <5> HIDE DEF k, n
        <5>1. r * n = (-B) * (-k)
          BY <1>1, <3>4, <4>2
        <5>2. (-B) * (-k) = B * k
          BY <1>1, <3>1
        <5>3. QED
          BY <5>1, <5>2
      <4>3. QED
        BY <1>1, <4>1, <4>2
    <3> HIDE DEF k, c, p, n
    <3>6. n \in Int /\ -Base < n /\ n < Base
      <4>1. k \in Int /\ 0 =< k /\ k =< l /\ 2 * l < Base /\ Base \in Nat /\ (r > 0 \/ r < 0)
        BY <1>1, <2>1, <3>1, <3>2, BaseType
      <4>2. n = k \/ n = -k
        BY <3>4, <4>1
      <4>3. QED
        BY <1>1, <2>1, <4>1, <4>2
    <3>7. p =< l /\ l < p + B
      BY <1>1, <3>1, <3>3
    <3>8. QED
      BY <1>1, <3>3, <3>5, <3>6, <3>7, LeavesIs DEF B
  <2>2. CASE l < 0
    <3> DEFINE e == (-l) + B - 1
               k == e \div B
               c == e % B
               p == B * k
    <3>1. e \in Nat /\ e > 0 /\ e < Base
      <4>1. l \in Int /\ B \in Nat /\ Base \in Nat /\ -Base < 2 * l /\ l < 0 /\ B > 0 /\ 2 * B =< Base
        BY <1>1, <2>2, BaseType
      <4>2. QED
        BY <4>1
    <3>2. k \in Int /\ c \in 0 .. (B - 1) /\ e = p + c /\ k \in 0 .. e
      <4> HIDE DEF e
      <4>1. k \in Int /\ c \in 0 .. (B - 1) /\ e = p + c
        BY <1>1, <3>1, DivMod
      <4>2. k \in 0 .. e
        BY <1>1, <3>1
      <4>3. QED
        BY <4>1, <4>2
    <3>3. p \in Int
      BY <1>1, <3>2
    <3>4. (r > 0 => n = -k) /\ (r < 0 => n = k)
      <4>1. CASE r > 0
        <5>1. n = CQuo(l - r + 1, r)
          BY <1>1, <2>2, <4>1
        <5>2. l - r + 1 = -e
          BY <1>1, <4>1
        <5>3. Sign(-e) = -1 /\ Abs(-e) = e /\ Sign(r) = 1
          <6> HIDE DEF e
          <6>1. QED
            BY <1>1, <3>1, <4>1 DEF Sign, Abs
        <5>4. n = Sign(-e) * Sign(r) * (Abs(-e) \div B)
          BY <5>1, <5>2 DEF CQuo, B
        <5> HIDE DEF n, e
        <5>5. n = (-1) * 1 * k
          BY <5>3, <5>4
        <5> HIDE DEF k
        <5>6. QED
          BY <1>1, <3>2, <4>1, <5>5
      <4>2. CASE r < 0
        <5>1. n = CQuo(l + r + 1, r)
          BY <1>1, <2>2, <4>2
        <5>2. l + r + 1 = -e
          BY <1>1, <4>2
        <5>3. Sign(-e) = -1 /\ Abs(-e) = e /\ Sign(r) = -1
          <6> HIDE DEF e
          <6>1. QED
            BY <1>1, <3>1, <4>2 DEF Sign, Abs
        <5>4. n = Sign(-e) * Sign(r) * (Abs(-e) \div B)
          BY <5>1, <5>2 DEF CQuo, B
        <5> HIDE DEF n, e
        <5>5. n = (-1) * (-1) * k
          BY <5>3, <5>4
        <5> HIDE DEF k
        <5>6. QED
          BY <1>1, <3>2, <4>2, <5>5
      <4>3. QED
        BY <1>1, <4>1, <4>2
    <3>5. r * n = -p
      <4>1. CASE r > 0
        <5> HIDE DEF k, n
        <5>1. r * n = B * (-k)
          BY <1>1, <3>4, <4>1
        <5>2. B * (-k) = -(B * k)
          BY <1>1, <3>2
        <5>3. QED
          BY <5>1, <5>2
      <4>2. CASE r < 0
        <5> HIDE DEF k, n
        <5>1. r * n = (-B) * k
          BY <1>1, <3>4, <4>2
        <5>2. (-B) * k = -(B * k)
          BY <1>1, <3>2
        <5>3. QED
          BY <5>1, <5>2
      <4>3. QED
        BY <1>1, <4>1, <4>2
    <3>6. (-l) + B - 1 = p + c
      BY <3>2
    <3> HIDE DEF k, c, p, n, e
    <3>7. n \in Int /\ -Base < n /\ n < Base
      <4>1. k \in Int /\ 0 =< k /\ k =< e /\ e \in Nat /\ e < Base /\ Base \in Nat /\ (r > 0 \/ r < 0)
        BY <1>1, <3>1, <3>2, BaseType
      <4>2. n = k \/ n = -k
        BY <3>4, <4>1
      <4>3. QED
        BY <4>1, <4>2
    <3> DEFINE s == -p
    <3>8. s \in Int /\ r * n = s /\ s =< l /\ l < s + B
      BY <1>1, <3>2, <3>3, <3>5, <3>6
    <3> HIDE DEF s
    <3>9. QED
      BY <1>1, <3>7, <3>8, LeavesIs DEF B
  <2>3. QED
    BY <1>1, <2>1, <2>2
<1> HIDE DEF n
<1>4. IntegerObject(IntToInteger(n)) /\ NumberOf(IntToInteger(n)) = n
  <2>1. Base * Base >= Base /\ Base \in Nat
    BY BaseType
  <2> DEFINE s == Base * Base
  <2>2. s \in Nat /\ s >= Base
    BY <2>1
  <2> HIDE DEF s
  <2>3. -s < n /\ n < s
    BY <1>3, <2>1, <2>2
  <2>4. QED
    BY <1>3, <2>3, IntToIntegerExact DEF s
<1>5. QED
  BY <1>2, <1>3, <1>4

(* The floor of a quotient, from the fraction in lowest terms.             *)
LEMMA FloorLeaves ==
  ASSUME DigitBits > 2, NEW L \in Int, NEW R \in Int, R > 0, NEW y, StandsFor(y, L, R)
  PROVE  IntegerObject(Floor(y)) /\ NumberOf(Floor(y)) \in Int
         /\ R * NumberOf(Floor(y)) =< L /\ L < R * NumberOf(Floor(y)) + R
<1> DEFINE f == NumberOf(Floor(y))
           a == Num(y)
           b == Den(y)
<1>1. RealObject(y) /\ a * R = b * L
  BY DEF StandsFor
<1>2. a \in Int /\ b \in Int /\ b > 0
  BY <1>1, RealParts
<1>3. IntegerObject(Floor(y)) /\ f \in Int /\ f * b =< a /\ a < (f + 1) * b
  BY <1>1, FloorExact
<1> HIDE DEF f, a, b
<1> DEFINE p == R * f
           d == L - p
<1>4. p \in Int /\ d \in Int
  BY <1>3
<1>5. R * (f * b) =< R * a /\ R * (a + 1) =< R * ((f + 1) * b)
  <2> DEFINE u == f * b
             v == (f + 1) * b
  <2>1. u \in Int /\ v \in Int /\ u =< a /\ a + 1 =< v
    BY <1>2, <1>3
  <2> HIDE DEF u, v
  <2>2. \A s \in Int, t \in Int : s =< t => R * s =< R * t
    OBVIOUS
  <2>3. R * u =< R * a /\ R * (a + 1) =< R * v
    BY <1>2, <2>1, <2>2
  <2>4. QED
    BY <2>3 DEF u, v
<1>6. R * (f * b) = b * p /\ R * ((f + 1) * b) = b * p + b * R /\ R * a = b * L /\ R * (a + 1) = b * L + R
  <2>1. R * (f * b) = b * (R * f) /\ R * ((f + 1) * b) = b * (R * f) + b * R
    BY <1>2, <1>3
  <2>2. R * a = a * R /\ R * (a + 1) = R * a + R
    BY <1>2
  <2>3. QED
    BY <1>1, <2>1, <2>2
<1>7. b * d = b * L - b * p /\ b * (d - R) = b * d - b * R
  BY <1>2, <1>4
<1> DEFINE bp == b * p
           bR == b * R
           bL == b * L
           bd == b * d
<1>8. bp \in Int /\ bR \in Int /\ bL \in Int /\ bd \in Int
  BY <1>2, <1>4
<1>9. bp =< bL /\ bL + R =< bp + bR /\ bd = bL - bp
  BY <1>5, <1>6, <1>7
<1>10. d >= 0
  <2>1. d =< -1 => b * d =< b * (-1)
    BY <1>2, <1>4
  <2>2. b * (-1) < 0
    BY <1>2
  <2> HIDE DEF d, p, bp, bR, bL
  <2>3. bd >= 0
    <3> HIDE DEF bd
    <3>1. QED
      BY <1>8, <1>9
  <2>4. QED
    BY <1>2, <1>4, <2>1, <2>2, <2>3
<1>11. d < R
  <2> HIDE DEF d, p, bp, bL
  <2>1. d >= R => b * d >= b * R
    BY <1>2, <1>4
  <2>2. bd < bR
    <3> HIDE DEF bd, bR
    <3>1. QED
      BY <1>8, <1>9
  <2>3. d >= R => bd >= bR
    BY <2>1
  <2> HIDE DEF bd, bR
  <2>4. ~(d >= R)
    BY <1>8, <2>2, <2>3
  <2>5. QED
    BY <1>4, <2>4
<1>12. d = L - p
  OBVIOUS
<1> HIDE DEF d, p
<1>13. p =< L /\ L < p + R
  BY <1>4, <1>10, <1>11, <1>12
<1>14. QED
  BY <1>3, <1>13 DEF p, f

(***************************************************************************)
(* div: the quotient that leaves a remainder which is not negative, for    *)
(* integers of every size and both signs.                                  *)
(***************************************************************************)
THEOREM IntegerDivExact ==
  ASSUME DigitBits > 2, NEW x, NEW y, IntegerObject(x), IntegerObject(y), NumberOf(y) # 0
  PROVE  IntegerObject(IntegerDiv(x, y)) /\ Leaves(NumberOf(x), NumberOf(y), NumberOf(IntegerDiv(x, y)))
<1> DEFINE L == NumberOf(x)
           R == NumberOf(y)
           r == IntegerDiv(x, y)
<1>1. /\ L \in Int /\ R \in Int /\ R # 0 /\ Num(x) = L /\ Den(x) = 1 /\ Num(y) = R /\ Den(y) = 1
      /\ RealObject(x) /\ RealObject(y) /\ SignOf(y) = Sign(R)
  BY IntegerParts, SignOfExact DEF RealObject
<1> HIDE DEF L, R
<1>2. CASE BothFixnums(x, y)
  <2>1. x.n = L /\ L \in FixnumMin .. FixnumMax /\ y.n = R /\ R \in FixnumMin .. FixnumMax
    BY <1>2, OneOrOther DEF BothFixnums, L, R
  <2>2. r = DivFixnums(L, R)
    BY <1>2, <2>1 DEF IntegerDiv
  <2> HIDE DEF r
  <2>3. IntegerObject(r) /\ Leaves(L, R, NumberOf(r))
    BY <1>1, <2>1, <2>2, DivFixnumsExact
  <2>4. QED
    BY <2>3 DEF L, R, r
<1>3. ASSUME NEW z, RealObject(z), NEW Z \in Int, Z > 0, Num(z) = Z, Den(z) = 1
      PROVE  LET w == Floor(DivReal(x, z))
             IN  IntegerObject(w) /\ NumberOf(w) \in Int /\ Z * NumberOf(w) =< L /\ L < Z * NumberOf(w) + Z
  <2> DEFINE n == MulInt(Nume(x), Deno(z))
             d == MulInt(Deno(x), Nume(z))
             w == DivReal(x, z)
  <2>1. IntegerObject(d) /\ NumberOf(d) = Den(x) * Num(z)
    BY <1>1, <1>3, Crossed
  <2> HIDE DEF n, d
  <2>2. NumberOf(d) > 0
    BY <1>1, <1>3, <2>1
  <2>3. ~DoesNotFit(n, d)
    BY <2>1, <2>2, PositiveFits
  <2>4. Num(z) # 0
    BY <1>3
  <2> HIDE DEF w
  <2>5. StandsFor(w, Num(x) * Den(z), Den(x) * Num(z))
    BY <1>1, <1>3, <2>3, <2>4, DivRealExact DEF w, n, d
  <2>6. Num(x) * Den(z) = L /\ Den(x) * Num(z) = Z
    BY <1>1, <1>3
  <2>7. StandsFor(w, L, Z)
    BY <2>5, <2>6
  <2>8. IntegerObject(Floor(w)) /\ NumberOf(Floor(w)) \in Int
        /\ Z * NumberOf(Floor(w)) =< L /\ L < Z * NumberOf(Floor(w)) + Z
    BY <1>1, <1>3, <2>7, FloorLeaves
  <2>9. QED
    BY <2>8 DEF w
<1>4. CASE ~BothFixnums(x, y) /\ R > 0
  <2> DEFINE w == Floor(DivReal(x, y))
             f == NumberOf(w)
             p == R * f
  <2>1. r = w
    BY <1>1, <1>4 DEF IntegerDiv, Sign
  <2>2. IntegerObject(w) /\ f \in Int /\ p =< L /\ L < p + R
    BY <1>1, <1>3, <1>4
  <2> HIDE DEF w, r
  <2>3. p \in Int /\ f \in Int /\ p = R * f
    BY <1>1, <2>2
  <2> HIDE DEF f, p
  <2>4. Abs(R) = R
    BY <1>1, <1>4 DEF Abs
  <2>5. Leaves(L, R, f)
    BY <1>1, <2>2, <2>3, <2>4, LeavesIs
  <2>6. QED
    BY <2>1, <2>2, <2>5 DEF L, R, f, r
<1>5. CASE ~BothFixnums(x, y) /\ R < 0
  <2> DEFINE z == NegateReal(y)
             Z == -R
             w == Floor(DivReal(x, z))
             f == NumberOf(w)
             q == NegateReal(w)
             p == Z * f
             mf == -f
  <2>1. r = q
    BY <1>1, <1>5 DEF IntegerDiv, Sign
  <2>2. RealObject(z) /\ Num(z) = Z /\ Den(z) = 1 /\ Z \in Int /\ Z > 0
    BY <1>1, <1>5, NegateRealExact
  <2> HIDE DEF z, Z
  <2>3. IntegerObject(w) /\ f \in Int /\ p =< L /\ L < p + Z
    BY <1>3, <2>2
  <2> HIDE DEF w, r
  <2>4. IntegerObject(q) /\ NumberOf(q) = mf
    <3>1. IsInteger(w)
      BY <2>3, IntegerParts
    <3>2. q = NegateInt(w)
      BY <3>1 DEF NegateReal
    <3>3. QED
      BY <2>3, <3>2, NegateExact
  <2>5. p \in Int /\ mf \in Int /\ R * mf = p
    <3>1. R * (-f) = (-R) * f /\ (-R) * f \in Int
      BY <1>1, <2>3
    <3>2. QED
      BY <2>3, <3>1 DEF Z
  <2>6. Abs(R) = Z
    BY <1>1, <1>5 DEF Abs, Z
  <2> HIDE DEF f, p, mf, q
  <2>7. Leaves(L, R, mf)
    BY <1>1, <2>3, <2>5, <2>6, LeavesIs
  <2>8. QED
    BY <2>1, <2>4, <2>7 DEF L, R, r
<1>6. QED
  BY <1>1, <1>2, <1>4, <1>5
=============================================================================
