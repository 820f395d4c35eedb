--------------------------- MODULE ArithmeticProofs ---------------------------
(***************************************************************************)
(* Digits and ExactIntegers for every width of a digit and numbers of any  *)
(* size: the digit loops compute sums, differences, products and the order *)
(* of numbers, and the operations on integers are exact and answer in the  *)
(* one form an integer has.                                                *)
(***************************************************************************)
EXTENDS ExactIntegers, SequenceTheorems, FunctionTheorems, FiniteSetTheorems,
        WellFoundedInduction, TLAPS

(***************************************************************************)
(* Induction along the places of an array, upwards and downwards, and      *)
(* functions that are defined along them.                                  *)
(***************************************************************************)
LEMMA Least ==
  ASSUME NEW S \in SUBSET Nat, S # {}
  PROVE  \E x \in S : \A y \in S : x <= y
<1> DEFINE T == {0 .. x : x \in S}
           R == StrictSubsetOrdering(Nat)
<1>1. T \subseteq FiniteSubsetsOf(Nat) /\ T # {}
  <2>1. ASSUME NEW x \in S PROVE 0 .. x \in FiniteSubsetsOf(Nat)
    <3>1. x \in Int /\ 0 \in Int /\ 0 .. x \subseteq Nat
      OBVIOUS
    <3>2. IsFiniteSet(0 .. x)
      BY <3>1, FS_Interval
    <3>3. QED
      BY <3>1, <3>2 DEF FiniteSubsetsOf
  <2>2. QED
    BY <2>1
<1>2. PICK a \in T : \A b \in T : ~(<<b, a>> \in R)
  <2> HIDE DEF R, T
  <2>1. IsWellFoundedOn(R, FiniteSubsetsOf(Nat))
    BY FS_StrictSubsetOrderingWellFounded DEF R
  <2>2. QED
    BY <1>1, <2>1, WFMin
<1>3. PICK x \in S : a = 0 .. x
  OBVIOUS
<1>4. ASSUME NEW y \in S, ~(x <= y) PROVE FALSE
  <2>1. 0 .. y \in T /\ 0 .. y \subseteq a /\ 0 .. y # a
    BY <1>3, <1>4
  <2>2. a \subseteq Nat /\ 0 .. y \subseteq Nat
    BY <1>3
  <2>3. QED
    BY <1>2, <2>1, <2>2 DEF StrictSubsetOrdering
<1>5. QED
  BY <1>4

LEMMA Ascent ==
  ASSUME NEW n \in Nat, NEW G, 0 \in G,
         \A k \in 0 .. (n - 1) : k \in G => k + 1 \in G
  PROVE  0 .. n \subseteq G
<1> DEFINE S == (0 .. n) \ G
<1>1. CASE S = {}
  BY <1>1
<1>2. CASE S # {}
  <2>1. S \in SUBSET Nat
    OBVIOUS
  <2>2. PICK x \in S : \A y \in S : x <= y
    <3> HIDE DEF S
    <3>1. QED
      BY <1>2, <2>1, Least
  <2>3. x - 1 \in 0 .. (n - 1) /\ x - 1 \notin S
    BY <2>2
  <2>4. QED
    BY <2>2, <2>3
<1>3. QED
  BY <1>1, <1>2

LEMMA Descent ==
  ASSUME NEW n \in Nat, NEW G, n \in G,
         \A k \in 0 .. (n - 1) : k + 1 \in G => k \in G
  PROVE  0 .. n \subseteq G
<1> DEFINE H == {k \in 0 .. n : n - k \in G}
<1>1. 0 \in H
  OBVIOUS
<1>2. ASSUME NEW k \in 0 .. (n - 1), k \in H PROVE k + 1 \in H
  <2>1. (n - k - 1) \in 0 .. (n - 1) /\ (n - k - 1) + 1 = n - k /\ n - (k + 1) = n - k - 1
    OBVIOUS
  <2>2. n - k \in G
    BY <1>2
  <2>3. QED
    BY <2>1, <2>2
<1>3. 0 .. n \subseteq H
  <2> HIDE DEF H
  <2>1. QED
    BY <1>1, <1>2, Ascent
<1>4. ASSUME NEW k \in 0 .. n PROVE k \in G
  <2>1. n - k \in H /\ n - (n - k) = k
    BY <1>3
  <2>2. QED
    BY <2>1
<1>5. QED
  BY <1>4

(* A function that starts with a at 0, or at n, and takes steps g.         *)
Upward(n, S, a, g) ==
  \E f \in [0 .. n -> S] : f[0] = a /\ \A i \in 1 .. n : f[i] = g[i][f[i - 1]]

Downward(n, S, a, g) ==
  \E f \in [0 .. n -> S] : f[n] = a /\ \A k \in 0 .. (n - 1) : f[k] = g[k][f[k + 1]]

LEMMA UpwardExists ==
  ASSUME NEW n \in Nat, NEW S, NEW a \in S, NEW g \in [1 .. n -> [S -> S]]
  PROVE  Upward(n, S, a, g)
<1> DEFINE Good(m, f) == f[0] = a /\ \A i \in 1 .. m : f[i] = g[i][f[i - 1]]
           G == {m \in 0 .. n : \E f \in [0 .. m -> S] : Good(m, f)}
<1>1. 0 \in G
  <2> DEFINE f == [i \in 0 .. 0 |-> a]
  <2>1. f \in [0 .. 0 -> S] /\ Good(0, f)
    OBVIOUS
  <2>2. \E e \in [0 .. 0 -> S] : Good(0, e)
    <3> HIDE DEF f, Good
    <3>1. QED
      BY <2>1
  <2>3. QED
    <3> HIDE DEF Good
    <3>1. QED
      BY <2>2
<1>2. ASSUME NEW m \in 0 .. (n - 1), m \in G PROVE m + 1 \in G
  <2>1. PICK f \in [0 .. m -> S] : Good(m, f)
    BY <1>2
  <2> DEFINE h == [i \in 0 .. (m + 1) |-> IF i = m + 1 THEN g[m + 1][f[m]] ELSE f[i]]
  <2>2. h \in [0 .. (m + 1) -> S]
    <3>1. m + 1 \in 1 .. n /\ g[m + 1] \in [S -> S] /\ f[m] \in S
      OBVIOUS
    <3>2. g[m + 1][f[m]] \in S
      BY <3>1
    <3>3. QED
      BY <3>2
  <2>3. h[0] = a
    BY <2>1
  <2>4. ASSUME NEW i \in 1 .. (m + 1) PROVE h[i] = g[i][h[i - 1]]
    <3>1. h[i - 1] = f[i - 1]
      OBVIOUS
    <3>2. CASE i = m + 1
      BY <3>1, <3>2
    <3>3. CASE i # m + 1
      <4>1. i \in 1 .. m /\ h[i] = f[i]
        BY <3>3
      <4>2. QED
        BY <2>1, <3>1, <4>1
    <3>4. QED
      BY <3>2, <3>3
  <2> HIDE DEF h, G
  <2>5. Good(m + 1, h)
    BY <2>2, <2>3, <2>4
  <2>6. \E e \in [0 .. (m + 1) -> S] : Good(m + 1, e)
    <3> HIDE DEF Good
    <3>1. QED
      BY <2>2, <2>5
  <2>7. m + 1 \in 0 .. n
    OBVIOUS
  <2>8. QED
    <3> HIDE DEF Good
    <3>1. QED
      BY <2>6, <2>7 DEF G
<1>3. n \in G
  <2> HIDE DEF G
  <2>1. 0 .. n \subseteq G
    BY <1>1, <1>2, Ascent
  <2>2. QED
    BY <2>1
<1>4. QED
  BY <1>3 DEF Upward

LEMMA DownwardExists ==
  ASSUME NEW n \in Nat, NEW S, NEW a \in S, NEW g \in [0 .. (n - 1) -> [S -> S]]
  PROVE  Downward(n, S, a, g)
<1> DEFINE h == [i \in 1 .. n |-> g[n - i]]
<1>1. h \in [1 .. n -> [S -> S]]
  OBVIOUS
<1>2. PICK f \in [0 .. n -> S] : f[0] = a /\ \A i \in 1 .. n : f[i] = h[i][f[i - 1]]
  <2> HIDE DEF h
  <2>1. Upward(n, S, a, h)
    BY <1>1, UpwardExists
  <2>2. QED
    BY <2>1 DEF Upward
<1> DEFINE F == [k \in 0 .. n |-> f[n - k]]
<1>3. F \in [0 .. n -> S] /\ F[n] = a
  <2>1. \A k \in 0 .. n : n - k \in 0 .. n
    OBVIOUS
  <2>2. QED
    BY <1>2, <2>1
<1>4. ASSUME NEW k \in 0 .. (n - 1) PROVE F[k] = g[k][F[k + 1]]
  <2>1. n - k \in 1 .. n /\ n - (n - k) = k /\ (n - k) - 1 = n - (k + 1)
    OBVIOUS
  <2>2. f[n - k] = h[n - k][f[(n - k) - 1]] /\ h[n - k] = g[k]
    BY <1>2, <2>1
  <2>3. F[k] = f[n - k] /\ F[k + 1] = f[n - (k + 1)]
    OBVIOUS
  <2>4. QED
    BY <2>1, <2>2, <2>3
<1>5. QED
  <2> HIDE DEF F
  <2>1. QED
    BY <1>3, <1>4 DEF Downward

(***************************************************************************)
(* A power of two has the subsets of as many things.                       *)
(***************************************************************************)
LEMMA PowerOfTwo ==
  ASSUME NEW n \in Nat
  PROVE  /\ 2 ^ n \in Nat /\ 2 ^ n > 0
         /\ 2 ^ (n + 1) = 2 * 2 ^ n
<1> DEFINE P == SUBSET (1 .. n)
           Q == {s \cup {0} : s \in P}
<1>1. IsFiniteSet(1 .. n) /\ Cardinality(1 .. n) = n
  BY FS_Interval
<1>2. IsFiniteSet(P) /\ Cardinality(P) = 2 ^ n
  BY <1>1, FS_SUBSET
<1>3. SUBSET (0 .. n) = P \cup Q
  <2>1. ASSUME NEW T \in SUBSET (0 .. n), 0 \in T PROVE T \in Q
    <3>1. T \ {0} \in P /\ T = (T \ {0}) \cup {0}
      BY <2>1
    <3>2. QED
      BY <3>1
  <2>2. ASSUME NEW T \in SUBSET (0 .. n), 0 \notin T PROVE T \in P
    BY <2>2
  <2>3. ASSUME NEW T \in P PROVE T \in SUBSET (0 .. n) /\ T \cup {0} \in SUBSET (0 .. n)
    OBVIOUS
  <2>4. SUBSET (0 .. n) \subseteq P \cup Q
    <3> HIDE DEF P, Q
    <3>1. QED
      BY <2>1, <2>2
  <2>5. \A T \in Q : \E s \in P : T = s \cup {0}
    OBVIOUS
  <2>6. P \cup Q \subseteq SUBSET (0 .. n)
    <3> HIDE DEF P, Q
    <3>1. QED
      BY <2>3, <2>5
  <2>7. QED
    <3> HIDE DEF P, Q
    <3>1. QED
      BY <2>4, <2>6
<1>4. P \cap Q = {}
  OBVIOUS
<1>5. IsFiniteSet(0 .. n) /\ Cardinality(0 .. n) = n + 1
  BY FS_Interval
<1>6. Cardinality(SUBSET (0 .. n)) = 2 ^ (n + 1)
  BY <1>5, FS_SUBSET
<1>7. IsFiniteSet(Q) /\ Cardinality(Q) = Cardinality(P)
  <2> DEFINE f == [s \in P |-> s \cup {0}]
  <2>1. f \in Surjection(P, Q)
    BY DEF Surjection
  <2>2. ASSUME NEW s \in P, NEW t \in P, f[s] = f[t] PROVE s = t
    <3>1. 0 \notin s /\ 0 \notin t
      OBVIOUS
    <3>2. s = (s \cup {0}) \ {0} /\ t = (t \cup {0}) \ {0}
      BY <3>1
    <3>3. QED
      BY <2>2, <3>2
  <2>3. f \in Bijection(P, Q)
    BY <2>1, <2>2, Fun_IsBij DEF Injection, Surjection, Bijection, IsInjective
  <2>4. QED
    BY <1>2, <2>3, FS_Bijection DEF ExistsBijection
<1>8. Cardinality(P \cup Q) = Cardinality(P) + Cardinality(Q) - Cardinality(P \cap Q)
  BY <1>2, <1>7, FS_Union
<1>9. Cardinality(P \cap Q) = 0
  BY <1>4, FS_EmptySet
<1>10. 2 ^ n \in Nat
  BY <1>2, FS_CardinalityType
<1>11. 2 ^ n > 0
  <2>1. P # {}
    OBVIOUS
  <2>2. QED
    BY <1>2, <1>10, <2>1, FS_EmptySet
<1>12. 2 ^ (n + 1) = 2 ^ n + 2 ^ n - 0
  <2> HIDE DEF P, Q
  <2>1. Cardinality(P \cup Q) = 2 ^ (n + 1)
    BY <1>3, <1>6, Zenon
  <2>2. Cardinality(P \cup Q) = 2 ^ n + 2 ^ n - 0
    BY <1>2, <1>7, <1>8, <1>9
  <2>3. QED
    BY <2>1, <2>2
<1>13. QED
  BY <1>10, <1>11, <1>12

LEMMA BaseType == Base \in Nat /\ Base > 1
<1>1. DigitBits - 1 \in Nat /\ (DigitBits - 1) + 1 = DigitBits
  BY DigitBitsAssumption
<1>2. 2 ^ (DigitBits - 1) \in Nat /\ 2 ^ (DigitBits - 1) > 0 /\ 2 ^ ((DigitBits - 1) + 1) = 2 * 2 ^ (DigitBits - 1)
  BY <1>1, PowerOfTwo
<1>3. Base = 2 * 2 ^ (DigitBits - 1)
  BY <1>1, <1>2 DEF Base
<1>4. QED
  BY <1>2, <1>3

(***************************************************************************)
(* One place: a digit and a multiple of the base.                          *)
(***************************************************************************)
LEMMA Place ==
  ASSUME NEW a \in Int
  PROVE  a \div Base \in Int /\ a % Base \in 0 .. (Base - 1) /\ a = (a % Base) + Base * (a \div Base)
<1>1. \A b \in Nat : b > 1 => a \div b \in Int /\ a % b \in 0 .. (b - 1) /\ a = (a % b) + b * (a \div b)
  OBVIOUS
<1>2. QED
  BY <1>1, BaseType

LEMMA BaseTimes ==
  ASSUME NEW x \in Int
  PROVE  /\ Base * x \in Int
         /\ x >= 0 => Base * x >= 0
         /\ x >= 1 => Base * x >= Base
         /\ x =< -1 => Base * x =< -Base
         /\ Base * (-x) = -(Base * x)
<1>1. \A b \in Nat : /\ b * x \in Int
                     /\ x >= 0 => b * x >= 0
                     /\ x >= 1 => b * x >= b
                     /\ x =< -1 => b * x =< -b
                     /\ b * (-x) = -(b * x)
  OBVIOUS
<1>2. QED
  BY <1>1, BaseType

LEMMA BaseLinear ==
  ASSUME NEW c \in Int, NEW x \in Int, NEW y \in Int
  PROVE  Base * (c * x + y) = c * (Base * x) + Base * y
<1>1. \A b \in Nat : b * (c * x + y) = c * (b * x) + b * y
  OBVIOUS
<1>2. QED
  BY <1>1, BaseType

LEMMA Regroup ==
  ASSUME NEW c \in Int, NEW a \in Int, NEW b \in Int, NEW d \in Int, NEW e \in Int
  PROVE  c * (a + b) + (d + e) = (c * a + d) + (c * b + e)
  OBVIOUS

LEMMA BasePlus ==
  ASSUME NEW x \in Int, NEW y \in Int
  PROVE  Base * (x + y) = Base * x + Base * y /\ Base * (x - y) = Base * x - Base * y
<1>1. \A b \in Nat : b * (x + y) = b * x + b * y /\ b * (x - y) = b * x - b * y
  OBVIOUS
<1>2. QED
  BY <1>1, BaseType

LEMMA OnePlace ==
  ASSUME NEW d \in 0 .. (Base - 1), NEW c \in 0 .. (Base - 1), NEW x \in Int, NEW y \in Int,
         d + Base * x = c + Base * y
  PROVE  d = c /\ x = y
<1>1. Base * (x - y) = c - d
  <2>1. Base * x \in Int /\ Base * y \in Int
    BY BaseTimes
  <2>2. QED
    BY <2>1, BasePlus, BaseType
<1>2. x - y < 1 /\ x - y > -1
  BY <1>1, BaseTimes, BaseType
<1>3. QED
  BY <1>1, <1>2, BaseType, BaseTimes

(***************************************************************************)
(* What terms stand for.                                                   *)
(***************************************************************************)
Terms(term, n, T) == \A i \in 1 .. n : term[i] \in T

ValuesOf(v, term, n, top) ==
  /\ v \in [0 .. n -> Int]
  /\ v[n] = top
  /\ \A k \in 0 .. (n - 1) : v[k] = term[k + 1] + Base * v[k + 1]

LEMMA ValuesDef ==
  ASSUME NEW n \in Nat, NEW term, Terms(term, n, Int), NEW top \in Int
  PROVE  ValuesOf(ValuesFrom(term, n, top), term, n, top)
<1> DEFINE F(v) == [k \in 0 .. n |-> IF k = n THEN top ELSE term[k + 1] + Base * v[k + 1]]
           g == [k \in 0 .. (n - 1) |-> [x \in Int |-> term[k + 1] + Base * x]]
<1>1. g \in [0 .. (n - 1) -> [Int -> Int]]
  <2>1. ASSUME NEW k \in 0 .. (n - 1), NEW x \in Int PROVE term[k + 1] + Base * x \in Int
    BY BaseTimes DEF Terms
  <2>2. QED
    BY <2>1
<1>2. PICK f \in [0 .. n -> Int] : f[n] = top /\ \A k \in 0 .. (n - 1) : f[k] = g[k][f[k + 1]]
  <2> HIDE DEF g
  <2>1. Downward(n, Int, top, g)
    BY <1>1, DownwardExists
  <2>2. QED
    BY <2>1 DEF Downward
<1>3. f = F(f)
  <2>1. ASSUME NEW k \in 0 .. n PROVE f[k] = F(f)[k]
    <3>1. CASE k = n
      BY <1>2, <3>1
    <3>2. CASE k # n
      <4>1. k \in 0 .. (n - 1) /\ k + 1 \in 0 .. n
        BY <3>2
      <4>2. f[k] = g[k][f[k + 1]] /\ f[k + 1] \in Int
        BY <1>2, <4>1
      <4>3. QED
        BY <3>2, <4>1, <4>2
    <3>3. QED
      BY <3>1, <3>2
  <2>2. QED
    BY <2>1
<1>4. ValuesFrom(term, n, top) = F(ValuesFrom(term, n, top))
  <2>1. ValuesFrom(term, n, top) = CHOOSE v : v = F(v)
    BY DEF ValuesFrom
  <2>2. \E v : v = F(v)
    BY <1>3
  <2>3. QED
    <3> HIDE DEF F
    <3>1. QED
      BY <2>1, <2>2
<1>5. ASSUME NEW v, v = F(v) PROVE v \in [0 .. n -> Int]
  <2>1. v[n] = top
    BY <1>5
  <2>2. \A k \in 0 .. (n - 1) : v[k] = term[k + 1] + Base * v[k + 1]
    BY <1>5
  <2> DEFINE G == {k \in 0 .. n : v[k] \in Int}
  <2>3. n \in G
    BY <2>1
  <2>4. ASSUME NEW k \in 0 .. (n - 1), k + 1 \in G PROVE k \in G
    <3>1. v[k + 1] \in Int /\ term[k + 1] \in Int
      BY <2>4 DEF Terms
    <3>2. Base * v[k + 1] \in Int
      BY <3>1, BaseTimes
    <3>3. v[k] = term[k + 1] + Base * v[k + 1]
      BY <2>2
    <3>4. QED
      BY <3>1, <3>2, <3>3
  <2>5. 0 .. n \subseteq G
    <3> HIDE DEF G
    <3>1. QED
      BY <2>3, <2>4, Descent
  <2>6. \A k \in 0 .. n : v[k] \in Int
    BY <2>5
  <2>7. v = [k \in 0 .. n |-> v[k]]
    BY <1>5
  <2>8. QED
    BY <2>6, <2>7
<1>6. QED
  <2> DEFINE v == ValuesFrom(term, n, top)
  <2>1. v \in [0 .. n -> Int]
    <3> HIDE DEF F
    <3>1. QED
      BY <1>4, <1>5
  <2>2. v = F(v)
    BY <1>4
  <2> HIDE DEF v
  <2>3. v[n] = top
    BY <2>2
  <2>4. ASSUME NEW k \in 0 .. (n - 1) PROVE v[k] = term[k + 1] + Base * v[k + 1]
    BY <2>2
  <2>5. QED
    BY <2>1, <2>3, <2>4 DEF v, ValuesOf

LEMMA ValuesAre ==
  ASSUME NEW n \in Nat, NEW term, Terms(term, n, Int), NEW top \in Int, NEW f,
         f[n] = top, \A k \in 0 .. (n - 1) : f[k] = term[k + 1] + Base * f[k + 1]
  PROVE  \A k \in 0 .. n : f[k] = ValuesFrom(term, n, top)[k]
<1> DEFINE v == ValuesFrom(term, n, top)
           G == {k \in 0 .. n : f[k] = v[k]}
<1>1. v[n] = top /\ \A k \in 0 .. (n - 1) : v[k] = term[k + 1] + Base * v[k + 1]
  <2>1. ValuesOf(v, term, n, top)
    BY ValuesDef
  <2>2. QED
    BY <2>1 DEF ValuesOf
<1> HIDE DEF v
<1>2. n \in G
  BY <1>1
<1>3. ASSUME NEW k \in 0 .. (n - 1), k + 1 \in G PROVE k \in G
  <2>1. f[k + 1] = v[k + 1]
    BY <1>3
  <2>2. f[k] = v[k]
    BY <1>1, <2>1
  <2>3. QED
    BY <2>2
<1>4. 0 .. n \subseteq G
  <2> HIDE DEF G
  <2>1. QED
    BY <1>2, <1>3, Descent
<1>5. QED
  BY <1>4 DEF v

(* A multiple of some terms and others beside them.                        *)
Combined(w, c, t, u, n) == \A i \in 1 .. n : w[i] = c * t[i] + u[i]

LEMMA Linear ==
  ASSUME NEW n \in Nat, NEW c \in Int, NEW t, NEW u, NEW w, NEW x \in Int, NEW y \in Int, NEW z,
         Terms(t, n, Int), Terms(u, n, Int), Combined(w, c, t, u, n), z = c * x + y
  PROVE  Total(w, n, z) = c * Total(t, n, x) + Total(u, n, y)
<1> DEFINE T == ValuesFrom(t, n, x)
           U == ValuesFrom(u, n, y)
           f == [k \in 0 .. n |-> c * T[k] + U[k]]
<1>1. /\ T \in [0 .. n -> Int] /\ T[n] = x
      /\ \A k \in 0 .. (n - 1) : T[k] = t[k + 1] + Base * T[k + 1]
  <2>1. ValuesOf(T, t, n, x)
    BY ValuesDef
  <2>2. QED
    BY <2>1 DEF ValuesOf
<1>2. /\ U \in [0 .. n -> Int] /\ U[n] = y
      /\ \A k \in 0 .. (n - 1) : U[k] = u[k + 1] + Base * U[k + 1]
  <2>1. ValuesOf(U, u, n, y)
    BY ValuesDef
  <2>2. QED
    BY <2>1 DEF ValuesOf
<1>3. \A i \in 1 .. n : t[i] \in Int /\ u[i] \in Int
  BY DEF Terms
<1> HIDE DEF T, U
<1>4. f[n] = z
  BY <1>1, <1>2
<1>5. ASSUME NEW k \in 0 .. (n - 1) PROVE f[k] = w[k + 1] + Base * f[k + 1]
  <2>1. k + 1 \in 1 .. n /\ T[k + 1] \in Int /\ U[k + 1] \in Int /\ t[k + 1] \in Int /\ u[k + 1] \in Int
    BY <1>1, <1>2, <1>3
  <2>2. Base * (c * T[k + 1] + U[k + 1]) = c * (Base * T[k + 1]) + Base * U[k + 1]
    <3> DEFINE a == T[k + 1]
               b == U[k + 1]
    <3>1. a \in Int /\ b \in Int
      BY <2>1
    <3> HIDE DEF a, b
    <3>2. Base * (c * a + b) = c * (Base * a) + Base * b
      BY <3>1, BaseLinear
    <3>3. QED
      BY <3>2 DEF a, b
  <2>3. f[k] = c * (t[k + 1] + Base * T[k + 1]) + (u[k + 1] + Base * U[k + 1])
    BY <1>1, <1>2
  <2>4. f[k + 1] = c * T[k + 1] + U[k + 1] /\ w[k + 1] = c * t[k + 1] + u[k + 1]
    BY <2>1 DEF Combined
  <2> HIDE DEF f
  <2>5. Base * T[k + 1] \in Int /\ Base * U[k + 1] \in Int
    BY <2>1, BaseTimes
  <2>6. c * (t[k + 1] + Base * T[k + 1]) + (u[k + 1] + Base * U[k + 1])
          = (c * t[k + 1] + u[k + 1]) + (c * (Base * T[k + 1]) + Base * U[k + 1])
    BY <2>1, <2>5, Regroup
  <2>7. QED
    BY <2>2, <2>3, <2>4, <2>6
<1>6. Terms(w, n, Int) /\ z \in Int
  <2>1. \A i \in 1 .. n : w[i] \in Int
    BY <1>3 DEF Combined
  <2>2. QED
    BY <2>1 DEF Terms
<1>7. \A k \in 0 .. n : f[k] = ValuesFrom(w, n, z)[k]
  <2> HIDE DEF f
  <2>1. QED
    BY <1>4, <1>5, <1>6, ValuesAre
<1>8. f[0] = Total(w, n, z) /\ f[0] = c * T[0] + U[0]
  BY <1>7 DEF Total
<1>9. QED
  BY <1>8 DEF T, U, Total

LEMMA TotalType ==
  ASSUME NEW n \in Nat, NEW term, Terms(term, n, Int), NEW top \in Int
  PROVE  Total(term, n, top) \in Int
<1>1. ValuesOf(ValuesFrom(term, n, top), term, n, top)
  BY ValuesDef
<1>2. QED
  BY <1>1 DEF ValuesOf, Total

(* What is above place m is the top of what is below.                      *)
LEMMA Split ==
  ASSUME NEW n \in Nat, NEW m \in 0 .. n, NEW term, Terms(term, n, Int), NEW top \in Int
  PROVE  \A k \in 0 .. m :
           ValuesFrom(term, n, top)[k] = ValuesFrom(term, m, ValuesFrom(term, n, top)[m])[k]
<1> DEFINE v == ValuesFrom(term, n, top)
<1>1. v \in [0 .. n -> Int] /\ \A k \in 0 .. (n - 1) : v[k] = term[k + 1] + Base * v[k + 1]
  <2>1. ValuesOf(v, term, n, top)
    BY ValuesDef
  <2>2. QED
    BY <2>1 DEF ValuesOf
<1>2. Terms(term, m, Int)
  BY DEF Terms
<1> HIDE DEF v
<1>3. m \in Nat /\ v[m] \in Int /\ \A k \in 0 .. (m - 1) : v[k] = term[k + 1] + Base * v[k + 1]
  BY <1>1
<1>4. \A k \in 0 .. m : v[k] = ValuesFrom(term, m, v[m])[k]
  BY <1>2, <1>3, ValuesAre
<1>5. QED
  BY <1>4 DEF v

(* The same terms and the same top.                                        *)
LEMMA SameTerms ==
  ASSUME NEW n \in Nat, NEW t, NEW u, Terms(t, n, Int), \A i \in 1 .. n : t[i] = u[i], NEW top \in Int
  PROVE  \A k \in 0 .. n : ValuesFrom(t, n, top)[k] = ValuesFrom(u, n, top)[k]
<1> DEFINE v == ValuesFrom(t, n, top)
<1>1. v[n] = top /\ \A k \in 0 .. (n - 1) : v[k] = t[k + 1] + Base * v[k + 1]
  <2>1. ValuesOf(v, t, n, top)
    BY ValuesDef
  <2>2. QED
    BY <2>1 DEF ValuesOf
<1>2. Terms(u, n, Int)
  BY DEF Terms
<1> HIDE DEF v
<1>3. \A k \in 0 .. (n - 1) : v[k] = u[k + 1] + Base * v[k + 1]
  BY <1>1
<1>4. \A k \in 0 .. n : v[k] = ValuesFrom(u, n, top)[k]
  BY <1>1, <1>2, <1>3, ValuesAre
<1>5. QED
  BY <1>4 DEF v

(* The top, when there is one, decides the sign: terms are less than Base. *)
LEMMA TopSign ==
  ASSUME NEW n \in Nat, NEW term, Terms(term, n, (1 - Base) .. (Base - 1)), NEW top \in Int
  PROVE  \A k \in 0 .. n : /\ top > 0 => ValuesFrom(term, n, top)[k] > 0
                           /\ top < 0 => ValuesFrom(term, n, top)[k] < 0
<1> DEFINE v == ValuesFrom(term, n, top)
           G == {k \in 0 .. n : (top > 0 => v[k] > 0) /\ (top < 0 => v[k] < 0)}
<1>1. Terms(term, n, Int)
  BY BaseType DEF Terms
<1>2. v \in [0 .. n -> Int] /\ v[n] = top /\ \A k \in 0 .. (n - 1) : v[k] = term[k + 1] + Base * v[k + 1]
  <2>1. ValuesOf(v, term, n, top)
    BY <1>1, ValuesDef
  <2>2. QED
    BY <2>1 DEF ValuesOf
<1> HIDE DEF v
<1>3. n \in G
  BY <1>2
<1>4. ASSUME NEW k \in 0 .. (n - 1), k + 1 \in G PROVE k \in G
  <2>1. v[k + 1] \in Int /\ term[k + 1] \in (1 - Base) .. (Base - 1)
    BY <1>2 DEF Terms
  <2>2. /\ v[k + 1] > 0 => Base * v[k + 1] >= Base
        /\ v[k + 1] < 0 => Base * v[k + 1] =< -Base
        /\ Base * v[k + 1] \in Int
    BY <2>1, BaseTimes, BaseType
  <2>3. v[k] = term[k + 1] + Base * v[k + 1]
    BY <1>2
  <2>4. (top > 0 => v[k] > 0) /\ (top < 0 => v[k] < 0)
    <3> DEFINE a == v[k + 1]
               d == term[k + 1]
               p == Base * a
    <3>1. d \in Int /\ 1 - Base =< d /\ d =< Base - 1 /\ p \in Int /\ v[k] = d + p /\ Base \in Nat
      BY <2>1, <2>2, <2>3, BaseType
    <3>2. (a > 0 => p >= Base) /\ (a < 0 => p =< -Base)
      BY <2>2
    <3>3. (top > 0 => a > 0) /\ (top < 0 => a < 0)
      BY <1>4
    <3> HIDE DEF a, d, p
    <3>4. (top > 0 => d + p > 0) /\ (top < 0 => d + p < 0)
      BY <3>1, <3>2, <3>3
    <3>5. QED
      BY <3>1, <3>4
  <2>5. QED
    BY <2>4
<1>5. 0 .. n \subseteq G
  <2> HIDE DEF G
  <2>1. QED
    BY <1>3, <1>4, Descent
<1>6. QED
  BY <1>5 DEF v

(* Nothing is negative that has no negative term.                          *)
LEMMA NotNegative ==
  ASSUME NEW n \in Nat, NEW term, Terms(term, n, Nat), NEW top \in Nat
  PROVE  \A k \in 0 .. n : ValuesFrom(term, n, top)[k] \in Nat
<1> DEFINE v == ValuesFrom(term, n, top)
           G == {k \in 0 .. n : v[k] \in Nat}
<1>1. Terms(term, n, Int)
  BY DEF Terms
<1>2. v[n] = top /\ \A k \in 0 .. (n - 1) : v[k] = term[k + 1] + Base * v[k + 1]
  <2>1. ValuesOf(v, term, n, top)
    BY <1>1, ValuesDef
  <2>2. QED
    BY <2>1 DEF ValuesOf
<1> HIDE DEF v
<1>3. n \in G
  BY <1>2
<1>4. ASSUME NEW k \in 0 .. (n - 1), k + 1 \in G PROVE k \in G
  <2>1. v[k + 1] \in Nat /\ term[k + 1] \in Nat
    BY <1>4 DEF Terms
  <2>2. Base * v[k + 1] \in Nat
    BY <2>1, BaseTimes
  <2>3. v[k] = term[k + 1] + Base * v[k + 1]
    BY <1>2
  <2>4. v[k] \in Nat
    BY <2>1, <2>2, <2>3
  <2>5. QED
    BY <2>4
<1>5. 0 .. n \subseteq G
  <2> HIDE DEF G
  <2>1. QED
    BY <1>3, <1>4, Descent
<1>6. QED
  BY <1>5 DEF v

(* DigitSet of the same value are the same.                                  *)
LEMMA OneWay ==
  ASSUME NEW n \in Nat, NEW e, NEW f, NEW x \in Int, NEW y \in Int,
         Terms(e, n, 0 .. (Base - 1)), Terms(f, n, 0 .. (Base - 1)),
         Total(e, n, x) = Total(f, n, y)
  PROVE  x = y /\ \A i \in 1 .. n : e[i] = f[i]
<1> DEFINE v == ValuesFrom(e, n, x)
           w == ValuesFrom(f, n, y)
           G == {k \in 0 .. n : v[k] = w[k] /\ \A i \in 1 .. k : e[i] = f[i]}
<1>1. Terms(e, n, Int) /\ Terms(f, n, Int)
  BY BaseType DEF Terms
<1>2. v \in [0 .. n -> Int] /\ v[n] = x /\ \A k \in 0 .. (n - 1) : v[k] = e[k + 1] + Base * v[k + 1]
  <2>1. ValuesOf(v, e, n, x)
    BY <1>1, ValuesDef
  <2>2. QED
    BY <2>1 DEF ValuesOf
<1>3. w \in [0 .. n -> Int] /\ w[n] = y /\ \A k \in 0 .. (n - 1) : w[k] = f[k + 1] + Base * w[k + 1]
  <2>1. ValuesOf(w, f, n, y)
    BY <1>1, ValuesDef
  <2>2. QED
    BY <2>1 DEF ValuesOf
<1>4. v[0] = w[0]
  BY DEF Total
<1> HIDE DEF v, w
<1>5. 0 \in G
  BY <1>4
<1>6. ASSUME NEW k \in 0 .. (n - 1), k \in G PROVE k + 1 \in G
  <2>1. /\ v[k + 1] \in Int /\ w[k + 1] \in Int
        /\ e[k + 1] \in 0 .. (Base - 1) /\ f[k + 1] \in 0 .. (Base - 1)
    BY <1>2, <1>3 DEF Terms
  <2>2. e[k + 1] + Base * v[k + 1] = f[k + 1] + Base * w[k + 1]
    BY <1>2, <1>3, <1>6
  <2>3. e[k + 1] = f[k + 1] /\ v[k + 1] = w[k + 1]
    BY <2>1, <2>2, OnePlace
  <2>4. \A i \in 1 .. (k + 1) : e[i] = f[i]
    <3>1. \A i \in 1 .. k : e[i] = f[i]
      BY <1>6
    <3>2. QED
      BY <2>3, <3>1
  <2>5. QED
    BY <2>3, <2>4
<1>7. 0 .. n \subseteq G
  <2> HIDE DEF G
  <2>1. QED
    BY <1>5, <1>6, Ascent
<1>8. QED
  BY <1>2, <1>3, <1>7

(* Nothing above place m but noughts.                                      *)
LEMMA NothingAbove ==
  ASSUME NEW n \in Nat, NEW m \in 0 .. n, NEW t, Terms(t, n, Int), \A i \in (m + 1) .. n : t[i] = 0
  PROVE  ValuesFrom(t, n, 0)[m] = 0
<1> DEFINE v == ValuesFrom(t, n, 0)
           G == {k \in 0 .. n : k >= m => v[k] = 0}
<1>1. ValuesOf(v, t, n, 0)
  BY ValuesDef
<1> HIDE DEF v
<1>2. n \in G
  BY <1>1 DEF ValuesOf
<1>3. ASSUME NEW k \in 0 .. (n - 1), k + 1 \in G PROVE k \in G
  <2>1. ASSUME k >= m PROVE v[k] = 0
    <3>1. v[k + 1] = 0 /\ t[k + 1] = 0
      BY <1>3, <2>1
    <3>2. v[k] = 0 + Base * 0
      BY <1>1, <3>1 DEF ValuesOf
    <3>3. QED
      BY <3>2, BaseType
  <2>2. QED
    BY <2>1
<1>4. 0 .. n \subseteq G
  <2> HIDE DEF G
  <2>1. QED
    BY <1>2, <1>3, Descent
<1>5. v[m] = 0
  BY <1>4
<1>6. QED
  BY <1>5 DEF v

(* Terms of which those above place m are nought.                          *)
LEMMA Longer ==
  ASSUME NEW n \in Nat, NEW m \in 0 .. n, NEW t, NEW u, Terms(t, n, Int),
         \A i \in 1 .. m : t[i] = u[i], \A i \in (m + 1) .. n : t[i] = 0
  PROVE  Total(t, n, 0) = Total(u, m, 0)
<1> DEFINE v == ValuesFrom(t, n, 0)
<1>1. v[m] = 0
  BY NothingAbove
<1>2. v[0] = ValuesFrom(t, m, v[m])[0]
  <2>1. 0 \in 0 .. m /\ 0 \in Int
    OBVIOUS
  <2>2. QED
    BY <2>1, Split
<1>3. ValuesFrom(t, m, 0)[0] = ValuesFrom(u, m, 0)[0]
  <2>1. Terms(t, m, Int) /\ m \in Nat /\ 0 \in 0 .. m
    BY DEF Terms
  <2>2. QED
    BY <2>1, SameTerms
<1> HIDE DEF v
<1>4. QED
  BY <1>1, <1>2, <1>3 DEF v, Total

(* The digits from place p on are a number by themselves.                  *)
FromPlace(u, t, p, m) == \A j \in 1 .. m : u[j] = t[p + j]

LEMMA Window ==
  ASSUME NEW n \in Nat, NEW m \in Nat, NEW p \in Nat, p + m =< n, NEW t, Terms(t, n, Int), NEW top \in Int,
         NEW u, FromPlace(u, t, p, m)
  PROVE  ValuesFrom(t, n, top)[p] = Total(u, m, ValuesFrom(t, n, top)[p + m])
<1> DEFINE v == ValuesFrom(t, n, top)
           f == [k \in 0 .. m |-> v[p + k]]
<1>1. ValuesOf(v, t, n, top)
  BY ValuesDef
<1> HIDE DEF v
<1>2. v \in [0 .. n -> Int] /\ \A k \in 0 .. (n - 1) : v[k] = t[k + 1] + Base * v[k + 1]
  BY <1>1 DEF ValuesOf
<1>3. f[m] = v[p + m] /\ f[0] = v[p] /\ v[p + m] \in Int
  BY <1>2
<1>4. ASSUME NEW k \in 0 .. (m - 1) PROVE f[k] = u[k + 1] + Base * f[k + 1]
  <2>1. /\ p + k \in 0 .. (n - 1) /\ k + 1 \in 1 .. m /\ (p + k) + 1 = p + (k + 1)
        /\ k \in 0 .. m /\ k + 1 \in 0 .. m
    OBVIOUS
  <2>2. v[p + k] = t[p + (k + 1)] + Base * v[p + (k + 1)] /\ u[k + 1] = t[p + (k + 1)]
    BY <1>2, <2>1 DEF FromPlace
  <2>3. f[k] = v[p + k] /\ f[k + 1] = v[p + (k + 1)]
    BY <2>1
  <2>4. QED
    BY <2>2, <2>3
<1>5. Terms(u, m, Int)
  <2>1. ASSUME NEW j \in 1 .. m PROVE u[j] \in Int
    <3>1. p + j \in 1 .. n
      OBVIOUS
    <3>2. QED
      BY <3>1 DEF Terms, FromPlace
  <2>2. QED
    BY <2>1 DEF Terms
<1> HIDE DEF f
<1>6. \A k \in 0 .. m : f[k] = ValuesFrom(u, m, v[p + m])[k]
  BY <1>3, <1>4, <1>5, ValuesAre
<1>7. 0 \in 0 .. m
  OBVIOUS
<1>8. QED
  BY <1>3, <1>6, <1>7 DEF Total, v

(***************************************************************************)
(* The loop with an accumulator: what goes in comes out.                   *)
(***************************************************************************)
AccsOf(acc, term, n, first) ==
  /\ acc \in [0 .. n -> Int]
  /\ acc[0] = first
  /\ \A i \in 1 .. n : acc[i] = (acc[i - 1] + term[i]) \div Base

LEMMA AccsDef ==
  ASSUME NEW n \in Nat, NEW term, Terms(term, n, Int), NEW first \in Int
  PROVE  AccsOf(Accs(term, n, first), term, n, first)
<1> DEFINE F(acc) == [i \in 0 .. n |-> IF i = 0 THEN first ELSE (acc[i - 1] + term[i]) \div Base]
           g == [i \in 1 .. n |-> [x \in Int |-> (x + term[i]) \div Base]]
<1>1. g \in [1 .. n -> [Int -> Int]]
  <2>1. ASSUME NEW i \in 1 .. n, NEW x \in Int PROVE (x + term[i]) \div Base \in Int
    <3>1. x + term[i] \in Int
      BY DEF Terms
    <3>2. QED
      BY <3>1, Place
  <2>2. QED
    BY <2>1
<1>2. PICK f \in [0 .. n -> Int] : f[0] = first /\ \A i \in 1 .. n : f[i] = g[i][f[i - 1]]
  <2> HIDE DEF g
  <2>1. Upward(n, Int, first, g)
    BY <1>1, UpwardExists
  <2>2. QED
    BY <2>1 DEF Upward
<1>3. f = F(f)
  <2>1. ASSUME NEW i \in 0 .. n PROVE f[i] = F(f)[i]
    <3>1. CASE i = 0
      BY <1>2, <3>1
    <3>2. CASE i # 0
      <4>1. i \in 1 .. n /\ i - 1 \in 0 .. n
        BY <3>2
      <4>2. f[i] = g[i][f[i - 1]] /\ f[i - 1] \in Int
        BY <1>2, <4>1
      <4>3. QED
        BY <3>2, <4>1, <4>2
    <3>3. QED
      BY <3>1, <3>2
  <2>2. QED
    BY <2>1
<1> DEFINE acc == Accs(term, n, first)
<1>4. acc = F(acc)
  <2>1. acc = CHOOSE a : a = F(a)
    BY DEF Accs
  <2>2. \E a : a = F(a)
    BY <1>3
  <2>3. QED
    <3> HIDE DEF F, acc
    <3>1. QED
      BY <2>1, <2>2
<1> HIDE DEF acc
<1>5. acc[0] = first /\ \A i \in 1 .. n : acc[i] = (acc[i - 1] + term[i]) \div Base
  BY <1>4
<1>6. \A i \in 0 .. n : acc[i] \in Int
  <2> DEFINE G == {i \in 0 .. n : acc[i] \in Int}
  <2>1. 0 \in G
    BY <1>5
  <2>2. ASSUME NEW k \in 0 .. (n - 1), k \in G PROVE k + 1 \in G
    <3>1. k + 1 \in 1 .. n /\ (k + 1) - 1 = k /\ acc[k] \in Int
      BY <2>2
    <3>2. acc[k] + term[k + 1] \in Int
      BY <3>1 DEF Terms
    <3>3. acc[k + 1] = (acc[k] + term[k + 1]) \div Base
      BY <1>5, <3>1
    <3>4. acc[k + 1] \in Int
      BY <3>2, <3>3, Place
    <3>5. QED
      BY <3>1, <3>4
  <2>3. 0 .. n \subseteq G
    <3> HIDE DEF G
    <3>1. QED
      BY <2>1, <2>2, Ascent
  <2>4. QED
    BY <2>3
<1>7. acc \in [0 .. n -> Int]
  <2>1. acc = [i \in 0 .. n |-> acc[i]]
    BY <1>4
  <2>2. QED
    BY <1>6, <2>1
<1>8. QED
  BY <1>5, <1>7 DEF AccsOf, acc

(* The accumulator stays where every turn keeps it.                        *)
LEMMA AccsIn ==
  ASSUME NEW n \in Nat, NEW term, Terms(term, n, Int), NEW S \in SUBSET Int, NEW first \in S,
         \A i \in 1 .. n, a \in S : (a + term[i]) \div Base \in S
  PROVE  \A i \in 0 .. n : Accs(term, n, first)[i] \in S
<1> DEFINE acc == Accs(term, n, first)
           G == {i \in 0 .. n : acc[i] \in S}
<1>1. AccsOf(acc, term, n, first)
  BY AccsDef
<1> HIDE DEF acc
<1>2. 0 \in G
  BY <1>1 DEF AccsOf
<1>3. ASSUME NEW k \in 0 .. (n - 1), k \in G PROVE k + 1 \in G
  <2>1. k + 1 \in 1 .. n /\ (k + 1) - 1 = k /\ acc[k] \in S
    BY <1>3
  <2>2. acc[k + 1] = (acc[k] + term[k + 1]) \div Base
    BY <1>1, <2>1 DEF AccsOf
  <2>3. (acc[k] + term[k + 1]) \div Base \in S
    BY <2>1
  <2>4. QED
    BY <2>1, <2>2, <2>3
<1>4. 0 .. n \subseteq G
  <2> HIDE DEF G
  <2>1. QED
    BY <1>2, <1>3, Ascent
<1>5. QED
  BY <1>4 DEF acc

(* The digits, with what is carried out above them, are the sum of the     *)
(* terms and what is carried in.                                           *)
LEMMA CarryExact ==
  ASSUME NEW n \in Nat, NEW term, Terms(term, n, Int), NEW first \in Int
  PROVE  LET c == Carry(term, n, first)
         IN  /\ c.elts \in [1 .. n -> 0 .. (Base - 1)]
             /\ c.out = Accs(term, n, first)[n] /\ c.out \in Int
             /\ Total(c.elts, n, c.out) = first + Total(term, n, 0)
<1> DEFINE acc == Accs(term, n, first)
           elts == [i \in 1 .. n |-> (acc[i - 1] + term[i]) % Base]
           T == ValuesFrom(term, n, 0)
           R == ValuesFrom(elts, n, acc[n])
           G == {k \in 0 .. n : R[k] = acc[k] + T[k]}
<1>1. Carry(term, n, first).elts = elts /\ Carry(term, n, first).out = acc[n]
  BY DEF Carry
<1>2. AccsOf(acc, term, n, first)
  BY AccsDef
<1> HIDE DEF acc
<1>3. /\ acc \in [0 .. n -> Int] /\ acc[0] = first /\ acc[n] \in Int
      /\ \A i \in 1 .. n : acc[i - 1] \in Int /\ acc[i] = (acc[i - 1] + term[i]) \div Base
  BY <1>2 DEF AccsOf
<1>4. ValuesOf(T, term, n, 0)
  BY ValuesDef
<1>5. \A i \in 1 .. n : acc[i - 1] + term[i] \in Int
  BY <1>3 DEF Terms
<1>6. \A i \in 1 .. n : elts[i] \in 0 .. (Base - 1) /\ acc[i - 1] + term[i] = elts[i] + Base * acc[i]
  BY <1>3, <1>5, Place
<1>7. elts \in [1 .. n -> 0 .. (Base - 1)]
  BY <1>6
<1> HIDE DEF elts
<1>8. ValuesOf(R, elts, n, acc[n])
  <2>1. Terms(elts, n, Int)
    BY <1>6, BaseType DEF Terms
  <2>2. QED
    BY <1>3, <2>1, ValuesDef
<1> HIDE DEF T, R
<1>9. n \in G
  BY <1>3, <1>4, <1>8 DEF ValuesOf
<1>10. ASSUME NEW k \in 0 .. (n - 1), k + 1 \in G PROVE k \in G
  <2>1. k + 1 \in 1 .. n /\ (k + 1) - 1 = k
    OBVIOUS
  <2>2. R[k] = elts[k + 1] + Base * R[k + 1] /\ T[k] = term[k + 1] + Base * T[k + 1] /\ T[k + 1] \in Int
    BY <1>4, <1>8, <2>1 DEF ValuesOf
  <2>3. R[k + 1] = acc[k + 1] + T[k + 1] /\ acc[k + 1] \in Int
    BY <1>3, <1>10
  <2>4. Base * R[k + 1] = Base * acc[k + 1] + Base * T[k + 1]
    BY <2>2, <2>3, BasePlus
  <2>5. acc[k] + term[k + 1] = elts[k + 1] + Base * acc[k + 1]
    BY <1>6, <2>1
  <2>6. /\ Base * acc[k + 1] \in Int /\ Base * T[k + 1] \in Int
        /\ acc[k] \in Int /\ term[k + 1] \in Int /\ elts[k + 1] \in Int
    <3>1. Base * acc[k + 1] \in Int /\ Base * T[k + 1] \in Int
      BY <2>2, <2>3, BaseTimes
    <3>2. acc[k] \in Int
      BY <1>3
    <3>3. term[k + 1] \in Int /\ elts[k + 1] \in Int
      BY <1>6, <2>1, BaseType DEF Terms
    <3>4. QED
      BY <3>1, <3>2, <3>3
  <2>7. R[k] = acc[k] + T[k]
    <3> DEFINE x == Base * acc[k + 1]
               y == Base * T[k + 1]
               z == Base * R[k + 1]
    <3>1. /\ x \in Int /\ y \in Int /\ z = x + y
          /\ acc[k] \in Int /\ term[k + 1] \in Int /\ elts[k + 1] \in Int
          /\ R[k] = elts[k + 1] + z /\ T[k] = term[k + 1] + y /\ acc[k] + term[k + 1] = elts[k + 1] + x
      BY <2>2, <2>4, <2>5, <2>6
    <3> HIDE DEF x, y, z
    <3>2. QED
      BY <3>1
  <2>8. QED
    BY <2>7
<1>11. 0 .. n \subseteq G
  <2> HIDE DEF G
  <2>1. QED
    BY <1>9, <1>10, Descent
<1>12. R[0] = first + T[0]
  BY <1>3, <1>11
<1>13. QED
  BY <1>1, <1>3, <1>7, <1>12 DEF R, T, Total, acc, elts

LEMMA QuotientIn ==
  ASSUME NEW x \in Int, NEW lo \in Int, NEW hi \in Int, Base * lo =< x, x < Base * hi
  PROVE  lo =< x \div Base /\ x \div Base < hi
<1> DEFINE q == x \div Base
           r == x % Base
<1>1. q \in Int /\ r \in 0 .. (Base - 1) /\ x = r + Base * q
  BY Place
<1> HIDE DEF q, r
<1>2. ASSUME q >= hi PROVE FALSE
  <2>1. Base * (q - hi) >= 0 /\ Base * (q - hi) = Base * q - Base * hi
    BY <1>1, <1>2, BaseTimes, BasePlus
  <2>2. Base * q \in Int /\ Base * hi \in Int
    BY <1>1, BaseTimes
  <2>3. QED
    BY <1>1, <2>1, <2>2, BaseType
<1>3. ASSUME q < lo PROVE FALSE
  <2>1. Base * (lo - q) >= Base /\ Base * (lo - q) = Base * lo - Base * q
    BY <1>1, <1>3, BaseTimes, BasePlus
  <2>2. Base * q \in Int /\ Base * lo \in Int
    BY <1>1, BaseTimes
  <2>3. QED
    BY <1>1, <2>1, <2>2, BaseType
<1>4. QED
  BY <1>1, <1>2, <1>3 DEF q

(***************************************************************************)
(* Arrays of digits, and digits without leading zeros.                     *)
(***************************************************************************)
DigitSet == 0 .. (Base - 1)

Normal(e) == e \in Seq(DigitSet) /\ (e # <<>> => e[Len(e)] # 0)

LEMMA ArrayIsSeq ==
  ASSUME NEW n \in Nat, NEW S, NEW f \in [1 .. n -> S]
  PROVE  f \in Seq(S) /\ Len(f) = n /\ DOMAIN f = 1 .. n
<1>1. f \in Seq(S)
  BY SeqDef
<1>2. DOMAIN f = 1 .. n /\ DOMAIN f = 1 .. Len(f) /\ Len(f) \in Nat
  BY <1>1, LenProperties
<1>3. QED
  BY <1>1, <1>2

LEMMA SeqIsArray ==
  ASSUME NEW S, NEW e \in Seq(S)
  PROVE  Len(e) \in Nat /\ DOMAIN e = 1 .. Len(e) /\ e \in [1 .. Len(e) -> S] /\ Terms(e, Len(e), S)
  BY DEF Terms

LEMMA DigitsAre == DigitSet \subseteq Nat /\ DigitSet \subseteq (1 - Base) .. (Base - 1) /\ 0 \in DigitSet
  BY BaseType DEF DigitSet

LEMMA DigitTerms ==
  ASSUME NEW term, NEW n, Terms(term, n, DigitSet)
  PROVE  Terms(term, n, Int) /\ Terms(term, n, Nat) /\ Terms(term, n, (1 - Base) .. (Base - 1))
<1>1. \A i \in 1 .. n : term[i] \in DigitSet
  BY DEF Terms
<1>2. \A i \in 1 .. n : term[i] \in Nat /\ term[i] \in (1 - Base) .. (Base - 1)
  BY <1>1, DigitsAre
<1>3. \A i \in 1 .. n : term[i] \in Int
  BY <1>2
<1>4. QED
  BY <1>2, <1>3 DEF Terms

LEMMA Greatest ==
  ASSUME NEW n \in Nat, NEW S \in SUBSET (0 .. n), S # {}
  PROVE  Max(S) \in S /\ \A y \in S : y =< Max(S)
<1> DEFINE T == {n - x : x \in S}
<1>1. T \in SUBSET Nat /\ T # {}
  <2>1. PICK x \in S : TRUE
    OBVIOUS
  <2>2. n - x \in T
    BY <2>1
  <2>3. \A u \in S : n - u \in Nat
    OBVIOUS
  <2>4. QED
    BY <2>2, <2>3
<1>2. PICK z \in T : \A y \in T : z =< y
  <2> HIDE DEF T
  <2>1. QED
    BY <1>1, Least
<1>3. PICK x \in S : z = n - x
  BY <1>2
<1>4. ASSUME NEW y \in S PROVE x >= y
  <2>1. n - y \in T
    OBVIOUS
  <2>2. n - x =< n - y
    BY <1>2, <1>3, <2>1
  <2>3. QED
    BY <2>2
<1>5. \E u \in S : \A y \in S : u >= y
  BY <1>4
<1>6. Max(S) \in S /\ \A y \in S : Max(S) >= y
  BY <1>5 DEF Max
<1>7. QED
  BY <1>6

(* bn_norm takes off the leading zeros and nothing else.                   *)
LEMMA NormExact ==
  ASSUME NEW e \in Seq(DigitSet)
  PROVE  Normal(Norm(e)) /\ ValueOf(Norm(e)) = ValueOf(e) /\ Len(Norm(e)) =< Len(e)
<1> DEFINE n == Len(e)
           S == {0} \cup {i \in DOMAIN e : e[i] # 0}
           m == Max(S)
           f == Norm(e)
<1>1. n \in Nat /\ DOMAIN e = 1 .. n /\ Terms(e, n, DigitSet) /\ Terms(e, n, Int)
  BY SeqIsArray, DigitTerms
<1>2. m \in S /\ \A y \in S : y =< m
  <2>1. S \in SUBSET (0 .. n) /\ S # {}
    BY <1>1
  <2> HIDE DEF S
  <2>2. QED
    BY <1>1, <2>1, Greatest
<1>3. m \in 0 .. n
  BY <1>1, <1>2
<1>4. f = SubSeq(e, 1, m)
  BY DEF Norm
<1> HIDE DEF f
<1>5. f \in Seq(DigitSet) /\ Len(f) = m /\ \A i \in 1 .. m : f[i] = e[i]
  <2> HIDE DEF m
  <2>1. \A i \in 1 .. m : e[i] \in DigitSet
    BY <1>1, <1>3
  <2>2. QED
    BY <1>1, <1>3, <1>4, <2>1
<1>6. f # <<>> => f[Len(f)] # 0
  BY <1>2, <1>3, <1>5
<1>7. \A i \in (m + 1) .. n : e[i] = 0
  <2>1. ASSUME NEW i \in (m + 1) .. n, e[i] # 0 PROVE FALSE
    <3>1. i \in S
      BY <1>1, <1>3, <2>1
    <3>2. i =< m
      BY <1>2, <3>1
    <3>3. QED
      BY <1>1, <1>3, <3>2
  <2>2. QED
    BY <2>1
<1>8. Total(e, n, 0) = Total(f, m, 0)
  <2> HIDE DEF m, n
  <2>1. \A i \in 1 .. m : e[i] = f[i]
    BY <1>5
  <2>2. QED
    BY <1>1, <1>3, <1>7, <2>1, Longer
<1>9. QED
  BY <1>3, <1>5, <1>6, <1>8 DEF Normal, ValueOf, f

LEMMA ValueType ==
  ASSUME NEW e \in Seq(DigitSet)
  PROVE  ValueOf(e) \in Nat
<1>1. Len(e) \in Nat /\ Terms(e, Len(e), Nat) /\ 0 \in 0 .. Len(e) /\ 0 \in Nat
  BY SeqIsArray, DigitTerms
<1>2. QED
  BY <1>1, NotNegative DEF ValueOf, Total

(* An array of a length of its own with the digits of a number.            *)
LEMMA PadExact ==
  ASSUME NEW e \in Seq(DigitSet), NEW n \in Nat, Len(e) =< n
  PROVE  Pad(e, n) \in [1 .. n -> DigitSet] /\ Total(Pad(e, n), n, 0) = ValueOf(e)
<1> DEFINE m == Len(e)
           t == Pad(e, n)
<1>1. m \in 0 .. n /\ DOMAIN e = 1 .. m /\ Terms(e, m, DigitSet)
  BY SeqIsArray
<1>2. t = [i \in 1 .. n |-> Digit(e, i)]
  BY DEF Pad
<1>3. \A i \in 1 .. n : t[i] \in DigitSet
  BY <1>1, <1>2, DigitsAre DEF Digit, Terms
<1>4. (\A i \in 1 .. m : t[i] = e[i]) /\ (\A i \in (m + 1) .. n : t[i] = 0)
  BY <1>1, <1>2 DEF Digit
<1>5. Terms(t, n, Int)
  <2>1. Terms(t, n, DigitSet)
    BY <1>3 DEF Terms
  <2>2. QED
    BY <2>1, DigitTerms
<1>6. t \in [1 .. n -> DigitSet]
  BY <1>2, <1>3
<1> HIDE DEF m, t
<1>7. Total(t, n, 0) = Total(e, m, 0)
  BY <1>1, <1>4, <1>5, Longer
<1>8. QED
  BY <1>6, <1>7 DEF t, m, ValueOf

(* The highest term that is not nought decides the sign.                   *)
LEMMA LeadingSign ==
  ASSUME NEW n \in Nat, NEW m \in 1 .. n, NEW w, Terms(w, n, (1 - Base) .. (Base - 1)),
         \A i \in (m + 1) .. n : w[i] = 0
  PROVE  (w[m] > 0 => Total(w, n, 0) > 0) /\ (w[m] < 0 => Total(w, n, 0) < 0)
<1>1. Terms(w, n, Int) /\ Terms(w, m, Int) /\ Terms(w, m - 1, (1 - Base) .. (Base - 1)) /\ w[m] \in Int
  BY BaseType DEF Terms
<1>2. Total(w, n, 0) = Total(w, m, 0)
  <2>1. m \in 0 .. n /\ \A i \in 1 .. m : w[i] = w[i]
    OBVIOUS
  <2>2. QED
    BY <1>1, <2>1, Longer
<1>3. ValuesFrom(w, m, 0)[m - 1] = w[m]
  <2>1. ValuesOf(ValuesFrom(w, m, 0), w, m, 0)
    BY <1>1, ValuesDef
  <2>2. m - 1 \in 0 .. (m - 1) /\ (m - 1) + 1 = m
    OBVIOUS
  <2>3. ValuesFrom(w, m, 0)[m - 1] = w[m] + Base * 0
    BY <2>1, <2>2 DEF ValuesOf
  <2>4. QED
    BY <1>1, <2>3, BaseType
<1>4. Total(w, m, 0) = Total(w, m - 1, w[m])
  <2>1. m \in Nat /\ m - 1 \in 0 .. m /\ 0 \in Int /\ 0 \in 0 .. (m - 1)
    OBVIOUS
  <2>2. QED
    BY <1>1, <1>3, <2>1, Split DEF Total
<1>5. m - 1 \in Nat /\ 0 \in 0 .. (m - 1)
  OBVIOUS
<1>6. QED
  BY <1>1, <1>2, <1>4, <1>5, TopSign DEF Total

(* A number has one row of digits.                                         *)
LEMMA OneRowOrdered ==
  ASSUME NEW e, NEW f, Normal(e), Normal(f), ValueOf(e) = ValueOf(f), Len(f) =< Len(e)
  PROVE  e = f
<1> DEFINE n == Len(e)
           t == Pad(f, n)
<1>1. e \in Seq(DigitSet) /\ f \in Seq(DigitSet) /\ n \in Nat /\ Len(f) \in Nat
  BY SeqIsArray DEF Normal
<1>2. Terms(e, n, DigitSet) /\ DOMAIN e = 1 .. n /\ DOMAIN f = 1 .. Len(f)
  BY <1>1, SeqIsArray
<1>3. t \in [1 .. n -> DigitSet] /\ Total(t, n, 0) = ValueOf(f)
  BY <1>1, PadExact
<1>4. \A i \in 1 .. n : t[i] = Digit(f, i)
  BY DEF Pad
<1> HIDE DEF t
<1>5. Terms(t, n, DigitSet)
  BY <1>3 DEF Terms
<1>6. Total(e, n, 0) = Total(t, n, 0)
  BY <1>3 DEF ValueOf
<1>7. \A i \in 1 .. n : e[i] = t[i]
  <2>1. 0 \in Int /\ DigitSet = 0 .. (Base - 1)
    BY DEF DigitSet
  <2> HIDE DEF n
  <2>2. QED
    BY <1>1, <1>2, <1>5, <1>6, <2>1, OneWay
<1>8. Len(f) = n
  <2>1. ASSUME Len(f) < n PROVE FALSE
    <3>1. n \in 1 .. n /\ n \notin DOMAIN f
      BY <1>1, <1>2, <2>1
    <3>2. e[n] = 0
      BY <1>4, <1>7, <3>1 DEF Digit
    <3>3. e # <<>>
      BY <1>1, <2>1
    <3>4. QED
      BY <3>2, <3>3 DEF Normal
  <2>2. QED
    BY <1>1, <2>1
<1>9. \A i \in 1 .. n : e[i] = f[i]
  BY <1>2, <1>4, <1>7, <1>8 DEF Digit
<1>10. QED
  BY <1>1, <1>2, <1>8, <1>9, SeqEqual

LEMMA OneRow ==
  ASSUME NEW e, NEW f, Normal(e), Normal(f), ValueOf(e) = ValueOf(f)
  PROVE  e = f
<1>1. Len(e) \in Nat /\ Len(f) \in Nat
  BY SeqIsArray DEF Normal
<1>2. CASE Len(f) =< Len(e)
  BY <1>2, OneRowOrdered
<1>3. CASE Len(e) =< Len(f)
  BY <1>3, OneRowOrdered
<1>4. QED
  BY <1>1, <1>2, <1>3

(* Digit by digit, what one number is above another.                       *)
LEMMA Gap ==
  ASSUME NEW l \in Seq(DigitSet), NEW r \in Seq(DigitSet), NEW n \in Nat, Len(l) =< n, Len(r) =< n, NEW w,
         \A i \in 1 .. n : w[i] = Digit(l, i) - Digit(r, i)
  PROVE  /\ Terms(w, n, (1 - Base) .. (Base - 1)) /\ Terms(w, n, Int)
         /\ Total(w, n, 0) = ValueOf(l) - ValueOf(r)
<1> DEFINE t == Pad(l, n)
           u == Pad(r, n)
<1>1. /\ t \in [1 .. n -> DigitSet] /\ Total(t, n, 0) = ValueOf(l)
      /\ u \in [1 .. n -> DigitSet] /\ Total(u, n, 0) = ValueOf(r)
  BY PadExact
<1>2. \A i \in 1 .. n : t[i] = Digit(l, i) /\ u[i] = Digit(r, i)
  BY DEF Pad
<1> HIDE DEF t, u
<1>3. Terms(t, n, DigitSet) /\ Terms(u, n, DigitSet)
  BY <1>1 DEF Terms
<1>4. Terms(t, n, Int) /\ Terms(u, n, Int)
  BY <1>3, DigitTerms
<1>5. \A i \in 1 .. n : t[i] \in DigitSet /\ u[i] \in DigitSet /\ w[i] = t[i] - u[i]
  BY <1>2, <1>3 DEF Terms
<1>6. \A i \in 1 .. n : w[i] \in (1 - Base) .. (Base - 1) /\ w[i] \in Int /\ w[i] = (-1) * u[i] + t[i]
  BY <1>5, BaseType DEF DigitSet
<1>7. Total(w, n, 0) = (-1) * Total(u, n, 0) + Total(t, n, 0)
  <2>1. -1 \in Int /\ 0 \in Int /\ 0 = (-1) * 0 + 0
    OBVIOUS
  <2>2. \A i \in 1 .. n : w[i] = (-1) * u[i] + t[i]
    BY <1>6
  <2>3. QED
    BY <1>4, <2>1, <2>2, Linear DEF Combined
<1>8. ValueOf(l) \in Int /\ ValueOf(r) \in Int
  BY ValueType
<1>9. QED
  BY <1>1, <1>6, <1>7, <1>8 DEF Terms

(* bn_cmp orders numbers.                                                  *)
THEOREM CmpExact ==
  ASSUME NEW l, NEW r, Normal(l), Normal(r)
  PROVE  Cmp(l, r) = Sign(ValueOf(l) - ValueOf(r))
<1> DEFINE differ == {i \in DOMAIN l : l[i] # Digit(r, i)}
           d == ValueOf(l) - ValueOf(r)
<1>1. /\ l \in Seq(DigitSet) /\ r \in Seq(DigitSet)
      /\ Len(l) \in Nat /\ DOMAIN l = 1 .. Len(l) /\ \A i \in 1 .. Len(l) : l[i] \in DigitSet
      /\ Len(r) \in Nat /\ DOMAIN r = 1 .. Len(r) /\ \A i \in 1 .. Len(r) : r[i] \in DigitSet
  BY SeqIsArray DEF Normal, Terms
<1>2. d \in Int
  BY <1>1, ValueType
<1>3. ASSUME NEW n \in Nat, n >= Len(l), n >= Len(r), NEW m \in 1 .. n,
             \A i \in (m + 1) .. n : Digit(l, i) = Digit(r, i)
      PROVE  (Digit(l, m) > Digit(r, m) => d > 0) /\ (Digit(l, m) < Digit(r, m) => d < 0)
  <2> DEFINE w == [i \in 1 .. n |-> Digit(l, i) - Digit(r, i)]
  <2>1. \A i \in 1 .. n : w[i] = Digit(l, i) - Digit(r, i)
    OBVIOUS
  <2> HIDE DEF w
  <2>2. Terms(w, n, (1 - Base) .. (Base - 1)) /\ Total(w, n, 0) = d
    BY <1>1, <1>3, <2>1, Gap
  <2>3. \A i \in 1 .. n : Digit(l, i) \in Nat /\ Digit(r, i) \in Nat
    BY <1>1, DigitsAre DEF Digit
  <2>4. \A i \in (m + 1) .. n : w[i] = 0
    BY <1>3, <2>1, <2>3
  <2>5. (w[m] > 0 => d > 0) /\ (w[m] < 0 => d < 0)
    BY <2>2, <2>4, LeadingSign
  <2>6. QED
    BY <2>1, <2>3, <2>5
<1>4. Len(l) \in Nat /\ Len(r) \in Nat
  BY <1>1
<1>5. CASE Len(l) > Len(r)
  <2>1. Len(l) \in 1 .. Len(l) /\ Len(l) \notin DOMAIN r /\ l # <<>>
    BY <1>1, <1>5
  <2>2. Digit(l, Len(l)) > 0 /\ Digit(r, Len(l)) = 0
    <3>1. l[Len(l)] \in Nat /\ l[Len(l)] # 0
      BY <1>1, <2>1, DigitsAre DEF Normal
    <3>2. QED
      BY <1>1, <2>1, <3>1 DEF Digit
  <2>3. d > 0
    BY <1>1, <1>3, <1>5, <2>1, <2>2
  <2>4. Cmp(l, r) = 1
    <3>1. Sign(Len(l) - Len(r)) = 1
      BY <1>4, <1>5 DEF Sign
    <3>2. QED
      BY <1>5, <1>4, <3>1 DEF Cmp
  <2>5. QED
    <3> HIDE DEF d
    <3>1. Sign(d) = 1
      BY <1>2, <2>3 DEF Sign
    <3>2. QED
      BY <2>4, <3>1 DEF d
<1>6. CASE Len(l) < Len(r)
  <2>1. Len(r) \in 1 .. Len(r) /\ Len(r) \notin DOMAIN l /\ r # <<>>
    BY <1>1, <1>6
  <2>2. Digit(r, Len(r)) > 0 /\ Digit(l, Len(r)) = 0
    <3>1. r[Len(r)] \in Nat /\ r[Len(r)] # 0
      BY <1>1, <2>1, DigitsAre DEF Normal
    <3>2. QED
      BY <1>1, <2>1, <3>1 DEF Digit
  <2>3. d < 0
    BY <1>1, <1>3, <1>6, <2>1, <2>2
  <2>4. Cmp(l, r) = -1
    <3>1. Sign(Len(l) - Len(r)) = -1
      BY <1>4, <1>6 DEF Sign
    <3>2. QED
      BY <1>6, <1>4, <3>1 DEF Cmp
  <2>5. QED
    <3> HIDE DEF d
    <3>1. Sign(d) = -1
      BY <1>2, <2>3 DEF Sign
    <3>2. QED
      BY <2>4, <3>1 DEF d
<1>7. CASE Len(l) = Len(r) /\ differ = {}
  <2>1. l = r
    <3>1. \A i \in 1 .. Len(l) : l[i] = r[i]
      BY <1>1, <1>7 DEF Digit
    <3>2. QED
      BY <1>1, <1>7, <3>1, SeqEqual
  <2>2. d = 0
    BY <1>1, <2>1, ValueType
  <2>3. QED
    BY <1>1, <1>7, <2>2 DEF Cmp, Sign
<1>8. CASE Len(l) = Len(r) /\ differ # {}
  <2> DEFINE m == Max(differ)
  <2>1. m \in differ /\ \A y \in differ : y =< m
    <3>1. differ \in SUBSET (0 .. Len(l))
      BY <1>1
    <3> HIDE DEF differ
    <3>2. QED
      BY <1>1, <1>8, <3>1, Greatest
  <2>2. m \in 1 .. Len(l) /\ l[m] # Digit(r, m) /\ Digit(l, m) = l[m] /\ Digit(r, m) = r[m]
    BY <1>1, <1>8, <2>1 DEF Digit
  <2>3. \A i \in (m + 1) .. Len(l) : Digit(l, i) = Digit(r, i)
    <3>1. ASSUME NEW i \in (m + 1) .. Len(l), Digit(l, i) # Digit(r, i) PROVE FALSE
      <4>1. i \in 1 .. Len(l)
        BY <1>1, <2>2, <3>1
      <4>2. i \in differ
        BY <1>1, <3>1, <4>1 DEF Digit
      <4> HIDE DEF m
      <4>3. i =< m
        BY <2>1, <4>2
      <4>4. QED
        BY <1>1, <2>2, <3>1, <4>3
    <3>2. QED
      BY <3>1
  <2>4. (l[m] > r[m] => d > 0) /\ (l[m] < r[m] => d < 0)
    <3> HIDE DEF m, d, differ
    <3>1. QED
      BY <1>1, <1>3, <1>8, <2>2, <2>3
  <2>5. l[m] \in Nat /\ r[m] \in Nat /\ l[m] # r[m]
    BY <1>1, <1>8, <2>2, DigitsAre
  <2>6. Cmp(l, r) = Sign(l[m] - r[m])
    BY <1>8 DEF Cmp
  <2>7. QED
    <3> HIDE DEF m
    <3>1. QED
      BY <1>2, <2>4, <2>5, <2>6 DEF Sign
<1>9. Len(l) > Len(r) \/ Len(l) < Len(r) \/ Len(l) = Len(r)
  BY <1>4
<1>10. QED
  BY <1>5, <1>6, <1>7, <1>8, <1>9

(* Digits with nothing above them are less than digits with one above.     *)
LEMMA BelowTop ==
  ASSUME NEW n \in Nat, NEW t, NEW u, Terms(t, n, DigitSet), Terms(u, n, DigitSet)
  PROVE  Total(t, n, 0) < Total(u, n, 1)
<1> DEFINE w == [i \in 1 .. n |-> (-1) * u[i] + t[i]]
<1>1. \A i \in 1 .. n : w[i] = (-1) * u[i] + t[i]
  OBVIOUS
<1>2. \A i \in 1 .. n : t[i] \in DigitSet /\ u[i] \in DigitSet
  BY DEF Terms
<1>3. \A i \in 1 .. n : w[i] \in (1 - Base) .. (Base - 1)
  BY <1>1, <1>2, BaseType DEF DigitSet
<1> HIDE DEF w
<1>4. Terms(w, n, (1 - Base) .. (Base - 1))
  BY <1>3 DEF Terms
<1>5. Terms(t, n, Int) /\ Terms(u, n, Int)
  BY DigitTerms
<1>6. Total(w, n, -1) = (-1) * Total(u, n, 1) + Total(t, n, 0)
  <2>1. -1 \in Int /\ 0 \in Int /\ 1 \in Int /\ -1 = (-1) * 1 + 0
    OBVIOUS
  <2>2. QED
    BY <1>1, <1>5, <2>1, Linear DEF Combined
<1>7. Total(w, n, -1) < 0
  <2>1. -1 \in Int /\ -1 < 0 /\ 0 \in 0 .. n
    OBVIOUS
  <2>2. QED
    BY <1>4, <2>1, TopSign DEF Total
<1>8. Total(u, n, 1) \in Int /\ Total(t, n, 0) \in Int
  BY <1>5, TotalType
<1>9. QED
  BY <1>6, <1>7, <1>8

LEMMA DigitBound ==
  ASSUME NEW l \in Seq(DigitSet), NEW i \in Nat
  PROVE  Digit(l, i) \in DigitSet
<1>1. DOMAIN l = 1 .. Len(l) /\ \A k \in 1 .. Len(l) : l[k] \in DigitSet
  BY SeqIsArray DEF Terms
<1>2. QED
  BY <1>1, DigitsAre DEF Digit

(* bn_add: the digits of the sum, and one above them that is nought when   *)
(* there is room for it.                                                   *)
THEOREM AddDigitsExact ==
  ASSUME NEW l \in Seq(DigitSet), NEW r \in Seq(DigitSet), NEW n \in Nat, Len(l) =< n, Len(r) =< n
  PROVE  LET s == AddDigits(n, l, r)
         IN  /\ s.elts \in [1 .. n -> DigitSet] /\ s.out \in {0, 1}
             /\ Total(s.elts, n, s.out) = ValueOf(l) + ValueOf(r)
             /\ Len(l) < n /\ Len(r) < n => s.out = 0
<1> DEFINE s == AddDigits(n, l, r)
           w == [i \in 1 .. n |-> Digit(l, i) + Digit(r, i)]
           acc == Accs(w, n, 0)
           t == Pad(l, n)
           u == Pad(r, n)
<1>1. /\ t \in [1 .. n -> DigitSet] /\ Total(t, n, 0) = ValueOf(l)
      /\ u \in [1 .. n -> DigitSet] /\ Total(u, n, 0) = ValueOf(r)
  BY PadExact
<1>2. \A i \in 1 .. n : t[i] = Digit(l, i) /\ u[i] = Digit(r, i)
  BY DEF Pad
<1> HIDE DEF t, u
<1>3. Terms(t, n, DigitSet) /\ Terms(u, n, DigitSet)
  BY <1>1 DEF Terms
<1>4. Terms(t, n, Int) /\ Terms(u, n, Int)
  BY <1>3, DigitTerms
<1>5. \A i \in 1 .. n : Digit(l, i) \in DigitSet /\ Digit(r, i) \in DigitSet
  BY DigitBound
<1>6. \A i \in 1 .. n : w[i] = Digit(l, i) + Digit(r, i) /\ w[i] \in 0 .. (2 * Base - 2)
  BY <1>5, BaseType DEF DigitSet
<1>7. \A i \in 1 .. n : w[i] = 1 * t[i] + u[i]
  <2>1. ASSUME NEW i \in 1 .. n PROVE w[i] = 1 * t[i] + u[i]
    <3>1. Digit(l, i) \in Nat
      BY <1>5, DigitsAre
    <3>2. w[i] = Digit(l, i) + Digit(r, i) /\ t[i] = Digit(l, i) /\ u[i] = Digit(r, i)
      BY <1>2, <1>6
    <3> HIDE DEF w
    <3>3. QED
      BY <3>1, <3>2
  <2>2. QED
    BY <2>1
<1>8. s = Carry(w, n, 0)
  BY DEF AddDigits
<1> HIDE DEF w, s
<1>9. Terms(w, n, Int)
  BY <1>6, BaseType DEF Terms
<1>10. /\ s.elts \in [1 .. n -> 0 .. (Base - 1)] /\ s.out = acc[n]
       /\ Total(s.elts, n, s.out) = 0 + Total(w, n, 0)
  BY <1>8, <1>9, CarryExact
<1>11. Total(w, n, 0) = 1 * Total(t, n, 0) + Total(u, n, 0)
  <2>1. 1 \in Int /\ 0 \in Int /\ 0 = 1 * 0 + 0
    OBVIOUS
  <2>2. QED
    BY <1>4, <1>7, <2>1, Linear DEF Combined
<1>12. ASSUME NEW x \in Int, 0 =< x, x < 2 * Base PROVE x \div Base \in {0, 1}
  <2>1. Base * 0 =< x /\ x < Base * 2 /\ x \div Base \in Int
    BY <1>12, BaseType, Place
  <2>2. 0 =< x \div Base /\ x \div Base < 2
    BY <2>1, QuotientIn
  <2>3. QED
    BY <2>1, <2>2
<1>13. \A i \in 0 .. n : acc[i] \in {0, 1}
  <2>1. ASSUME NEW i \in 1 .. n, NEW a \in {0, 1} PROVE (a + w[i]) \div Base \in {0, 1}
    <3>1. a + w[i] \in Int /\ 0 =< a + w[i] /\ a + w[i] < 2 * Base
      BY <1>6, BaseType
    <3>2. QED
      BY <1>12, <3>1
  <2>2. {0, 1} \in SUBSET Int /\ 0 \in {0, 1}
    OBVIOUS
  <2>3. QED
    BY <1>9, <2>1, <2>2, AccsIn
<1>14. ASSUME Len(l) < n, Len(r) < n PROVE s.out = 0
  <2>1. n \in 1 .. n /\ n \notin DOMAIN l /\ n \notin DOMAIN r
    BY <1>14, SeqIsArray
  <2>2. w[n] = 0
    BY <1>6, <2>1 DEF Digit
  <2>3. AccsOf(acc, w, n, 0)
    BY <1>9, AccsDef
  <2>4. n - 1 \in 0 .. n /\ acc[n - 1] \in {0, 1}
    BY <1>13, <2>1
  <2>5. acc[n] = (acc[n - 1] + 0) \div Base
    BY <2>1, <2>2, <2>3 DEF AccsOf
  <2> HIDE DEF acc
  <2>6. acc[n - 1] + 0 \in Int /\ Base * 0 =< acc[n - 1] + 0 /\ acc[n - 1] + 0 < Base * 1
    BY <2>4, BaseType
  <2>7. 0 =< acc[n] /\ acc[n] < 1
    BY <2>5, <2>6, QuotientIn
  <2>8. QED
    BY <1>10, <1>13, <2>7
<1>15. Total(s.elts, n, s.out) = ValueOf(l) + ValueOf(r)
  <2>1. ValueOf(l) \in Int /\ ValueOf(r) \in Int
    BY ValueType
  <2>2. QED
    BY <1>1, <1>10, <1>11, <2>1
<1>16. QED
  BY <1>10, <1>13, <1>14, <1>15 DEF s, DigitSet

(* bn_sub: a borrow is left over exactly when the second number is larger. *)
THEOREM SubDigitsExact ==
  ASSUME NEW l \in Seq(DigitSet), NEW r \in Seq(DigitSet), NEW n \in Nat, Len(l) =< n, Len(r) =< n
  PROVE  LET s == SubDigits(n, l, r)
         IN  /\ s.elts \in [1 .. n -> DigitSet] /\ s.out \in {-1, 0}
             /\ Total(s.elts, n, s.out) = ValueOf(l) - ValueOf(r)
             /\ s.out >= 0 <=> ValueOf(l) >= ValueOf(r)
<1> DEFINE s == SubDigits(n, l, r)
           w == [i \in 1 .. n |-> Digit(l, i) - Digit(r, i)]
           acc == Accs(w, n, 0)
<1>1. \A i \in 1 .. n : w[i] = Digit(l, i) - Digit(r, i)
  OBVIOUS
<1>2. s = Carry(w, n, 0)
  BY DEF SubDigits
<1> HIDE DEF w, s
<1>3. Terms(w, n, (1 - Base) .. (Base - 1)) /\ Terms(w, n, Int) /\ Total(w, n, 0) = ValueOf(l) - ValueOf(r)
  BY <1>1, Gap
<1>4. /\ s.elts \in [1 .. n -> 0 .. (Base - 1)] /\ s.out = acc[n] /\ s.out \in Int
      /\ Total(s.elts, n, s.out) = 0 + Total(w, n, 0)
  BY <1>2, <1>3, CarryExact
<1>5. \A i \in 0 .. n : acc[i] \in {-1, 0}
  <2>1. ASSUME NEW i \in 1 .. n, NEW a \in {-1, 0} PROVE (a + w[i]) \div Base \in {-1, 0}
    <3>1. w[i] \in (1 - Base) .. (Base - 1)
      BY <1>3 DEF Terms
    <3>2. a + w[i] \in Int /\ Base * (-1) =< a + w[i] /\ a + w[i] < Base * 1
      BY <3>1, BaseType
    <3>3. (a + w[i]) \div Base \in Int
      BY <3>2, Place
    <3>4. -1 \in Int /\ 1 \in Int
      OBVIOUS
    <3>5. -1 =< (a + w[i]) \div Base /\ (a + w[i]) \div Base < 1
      BY <3>2, <3>4, QuotientIn
    <3>6. QED
      BY <3>3, <3>5
  <2>2. {-1, 0} \in SUBSET Int /\ 0 \in {-1, 0}
    OBVIOUS
  <2>3. QED
    BY <1>3, <2>1, <2>2, AccsIn
<1>6. ValueOf(l) \in Int /\ ValueOf(r) \in Int
  BY ValueType
<1>7. Total(s.elts, n, s.out) = ValueOf(l) - ValueOf(r)
  BY <1>3, <1>4, <1>6
<1>8. s.elts \in [1 .. n -> DigitSet] /\ s.out \in {-1, 0}
  BY <1>4, <1>5 DEF DigitSet
<1>9. Terms(s.elts, n, Nat) /\ Terms(s.elts, n, (1 - Base) .. (Base - 1))
  <2>1. Terms(s.elts, n, DigitSet)
    BY <1>8 DEF Terms
  <2>2. QED
    BY <2>1, DigitTerms
<1>10. CASE s.out = 0
  <2>1. 0 \in 0 .. n /\ 0 \in Nat
    OBVIOUS
  <2>2. Total(s.elts, n, 0) \in Nat
    BY <1>9, <2>1, NotNegative DEF Total
  <2>3. QED
    BY <1>6, <1>7, <1>8, <1>10, <2>2 DEF s
<1>11. CASE s.out = -1
  <2>1. 0 \in 0 .. n /\ -1 \in Int /\ -1 < 0
    OBVIOUS
  <2>2. Total(s.elts, n, -1) < 0
    BY <1>9, <2>1, TopSign DEF Total
  <2>3. QED
    BY <1>6, <1>7, <1>8, <1>11, <2>2 DEF s
<1>12. QED
  BY <1>8, <1>10, <1>11

(* bn_flip2sc: two's complement, where the sign is a digit above the rest. *)
LEMMA FlipExact ==
  ASSUME NEW n \in Nat, NEW e \in [1 .. n -> DigitSet]
  PROVE  /\ Flip2sc(e) \in [1 .. n -> DigitSet]
         /\ \E out \in {0, 1} : Total(Flip2sc(e), n, out) = -Total(e, n, -1)
<1> DEFINE w == [i \in 1 .. n |-> Base - 1 - e[i]]
           o == [i \in 1 .. n |-> Base - 1]
           c == Carry(w, n, 1)
           acc == Accs(w, n, 1)
<1>1. DOMAIN e = 1 .. n /\ Len(e) = n /\ Terms(e, n, DigitSet)
  BY ArrayIsSeq DEF Terms
<1>2. Flip2sc(e) = c.elts
  BY <1>1 DEF Flip2sc
<1>3. Terms(e, n, Int) /\ \A i \in 1 .. n : e[i] \in DigitSet
  BY <1>1, DigitTerms
<1>4. /\ \A i \in 1 .. n : w[i] \in 0 .. (Base - 1) /\ w[i] = Base - 1 - e[i]
      /\ \A i \in 1 .. n : o[i] = Base - 1
  BY <1>3, BaseType DEF DigitSet
<1> HIDE DEF w, o
<1>5. Terms(w, n, Int) /\ Terms(o, n, Int)
  BY <1>4, BaseType DEF Terms
<1>6. /\ c.elts \in [1 .. n -> 0 .. (Base - 1)] /\ c.out = acc[n]
      /\ Total(c.elts, n, c.out) = 1 + Total(w, n, 0)
  <2>1. 1 \in Int
    OBVIOUS
  <2>2. QED
    BY <1>5, <2>1, CarryExact
<1>7. \A i \in 0 .. n : acc[i] \in {0, 1}
  <2>1. ASSUME NEW i \in 1 .. n, NEW a \in {0, 1} PROVE (a + w[i]) \div Base \in {0, 1}
    <3>1. a + w[i] \in Int /\ Base * 0 =< a + w[i] /\ a + w[i] < Base * 2
      BY <1>4, BaseType
    <3>2. (a + w[i]) \div Base \in Int
      BY <3>1, Place
    <3>3. 0 \in Int /\ 2 \in Int
      OBVIOUS
    <3>4. 0 =< (a + w[i]) \div Base /\ (a + w[i]) \div Base < 2
      BY <3>1, <3>3, QuotientIn
    <3>5. QED
      BY <3>2, <3>4
  <2>2. {0, 1} \in SUBSET Int /\ 1 \in {0, 1}
    OBVIOUS
  <2>3. QED
    BY <1>5, <2>1, <2>2, AccsIn
<1>8. Total(o, n, -1) = -1
  <2> DEFINE f == [k \in 0 .. n |-> -1]
  <2>1. f[n] = -1
    OBVIOUS
  <2>2. ASSUME NEW k \in 0 .. (n - 1) PROVE f[k] = o[k + 1] + Base * f[k + 1]
    <3>1. f[k] = -1 /\ f[k + 1] = -1 /\ o[k + 1] = Base - 1
      BY <1>4
    <3>2. QED
      BY <3>1, BaseType
  <2>3. -1 \in Int /\ 0 \in 0 .. n /\ f[0] = -1
    OBVIOUS
  <2> HIDE DEF f
  <2>4. \A k \in 0 .. n : f[k] = ValuesFrom(o, n, -1)[k]
    BY <1>5, <2>1, <2>2, <2>3, ValuesAre
  <2>5. QED
    BY <2>3, <2>4 DEF Total
<1>9. Total(w, n, 0) = (-1) * Total(e, n, -1) + Total(o, n, -1)
  <2>1. -1 \in Int /\ 0 = (-1) * (-1) + (-1)
    OBVIOUS
  <2>2. \A i \in 1 .. n : w[i] = (-1) * e[i] + o[i]
    BY <1>3, <1>4, BaseType DEF DigitSet
  <2>3. QED
    BY <1>3, <1>5, <2>1, <2>2, Linear DEF Combined
<1>10. Total(e, n, -1) \in Int
  BY <1>3, TotalType
<1>11. Total(c.elts, n, c.out) = -Total(e, n, -1)
  BY <1>6, <1>8, <1>9, <1>10
<1>12. QED
  BY <1>2, <1>6, <1>7, <1>11 DEF DigitSet

(* A difference that came out with a borrow, turned over.                  *)
LEMMA TurnedOver ==
  ASSUME NEW l \in Seq(DigitSet), NEW r \in Seq(DigitSet), NEW n \in Nat, Len(l) =< n, Len(r) =< n,
         NEW f, f = Flip2sc(SubDigits(n, l, r).elts), SubDigits(n, l, r).out < 0
  PROVE  f \in [1 .. n -> DigitSet] /\ Total(f, n, 0) = ValueOf(r) - ValueOf(l)
<1> DEFINE s == SubDigits(n, l, r)
<1>1. s.elts \in [1 .. n -> DigitSet] /\ s.out = -1 /\ Total(s.elts, n, s.out) = ValueOf(l) - ValueOf(r)
  BY SubDigitsExact
<1>2. f = Flip2sc(s.elts)
  OBVIOUS
<1> HIDE DEF s
<1>3. f \in [1 .. n -> DigitSet] /\ \E out \in {0, 1} : Total(f, n, out) = -(Total(s.elts, n, -1))
  BY <1>1, <1>2, FlipExact
<1>4. PICK out \in {0, 1} : Total(f, n, out) = -(Total(s.elts, n, -1))
  BY <1>3
<1>5. ValueOf(l) \in Nat /\ ValueOf(r) \in Nat
  BY ValueType
<1>6. Total(f, n, out) = ValueOf(r) - ValueOf(l)
  BY <1>1, <1>4, <1>5
<1>7. ValueOf(r) < Total(f, n, 1)
  <2>1. Pad(r, n) \in [1 .. n -> DigitSet] /\ Total(Pad(r, n), n, 0) = ValueOf(r)
    BY PadExact
  <2>2. Terms(Pad(r, n), n, DigitSet) /\ Terms(f, n, DigitSet)
    BY <1>3, <2>1 DEF Terms
  <2>3. Total(Pad(r, n), n, 0) < Total(f, n, 1)
    BY <2>2, BelowTop
  <2>4. QED
    BY <2>1, <2>3
<1>8. out = 0
  BY <1>5, <1>6, <1>7
<1>9. QED
  BY <1>3, <1>6, <1>8

(***************************************************************************)
(* Integers.  An integer has one object: a fixnum when it fits, otherwise  *)
(* a bignum without zeros above its top digit.                             *)
(***************************************************************************)
BignumObject(b) ==
  \E sign \in {-1, 0, 1}, elts \in Seq(DigitSet) :
     b = Big(sign, elts) /\ Normal(elts) /\ (sign = 0 <=> elts = <<>>)

NumberOf(x) == IF IsFixnum(x) THEN x.n ELSE x.sign * ValueOf(x.elts)

IntegerObject(x) ==
  \/ \E n \in FixnumMin .. FixnumMax : x = Fixnum(n)
  \/ BignumObject(x) /\ NumberOf(x) \notin FixnumMin .. FixnumMax

(* The size of a number, by its digits.                                    *)
LEMMA ValueSizes ==
  ASSUME NEW e, Normal(e)
  PROVE  /\ ValueOf(e) \in Nat
         /\ e = <<>> <=> ValueOf(e) = 0
         /\ e # <<>> => Len(e) >= 1
         /\ Len(e) = 1 => ValueOf(e) = e[1]
         /\ Len(e) > 1 => ValueOf(e) >= Base
<1> DEFINE n == Len(e)
           v == ValuesFrom(e, n, 0)
<1>1. e \in Seq(DigitSet) /\ n \in Nat /\ Terms(e, n, DigitSet) /\ (e # <<>> => n >= 1) /\ (e = <<>> => n = 0)
  BY SeqIsArray DEF Normal
<1>2. Terms(e, n, Int) /\ Terms(e, n, (1 - Base) .. (Base - 1)) /\ \A i \in 1 .. n : e[i] \in Nat
  BY <1>1, DigitTerms DEF Terms
<1>3. ValueOf(e) = v[0] /\ ValueOf(e) \in Nat
  BY <1>1, ValueType DEF ValueOf, Total
<1>4. ValuesOf(v, e, n, 0)
  BY <1>1, <1>2, ValuesDef
<1>5. v[n] = 0 /\ \A k \in 0 .. (n - 1) : v[k] = e[k + 1] + Base * v[k + 1]
  BY <1>4 DEF ValuesOf
<1>6. ASSUME n >= 1 PROVE v[n - 1] = e[n] /\ e[n] > 0
  <2>1. n - 1 \in 0 .. (n - 1) /\ (n - 1) + 1 = n /\ n \in 1 .. n /\ e # <<>>
    BY <1>1, <1>6
  <2>2. e[n] \in Nat /\ e[n] # 0
    BY <1>2, <2>1 DEF Normal
  <2>3. v[n - 1] = e[n] + Base * 0
    BY <1>5, <2>1
  <2>4. QED
    BY <2>2, <2>3, BaseType
<1>7. ASSUME n >= 1 PROVE \A k \in 0 .. (n - 1) : v[k] > 0 /\ v[k] \in Int
  <2>1. n - 1 \in Nat /\ n - 1 \in 0 .. n /\ 0 \in Int
    BY <1>1, <1>7
  <2>2. Terms(e, n - 1, (1 - Base) .. (Base - 1)) /\ Terms(e, n - 1, Int)
    BY <1>1, <1>2 DEF Terms
  <2>3. v[n - 1] \in Int /\ v[n - 1] > 0
    BY <1>1, <1>2, <1>6, <1>7 DEF Terms
  <2> HIDE DEF n
  <2>4. \A k \in 0 .. (n - 1) : v[k] = ValuesFrom(e, n - 1, v[n - 1])[k]
    BY <1>1, <1>2, <2>1, Split
  <2> DEFINE u == ValuesFrom(e, n - 1, v[n - 1])
  <2>5. ValuesOf(u, e, n - 1, v[n - 1])
    BY <2>1, <2>2, <2>3, ValuesDef
  <2>6. \A k \in 0 .. (n - 1) : u[k] > 0
    BY <2>1, <2>2, <2>3, TopSign
  <2>7. \A k \in 0 .. (n - 1) : u[k] \in Int
    BY <2>5 DEF ValuesOf
  <2>8. QED
    BY <2>4, <2>6, <2>7
<1>8. ASSUME n = 1 PROVE v[0] = e[1]
  BY <1>6, <1>8
<1>9. ASSUME n > 1 PROVE v[0] >= Base
  <2>1. 0 \in 0 .. (n - 1) /\ 1 \in 0 .. (n - 1) /\ 0 + 1 = 1 /\ 1 \in 1 .. n
    BY <1>1, <1>9
  <2>2. v[1] \in Int /\ v[1] > 0 /\ e[1] \in Nat /\ v[0] = e[1] + Base * v[1]
    BY <1>1, <1>2, <1>5, <1>7, <1>9, <2>1
  <2> HIDE DEF v
  <2>3. Base * v[1] \in Int /\ Base * v[1] >= Base
    BY <2>2, BaseTimes
  <2>4. QED
    BY <2>2, <2>3, BaseType
<1>10. e # <<>> => v[0] > 0
  BY <1>1, <1>7
<1>11. e = <<>> => v[0] = 0
  BY <1>1, <1>5
<1> HIDE DEF v, n
<1>12. QED
  BY <1>1, <1>3, <1>8, <1>9, <1>10, <1>11 DEF n

(* Two fixnums fill half a word, and a word is four times one's range.     *)
LEMMA FixnumSizes ==
  /\ FixnumMin \in Int /\ FixnumMax \in Int /\ 0 \in FixnumMin .. FixnumMax
  /\ \A n \in FixnumMin .. FixnumMax : n \in Int /\ -Base < 2 * n /\ 2 * n < Base
  /\ FixnumMin = -(FixnumMax + 1)
<1> DEFINE m == DigitBits - 2
           q == 2 ^ m
<1>1. m \in Nat /\ m + 1 \in Nat /\ (m + 1) + 1 = DigitBits
  BY DigitBitsAssumption
<1> HIDE DEF m
<1>2. q \in Nat /\ q > 0 /\ 2 ^ (m + 1) = 2 * q
  BY <1>1, PowerOfTwo
<1>3. 2 ^ ((m + 1) + 1) = 2 * 2 ^ (m + 1)
  BY <1>1, PowerOfTwo
<1>4. Base = 2 ^ ((m + 1) + 1)
  BY <1>1 DEF Base
<1>5. FixnumMin = -q /\ FixnumMax = q - 1
  BY DEF FixnumMin, FixnumMax, m
<1> HIDE DEF q
<1>6. Base = 4 * q
  BY <1>2, <1>3, <1>4
<1>7. QED
  BY <1>2, <1>5, <1>6

(* A number in sign and magnitude that is one of the integers' objects.    *)
LEMMA ToIntegerExact ==
  ASSUME NEW sign \in {-1, 0, 1}, NEW elts, Normal(elts), sign = 0 => elts = <<>>
  PROVE  LET x == ToInteger(Big(sign, elts))
         IN  IntegerObject(x) /\ NumberOf(x) = sign * ValueOf(elts)
<1> DEFINE b == Big(sign, elts)
           x == ToInteger(b)
           V == ValueOf(elts)
<1>1. /\ V \in Nat /\ (elts = <<>> <=> V = 0) /\ (elts # <<>> => Len(elts) >= 1)
      /\ (Len(elts) = 1 => V = elts[1]) /\ (Len(elts) > 1 => V >= Base)
  BY ValueSizes
<1>2. elts \in Seq(DigitSet) /\ Len(elts) \in Nat
  BY SeqIsArray DEF Normal
<1>3. b.type = "bignum" /\ b.sign = sign /\ b.elts = elts /\ ~IsFixnum(b) /\ NumberOf(b) = sign * V
  BY DEF Big, IsFixnum, NumberOf
<1>4. ASSUME NEW k \in FixnumMin .. FixnumMax PROVE IntegerObject(Fixnum(k)) /\ NumberOf(Fixnum(k)) = k
  BY <1>4 DEF IntegerObject, Fixnum, NumberOf, IsFixnum
<1> HIDE DEF V
<1>5. CASE elts = <<>>
  <2>1. x = Fixnum(0)
    BY <1>3, <1>5 DEF ToInteger
  <2>2. sign * V = 0 /\ 0 \in FixnumMin .. FixnumMax
    BY <1>1, <1>5, FixnumSizes
  <2>3. QED
    BY <1>4, <2>1, <2>2 DEF V
<1>6. CASE elts # <<>> /\ Len(elts) = 1 /\ sign * V \in FixnumMin .. FixnumMax
  <2>1. Head(elts) = V
    BY <1>1, <1>6
  <2>2. x = Fixnum(sign * V)
    BY <1>3, <1>6, <2>1 DEF ToInteger
  <2>3. QED
    BY <1>4, <1>6, <2>2 DEF V
<1>7. CASE elts # <<>> /\ ~(Len(elts) = 1 /\ sign * V \in FixnumMin .. FixnumMax)
  <2>1. sign # 0
    BY <1>7
  <2>2. x = b
    <3>1. Len(elts) = 1 => Head(elts) = V
      BY <1>1, <1>7
    <3>2. QED
      BY <1>3, <1>7, <3>1 DEF ToInteger
  <2>3. BignumObject(b)
    BY <1>2, <1>7, <2>1 DEF BignumObject
  <2>4. sign * V \notin FixnumMin .. FixnumMax
    <3>1. CASE Len(elts) = 1
      BY <1>7, <3>1
    <3>2. CASE Len(elts) > 1
      <4>1. V >= Base /\ (sign * V = V \/ sign * V = -V)
        BY <1>1, <2>1, <3>2
      <4>2. ASSUME sign * V \in FixnumMin .. FixnumMax PROVE FALSE
        <5>1. -Base < 2 * (sign * V) /\ 2 * (sign * V) < Base
          BY <4>2, FixnumSizes
        <5>2. QED
          BY <1>1, <4>1, <5>1, BaseType
      <4>3. QED
        BY <4>2
    <3>3. elts # <<>>
      BY <1>7
    <3>4. Len(elts) >= 1
      BY <1>1, <3>3
    <3>5. Len(elts) = 1 \/ Len(elts) > 1
      BY <1>2, <3>4
    <3>6. QED
      BY <3>1, <3>2, <3>5
  <2>5. QED
    BY <1>3, <2>2, <2>3, <2>4 DEF IntegerObject, V
<1>8. QED
  BY <1>5, <1>6, <1>7

(* The same of the digits an operation left, zeros above them included.    *)
LEMMA MakeExact ==
  ASSUME NEW sign \in {-1, 1}, NEW elts \in Seq(DigitSet)
  PROVE  IntegerObject(Make(sign, elts)) /\ NumberOf(Make(sign, elts)) = sign * ValueOf(elts)
<1>1. Normal(Norm(elts)) /\ ValueOf(Norm(elts)) = ValueOf(elts)
  BY NormExact
<1>2. sign \in {-1, 0, 1} /\ (sign = 0 => Norm(elts) = <<>>)
  OBVIOUS
<1>3. QED
  BY <1>1, <1>2, ToIntegerExact DEF Make

(* A number of two digits at most, as a bignum.                            *)
LEMMA IntToBignumExact ==
  ASSUME NEW n \in Int, -(Base * Base) < n, n < Base * Base
  PROVE  /\ IntToBignum(n) = Big(Sign(n), IntToBignum(n).elts)
         /\ BignumObject(IntToBignum(n)) /\ NumberOf(IntToBignum(n)) = n
<1> DEFINE a == Abs(n)
           lo == a % Base
           hi == a \div Base
           e == <<lo, hi>>
           elts == Norm(e)
<1>1. a \in Nat /\ a < Base * Base /\ n = Sign(n) * a /\ Sign(n) \in {-1, 0, 1} /\ (Sign(n) = 0 <=> a = 0)
  BY BaseType DEF Abs, Sign
<1> HIDE DEF a
<1>2. lo \in 0 .. (Base - 1) /\ hi \in Int /\ a = lo + Base * hi
  BY <1>1, Place
<1>3. 0 =< hi /\ hi < Base
  <2>1. Base * 0 =< a /\ 0 \in Int /\ Base \in Int /\ a \in Int
    BY <1>1, BaseType
  <2>2. QED
    BY <1>1, <2>1, QuotientIn
<1> HIDE DEF lo, hi
<1>4. e \in Seq(DigitSet) /\ Len(e) = 2 /\ e[1] = lo /\ e[2] = hi
  BY <1>2, <1>3, BaseType DEF DigitSet
<1> HIDE DEF e
<1>5. ValueOf(e) = a
  <2> DEFINE v == ValuesFrom(e, 2, 0)
  <2>1. Terms(e, 2, Int)
    <3>1. Terms(e, 2, DigitSet)
      BY <1>4, SeqIsArray
    <3>2. QED
      BY <3>1, DigitTerms
  <2>2. ValuesOf(v, e, 2, 0)
    BY <2>1, ValuesDef
  <2>3. 0 \in 0 .. (2 - 1) /\ 1 \in 0 .. (2 - 1) /\ 0 + 1 = 1 /\ 1 + 1 = 2
    OBVIOUS
  <2>4. v[2] = 0 /\ v[1] = e[2] + Base * v[2] /\ v[0] = e[1] + Base * v[1]
    BY <2>2, <2>3 DEF ValuesOf
  <2>5. ValueOf(e) = v[0]
    BY <1>4 DEF ValueOf, Total
  <2> HIDE DEF v
  <2>6. v[1] = hi
    BY <1>2, <1>4, <2>4, BaseType
  <2>7. QED
    BY <1>2, <1>4, <2>4, <2>5, <2>6
<1>6. Normal(elts) /\ ValueOf(elts) = a /\ elts \in Seq(DigitSet)
  BY <1>4, <1>5, NormExact DEF Normal
<1>7. elts = <<>> <=> a = 0
  BY <1>6, ValueSizes
<1>8. IntToBignum(n) = Big(Sign(n), elts)
  BY DEF IntToBignum, elts, e, lo, hi, a
<1> HIDE DEF elts
<1>9. BignumObject(Big(Sign(n), elts))
  BY <1>1, <1>6, <1>7 DEF BignumObject
<1>10. NumberOf(Big(Sign(n), elts)) = n /\ Big(Sign(n), elts).elts = elts
  BY <1>1, <1>6 DEF NumberOf, Big, IsFixnum
<1>11. QED
  BY <1>8, <1>9, <1>10

LEMMA LongestType ==
  ASSUME NEW l \in Seq(DigitSet), NEW r \in Seq(DigitSet)
  PROVE  Longest(l, r) \in Nat /\ Len(l) =< Longest(l, r) /\ Len(r) =< Longest(l, r)
<1> DEFINE S == {Len(l), Len(r)}
<1>1. Len(l) \in Nat /\ Len(r) \in Nat
  BY SeqIsArray
<1>2. Len(l) + Len(r) \in Nat /\ S \in SUBSET (0 .. (Len(l) + Len(r))) /\ S # {}
  BY <1>1
<1>3. Len(l) \in S /\ Len(r) \in S
  OBVIOUS
<1>4. Longest(l, r) = Max(S)
  BY DEF Longest
<1> HIDE DEF S
<1>5. Max(S) \in S /\ \A y \in S : y =< Max(S)
  BY <1>2, Greatest
<1>6. QED
  BY <1>1, <1>3, <1>4, <1>5 DEF S

LEMMA DifferenceExact ==
  ASSUME NEW l \in Seq(DigitSet), NEW r \in Seq(DigitSet)
  PROVE  IntegerObject(Difference(l, r)) /\ NumberOf(Difference(l, r)) = ValueOf(l) - ValueOf(r)
<1> DEFINE n == Longest(l, r)
           s == SubDigits(n, l, r)
           f == Flip2sc(s.elts)
<1>1. n \in Nat /\ Len(l) =< n /\ Len(r) =< n
  BY LongestType
<1>2. ValueOf(l) \in Nat /\ ValueOf(r) \in Nat
  BY ValueType
<1>3. Difference(l, r) = IF s.out >= 0 THEN Make(1, s.elts) ELSE Make(-1, f)
  BY DEF Difference
<1> HIDE DEF n
<1>4. /\ s.elts \in [1 .. n -> DigitSet] /\ s.out \in {-1, 0}
      /\ Total(s.elts, n, s.out) = ValueOf(l) - ValueOf(r)
  BY <1>1, SubDigitsExact
<1>5. s.out < 0 => f \in [1 .. n -> DigitSet] /\ Total(f, n, 0) = ValueOf(r) - ValueOf(l)
  BY <1>1, TurnedOver
<1> HIDE DEF s, f
<1>6. CASE s.out = 0
  <2>1. s.elts \in Seq(DigitSet) /\ Len(s.elts) = n
    BY <1>1, <1>4, ArrayIsSeq
  <2>2. ValueOf(s.elts) = ValueOf(l) - ValueOf(r)
    BY <1>4, <1>6, <2>1 DEF ValueOf
  <2>3. 1 \in {-1, 1} /\ Difference(l, r) = Make(1, s.elts)
    BY <1>3, <1>6
  <2>4. IntegerObject(Make(1, s.elts)) /\ NumberOf(Make(1, s.elts)) = 1 * ValueOf(s.elts)
    BY <2>1, <2>3, MakeExact
  <2>5. QED
    BY <1>2, <2>2, <2>3, <2>4
<1>7. CASE s.out = -1
  <2>1. f \in Seq(DigitSet) /\ Len(f) = n
    BY <1>1, <1>5, <1>7, ArrayIsSeq
  <2>2. ValueOf(f) = ValueOf(r) - ValueOf(l)
    BY <1>5, <1>7, <2>1 DEF ValueOf
  <2>3. -1 \in {-1, 1} /\ Difference(l, r) = Make(-1, f)
    BY <1>3, <1>7
  <2>4. IntegerObject(Make(-1, f)) /\ NumberOf(Make(-1, f)) = (-1) * ValueOf(f)
    BY <2>1, <2>3, MakeExact
  <2>5. QED
    BY <1>2, <2>2, <2>3, <2>4
<1>8. QED
  BY <1>4, <1>6, <1>7

(* bn_add on two bignums of the same sign, into an array with a digit more *)
(* than the longer of them.                                                *)
LEMMA SumExact ==
  ASSUME NEW sign \in {-1, 1}, NEW l \in Seq(DigitSet), NEW r \in Seq(DigitSet), NEW x,
         x = Make(sign, AddDigits(Longest(l, r) + 1, l, r).elts)
  PROVE  IntegerObject(x) /\ NumberOf(x) = sign * (ValueOf(l) + ValueOf(r))
<1> DEFINE n == Longest(l, r) + 1
           s == AddDigits(n, l, r)
<1>1. n \in Nat /\ Len(l) < n /\ Len(r) < n /\ Len(l) =< n /\ Len(r) =< n
  <2>1. Len(l) \in Nat /\ Len(r) \in Nat
    BY SeqIsArray
  <2>2. QED
    BY <2>1, LongestType
<1>2. x = Make(sign, s.elts)
  OBVIOUS
<1> HIDE DEF n
<1>3. /\ s.elts \in [1 .. n -> DigitSet] /\ s.out = 0
      /\ Total(s.elts, n, s.out) = ValueOf(l) + ValueOf(r)
  BY <1>1, AddDigitsExact
<1> HIDE DEF s
<1>4. s.elts \in Seq(DigitSet) /\ Len(s.elts) = n
  BY <1>1, <1>3, ArrayIsSeq
<1>5. ValueOf(s.elts) = ValueOf(l) + ValueOf(r)
  BY <1>3, <1>4 DEF ValueOf
<1>6. QED
  BY <1>2, <1>4, <1>5, MakeExact

LEMMA BignumFields ==
  ASSUME NEW b, BignumObject(b)
  PROVE  /\ b = Big(b.sign, b.elts) /\ b.sign \in {-1, 0, 1} /\ b.elts \in Seq(DigitSet) /\ Normal(b.elts)
         /\ b.sign = 0 <=> b.elts = <<>>
         /\ NumberOf(b) = b.sign * ValueOf(b.elts) /\ ~IsFixnum(b) /\ ValueOf(b.elts) \in Nat
         /\ b.elts = <<>> <=> ValueOf(b.elts) = 0
<1>1. PICK sign \in {-1, 0, 1}, elts \in Seq(DigitSet) :
         b = Big(sign, elts) /\ Normal(elts) /\ (sign = 0 <=> elts = <<>>)
  BY DEF BignumObject
<1>2. b.sign = sign /\ b.elts = elts /\ b.type = "bignum"
  BY <1>1 DEF Big
<1>3. ValueOf(elts) \in Nat /\ (elts = <<>> <=> ValueOf(elts) = 0)
  BY <1>1, ValueSizes
<1>4. QED
  BY <1>1, <1>2, <1>3 DEF NumberOf, IsFixnum

(* oprtr_add: every sign, and nought on either side.                       *)
LEMMA OprtrAddExact ==
  ASSUME NEW l, NEW r, BignumObject(l), BignumObject(r)
  PROVE  IntegerObject(OprtrAdd(l, r)) /\ NumberOf(OprtrAdd(l, r)) = NumberOf(l) + NumberOf(r)
<1> DEFINE L == ValueOf(l.elts)
           R == ValueOf(r.elts)
           sum == OprtrAdd(l, r)
<1>1. /\ l = Big(l.sign, l.elts) /\ l.sign \in {-1, 0, 1} /\ l.elts \in Seq(DigitSet) /\ Normal(l.elts)
      /\ l.sign = 0 <=> l.elts = <<>>
      /\ NumberOf(l) = l.sign * L /\ L \in Nat /\ (l.elts = <<>> <=> L = 0)
  BY BignumFields
<1>2. /\ r = Big(r.sign, r.elts) /\ r.sign \in {-1, 0, 1} /\ r.elts \in Seq(DigitSet) /\ Normal(r.elts)
      /\ r.sign = 0 <=> r.elts = <<>>
      /\ NumberOf(r) = r.sign * R /\ R \in Nat /\ (r.elts = <<>> <=> R = 0)
  BY BignumFields
<1> HIDE DEF L, R
<1>3. CASE l.sign = 0
  <2>1. NumberOf(l) = 0
    BY <1>1, <1>3
  <2>2. IntegerObject(ToInteger(r)) /\ NumberOf(ToInteger(r)) = NumberOf(r)
    BY <1>2, ToIntegerExact DEF R
  <2>3. l.sign * r.sign = 0
    BY <1>2, <1>3
  <2>4. sum = ToInteger(r)
    BY <1>3, <2>3 DEF OprtrAdd
  <2>5. QED
    BY <1>2, <2>1, <2>2, <2>4
<1>4. CASE l.sign # 0 /\ r.sign = 0
  <2>1. NumberOf(r) = 0
    BY <1>2, <1>4
  <2>2. IntegerObject(ToInteger(l)) /\ NumberOf(ToInteger(l)) = NumberOf(l)
    BY <1>1, ToIntegerExact DEF L
  <2>3. l.sign * r.sign = 0
    BY <1>1, <1>4
  <2>4. sum = ToInteger(l)
    BY <1>4, <2>3 DEF OprtrAdd
  <2>5. QED
    BY <1>1, <2>1, <2>2, <2>4
<1>5. CASE l.sign \in {-1, 1} /\ l.sign = r.sign
  <2>1. sum = Make(l.sign, AddDigits(Longest(l.elts, r.elts) + 1, l.elts, r.elts).elts)
    BY <1>1, <1>2, <1>5 DEF OprtrAdd
  <2>2. IntegerObject(sum) /\ NumberOf(sum) = l.sign * (L + R)
    BY <1>1, <1>2, <1>5, <2>1, SumExact DEF L, R
  <2>3. QED
    BY <1>1, <1>2, <1>5, <2>2
<1>6. CASE l.sign = 1 /\ r.sign = -1
  <2>1. sum = Difference(l.elts, r.elts)
    BY <1>1, <1>2, <1>6 DEF OprtrAdd
  <2>2. IntegerObject(sum) /\ NumberOf(sum) = L - R
    BY <1>1, <1>2, <2>1, DifferenceExact DEF L, R
  <2>3. QED
    BY <1>1, <1>2, <1>6, <2>2
<1>7. CASE l.sign = -1 /\ r.sign = 1
  <2>1. sum = Difference(r.elts, l.elts)
    BY <1>1, <1>2, <1>7 DEF OprtrAdd
  <2>2. IntegerObject(sum) /\ NumberOf(sum) = R - L
    BY <1>1, <1>2, <2>1, DifferenceExact DEF L, R
  <2>3. QED
    BY <1>1, <1>2, <1>7, <2>2
<1>8. QED
  BY <1>1, <1>2, <1>3, <1>4, <1>5, <1>6, <1>7

(* Whatever an object is, bn_let makes a bignum of it.                     *)
LEMMA AsBignumExact ==
  ASSUME NEW x, IntegerObject(x)
  PROVE  /\ BignumObject(AsBignum(x)) /\ NumberOf(AsBignum(x)) = NumberOf(x) /\ NumberOf(x) \in Int
         /\ IsFixnum(x) => x.n \in FixnumMin .. FixnumMax /\ NumberOf(x) = x.n
<1>1. CASE \E n \in FixnumMin .. FixnumMax : x = Fixnum(n)
  <2>1. PICK n \in FixnumMin .. FixnumMax : x = Fixnum(n)
    BY <1>1
  <2>2. IsFixnum(x) /\ x.n = n /\ NumberOf(x) = n
    BY <2>1 DEF IsFixnum, Fixnum, NumberOf
  <2>3. n \in Int /\ -(Base * Base) < n /\ n < Base * Base
    <3>1. n \in Int /\ -Base < 2 * n /\ 2 * n < Base
      BY FixnumSizes
    <3>2. Base * Base >= Base /\ Base * Base \in Int
      BY BaseType, BaseTimes
    <3>3. QED
      BY <3>1, <3>2, BaseType
  <2>4. BignumObject(IntToBignum(n)) /\ NumberOf(IntToBignum(n)) = n
    BY <2>3, IntToBignumExact
  <2>5. AsBignum(x) = IntToBignum(n)
    BY <2>2 DEF AsBignum
  <2>6. QED
    BY <2>2, <2>3, <2>4, <2>5
<1>2. CASE BignumObject(x)
  <2>1. ~IsFixnum(x) /\ x.sign \in {-1, 0, 1} /\ NumberOf(x) = x.sign * ValueOf(x.elts) /\ ValueOf(x.elts) \in Nat
    BY <1>2, BignumFields
  <2>2. NumberOf(x) \in Int
    BY <2>1
  <2>3. AsBignum(x) = x
    BY <2>1 DEF AsBignum
  <2>4. QED
    BY <1>2, <2>1, <2>2, <2>3
<1>3. QED
  BY <1>1, <1>2 DEF IntegerObject

(* A word, or a product of two, as an integer.                             *)
LEMMA IntToIntegerExact ==
  ASSUME NEW n \in Int, -(Base * Base) < n, n < Base * Base
  PROVE  IntegerObject(IntToInteger(n)) /\ NumberOf(IntToInteger(n)) = n
<1>1. CASE n \in FixnumMin .. FixnumMax
  BY <1>1 DEF IntToInteger, IntegerObject, NumberOf, Fixnum, IsFixnum
<1>2. CASE n \notin FixnumMin .. FixnumMax
  <2>1. BignumObject(IntToBignum(n)) /\ NumberOf(IntToBignum(n)) = n
    BY IntToBignumExact
  <2>2. QED
    BY <1>2, <2>1 DEF IntToInteger, IntegerObject
<1>3. QED
  BY <1>1, <1>2

(* A bignum with its sign turned.                                          *)
LEMMA Turned ==
  ASSUME NEW b, BignumObject(b), NEW t, t = [b EXCEPT !.sign = -@]
  PROVE  BignumObject(t) /\ NumberOf(t) = -(NumberOf(b))
<1>1. /\ b = Big(b.sign, b.elts) /\ b.sign \in {-1, 0, 1} /\ b.elts \in Seq(DigitSet) /\ Normal(b.elts)
      /\ b.sign = 0 <=> b.elts = <<>>
      /\ NumberOf(b) = b.sign * ValueOf(b.elts) /\ ValueOf(b.elts) \in Nat
  BY BignumFields
<1>2. t = Big(-(b.sign), b.elts)
  BY <1>1 DEF Big
<1>3. -(b.sign) \in {-1, 0, 1} /\ (-(b.sign) = 0 <=> b.sign = 0)
  BY <1>1
<1>4. BignumObject(t)
  BY <1>1, <1>2, <1>3 DEF BignumObject
<1>5. NumberOf(t) = (-(b.sign)) * ValueOf(b.elts)
  BY <1>2 DEF NumberOf, Big, IsFixnum
<1>6. QED
  BY <1>1, <1>4, <1>5

LEMMA SmallSums ==
  ASSUME NEW m \in FixnumMin .. FixnumMax, NEW n \in FixnumMin .. FixnumMax
  PROVE  \A z \in {m + n, m - n, -m} : z \in Int /\ -(Base * Base) < z /\ z < Base * Base
<1>1. m \in Int /\ -Base < 2 * m /\ 2 * m < Base /\ n \in Int /\ -Base < 2 * n /\ 2 * n < Base
  BY FixnumSizes
<1>2. Base * Base >= Base /\ Base * Base \in Int
  BY BaseType, BaseTimes
<1>3. QED
  BY <1>1, <1>2, BaseType

(* The sum of two integers is exact, and it is the integer's one object:   *)
(* add() of arith.cpp promotes and demotes when it should.                 *)
THEOREM AddExact ==
  ASSUME NEW x, NEW y, IntegerObject(x), IntegerObject(y)
  PROVE  IntegerObject(AddInt(x, y)) /\ NumberOf(AddInt(x, y)) = NumberOf(x) + NumberOf(y)
<1>1. BignumObject(AsBignum(x)) /\ NumberOf(AsBignum(x)) = NumberOf(x)
  BY AsBignumExact
<1>2. BignumObject(AsBignum(y)) /\ NumberOf(AsBignum(y)) = NumberOf(y)
  BY AsBignumExact
<1>3. CASE BothFixnums(x, y)
  <2>1. x.n \in FixnumMin .. FixnumMax /\ NumberOf(x) = x.n /\ y.n \in FixnumMin .. FixnumMax /\ NumberOf(y) = y.n
    BY <1>3, AsBignumExact DEF BothFixnums
  <2>2. x.n + y.n \in Int /\ -(Base * Base) < x.n + y.n /\ x.n + y.n < Base * Base
    BY <2>1, SmallSums
  <2>3. AddInt(x, y) = IntToInteger(x.n + y.n)
    BY <1>3 DEF AddInt
  <2>4. QED
    BY <2>1, <2>2, <2>3, IntToIntegerExact
<1>4. CASE ~BothFixnums(x, y)
  <2>1. AddInt(x, y) = OprtrAdd(AsBignum(x), AsBignum(y))
    BY <1>4 DEF AddInt
  <2>2. QED
    BY <1>1, <1>2, <2>1, OprtrAddExact
<1>5. QED
  BY <1>3, <1>4

(* sub() likewise.                                                         *)
THEOREM SubExact ==
  ASSUME NEW x, NEW y, IntegerObject(x), IntegerObject(y)
  PROVE  IntegerObject(SubInt(x, y)) /\ NumberOf(SubInt(x, y)) = NumberOf(x) - NumberOf(y)
<1>1. BignumObject(AsBignum(x)) /\ NumberOf(AsBignum(x)) = NumberOf(x) /\ NumberOf(x) \in Int
  BY AsBignumExact
<1>2. BignumObject(AsBignum(y)) /\ NumberOf(AsBignum(y)) = NumberOf(y) /\ NumberOf(y) \in Int
  BY AsBignumExact
<1>3. CASE BothFixnums(x, y)
  <2>1. x.n \in FixnumMin .. FixnumMax /\ NumberOf(x) = x.n /\ y.n \in FixnumMin .. FixnumMax /\ NumberOf(y) = y.n
    BY <1>3, AsBignumExact DEF BothFixnums
  <2>2. x.n - y.n \in Int /\ -(Base * Base) < x.n - y.n /\ x.n - y.n < Base * Base
    BY <2>1, SmallSums
  <2>3. SubInt(x, y) = IntToInteger(x.n - y.n)
    BY <1>3 DEF SubInt
  <2>4. QED
    BY <2>1, <2>2, <2>3, IntToIntegerExact
<1>4. CASE ~BothFixnums(x, y)
  <2> DEFINE t == [AsBignum(y) EXCEPT !.sign = -@]
  <2>1. SubInt(x, y) = OprtrAdd(AsBignum(x), t)
    BY <1>4 DEF SubInt, OprtrSub
  <2>2. BignumObject(t) /\ NumberOf(t) = -(NumberOf(y))
    BY <1>2, Turned
  <2> HIDE DEF t
  <2>3. IntegerObject(SubInt(x, y)) /\ NumberOf(SubInt(x, y)) = NumberOf(x) + (-(NumberOf(y)))
    BY <1>1, <2>1, <2>2, OprtrAddExact
  <2>4. QED
    BY <1>1, <1>2, <2>3
<1>5. QED
  BY <1>3, <1>4

(* negate(): also of the smallest fixnum, whose negation is not one, and   *)
(* of the bignum whose negation is.                                        *)
THEOREM NegateExact ==
  ASSUME NEW x, IntegerObject(x)
  PROVE  IntegerObject(NegateInt(x)) /\ NumberOf(NegateInt(x)) = -(NumberOf(x))
<1>1. CASE IsFixnum(x)
  <2>1. x.n \in FixnumMin .. FixnumMax /\ NumberOf(x) = x.n
    BY <1>1, AsBignumExact
  <2>2. -(x.n) \in Int /\ -(Base * Base) < -(x.n) /\ -(x.n) < Base * Base
    BY <2>1, SmallSums
  <2>3. NegateInt(x) = IntToInteger(-(x.n))
    BY <1>1 DEF NegateInt
  <2>4. QED
    BY <2>1, <2>2, <2>3, IntToIntegerExact
<1>2. CASE ~IsFixnum(x)
  <2> DEFINE t == [x EXCEPT !.sign = -@]
  <2>1. BignumObject(x)
    BY <1>2 DEF IntegerObject, Fixnum, IsFixnum
  <2>2. BignumObject(t) /\ NumberOf(t) = -(NumberOf(x))
    BY <2>1, Turned
  <2>3. NegateInt(x) = ToInteger(t)
    BY <1>2 DEF NegateInt
  <2> HIDE DEF t
  <2>4. /\ t = Big(t.sign, t.elts) /\ t.sign \in {-1, 0, 1} /\ Normal(t.elts)
        /\ t.sign = 0 <=> t.elts = <<>>
        /\ NumberOf(t) = t.sign * ValueOf(t.elts)
    BY <2>2, BignumFields
  <2>5. IntegerObject(ToInteger(t)) /\ NumberOf(ToInteger(t)) = NumberOf(t)
    BY <2>4, ToIntegerExact
  <2>6. QED
    BY <2>2, <2>3, <2>5
<1>3. QED
  BY <1>1, <1>2

(* Equal integers are the same object but for its address: a fixnum never  *)
(* equals a bignum, and bignums are equal when their digits are.           *)
THEOREM OneForm ==
  ASSUME NEW x, NEW y, IntegerObject(x), IntegerObject(y), NumberOf(x) = NumberOf(y)
  PROVE  x = y
<1>1. ASSUME NEW z, IntegerObject(z)
      PROVE  \/ IsFixnum(z) /\ z = Fixnum(NumberOf(z)) /\ NumberOf(z) \in FixnumMin .. FixnumMax
             \/ ~IsFixnum(z) /\ BignumObject(z) /\ NumberOf(z) \notin FixnumMin .. FixnumMax
  <2>1. CASE \E n \in FixnumMin .. FixnumMax : z = Fixnum(n)
    BY <2>1 DEF Fixnum, IsFixnum, NumberOf
  <2>2. CASE BignumObject(z) /\ NumberOf(z) \notin FixnumMin .. FixnumMax
    BY <2>2, BignumFields
  <2>3. QED
    BY <1>1, <2>1, <2>2 DEF IntegerObject
<1>2. CASE IsFixnum(x)
  BY <1>1, <1>2
<1>3. CASE ~IsFixnum(x)
  <2>1. BignumObject(x) /\ BignumObject(y)
    BY <1>1, <1>3
  <2>2. /\ x = Big(x.sign, x.elts) /\ x.sign \in {-1, 0, 1} /\ Normal(x.elts) /\ (x.sign = 0 <=> x.elts = <<>>)
        /\ NumberOf(x) = x.sign * ValueOf(x.elts) /\ ValueOf(x.elts) \in Nat
        /\ (x.elts = <<>> <=> ValueOf(x.elts) = 0)
    BY <2>1, BignumFields
  <2>3. /\ y = Big(y.sign, y.elts) /\ y.sign \in {-1, 0, 1} /\ Normal(y.elts) /\ (y.sign = 0 <=> y.elts = <<>>)
        /\ NumberOf(y) = y.sign * ValueOf(y.elts) /\ ValueOf(y.elts) \in Nat
        /\ (y.elts = <<>> <=> ValueOf(y.elts) = 0)
    BY <2>1, BignumFields
  <2>4. x.sign = y.sign /\ ValueOf(x.elts) = ValueOf(y.elts)
    <3> DEFINE X == ValueOf(x.elts)
               Y == ValueOf(y.elts)
    <3>1. /\ x.sign \in {-1, 0, 1} /\ X \in Nat /\ (x.sign = 0 <=> X = 0)
          /\ y.sign \in {-1, 0, 1} /\ Y \in Nat /\ (y.sign = 0 <=> Y = 0)
          /\ x.sign * X = y.sign * Y
      BY <2>2, <2>3
    <3> HIDE DEF X, Y
    <3>2. x.sign = y.sign /\ X = Y
      BY <3>1
    <3>3. QED
      BY <3>2 DEF X, Y
  <2>5. x.elts = y.elts
    BY <2>2, <2>3, <2>4, OneRow
  <2>6. QED
    BY <2>2, <2>3, <2>4, <2>5
<1>4. QED
  BY <1>2, <1>3

(***************************************************************************)
(* Products.                                                               *)
(***************************************************************************)

(* The product of two digits has room for two more in an accumulator of    *)
(* twice the width.                                                        *)
LEMMA ProductFits ==
  ASSUME NEW x \in DigitSet, NEW y \in DigitSet, NEW z \in DigitSet, NEW a \in DigitSet
  PROVE  x * y \in Nat /\ x * y + z \in Nat /\ (a + (x * y + z)) \div Base \in DigitSet
<1> DEFINE c == Base - 1
           p == x * y
           q == c * y
           s == a + (p + z)
<1>1. /\ x \in Nat /\ y \in Nat /\ z \in Nat /\ a \in Nat /\ x =< c /\ y =< c /\ z =< c /\ a =< c
      /\ c \in Nat /\ Base = c + 1
  BY BaseType DEF DigitSet
<1> HIDE DEF c
<1>2. p \in Nat /\ q \in Nat /\ p =< q
  <2>1. c - x \in Nat
    BY <1>1
  <2>2. (c - x) * y \in Nat
    BY <1>1, <2>1
  <2>3. (c - x) * y = q - p /\ p \in Nat /\ q \in Nat
    BY <1>1
  <2> HIDE DEF p, q
  <2>4. QED
    BY <2>2, <2>3
<1>3. c * c \in Nat /\ q =< c * c
  <2>1. c - y \in Nat
    BY <1>1
  <2>2. c * (c - y) \in Nat
    BY <1>1, <2>1
  <2>3. c * (c - y) = c * c - q /\ c * c \in Nat
    BY <1>1
  <2> HIDE DEF q
  <2>4. QED
    BY <1>2, <2>2, <2>3
<1>4. Base * Base = c * c + 2 * c + 1
  BY <1>1
<1> HIDE DEF p, q
<1> DEFINE d == c * c
<1>5. p + z \in Nat /\ s \in Nat /\ s < d + 2 * c + 1
  <2>1. d \in Nat /\ p =< d
    BY <1>2, <1>3
  <2> HIDE DEF d
  <2>2. QED
    BY <1>1, <1>2, <2>1
<1> HIDE DEF s
<1>6. Base * 0 =< s /\ s < Base * Base /\ 0 \in Int /\ Base \in Int /\ s \in Int
  BY <1>4, <1>5, BaseType
<1>7. s \div Base \in Int
  BY <1>6, Place
<1>8. 0 =< s \div Base /\ s \div Base < Base
  BY <1>6, QuotientIn
<1>9. s \div Base \in DigitSet
  BY <1>7, <1>8, BaseType DEF DigitSet
<1>10. QED
  BY <1>2, <1>5, <1>9 DEF p, s

(* One row of a product: the digits, times another, on top of others.      *)
LEMMA RowExact ==
  ASSUME NEW r \in Seq(DigitSet), NEW digit \in DigitSet, NEW u, Terms(u, Len(r), DigitSet),
         NEW first \in DigitSet, NEW t, \A j \in 1 .. Len(r) : t[j] = digit * r[j] + u[j]
  PROVE  LET c == Carry(t, Len(r), first)
         IN  /\ c.elts \in [1 .. Len(r) -> DigitSet] /\ c.out \in DigitSet
             /\ Total(c.elts, Len(r), c.out) = first + (digit * ValueOf(r) + Total(u, Len(r), 0))
<1> DEFINE m == Len(r)
           c == Carry(t, m, first)
           acc == Accs(t, m, first)
<1>1. m \in Nat /\ Terms(r, m, DigitSet) /\ ValueOf(r) = Total(r, m, 0)
  BY SeqIsArray DEF ValueOf
<1>2. Terms(u, m, DigitSet) /\ \A j \in 1 .. m : t[j] = digit * r[j] + u[j]
  OBVIOUS
<1> HIDE DEF m
<1>3. \A j \in 1 .. m : r[j] \in DigitSet /\ u[j] \in DigitSet
  BY <1>1, <1>2 DEF Terms
<1>4. \A j \in 1 .. m, a \in DigitSet : t[j] \in Nat /\ (a + t[j]) \div Base \in DigitSet
  <2>1. ASSUME NEW j \in 1 .. m, NEW a \in DigitSet
        PROVE  t[j] \in Nat /\ (a + t[j]) \div Base \in DigitSet
    <3> DEFINE q == r[j]
               z == u[j]
    <3>1. q \in DigitSet /\ z \in DigitSet /\ t[j] = digit * q + z
      BY <1>2, <1>3
    <3> HIDE DEF q, z
    <3>2. digit * q + z \in Nat /\ (a + (digit * q + z)) \div Base \in DigitSet
      BY <3>1, ProductFits
    <3>3. QED
      BY <3>1, <3>2
  <2>2. QED
    BY <2>1
<1>5. Terms(t, m, Int) /\ Terms(r, m, Int) /\ Terms(u, m, Int) /\ digit \in Int /\ first \in Int
  <2>1. 0 \in DigitSet
    BY DigitsAre
  <2>2. \A j \in 1 .. m : t[j] \in Nat
    BY <1>4, <2>1
  <2>3. Terms(t, m, Int)
    BY <2>2 DEF Terms
  <2>4. digit \in Int /\ first \in Int
    BY DigitsAre
  <2>5. QED
    BY <1>1, <1>2, <2>3, <2>4, DigitTerms
<1>6. /\ c.elts \in [1 .. m -> 0 .. (Base - 1)] /\ c.out = acc[m]
      /\ Total(c.elts, m, c.out) = first + Total(t, m, 0)
  BY <1>1, <1>5, CarryExact
<1>7. Total(t, m, 0) = digit * Total(r, m, 0) + Total(u, m, 0)
  <2> DEFINE z == 0
  <2>1. /\ z \in Int /\ z = digit * z + z /\ m \in Nat /\ digit \in Int /\ Terms(r, m, Int) /\ Terms(u, m, Int)
        /\ \A j \in 1 .. m : t[j] = digit * r[j] + u[j]
    BY <1>1, <1>2, <1>5
  <2> HIDE DEF z
  <2>2. Total(t, m, z) = digit * Total(r, m, z) + Total(u, m, z)
    BY <2>1, Linear DEF Combined
  <2>3. QED
    BY <2>2 DEF z
<1>8. acc[m] \in DigitSet
  <2>1. \A j \in 1 .. m, a \in DigitSet : (a + t[j]) \div Base \in DigitSet
    BY <1>4
  <2>2. DigitSet \in SUBSET Int
    BY DigitsAre
  <2>3. \A i \in 0 .. m : Accs(t, m, first)[i] \in DigitSet
    BY <1>1, <1>5, <2>1, <2>2, AccsIn
  <2>4. QED
    BY <1>1, <2>3
<1>9. QED
  BY <1>1, <1>6, <1>7, <1>8 DEF DigitSet, m

(* bn_mul_add_digit.                                                       *)
THEOREM MulAddDigitExact ==
  ASSUME NEW l \in Seq(DigitSet), NEW r \in DigitSet, NEW addend \in DigitSet
  PROVE  Normal(MulAddDigit(l, r, addend)) /\ ValueOf(MulAddDigit(l, r, addend)) = r * ValueOf(l) + addend
<1> DEFINE m == Len(l)
           t == [i \in DOMAIN l |-> l[i] * r]
           u == Zeros(m)
           c == Carry(t, m, addend)
           e == Append(c.elts, c.out)
<1>1. m \in Nat /\ DOMAIN l = 1 .. m /\ Terms(l, m, DigitSet) /\ 0 \in DigitSet /\ r \in Int /\ addend \in Int
  BY SeqIsArray, DigitsAre
<1>2. MulAddDigit(l, r, addend) = Norm(e)
  BY DEF MulAddDigit
<1>3. Terms(u, m, DigitSet) /\ \A i \in 1 .. m : u[i] = 0
  BY <1>1 DEF Zeros, Terms
<1>4. \A i \in 1 .. m : t[i] = r * l[i] + u[i]
  <2>1. \A i \in 1 .. m : l[i] \in Nat /\ t[i] = l[i] * r
    BY <1>1, DigitsAre DEF Terms
  <2>2. QED
    BY <1>1, <1>3, <2>1
<1> HIDE DEF t, u
<1>5. /\ c.elts \in [1 .. m -> DigitSet] /\ c.out \in DigitSet
      /\ Total(c.elts, m, c.out) = addend + (r * ValueOf(l) + Total(u, m, 0))
  BY <1>3, <1>4, RowExact
<1>6. Total(u, m, 0) = 0
  <2>1. Terms(u, m, Int) /\ 0 \in 0 .. m /\ \A i \in (0 + 1) .. m : u[i] = 0
    BY <1>1, <1>3, DigitTerms
  <2>2. QED
    BY <1>1, <2>1, NothingAbove DEF Total
<1> HIDE DEF c
<1>7. c.elts \in Seq(DigitSet) /\ Len(c.elts) = m
  BY <1>1, <1>5, ArrayIsSeq
<1>8. /\ e \in Seq(DigitSet) /\ Len(e) = m + 1 /\ e[m + 1] = c.out
      /\ \A i \in 1 .. m : e[i] = c.elts[i]
  BY <1>1, <1>5, <1>7
<1> HIDE DEF e, m
<1>9. ValueOf(e) = Total(c.elts, m, c.out)
  <2> DEFINE v == ValuesFrom(e, m + 1, 0)
  <2>1. Terms(e, m + 1, DigitSet) /\ m + 1 \in Nat
    BY <1>1, <1>8, SeqIsArray
  <2>2. Terms(e, m + 1, Int)
    BY <2>1, DigitTerms
  <2>3. ValuesOf(v, e, m + 1, 0)
    BY <2>1, <2>2, ValuesDef
  <2>4. m \in 0 .. ((m + 1) - 1) /\ 0 + m = m /\ 0 + m =< m + 1 /\ 0 \in Nat /\ 0 \in Int
    BY <1>1
  <2>5. v[m] = e[m + 1] + Base * v[m + 1] /\ v[m + 1] = 0
    BY <2>3, <2>4 DEF ValuesOf
  <2>6. v[m] = c.out
    <3>1. v[m] = c.out + Base * 0 /\ c.out \in Nat
      BY <1>5, <1>8, <2>5, DigitsAre
    <3>2. QED
      BY <3>1, BaseType
  <2>7. v[0] = Total(c.elts, m, v[0 + m])
    <3> DEFINE p == 0
    <3>1. p \in Nat /\ p + m =< m + 1 /\ \A j \in 1 .. m : c.elts[j] = e[p + j]
      BY <1>1, <1>8
    <3> HIDE DEF p
    <3> DEFINE w == c.elts
    <3>2. m \in Nat /\ m + 1 \in Nat /\ Terms(e, m + 1, Int) /\ 0 \in Int /\ FromPlace(w, e, p, m)
      BY <1>1, <2>1, <2>2, <3>1 DEF FromPlace
    <3> DEFINE n == m + 1
               top == 0
    <3>3. m \in Nat /\ n \in Nat /\ p \in Nat /\ p + m =< n
      BY <3>1, <3>2
    <3>4. Terms(e, n, Int) /\ top \in Int /\ FromPlace(w, e, p, m)
      BY <3>2
    <3> HIDE DEF w, v, n, top
    <3>5. ValuesFrom(e, n, top)[p] = Total(w, m, ValuesFrom(e, n, top)[p + m])
      BY <3>3, <3>4, Window
    <3>6. QED
      BY <3>5 DEF p, w, v, n, top
  <2>8. ValueOf(e) = v[0]
    BY <1>8 DEF ValueOf, Total
  <2> HIDE DEF v
  <2>9. QED
    BY <2>4, <2>6, <2>7, <2>8
<1>10. ValueOf(l) \in Nat
  BY ValueType
<1>11. ValueOf(e) = r * ValueOf(l) + addend
  <2>1. r * ValueOf(l) \in Int
    BY <1>1, <1>10
  <2>2. QED
    BY <1>1, <1>5, <1>6, <1>9, <2>1
<1>12. QED
  BY <1>2, <1>8, <1>11, NormExact

(* What a row leaves: digits, also above the places it reaches.            *)
RowAdded(new, row, u, ans, digit, r, i, n) ==
  /\ new \in [1 .. n -> DigitSet]
  /\ \A k \in 1 .. (i - 1) : new[k] = ans[k]
  /\ \A j \in 1 .. Len(r) : new[i + j - 1] = row.elts[j]
  /\ new[i + Len(r)] = row.out
  /\ \A k \in (i + Len(r) + 1) .. n : new[k] = ans[k]
  /\ row.elts \in [1 .. Len(r) -> DigitSet] /\ row.out \in DigitSet
  /\ Total(row.elts, Len(r), row.out) = digit * ValueOf(r) + Total(u, Len(r), 0)
  /\ Terms(u, Len(r), DigitSet)

LEMMA AddRowType ==
  ASSUME NEW r \in Seq(DigitSet), NEW n \in Nat, NEW ans \in [1 .. n -> DigitSet], NEW digit \in DigitSet,
         NEW i \in Nat, i >= 1, i + Len(r) =< n
  PROVE  RowAdded(AddRow(ans, digit, r, i), Carry([j \in DOMAIN r |-> digit * r[j] + ans[i + j - 1]], Len(r), 0),
                  [j \in 1 .. Len(r) |-> ans[i + j - 1]], ans, digit, r, i, n)
<1> DEFINE m == Len(r)
           t == [j \in DOMAIN r |-> digit * r[j] + ans[i + j - 1]]
           new == AddRow(ans, digit, r, i)
           row == Carry(t, m, 0)
           u == [j \in 1 .. m |-> ans[i + j - 1]]
<1>1. m \in Nat /\ DOMAIN r = 1 .. m /\ DOMAIN ans = 1 .. n /\ 0 \in DigitSet
  BY SeqIsArray, DigitsAre
<1>2. \A j \in 1 .. m : i + j - 1 \in 1 .. n /\ i + j - 1 \in i .. (i + m - 1)
  BY <1>1
<1>3. Terms(u, m, DigitSet)
  BY <1>1, <1>2 DEF Terms
<1>4. \A j \in 1 .. m : t[j] = digit * r[j] + u[j]
  BY <1>1
<1>5. new = [k \in 1 .. n |->
                CASE k \in i .. (i + m - 1) -> row.elts[k - i + 1]
                  [] k = i + m              -> row.out
                  [] OTHER                  -> ans[k]]
  BY <1>1 DEF AddRow
<1> HIDE DEF u, new
<1>6. /\ row.elts \in [1 .. m -> DigitSet] /\ row.out \in DigitSet
      /\ Total(row.elts, m, row.out) = 0 + (digit * ValueOf(r) + Total(u, m, 0))
  <2> DEFINE z == 0
  <2>1. z \in DigitSet /\ row = Carry(t, Len(r), z)
    BY <1>1
  <2>2. Terms(u, Len(r), DigitSet) /\ \A j \in 1 .. Len(r) : t[j] = digit * r[j] + u[j]
    BY <1>3, <1>4
  <2> HIDE DEF z, t, row
  <2>3. /\ row.elts \in [1 .. Len(r) -> DigitSet] /\ row.out \in DigitSet
        /\ Total(row.elts, Len(r), row.out) = z + (digit * ValueOf(r) + Total(u, Len(r), 0))
    BY <2>1, <2>2, RowExact
  <2>4. QED
    BY <2>3 DEF z
<1> HIDE DEF row
<1>7. /\ \A k \in 1 .. (i - 1) : new[k] = ans[k]
      /\ \A k \in (i + m + 1) .. n : new[k] = ans[k]
      /\ new[i + m] = row.out
  <2>1. ASSUME NEW k \in 1 .. n, k < i \/ k > i + m PROVE new[k] = ans[k]
    <3>1. k \notin i .. (i + m - 1) /\ k # i + m
      BY <1>1, <2>1
    <3>2. QED
      BY <1>5, <3>1
  <2>2. new[i + m] = row.out
    <3>1. i + m \in 1 .. n /\ i + m \notin i .. (i + m - 1)
      BY <1>1
    <3>2. QED
      BY <1>5, <3>1
  <2>3. QED
    BY <1>1, <2>1, <2>2
<1>8. \A j \in 1 .. m : new[i + j - 1] = row.elts[j]
  <2>1. ASSUME NEW j \in 1 .. m PROVE new[i + j - 1] = row.elts[j]
    <3>1. (i + j - 1) - i + 1 = j /\ i + j - 1 \in 1 .. n /\ i + j - 1 \in i .. (i + m - 1)
      BY <1>1, <1>2
    <3>2. new[i + j - 1] = row.elts[(i + j - 1) - i + 1]
      BY <1>5, <3>1
    <3>3. QED
      BY <3>1, <3>2
  <2>2. QED
    BY <2>1
<1>9. new \in [1 .. n -> DigitSet]
  <2>1. ASSUME NEW k \in 1 .. n PROVE new[k] \in DigitSet
    <3>1. CASE k \in i .. (i + m - 1)
      <4>1. k - i + 1 \in 1 .. m /\ new[k] = row.elts[k - i + 1]
        BY <1>1, <1>5, <3>1
      <4>2. QED
        BY <1>6, <4>1
    <3>2. CASE k = i + m
      BY <1>6, <1>7, <3>2
    <3>3. CASE k \notin i .. (i + m - 1) /\ k # i + m
      BY <1>5, <3>3
    <3>4. QED
      BY <3>1, <3>2, <3>3
  <2>2. QED
    BY <1>5, <2>1
<1>10. Total(row.elts, m, row.out) = digit * ValueOf(r) + Total(u, m, 0)
  <2>1. digit \in Nat /\ ValueOf(r) \in Nat
    BY ValueType, DigitsAre
  <2>2. Total(u, m, 0) \in Int
    <3>1. Terms(u, m, Int) /\ 0 \in Int
      BY <1>3, DigitTerms
    <3>2. QED
      BY <1>1, <3>1, TotalType
  <2>3. digit * ValueOf(r) \in Int
    BY <2>1
  <2>4. QED
    BY <1>6, <2>2, <2>3
<1>11. QED
  BY <1>3, <1>6, <1>7, <1>8, <1>9, <1>10 DEF m, t, row, new, u, RowAdded

(* A digit in its place.                                                   *)
InPlace(i, digit) == Total(Zeros(i - 1), i - 1, digit)

NothingFrom(k, e, n) == \A i \in k .. n : e[i] = 0

(* A row adds what it should where nothing is above it yet.                *)
LEMMA AddRowExact ==
  ASSUME NEW r \in Seq(DigitSet), NEW n \in Nat, NEW ans \in [1 .. n -> DigitSet], NEW digit \in DigitSet,
         NEW i \in Nat, i >= 1, i + Len(r) =< n,
         NothingFrom(i + Len(r), ans, n)
  PROVE  /\ NothingFrom(i + Len(r) + 1, AddRow(ans, digit, r, i), n)
         /\ Total(AddRow(ans, digit, r, i), n, 0) = ValueOf(r) * InPlace(i, digit) + Total(ans, n, 0)
<1> DEFINE m == Len(r)
           t == [j \in DOMAIN r |-> digit * r[j] + ans[i + j - 1]]
           row == Carry(t, m, 0)
           u == [j \in 1 .. m |-> ans[i + j - 1]]
           new == AddRow(ans, digit, r, i)
           elts == row.elts
           out == row.out
           V == ValueOf(r)
           p == i - 1
           v == ValuesFrom(ans, n, 0)
           w == ValuesFrom(new, n, 0)
<1>1. /\ new \in [1 .. n -> DigitSet]
      /\ \A k \in 1 .. (i - 1) : new[k] = ans[k]
      /\ \A j \in 1 .. m : new[i + j - 1] = elts[j]
      /\ new[i + m] = out
      /\ \A k \in (i + m + 1) .. n : new[k] = ans[k]
      /\ elts \in [1 .. m -> DigitSet] /\ out \in DigitSet
      /\ Total(elts, m, out) = digit * V + Total(u, m, 0)
      /\ Terms(u, m, DigitSet)
  <2>1. RowAdded(new, row, u, ans, digit, r, i, n)
    BY AddRowType
  <2>2. QED
    <3> HIDE DEF row, u, new
    <3>1. QED
      BY <2>1 DEF RowAdded
<1>2. m \in Nat /\ V \in Nat /\ digit \in Nat /\ out \in Nat /\ p \in Nat /\ i + m =< n
  BY <1>1, SeqIsArray, ValueType, DigitsAre
<1>3. \A j \in 1 .. m : u[j] = ans[i + j - 1] /\ i + j - 1 = p + j
  OBVIOUS
<1>4. \A k \in (i + m) .. n : ans[k] = 0
  BY DEF NothingFrom
<1> HIDE DEF t, row, m, u, V, new
<1>5. \A k \in (i + m + 1) .. n : new[k] = 0
  BY <1>1, <1>2, <1>4
<1>6. Terms(ans, n, Int) /\ Terms(new, n, Int) /\ 0 \in Int
  <2>1. Terms(ans, n, DigitSet) /\ Terms(new, n, DigitSet)
    BY <1>1 DEF Terms
  <2>2. QED
    BY <2>1, DigitTerms
<1>7. p + m \in 0 .. n /\ i + m \in 0 .. n /\ (p + m) + 1 = i + m /\ p + m \in 0 .. (n - 1) /\ p + m =< n /\ p \in 0 .. n
  BY <1>2
<1>8. v[p + m] = 0
  <2>1. \A k \in ((p + m) + 1) .. n : ans[k] = 0
    BY <1>4, <1>7
  <2>2. QED
    BY <1>6, <1>7, <2>1, NothingAbove
<1>9. w[p + m] = out
  <2>1. w[i + m] = 0
    <3>1. \A k \in ((i + m) + 1) .. n : new[k] = 0
      BY <1>5
    <3>2. QED
      BY <1>6, <1>7, <3>1, NothingAbove
  <2>2. ValuesOf(w, new, n, 0)
    BY <1>6, ValuesDef
  <2>3. w[p + m] = new[i + m] + Base * w[i + m]
    BY <1>7, <2>2 DEF ValuesOf
  <2>4. w[p + m] = out + Base * 0
    BY <1>1, <2>1, <2>3
  <2>5. QED
    BY <1>2, <2>4, BaseType
<1> HIDE DEF p
<1>10. v[p] = Total(u, m, v[p + m])
  <2>1. FromPlace(u, ans, p, m)
    BY <1>3 DEF FromPlace
  <2>2. m \in Nat /\ p \in Nat /\ p + m =< n /\ Terms(ans, n, Int) /\ 0 \in Int
    BY <1>2, <1>6, <1>7
  <2> HIDE DEF v, w, elts, out
  <2>3. ValuesFrom(ans, n, 0)[p] = Total(u, m, ValuesFrom(ans, n, 0)[p + m])
    BY <2>1, <2>2, Window
  <2>4. QED
    BY <2>3 DEF v
<1>11. w[p] = Total(elts, m, w[p + m])
  <2>1. FromPlace(elts, new, p, m)
    BY <1>1, <1>3 DEF FromPlace
  <2>2. m \in Nat /\ p \in Nat /\ p + m =< n /\ Terms(new, n, Int) /\ 0 \in Int
    BY <1>2, <1>6, <1>7
  <2> HIDE DEF v, w, elts, out
  <2>3. ValuesFrom(new, n, 0)[p] = Total(elts, m, ValuesFrom(new, n, 0)[p + m])
    BY <2>1, <2>2, Window
  <2>4. QED
    BY <2>3 DEF w
<1> HIDE DEF v, w, elts, out
<1>12. v[p] \in Int /\ w[p] = V * digit + v[p]
  <2>1. v[p] \in Int
    <3>1. ValuesOf(v, ans, n, 0)
      BY <1>6, ValuesDef DEF v
    <3>2. QED
      BY <1>7, <3>1 DEF ValuesOf
  <2>2. v[p] = Total(u, m, 0) /\ w[p] = digit * V + Total(u, m, 0)
    BY <1>1, <1>8, <1>9, <1>10, <1>11
  <2>3. digit * V = V * digit
    BY <1>2
  <2>4. QED
    BY <2>1, <2>2, <2>3
<1>13. Total(ans, n, 0) = Total(ans, p, v[p]) /\ Total(new, n, 0) = Total(new, p, w[p])
  <2>1. 0 \in 0 .. p /\ 0 \in Int
    BY <1>2
  <2>2. QED
    BY <1>6, <1>7, <2>1, Split DEF Total, v, w
<1> DEFINE z == Zeros(p)
<1>14. Terms(z, p, Int) /\ Terms(ans, p, Int) /\ \A k \in 1 .. p : z[k] = 0 /\ ans[k] \in Int
  <2>1. \A k \in 1 .. p : z[k] = 0
    BY DEF Zeros
  <2>2. p \in Nat /\ p =< n
    BY <1>2, <1>7
  <2> HIDE DEF p
  <2>3. \A k \in 1 .. p : ans[k] \in Int
    <3>1. \A k \in 1 .. p : k \in 1 .. n
      BY <2>2
    <3>2. QED
      BY <1>6, <3>1 DEF Terms
  <2> HIDE DEF z
  <2>4. QED
    BY <2>1, <2>3 DEF Terms
<1>15. \A k \in 1 .. p : new[k] = V * z[k] + ans[k]
  <2>1. ASSUME NEW k \in 1 .. p PROVE new[k] = V * z[k] + ans[k]
    <3>1. new[k] = ans[k] /\ z[k] = 0 /\ ans[k] \in Int
      BY <1>1, <1>14 DEF p
    <3>2. V * 0 = 0
      BY <1>2
    <3>3. QED
      BY <3>1, <3>2
  <2>2. QED
    BY <2>1
<1> HIDE DEF z
<1>16. Total(new, p, w[p]) = V * Total(z, p, digit) + Total(ans, p, v[p])
  <2> DEFINE a == v[p]
             b == w[p]
  <2>1. /\ V \in Int /\ digit \in Int /\ p \in Nat /\ a \in Int /\ b = V * digit + a
        /\ Terms(z, p, Int) /\ Terms(ans, p, Int)
        /\ \A k \in 1 .. p : new[k] = V * z[k] + ans[k]
    BY <1>2, <1>12, <1>14, <1>15
  <2> HIDE DEF a, b
  <2>2. Total(new, p, b) = V * Total(z, p, digit) + Total(ans, p, a)
    BY <2>1, Linear DEF Combined
  <2>3. QED
    BY <2>2 DEF a, b
<1>17. QED
  BY <1>5, <1>13, <1>16 DEF z, p, m, V, InPlace, new, NothingFrom

RowsOf(rows, l, r, n) ==
  /\ rows \in [0 .. Len(l) -> [1 .. n -> DigitSet]]
  /\ rows[0] = Zeros(n)
  /\ \A i \in 1 .. Len(l) : rows[i] = AddRow(rows[i - 1], l[i], r, i)

LEMMA MulRowsDef ==
  ASSUME NEW l \in Seq(DigitSet), NEW r \in Seq(DigitSet)
  PROVE  RowsOf(MulRows(l, r), l, r, Len(l) + Len(r))
<1> DEFINE m == Len(l)
           n == Len(l) + Len(r)
           S == [1 .. n -> DigitSet]
           a == Zeros(n)
           F(rows) == [i \in 0 .. m |-> IF i = 0 THEN a ELSE AddRow(rows[i - 1], l[i], r, i)]
           g == [i \in 1 .. m |-> [x \in S |-> AddRow(x, l[i], r, i)]]
           rows == MulRows(l, r)
<1>1. m \in Nat /\ Len(r) \in Nat /\ n \in Nat /\ Terms(l, m, DigitSet)
  BY SeqIsArray
<1>2. a \in S
  BY DigitsAre DEF Zeros
<1>3. g \in [1 .. m -> [S -> S]]
  <2>1. ASSUME NEW i \in 1 .. m, NEW x \in S PROVE AddRow(x, l[i], r, i) \in S
    <3>1. l[i] \in DigitSet /\ i \in Nat /\ i >= 1 /\ i + Len(r) =< n
      BY <1>1 DEF Terms
    <3>2. RowAdded(AddRow(x, l[i], r, i), Carry([j \in DOMAIN r |-> l[i] * r[j] + x[i + j - 1]], Len(r), 0),
                   [j \in 1 .. Len(r) |-> x[i + j - 1]], x, l[i], r, i, n)
      <4> HIDE DEF n
      <4>1. QED
        BY <1>1, <3>1, AddRowType
    <3>3. QED
      BY <3>2 DEF RowAdded
  <2>2. QED
    <3> HIDE DEF S
    <3>1. QED
      BY <2>1
<1>4. PICK f \in [0 .. m -> S] : f[0] = a /\ \A i \in 1 .. m : f[i] = g[i][f[i - 1]]
  <2> HIDE DEF g, S, a, m
  <2>1. Upward(m, S, a, g)
    BY <1>1, <1>2, <1>3, UpwardExists
  <2>2. QED
    BY <2>1 DEF Upward
<1>5. \A i \in 1 .. m : f[i] = AddRow(f[i - 1], l[i], r, i)
  <2>1. ASSUME NEW i \in 1 .. m PROVE f[i] = AddRow(f[i - 1], l[i], r, i)
    <3> HIDE DEF S
    <3>1. i - 1 \in 0 .. m
      OBVIOUS
    <3>2. f[i - 1] \in S
      BY <1>4, <3>1
    <3>3. f[i] = g[i][f[i - 1]]
      BY <1>4
    <3>4. QED
      BY <3>2, <3>3
  <2>2. QED
    BY <2>1
<1>6. f = F(f)
  <2>1. ASSUME NEW i \in 0 .. m PROVE f[i] = F(f)[i]
    <3>1. CASE i = 0
      BY <1>4, <3>1
    <3>2. CASE i # 0
      BY <1>5, <3>2
    <3>3. QED
      BY <3>1, <3>2
  <2>2. QED
    <3> HIDE DEF S
    <3>1. QED
      BY <1>4, <2>1
<1>7. rows = F(rows)
  <2>1. rows = CHOOSE b : b = F(b)
    BY DEF MulRows
  <2>2. \E b : b = F(b)
    BY <1>6
  <2>3. QED
    <3> HIDE DEF F, rows
    <3>1. QED
      BY <2>1, <2>2
<1> HIDE DEF rows
<1>8. rows[0] = a /\ \A i \in 1 .. m : rows[i] = AddRow(rows[i - 1], l[i], r, i)
  BY <1>1, <1>7
<1>9. \A i \in 0 .. m : rows[i] \in S
  <2> DEFINE G == {i \in 0 .. m : rows[i] \in S}
  <2>1. 0 \in G
    BY <1>1, <1>2, <1>8
  <2>2. ASSUME NEW k \in 0 .. (m - 1), k \in G PROVE k + 1 \in G
    <3>1. k + 1 \in 1 .. m /\ (k + 1) - 1 = k /\ k + 1 \in 0 .. m
      BY <1>1
    <3>2. rows[k] \in S
      BY <2>2
    <3> HIDE DEF S
    <3>3. g[k + 1][rows[k]] \in S
      <4> HIDE DEF g
      <4>1. QED
        BY <1>3, <3>1, <3>2
    <3>4. g[k + 1][rows[k]] = AddRow(rows[k], l[k + 1], r, k + 1)
      BY <3>1, <3>2
    <3>5. rows[k + 1] = AddRow(rows[k], l[k + 1], r, k + 1)
      BY <1>8, <3>1
    <3>6. QED
      BY <3>1, <3>3, <3>4, <3>5
  <2>3. 0 .. m \subseteq G
    <3> HIDE DEF G, S
    <3>1. QED
      BY <1>1, <2>1, <2>2, Ascent
  <2>4. QED
    BY <2>3
<1>10. rows \in [0 .. m -> S]
  <2> HIDE DEF S
  <2>1. rows = [i \in 0 .. m |-> rows[i]]
    BY <1>7
  <2>2. QED
    BY <1>9, <2>1
<1>11. QED
  BY <1>8, <1>10 DEF RowsOf, rows

(* bn_mul.                                                                 *)
THEOREM MulDigitsExact ==
  ASSUME NEW l \in Seq(DigitSet), NEW r \in Seq(DigitSet)
  PROVE  Normal(MulDigits(l, r)) /\ ValueOf(MulDigits(l, r)) = ValueOf(l) * ValueOf(r)
<1> DEFINE m == Len(l)
           n == Len(l) + Len(r)
           V == ValueOf(r)
           rows == MulRows(l, r)
           G == {i \in 0 .. m : /\ NothingFrom(i + Len(r) + 1, rows[i], n)
                                /\ Total(rows[i], n, 0) = V * Total(l, i, 0)}
<1>1. m \in Nat /\ Len(r) \in Nat /\ n \in Nat /\ n = m + Len(r) /\ Terms(l, m, DigitSet) /\ V \in Nat
  BY SeqIsArray, ValueType
<1>2. RowsOf(rows, l, r, n)
  BY MulRowsDef
<1>3. /\ rows[0] = Zeros(n)
      /\ \A i \in 1 .. m : rows[i] = AddRow(rows[i - 1], l[i], r, i)
      /\ \A i \in 0 .. m : rows[i] \in [1 .. n -> DigitSet]
  BY <1>2 DEF RowsOf
<1> HIDE DEF rows, V
<1>4. 0 \in G
  <2> HIDE DEF n, m
  <2>1. \A i \in 1 .. n : rows[0][i] = 0
    BY <1>3 DEF Zeros
  <2>2. NothingFrom(0 + Len(r) + 1, rows[0], n)
    BY <1>1, <2>1 DEF NothingFrom
  <2>3. Total(rows[0], n, 0) = 0
    <3> DEFINE e == rows[0]
    <3>1. /\ Terms(e, n, Int) /\ 0 \in 0 .. n /\ \A i \in (0 + 1) .. n : e[i] = 0
      BY <1>1, <2>1 DEF Terms
    <3> HIDE DEF e
    <3>2. QED
      BY <1>1, <3>1, NothingAbove DEF Total, e
  <2>4. Total(l, 0, 0) = 0
    <3>1. 0 \in Nat /\ 0 \in Int /\ 0 \in 0 .. 0 /\ Terms(l, 0, Int)
      BY DEF Terms
    <3>2. ValuesOf(ValuesFrom(l, 0, 0), l, 0, 0)
      BY <3>1, ValuesDef
    <3>3. QED
      BY <3>2 DEF ValuesOf, Total
  <2>5. V * 0 = 0
    BY <1>1
  <2>6. QED
    BY <1>1, <2>2, <2>3, <2>4, <2>5
<1>5. ASSUME NEW k \in 0 .. (m - 1), k \in G PROVE k + 1 \in G
  <2> DEFINE i == k + 1
             ans == rows[k]
             digit == l[i]
             new == AddRow(ans, digit, r, i)
  <2>1. /\ i \in Nat /\ i >= 1 /\ i + Len(r) =< n /\ digit \in DigitSet /\ i \in 1 .. m /\ i \in 0 .. m /\ i - 1 = k
        /\ k \in 0 .. m /\ k \in Nat
    BY <1>1 DEF Terms
  <2>2. rows[i] = new /\ ans \in [1 .. n -> DigitSet]
    BY <1>3, <2>1
  <2>3. NothingFrom(i + Len(r), ans, n) /\ Total(ans, n, 0) = V * Total(l, k, 0)
    <3>1. k + Len(r) + 1 = i + Len(r)
      BY <1>1, <2>1
    <3>2. QED
      BY <1>5, <3>1
  <2>4. /\ NothingFrom(i + Len(r) + 1, new, n)
        /\ Total(new, n, 0) = V * InPlace(i, digit) + Total(ans, n, 0)
    <3>1. /\ n \in Nat /\ ans \in [1 .. n -> DigitSet] /\ digit \in DigitSet /\ i \in Nat /\ i >= 1
          /\ i + Len(r) =< n /\ NothingFrom(i + Len(r), ans, n)
      BY <1>1, <2>1, <2>2, <2>3
    <3> HIDE DEF n, ans, digit, i
    <3>2. /\ NothingFrom(i + Len(r) + 1, AddRow(ans, digit, r, i), n)
          /\ Total(AddRow(ans, digit, r, i), n, 0) = ValueOf(r) * InPlace(i, digit) + Total(ans, n, 0)
      BY <3>1, AddRowExact
    <3>3. QED
      BY <3>2 DEF V
  <2>5. Total(l, i, 0) = InPlace(i, digit) + Total(l, k, 0) /\ InPlace(i, digit) \in Int /\ Total(l, k, 0) \in Int
    <3> DEFINE z == Zeros(k)
               v == ValuesFrom(l, i, 0)
    <3>1. Terms(l, i, Int) /\ Terms(l, k, Int) /\ digit \in Int
      <4>1. Terms(l, i, DigitSet) /\ Terms(l, k, DigitSet)
        BY <1>1, <2>1 DEF Terms
      <4>2. digit \in Int
        <5> HIDE DEF digit
        <5>1. digit \in Nat
          BY <2>1, DigitsAre
        <5>2. QED
          BY <5>1
      <4>3. Terms(l, i, Int) /\ Terms(l, k, Int)
        <5> HIDE DEF i
        <5>1. QED
          BY <4>1, DigitTerms
      <4>4. QED
        BY <4>2, <4>3
    <3>2. Terms(z, k, Int) /\ \A j \in 1 .. k : l[j] = 1 * z[j] + l[j]
      BY <3>1 DEF Terms, Zeros
    <3>3. InPlace(i, digit) = Total(z, k, digit)
      BY <2>1 DEF InPlace
    <3> HIDE DEF z
    <3>4. v[k] = digit
      <4>1. ValuesOf(v, l, i, 0)
        BY <2>1, <3>1, ValuesDef
      <4>2. k \in 0 .. (i - 1) /\ k + 1 = i
        BY <2>1
      <4>3. v[k] = l[i] + Base * 0
        BY <4>1, <4>2 DEF ValuesOf
      <4>4. QED
        BY <3>1, <4>3, BaseType
    <3>5. Total(l, i, 0) = Total(l, k, digit)
      <4>1. k \in 0 .. i /\ 0 \in 0 .. k /\ 0 \in Int
        BY <2>1
      <4>2. Total(l, i, 0) = v[0]
        BY DEF Total
      <4> HIDE DEF i, digit
      <4>3. v[0] = ValuesFrom(l, k, v[k])[0]
        BY <2>1, <3>1, <4>1, Split
      <4>4. QED
        BY <3>4, <4>2, <4>3 DEF Total
    <3> DEFINE one == 1
               zero == 0
    <3>6. /\ one \in Int /\ zero \in Int /\ digit \in Int /\ digit = one * digit + zero
          /\ k \in Nat /\ Terms(z, k, Int) /\ Terms(l, k, Int) /\ Combined(l, one, z, l, k)
      BY <2>1, <3>1, <3>2 DEF Combined
    <3> HIDE DEF one, zero, i, digit
    <3>7. Total(l, k, digit) = one * Total(z, k, digit) + Total(l, k, zero)
      BY <3>6, Linear
    <3>8. Total(z, k, digit) \in Int /\ Total(l, k, zero) \in Int
      BY <3>6, TotalType
    <3>9. QED
      BY <3>3, <3>5, <3>7, <3>8 DEF one, zero
  <2> HIDE DEF i, ans, digit, new, n
  <2>6. Total(rows[i], n, 0) = V * Total(l, i, 0)
    <3> DEFINE P == InPlace(i, digit)
               Q == Total(l, k, 0)
    <3>1. P \in Int /\ Q \in Int /\ V \in Int /\ Total(l, i, 0) = P + Q /\ Total(rows[i], n, 0) = V * P + V * Q
      BY <1>1, <2>2, <2>3, <2>4, <2>5
    <3> HIDE DEF P, Q
    <3>2. V * (P + Q) = V * P + V * Q
      BY <3>1
    <3>3. QED
      BY <3>1, <3>2
  <2>7. NothingFrom(i + Len(r) + 1, rows[i], n)
    BY <2>2, <2>4
  <2>8. i \in G
    BY <2>1, <2>6, <2>7
  <2>9. QED
    BY <2>8 DEF i
<1>6. 0 .. m \subseteq G
  <2> HIDE DEF G, m
  <2>1. QED
    BY <1>1, <1>4, <1>5, Ascent
<1>7. m \in 0 .. m
  BY <1>1
<1> DEFINE e == rows[m]
<1>8. e \in [1 .. n -> DigitSet] /\ Total(e, n, 0) = V * Total(l, m, 0)
  BY <1>3, <1>6, <1>7
<1>9. Total(l, m, 0) = ValueOf(l)
  BY DEF ValueOf
<1>10. MulDigits(l, r) = Norm(e)
  BY DEF MulDigits, rows
<1> HIDE DEF e, n, m
<1>11. e \in Seq(DigitSet) /\ ValueOf(e) = V * ValueOf(l)
  <2>1. e \in Seq(DigitSet) /\ Len(e) = n
    BY <1>1, <1>8, ArrayIsSeq
  <2>2. QED
    BY <1>8, <1>9, <2>1 DEF ValueOf
<1>12. Normal(Norm(e)) /\ ValueOf(Norm(e)) = ValueOf(e)
  BY <1>11, NormExact
<1>13. ValueOf(l) \in Nat
  BY ValueType
<1>14. V * ValueOf(l) = ValueOf(l) * V
  BY <1>1, <1>13
<1>15. QED
  BY <1>10, <1>11, <1>12, <1>14 DEF V

LEMMA SmallProducts ==
  ASSUME NEW m \in FixnumMin .. FixnumMax, NEW n \in FixnumMin .. FixnumMax
  PROVE  m * n \in Int /\ -(Base * Base) < m * n /\ m * n < Base * Base
<1> DEFINE a == Base - m
           b == Base + m
           c == Base - n
           d == Base + n
           p == m * n
           s == Base * Base
<1>1. m \in Int /\ n \in Int /\ Base \in Int /\ a \in Nat /\ b \in Nat /\ c \in Nat /\ d \in Nat
      /\ a > 0 /\ b > 0 /\ c > 0 /\ d > 0
  BY FixnumSizes, BaseType
<1>2. /\ a * d = s + Base * n - m * Base - p /\ b * c = s - Base * n + m * Base - p
      /\ a * c = s - Base * n - m * Base + p /\ b * d = s + Base * n + m * Base + p
      /\ p \in Int /\ s \in Int /\ Base * n \in Int /\ m * Base \in Int
  BY <1>1
<1>3. ASSUME NEW x \in Nat, NEW y \in Nat, x > 0, y > 0 PROVE x * y \in Nat /\ x * y > 0
  BY <1>3
<1> HIDE DEF a, b, c, d
<1>4. a * d > 0 /\ b * c > 0 /\ a * c > 0 /\ b * d > 0
  BY <1>1, <1>3
<1> DEFINE u == Base * n
           w == m * Base
<1>5. s + u - w - p > 0 /\ s - u + w - p > 0 /\ s - u - w + p > 0 /\ s + u + w + p > 0
      /\ p \in Int /\ s \in Int /\ u \in Int /\ w \in Int
  BY <1>2, <1>4
<1> HIDE DEF p, s, u, w
<1>6. p \in Int /\ -s < p /\ p < s
  BY <1>5
<1>7. QED
  BY <1>6 DEF p, s

(* oprtr_mul.                                                              *)
LEMMA OprtrMulExact ==
  ASSUME NEW l, NEW r, BignumObject(l), BignumObject(r)
  PROVE  IntegerObject(OprtrMul(l, r)) /\ NumberOf(OprtrMul(l, r)) = NumberOf(l) * NumberOf(r)
<1> DEFINE L == ValueOf(l.elts)
           R == ValueOf(r.elts)
           e == MulDigits(l.elts, r.elts)
           product == OprtrMul(l, r)
<1>1. /\ l.sign \in {-1, 0, 1} /\ l.elts \in Seq(DigitSet) /\ NumberOf(l) = l.sign * L /\ L \in Nat
  BY BignumFields
<1>2. /\ r.sign \in {-1, 0, 1} /\ r.elts \in Seq(DigitSet) /\ NumberOf(r) = r.sign * R /\ R \in Nat
  BY BignumFields
<1>3. e \in Seq(DigitSet) /\ ValueOf(e) = L * R
  BY <1>1, <1>2, MulDigitsExact DEF Normal
<1> HIDE DEF L, R, e
<1>4. CASE l.sign = 0 \/ r.sign = 0
  <2>1. l.sign * r.sign = 0 /\ NumberOf(l) * NumberOf(r) = 0
    BY <1>1, <1>2, <1>4
  <2>2. product = Fixnum(0)
    BY <2>1 DEF OprtrMul
  <2>3. IntegerObject(Fixnum(0)) /\ NumberOf(Fixnum(0)) = 0
    BY FixnumSizes DEF IntegerObject, NumberOf, Fixnum, IsFixnum
  <2>4. QED
    BY <2>1, <2>2, <2>3
<1>5. ASSUME NEW sign \in {-1, 1}, l.sign * r.sign = sign, NumberOf(l) * NumberOf(r) = sign * (L * R)
      PROVE  IntegerObject(product) /\ NumberOf(product) = NumberOf(l) * NumberOf(r)
  <2>1. product = Make(sign, e)
    BY <1>5 DEF OprtrMul, e
  <2>2. IntegerObject(Make(sign, e)) /\ NumberOf(Make(sign, e)) = sign * ValueOf(e)
    BY <1>3, MakeExact
  <2>3. QED
    BY <1>3, <1>5, <2>1, <2>2
<1>6. CASE l.sign \in {-1, 1} /\ r.sign = l.sign
  <2>1. l.sign * r.sign = 1 /\ NumberOf(l) * NumberOf(r) = 1 * (L * R)
    BY <1>1, <1>2, <1>6
  <2>2. 1 \in {-1, 1}
    OBVIOUS
  <2>3. QED
    BY <1>5, <2>1, <2>2
<1>7. CASE l.sign \in {-1, 1} /\ r.sign = -(l.sign)
  <2>1. l.sign * r.sign = -1 /\ NumberOf(l) * NumberOf(r) = (-1) * (L * R)
    BY <1>1, <1>2, <1>7
  <2>2. -1 \in {-1, 1}
    OBVIOUS
  <2>3. QED
    BY <1>5, <2>1, <2>2
<1>8. QED
  BY <1>1, <1>2, <1>4, <1>6, <1>7

(* The product of two integers is exact, and it is the integer's one       *)
(* object: mul().                                                          *)
THEOREM MulExact ==
  ASSUME NEW x, NEW y, IntegerObject(x), IntegerObject(y)
  PROVE  IntegerObject(MulInt(x, y)) /\ NumberOf(MulInt(x, y)) = NumberOf(x) * NumberOf(y)
<1>1. BignumObject(AsBignum(x)) /\ NumberOf(AsBignum(x)) = NumberOf(x)
  BY AsBignumExact
<1>2. BignumObject(AsBignum(y)) /\ NumberOf(AsBignum(y)) = NumberOf(y)
  BY AsBignumExact
<1>3. CASE BothFixnums(x, y)
  <2>1. x.n \in FixnumMin .. FixnumMax /\ NumberOf(x) = x.n /\ y.n \in FixnumMin .. FixnumMax /\ NumberOf(y) = y.n
    BY <1>3, AsBignumExact DEF BothFixnums
  <2>2. x.n * y.n \in Int /\ -(Base * Base) < x.n * y.n /\ x.n * y.n < Base * Base
    BY <2>1, SmallProducts
  <2>3. MulInt(x, y) = IntToInteger(x.n * y.n)
    BY <1>3 DEF MulInt
  <2> DEFINE z == x.n * y.n
  <2>4. z \in Int /\ -(Base * Base) < z /\ z < Base * Base /\ MulInt(x, y) = IntToInteger(z)
    BY <2>2, <2>3
  <2> HIDE DEF z
  <2>5. IntegerObject(IntToInteger(z)) /\ NumberOf(IntToInteger(z)) = z
    BY <2>4, IntToIntegerExact
  <2>6. QED
    BY <2>1, <2>4, <2>5 DEF z
<1>4. CASE ~BothFixnums(x, y)
  <2>1. MulInt(x, y) = OprtrMul(AsBignum(x), AsBignum(y))
    BY <1>4 DEF MulInt
  <2>2. QED
    BY <1>1, <1>2, <2>1, OprtrMulExact
<1>5. QED
  BY <1>3, <1>4

(***************************************************************************)
(* Division by a digit.                                                    *)
(***************************************************************************)
LEMMA DivMod ==
  ASSUME NEW d \in Nat, d > 0, NEW a \in Int
  PROVE  a \div d \in Int /\ a % d \in 0 .. (d - 1) /\ a = d * (a \div d) + (a % d)
<1>1. \A b \in Nat : b > 0 => a \div b \in Int /\ a % b \in 0 .. (b - 1) /\ a = b * (a \div b) + (a % b)
  OBVIOUS
<1>2. QED
  BY <1>1

(* A remainder and the next digit: the quotient is a digit.                *)
LEMMA QuotientDigit ==
  ASSUME NEW d \in Nat, d > 0, NEW x \in 0 .. (d - 1), NEW digit \in DigitSet
  PROVE  /\ x * Base + digit \in Nat
         /\ (x * Base + digit) \div d \in DigitSet /\ (x * Base + digit) % d \in 0 .. (d - 1)
         /\ x * Base + digit = d * ((x * Base + digit) \div d) + ((x * Base + digit) % d)
<1> DEFINE a == x * Base + digit
           q == a \div d
           s == a % d
<1>1. x * Base \in Nat /\ digit \in Nat /\ digit < Base /\ Base \in Nat /\ Base > 1 /\ a \in Nat
  BY BaseType DEF DigitSet
<1>2. a + 1 =< d * Base
  <2>1. (d - 1 - x) * Base \in Nat
    <3>1. d - 1 - x \in Nat
      OBVIOUS
    <3>2. QED
      BY <1>1, <3>1
  <2>2. (d - 1 - x) * Base = d * Base - Base - x * Base /\ d * Base \in Int
    BY <1>1
  <2>3. QED
    BY <1>1, <2>1, <2>2
<1> HIDE DEF a
<1>3. q \in Int /\ s \in 0 .. (d - 1) /\ a = d * q + s
  BY <1>1, DivMod
<1> HIDE DEF q, s
<1>4. q >= 0
  <2>1. ASSUME q < 0 PROVE FALSE
    <3>1. -q - 1 \in Nat
      BY <1>3, <2>1
    <3>2. d * (-q - 1) \in Nat
      BY <3>1
    <3>3. d * (-q - 1) = -(d * q) - d /\ d * q \in Int
      BY <1>3
    <3>4. QED
      BY <1>1, <1>3, <3>2, <3>3
  <2>2. QED
    BY <1>3, <2>1
<1>5. q < Base
  <2>1. ASSUME q >= Base PROVE FALSE
    <3>1. q - Base \in Nat
      BY <1>1, <1>3, <2>1
    <3>2. d * (q - Base) \in Nat
      BY <3>1
    <3>3. d * (q - Base) = d * q - d * Base /\ d * q \in Int /\ d * Base \in Int
      BY <1>1, <1>3
    <3>4. QED
      BY <1>1, <1>2, <1>3, <3>2, <3>3
  <2>2. QED
    BY <1>1, <1>3, <2>1
<1>6. q \in DigitSet
  BY <1>1, <1>3, <1>4, <1>5 DEF DigitSet
<1>7. a \in Nat /\ q \in DigitSet /\ s \in 0 .. (d - 1) /\ a = d * q + s
  BY <1>1, <1>3, <1>6
<1>8. QED
  BY <1>7, Zenon DEF q, s, a

RemaindersOf(rem, e, d) ==
  /\ rem \in [0 .. Len(e) -> 0 .. (d - 1)]
  /\ rem[Len(e)] = 0
  /\ \A k \in 0 .. (Len(e) - 1) : rem[k] = (rem[k + 1] * Base + e[k + 1]) % d

LEMMA RemaindersDef ==
  ASSUME NEW e \in Seq(DigitSet), NEW d \in Nat, d > 0
  PROVE  RemaindersOf(Remainders(e, d), e, d)
<1> DEFINE n == Len(e)
           S == 0 .. (d - 1)
           F(rem) == [k \in 0 .. n |-> IF k = n THEN 0 ELSE (rem[k + 1] * Base + e[k + 1]) % d]
           g == [k \in 0 .. (n - 1) |-> [x \in S |-> (x * Base + e[k + 1]) % d]]
           rem == Remainders(e, d)
<1>1. n \in Nat /\ Terms(e, n, DigitSet) /\ 0 \in S
  BY SeqIsArray
<1>2. ASSUME NEW k \in 0 .. (n - 1), NEW x \in S PROVE (x * Base + e[k + 1]) % d \in S
  <2>1. k + 1 \in 1 .. n /\ e[k + 1] \in DigitSet
    BY <1>1 DEF Terms
  <2>2. QED
    BY <2>1, QuotientDigit
<1>3. g \in [0 .. (n - 1) -> [S -> S]]
  <2> HIDE DEF S, n
  <2>1. QED
    BY <1>2
<1>4. PICK f \in [0 .. n -> S] : f[n] = 0 /\ \A k \in 0 .. (n - 1) : f[k] = g[k][f[k + 1]]
  <2> DEFINE a == 0
  <2>1. a \in S
    BY <1>1
  <2> HIDE DEF g, S, n, a
  <2>2. Downward(n, S, a, g)
    BY <1>1, <1>3, <2>1, DownwardExists
  <2>3. QED
    BY <2>2 DEF Downward, a
<1>5. \A k \in 0 .. (n - 1) : f[k] = (f[k + 1] * Base + e[k + 1]) % d
  <2>1. ASSUME NEW k \in 0 .. (n - 1) PROVE f[k] = (f[k + 1] * Base + e[k + 1]) % d
    <3> HIDE DEF S
    <3>1. k + 1 \in 0 .. n
      BY <1>1
    <3>2. f[k + 1] \in S
      BY <1>4, <3>1
    <3>3. f[k] = g[k][f[k + 1]]
      BY <1>4
    <3>4. QED
      BY <3>2, <3>3
  <2>2. QED
    BY <2>1
<1>6. f = F(f)
  <2>1. ASSUME NEW k \in 0 .. n PROVE f[k] = F(f)[k]
    <3>1. CASE k = n
      BY <1>4, <3>1
    <3>2. CASE k # n
      <4>1. k \in 0 .. (n - 1)
        BY <1>1, <3>2
      <4>2. QED
        BY <1>5, <3>2, <4>1
    <3>3. QED
      BY <3>1, <3>2
  <2>2. QED
    <3> HIDE DEF S
    <3>1. QED
      BY <1>4, <2>1
<1>7. rem = F(rem)
  <2>1. rem = CHOOSE b : b = F(b)
    BY DEF Remainders
  <2>2. \E b : b = F(b)
    BY <1>6
  <2>3. QED
    <3> HIDE DEF F, rem
    <3>1. QED
      BY <2>1, <2>2
<1> HIDE DEF rem
<1>8. rem[n] = 0 /\ \A k \in 0 .. (n - 1) : rem[k] = (rem[k + 1] * Base + e[k + 1]) % d
  <2>1. n \in 0 .. n /\ \A k \in 0 .. (n - 1) : k \in 0 .. n /\ k # n
    BY <1>1
  <2> HIDE DEF n
  <2>2. QED
    BY <1>7, <2>1
<1>9. \A k \in 0 .. n : rem[k] \in S
  <2> DEFINE G == {k \in 0 .. n : rem[k] \in S}
  <2>1. n \in G
    BY <1>1, <1>8
  <2>2. ASSUME NEW k \in 0 .. (n - 1), k + 1 \in G PROVE k \in G
    <3>1. rem[k + 1] \in S /\ k \in 0 .. n
      BY <2>2
    <3>2. rem[k] \in S
      <4> HIDE DEF S, n
      <4>1. QED
        BY <1>2, <1>8, <3>1
    <3>3. QED
      BY <3>1, <3>2
  <2>3. 0 .. n \subseteq G
    <3> HIDE DEF G, S, n
    <3>1. QED
      BY <1>1, <2>1, <2>2, Descent
  <2>4. QED
    BY <2>3
<1>10. rem \in [0 .. n -> S]
  <2> HIDE DEF S
  <2>1. rem = [k \in 0 .. n |-> rem[k]]
    BY <1>7
  <2>2. QED
    BY <1>9, <2>1
<1>11. QED
  BY <1>8, <1>10 DEF RemaindersOf, rem

(* bn_div_digit.                                                           *)
THEOREM DivDigitExact ==
  ASSUME NEW e \in Seq(DigitSet), NEW d \in 1 .. (Base - 1)
  PROVE  LET c == DivDigit(e, d)
         IN  /\ Normal(c.quo) /\ c.rem \in 0 .. (d - 1)
             /\ ValueOf(e) = d * ValueOf(c.quo) + c.rem
<1> DEFINE n == Len(e)
           rem == Remainders(e, d)
           q == [i \in DOMAIN e |-> (rem[i] * Base + e[i]) \div d]
           v == ValuesFrom(e, n, 0)
           w == ValuesFrom(q, n, 0)
           G == {k \in 0 .. n : v[k] = d * w[k] + rem[k]}
<1>1. n \in Nat /\ Terms(e, n, DigitSet) /\ DOMAIN e = 1 .. n /\ d \in Nat /\ d > 0 /\ d \in Int
  BY SeqIsArray, BaseType
<1>2. RemaindersOf(rem, e, d)
  BY <1>1, RemaindersDef
<1>3. DivDigit(e, d).quo = Norm(q) /\ DivDigit(e, d).rem = rem[0]
  BY DEF DivDigit
<1> HIDE DEF rem
<1>4. /\ \A k \in 0 .. n : rem[k] \in 0 .. (d - 1)
      /\ rem[n] = 0
      /\ \A k \in 0 .. (n - 1) : rem[k] = (rem[k + 1] * Base + e[k + 1]) % d
  BY <1>2 DEF RemaindersOf
<1>5. \A k \in 0 .. (n - 1) : /\ q[k + 1] \in DigitSet
                              /\ rem[k + 1] * Base + e[k + 1] = d * q[k + 1] + rem[k]
  <2>1. ASSUME NEW k \in 0 .. (n - 1)
        PROVE  q[k + 1] \in DigitSet /\ rem[k + 1] * Base + e[k + 1] = d * q[k + 1] + rem[k]
    <3>1. k + 1 \in 1 .. n /\ k + 1 \in 0 .. n
      BY <1>1
    <3>2. e[k + 1] \in DigitSet /\ rem[k + 1] \in 0 .. (d - 1)
      BY <1>1, <1>4, <3>1 DEF Terms
    <3>3. q[k + 1] = (rem[k + 1] * Base + e[k + 1]) \div d
      BY <1>1, <3>1
    <3>4. rem[k] = (rem[k + 1] * Base + e[k + 1]) % d
      BY <1>4
    <3> DEFINE x == rem[k + 1]
               digit == e[k + 1]
    <3>5. x \in 0 .. (d - 1) /\ digit \in DigitSet /\ q[k + 1] = (x * Base + digit) \div d
          /\ rem[k] = (x * Base + digit) % d
      BY <3>2, <3>3, <3>4
    <3> HIDE DEF x, digit, q
    <3>6. /\ (x * Base + digit) \div d \in DigitSet
          /\ x * Base + digit = d * ((x * Base + digit) \div d) + ((x * Base + digit) % d)
      BY <1>1, <3>5, QuotientDigit
    <3> DEFINE a == x * Base + digit
    <3>7. a \div d \in DigitSet /\ a = d * (a \div d) + (a % d) /\ q[k + 1] = a \div d /\ rem[k] = a % d
      BY <3>5, <3>6
    <3> HIDE DEF a
    <3>8. q[k + 1] \in DigitSet /\ a = d * q[k + 1] + rem[k]
      BY <3>7
    <3>9. QED
      BY <3>8 DEF x, digit, a
  <2>2. QED
    BY <2>1
<1>6. q \in [1 .. n -> DigitSet]
  <2>1. ASSUME NEW i \in 1 .. n PROVE q[i] \in DigitSet
    <3>1. i - 1 \in 0 .. (n - 1) /\ (i - 1) + 1 = i
      BY <1>1
    <3> HIDE DEF q, n
    <3>2. QED
      BY <1>5, <3>1
  <2>2. QED
    BY <1>1, <2>1
<1> HIDE DEF q, n
<1>7. Terms(e, n, Int) /\ Terms(q, n, Int)
  <2>1. Terms(q, n, DigitSet)
    BY <1>6 DEF Terms
  <2>2. QED
    BY <1>1, <2>1, DigitTerms
<1>8. ValuesOf(v, e, n, 0) /\ ValuesOf(w, q, n, 0)
  <2>1. 0 \in Int
    OBVIOUS
  <2>2. QED
    BY <1>1, <1>7, <2>1, ValuesDef
<1> HIDE DEF v, w
<1>9. /\ v[n] = 0 /\ w[n] = 0 /\ \A k \in 0 .. n : w[k] \in Int
      /\ \A k \in 0 .. (n - 1) : v[k] = e[k + 1] + Base * v[k + 1] /\ w[k] = q[k + 1] + Base * w[k + 1]
  BY <1>8 DEF ValuesOf
<1>10. n \in G
  <2>1. d * 0 = 0
    BY <1>1
  <2>2. QED
    BY <1>1, <1>4, <1>9, <2>1
<1>11. ASSUME NEW k \in 0 .. (n - 1), k + 1 \in G PROVE k \in G
  <2> DEFINE x == w[k + 1]
             r == rem[k + 1]
             s == rem[k]
             a == e[k + 1]
             b == q[k + 1]
             c == Base * x
  <2>1. k \in 0 .. n /\ k + 1 \in 0 .. n /\ k + 1 \in 1 .. n
    BY <1>1
  <2>2. x \in Int /\ r \in Int /\ s \in Int /\ a \in Int /\ b \in Int /\ c \in Int
    <3>1. r \in 0 .. (d - 1) /\ s \in 0 .. (d - 1) /\ x \in Int
      BY <1>4, <1>9, <2>1
    <3>2. a \in Int /\ b \in Int
      BY <1>7, <2>1 DEF Terms
    <3>3. r \in Int /\ s \in Int
      BY <1>1, <3>1
    <3>4. c \in Int
      BY <3>1, BaseTimes
    <3>5. QED
      BY <3>1, <3>2, <3>3, <3>4
  <2>3. v[k] = a + Base * (d * x + r) /\ w[k] = b + c
    BY <1>9, <1>11
  <2>4. r * Base + a = d * b + s
    BY <1>5
  <2> HIDE DEF x, r, s, a, b
  <2>5. Base * (d * x + r) = d * c + Base * r
    BY <1>1, <2>2, BaseLinear
  <2>6. Base * r = r * Base /\ d * (b + c) = d * b + d * c /\ Base * r \in Int /\ d * b \in Int /\ d * c \in Int
    <3>1. Base * r \in Int /\ Base * r = r * Base
      BY <2>2, BaseType
    <3> HIDE DEF c
    <3>2. d * (b + c) = d * b + d * c /\ d * b \in Int /\ d * c \in Int
      BY <1>1, <2>2
    <3>3. QED
      BY <3>1, <3>2
  <2>7. v[k] = d * w[k] + s
    <3> DEFINE f == d * b
               g == d * c
               h == Base * r
    <3>1. /\ f \in Int /\ g \in Int /\ h \in Int /\ a \in Int /\ s \in Int /\ h + a = f + s
          /\ v[k] = a + (g + h) /\ d * w[k] = f + g
      BY <2>2, <2>3, <2>4, <2>5, <2>6
    <3> HIDE DEF f, g, h
    <3>2. QED
      BY <3>1
  <2>8. QED
    BY <2>1, <2>7 DEF s
<1>12. 0 .. n \subseteq G
  <2> HIDE DEF G
  <2>1. QED
    BY <1>1, <1>10, <1>11, Descent
<1>13. v[0] = d * w[0] + rem[0] /\ rem[0] \in 0 .. (d - 1)
  <2>1. 0 \in 0 .. n
    BY <1>1
  <2>2. QED
    BY <1>4, <1>12, <2>1
<1>14. q \in Seq(DigitSet) /\ Len(q) = n
  BY <1>1, <1>6, ArrayIsSeq
<1>15. Normal(Norm(q)) /\ ValueOf(Norm(q)) = ValueOf(q)
  BY <1>14, NormExact
<1>16. ValueOf(e) = v[0] /\ ValueOf(q) = w[0]
  BY <1>14 DEF ValueOf, Total, v, w, n
<1>17. QED
  BY <1>3, <1>13, <1>15, <1>16
==============================================================================
