---------------------------- MODULE SharedBagProofs ----------------------------
(***************************************************************************)
(* SharedBag for any number of threads, slots, keys and messages: the ring *)
(* keeps its messages, no message is lost or has two places, keys stay     *)
(* with their slots, and a shared queue or bag is a box of messages.       *)
(***************************************************************************)
EXTENDS SharedBag, SequenceTheorems, FiniteSetTheorems, WellFoundedInduction, TLAPS

(***************************************************************************)
(* Arithmetic and least elements.                                          *)
(***************************************************************************)
(* Going on from top once.                                                 *)
LEMMA Wrap ==
  ASSUME NEW n \in Nat \ {0}, NEW x \in Int, x >= 0, x < 2 * n
  PROVE  x % n = IF x < n THEN x ELSE x - n
<1>1. CASE x < n
  BY <1>1
<1>2. CASE x >= n
  BY <1>2
<1> QED BY <1>1, <1>2

LEMMA WrapBelow ==
  ASSUME NEW n \in Nat \ {0}, NEW x \in Int, x < 0, x >= - n
  PROVE  x % n = x + n
  OBVIOUS

(* Numbers have a least one among them.                                    *)
LEMMA Least ==
  ASSUME NEW S \in SUBSET Nat, S # {}
  PROVE  Min(S) \in S
<1> DEFINE T == {0 .. x : x \in S}
           R == StrictSubsetOrdering(Nat)
<1>1. T \subseteq FiniteSubsetsOf(Nat) /\ T # {}
  <2>1. ASSUME NEW x \in S PROVE 0 .. x \in FiniteSubsetsOf(Nat)
    <3>1. x \in Int /\ 0 \in Int /\ 0 .. x \subseteq Nat
      OBVIOUS
    <3>2. IsFiniteSet(0 .. x)
      BY <3>1, FS_Interval
    <3> QED BY <3>1, <3>2 DEF FiniteSubsetsOf
  <2> QED BY <2>1
<1>2. PICK a \in T : \A b \in T : ~(<<b, a>> \in R)
  <2> HIDE DEF R, T
  <2>1. IsWellFoundedOn(R, FiniteSubsetsOf(Nat))
    BY FS_StrictSubsetOrderingWellFounded DEF R
  <2> QED BY <1>1, <2>1, WFMin
<1>3. PICK x \in S : a = 0 .. x
  OBVIOUS
<1>4. ASSUME NEW y \in S, ~(x <= y) PROVE FALSE
  <2>1. 0 .. y \in T /\ 0 .. y \subseteq a /\ 0 .. y # a
    BY <1>3, <1>4
  <2>2. a \subseteq Nat /\ 0 .. y \subseteq Nat
    BY <1>3
  <2> QED BY <1>2, <2>1, <2>2 DEF StrictSubsetOrdering
<1>5. \A y \in S : x <= y
  BY <1>4
<1> QED BY <1>5 DEF Min

(***************************************************************************)
(* Positions in a ring.                                                    *)
(***************************************************************************)
LEMMA RingFacts ==
  ASSUME NEW b, RingType(b)
  PROVE  /\ b.size \in Nat /\ b.size > 0
         /\ b.head \in Nat /\ b.head <= b.size
         /\ b.tail \in Nat /\ b.tail < b.size
         /\ b.tags \in Seq(Tag) /\ Len(b.tags) \in Nat /\ DOMAIN b.tags = 1 .. Len(b.tags)
         /\ b.mem \in [0 .. b.size - 1 -> Int]
         /\ Live(b) \subseteq Nat \ {0}
         /\ \A id \in Live(b) :
              /\ id \in DOMAIN b.tags /\ b.tags[id] \in Tag
              /\ b.tags[id].buf \in Int /\ b.tags[id].bytes \in Nat /\ b.tags[id].bound \in Nat
<1>1. /\ b.size \in Nat /\ b.size > 0
      /\ b.head \in 0 .. b.size /\ b.tail \in 0 .. b.size - 1
      /\ b.tags \in Seq(Tag) /\ b.mem \in [0 .. b.size - 1 -> Int]
  BY DEF RingType
<1>2. Len(b.tags) \in Nat /\ DOMAIN b.tags = 1 .. Len(b.tags)
  BY <1>1
<1>3. \A id \in DOMAIN b.tags : b.tags[id] \in Tag
  BY <1>1, <1>2
<1>4. \A tag \in Tag : tag.buf \in Int /\ tag.bytes \in Nat /\ tag.bound \in Nat
  BY DEF Tag
<1>5. Live(b) \subseteq DOMAIN b.tags
  BY DEF Live
<1> QED BY <1>1, <1>2, <1>3, <1>4, <1>5

LEMMA DistRange ==
  ASSUME NEW b, RingType(b), NEW p \in 0 .. b.size - 1
  PROVE  /\ Dist(b, p) \in 0 .. b.size - 1
         /\ b.head < b.size => Dist(b, b.head) = 0
  BY RingFacts DEF Dist

LEMMA DistInjective ==
  ASSUME NEW b, RingType(b), NEW p \in 0 .. b.size - 1, NEW q \in 0 .. b.size - 1,
         Dist(b, p) = Dist(b, q)
  PROVE  p = q
  BY RingFacts DEF Dist

(* The i-th byte lies i - 1 further on than the first.                     *)
LEMMA CellDist ==
  ASSUME NEW b, RingType(b), NEW p \in 0 .. b.size - 1, NEW i \in Nat \ {0},
         Dist(b, p) + i - 1 < b.size
  PROVE  /\ Cell(b, p, i) \in 0 .. b.size - 1
         /\ Dist(b, Cell(b, p, i)) = Dist(b, p) + i - 1
         /\ Cell(b, p, i) = IF p + i - 1 < b.size THEN p + i - 1 ELSE p + i - 1 - b.size
<1> DEFINE n == b.size
           x == p + i - 1
<1>1. /\ n \in Nat \ {0} /\ b.head \in Nat /\ b.head <= n
      /\ Dist(b, p) \in 0 .. n - 1
  BY RingFacts, DistRange
<1>2. x \in Int /\ x >= 0 /\ x < 2 * n
  BY <1>1
<1>3. Cell(b, p, i) = IF x < n THEN x ELSE x - n
  <2> HIDE DEF n, x
  <2>1. x % n = IF x < n THEN x ELSE x - n
    BY <1>1, <1>2, Wrap
  <2>2. Cell(b, p, i) = x % n
    BY DEF Cell, n, x
  <2> QED BY <2>1, <2>2
<1> QED BY <1>1, <1>2, <1>3 DEF Dist

(* Every position is a byte of a message that begins at p.                 *)
LEMMA CellAt ==
  ASSUME NEW n \in Nat \ {0}, NEW p \in 0 .. n - 1, NEW q \in 0 .. n - 1
  PROVE  /\ (q - p) % n \in 0 .. n - 1
         /\ (q - p) % n = IF p <= q THEN q - p ELSE q - p + n
<1>1. CASE p <= q
  <2>1. q - p >= 0 /\ q - p < 2 * n /\ q - p < n /\ q - p \in Int
    BY <1>1
  <2>2. (q - p) % n = q - p
    BY <2>1, Wrap
  <2> QED BY <2>1, <2>2, <1>1
<1>2. CASE p > q
  <2>1. q - p < 0 /\ q - p >= - n /\ q - p \in Int
    BY <1>2
  <2>2. (q - p) % n = q - p + n
    BY <2>1, WrapBelow
  <2> QED BY <2>1, <2>2, <1>2
<1> QED BY <1>1, <1>2

(* Where the messages of a ring lie.                                       *)
LEMMA StretchFacts ==
  ASSUME NEW b, RingOK(b), NEW id \in Live(b)
  PROVE  /\ b.tags[id].buf \in 0 .. b.size - 1
         /\ b.tags[id].bytes \in Nat /\ b.tags[id].bytes > 0
         /\ b.tags[id].bound \in Nat /\ b.tags[id].bytes <= b.tags[id].bound
         /\ From(b, id) \in Nat /\ To(b, id) \in Nat
         /\ To(b, id) = From(b, id) + b.tags[id].bound
         /\ From(b, id) + b.tags[id].bytes <= To(b, id)
         /\ To(b, id) <= Fill(b)
         /\ Fill(b) \in Nat /\ Fill(b) < b.size
<1>1. RingType(b) /\ RingShape(b)
  BY DEF RingOK
<1>2. /\ b.tags[id].buf \in 0 .. b.size - 1
      /\ 0 < b.tags[id].bytes /\ b.tags[id].bytes <= b.tags[id].bound
      /\ To(b, id) <= Fill(b)
  BY <1>1 DEF RingShape
<1>3. b.tags[id].bytes \in Nat /\ b.tags[id].bound \in Nat
  BY <1>1, RingFacts
<1>4. From(b, id) \in 0 .. b.size - 1
  BY <1>1, <1>2, DistRange DEF From
<1>5. b.size \in Nat /\ b.tail \in 0 .. b.size - 1
  BY <1>1, RingFacts
<1>6. Fill(b) \in 0 .. b.size - 1
  BY <1>1, <1>5, DistRange DEF Fill
<1> QED BY <1>2, <1>3, <1>4, <1>5, <1>6 DEF To

(* The bytes of a message lie on its stretch.                              *)
LEMMA BytesDist ==
  ASSUME NEW b, RingOK(b), NEW id \in Live(b), NEW i \in 1 .. b.tags[id].bytes
  PROVE  /\ Cell(b, b.tags[id].buf, i) \in 0 .. b.size - 1
         /\ Dist(b, Cell(b, b.tags[id].buf, i)) = From(b, id) + i - 1
         /\ From(b, id) <= Dist(b, Cell(b, b.tags[id].buf, i))
         /\ Dist(b, Cell(b, b.tags[id].buf, i)) < To(b, id)
         /\ Dist(b, Cell(b, b.tags[id].buf, i)) < Fill(b)
<1>1. RingType(b) /\ b.size \in Nat
  BY RingFacts DEF RingOK
<1> DEFINE p == b.tags[id].buf
           n == b.tags[id].bytes
<1>2. /\ p \in 0 .. b.size - 1 /\ n \in Nat
      /\ From(b, id) \in Nat /\ To(b, id) \in Nat /\ From(b, id) + n <= To(b, id)
      /\ To(b, id) <= Fill(b) /\ Fill(b) \in Nat /\ Fill(b) < b.size
  BY StretchFacts
<1>3. i \in Nat \ {0} /\ i <= n /\ From(b, id) = Dist(b, p)
  BY <1>2 DEF From
<1>4. Dist(b, p) + i - 1 < b.size
  BY <1>1, <1>2, <1>3
<1>5. /\ Cell(b, p, i) \in 0 .. b.size - 1
      /\ Dist(b, Cell(b, p, i)) = Dist(b, p) + i - 1
  BY <1>1, <1>2, <1>3, <1>4, CellDist
<1> HIDE DEF p, n
<1>6. /\ From(b, id) <= Dist(b, Cell(b, p, i))
      /\ Dist(b, Cell(b, p, i)) < To(b, id)
      /\ Dist(b, Cell(b, p, i)) < Fill(b)
  BY <1>1, <1>2, <1>3, <1>5
<1> QED BY <1>3, <1>5, <1>6 DEF p

(* The stretches of two messages have no byte in common.                   *)
LEMMA StretchesApart ==
  ASSUME NEW b, RingOK(b), NEW i \in Live(b), NEW j \in Live(b), i # j
  PROVE  /\ To(b, i) <= From(b, j) \/ To(b, j) <= From(b, i)
         /\ From(b, i) # From(b, j) /\ To(b, i) # To(b, j)
<1>1. To(b, i) <= From(b, j) \/ To(b, j) <= From(b, i)
  BY DEF RingOK, RingShape
<1>2. /\ From(b, i) \in Nat /\ To(b, i) \in Nat /\ From(b, i) < To(b, i)
      /\ From(b, j) \in Nat /\ To(b, j) \in Nat /\ From(b, j) < To(b, j)
  BY StretchFacts
<1> QED BY <1>1, <1>2

LEMMA RoomFill ==
  ASSUME NEW b, RingType(b), NEW req \in Nat
  PROVE  Room(b, req) <=> Fill(b) + req < b.size
  BY RingFacts DEF Room, Fill, Dist

LEMMA FillRange ==
  ASSUME NEW b, RingType(b)
  PROVE  Fill(b) \in Nat /\ Fill(b) < b.size
<1>1. b.tail \in 0 .. b.size - 1 /\ b.size \in Nat
  BY RingFacts
<1> QED BY <1>1, DistRange DEF Fill

(* No message is left in a ring whose tail has reached head.               *)
LEMMA EmptyRing ==
  ASSUME NEW b, RingOK(b), Empty(b)
  PROVE  Live(b) = {}
<1>1. Fill(b) = 0
  BY RingFacts DEF RingOK, Empty, Fill, Dist
<1>2. ASSUME NEW id \in Live(b) PROVE FALSE
  BY <1>1, StretchFacts
<1> QED BY <1>2

LEMMA ResetOK ==
  ASSUME NEW b, RingOK(b), Empty(b), NEW c, c = [b EXCEPT !.head = 0, !.tail = 0]
  PROVE  /\ RingOK(c) /\ RingTiled(c)
         /\ Live(c) = {} /\ Live(b) = {} /\ c.tags = b.tags /\ c.size = b.size
<1>1. RingType(b) /\ Live(b) = {}
  BY EmptyRing DEF RingOK
<1>2. c.size = b.size /\ c.head = 0 /\ c.tail = 0 /\ c.tags = b.tags /\ c.mem = b.mem
  BY <1>1 DEF RingType
<1>3. RingType(c)
  <2>1. b.size \in Nat \ {0} /\ 0 \in 0 .. b.size /\ 0 \in 0 .. b.size - 1
    BY <1>1 DEF RingType
  <2> QED BY <1>1, <1>2, <2>1 DEF RingType
<1>4. Live(c) = {}
  BY <1>1, <1>2 DEF Live
<1>5. RingShape(c)
  BY <1>4 DEF RingShape
<1>6. Fill(c) = 0
  BY <1>2 DEF Fill, Dist
<1>7. Starts(c) = {0} /\ Stops(c) = {0}
  BY <1>4, <1>6 DEF Starts, Stops
<1> QED BY <1>1, <1>2, <1>3, <1>4, <1>5, <1>7 DEF RingOK, RingTiled

(***************************************************************************)
(* A message keeps its bytes when each of its cells keeps its byte.        *)
(***************************************************************************)
LEMMA SameContent ==
  ASSUME NEW b, NEW c, NEW id,
         c.tags[id].bytes = b.tags[id].bytes,
         \A i \in 1 .. b.tags[id].bytes :
           c.mem[Cell(c, c.tags[id].buf, i)] = b.mem[Cell(b, b.tags[id].buf, i)]
  PROVE  Content(c, id) = Content(b, id)
  BY DEF Content

(***************************************************************************)
(* A larger ring.                                                          *)
(***************************************************************************)
LEMMA EnlargedFields ==
  ASSUME NEW b, RingType(b), NEW n \in Nat, NEW c, c = Enlarged(b, n)
  PROVE  /\ c.size = b.size + n /\ c.tail = b.tail /\ c.head = MovedTo(b, n, b.head)
         /\ DOMAIN c.tags = DOMAIN b.tags
         /\ \A i \in DOMAIN b.tags :
              /\ c.tags[i] \in Tag
              /\ c.tags[i].bytes = b.tags[i].bytes /\ c.tags[i].bound = b.tags[i].bound
              /\ c.tags[i].buf = MovedTo(b, n, b.tags[i].buf)
         /\ \A p \in 0 .. b.size - 1 :
              MovedTo(b, n, p) \in 0 .. c.size - 1 /\ c.mem[MovedTo(b, n, p)] = b.mem[p]
         /\ RingType(c)
<1>1. /\ b.size \in Nat /\ b.size > 0
      /\ b.head \in Nat /\ b.head <= b.size /\ b.tail \in Nat /\ b.tail < b.size
      /\ b.tags \in Seq(Tag) /\ Len(b.tags) \in Nat /\ DOMAIN b.tags = 1 .. Len(b.tags)
      /\ b.mem \in [0 .. b.size - 1 -> Int]
  BY RingFacts
<1> DEFINE tags == [i \in DOMAIN b.tags |-> [b.tags[i] EXCEPT !.buf = MovedTo(b, n, @)]]
           byte(p) == IF p < b.size /\ MovedTo(b, n, p) = p THEN b.mem[p]
                      ELSE IF b.tail < b.head /\ p - n >= b.head THEN b.mem[p - n] ELSE 0
           mem == [p \in 0 .. (b.size + n - 1) |-> byte(p)]
<1>2. c = [size |-> b.size + n, head |-> MovedTo(b, n, b.head), tail |-> b.tail,
           tags |-> tags, mem |-> mem]
  BY DEF Enlarged
<1>3. \A i \in DOMAIN b.tags : tags[i] = [b.tags[i] EXCEPT !.buf = MovedTo(b, n, b.tags[i].buf)]
  OBVIOUS
<1>4. DOMAIN tags = DOMAIN b.tags /\ tags = [i \in DOMAIN b.tags |-> tags[i]]
  OBVIOUS
<1>5. DOMAIN mem = 0 .. (b.size + n - 1) /\ mem = [p \in 0 .. (b.size + n - 1) |-> mem[p]]
      /\ \A p \in 0 .. (b.size + n - 1) : mem[p] = byte(p)
  OBVIOUS
<1> HIDE DEF tags, byte, mem
<1>6. /\ c.size = b.size + n /\ c.head = MovedTo(b, n, b.head)
      /\ c.tail = b.tail /\ c.tags = tags /\ c.mem = mem
      /\ c \in [size : {b.size + n}, head : {MovedTo(b, n, b.head)}, tail : {b.tail},
                tags : {tags}, mem : {mem}]
  BY <1>2
<1>7. MovedTo(b, n, b.head) \in 0 .. b.size + n
  BY <1>1 DEF MovedTo
<1>8. ASSUME NEW i \in DOMAIN b.tags
      PROVE  /\ tags[i] \in Tag
             /\ tags[i].bytes = b.tags[i].bytes /\ tags[i].bound = b.tags[i].bound
             /\ tags[i].buf = MovedTo(b, n, b.tags[i].buf)
  <2>1. b.tags[i] \in Tag
    BY <1>1
  <2>2. ASSUME NEW p \in Int PROVE MovedTo(b, n, p) \in Int
    BY <1>1 DEF MovedTo
  <2> QED BY <1>3, <2>1, <2>2 DEF Tag
<1>9. tags \in Seq(Tag)
  <2>1. tags \in [1 .. Len(b.tags) -> Tag]
    BY <1>1, <1>4, <1>8
  <2>2. Len(b.tags) \in Nat
    BY <1>1
  <2> QED BY <2>1, <2>2
<1>10. ASSUME NEW p \in 0 .. b.size - 1
       PROVE  MovedTo(b, n, p) \in 0 .. (b.size + n - 1) /\ mem[MovedTo(b, n, p)] = b.mem[p]
  <2>1. MovedTo(b, n, p) \in 0 .. (b.size + n - 1)
    BY <1>1 DEF MovedTo
  <2>2. byte(MovedTo(b, n, p)) = b.mem[p]
    BY <1>1 DEF MovedTo, byte
  <2> QED BY <1>5, <2>1, <2>2
<1>11. mem \in [0 .. (b.size + n - 1) -> Int]
  <2>1. ASSUME NEW p \in 0 .. (b.size + n - 1) PROVE byte(p) \in Int
    <3>1. CASE p < b.size /\ MovedTo(b, n, p) = p
      BY <1>1, <3>1 DEF byte
    <3>2. CASE ~(p < b.size /\ MovedTo(b, n, p) = p) /\ b.tail < b.head /\ p - n >= b.head
      <4>1. p - n \in 0 .. b.size - 1 /\ byte(p) = b.mem[p - n]
        BY <1>1, <3>2 DEF byte
      <4> QED BY <1>1, <4>1
    <3>3. CASE ~(p < b.size /\ MovedTo(b, n, p) = p) /\ ~(b.tail < b.head /\ p - n >= b.head)
      BY <3>3 DEF byte
    <3> QED BY <3>1, <3>2, <3>3
  <2> QED BY <1>5, <2>1
<1>12. RingType(c)
  <2>1. b.size + n \in Nat \ {0} /\ b.tail \in 0 .. (b.size + n - 1)
    BY <1>1
  <2> QED BY <1>6, <1>7, <1>9, <1>11, <2>1 DEF RingType
<1>13. ASSUME NEW p \in 0 .. b.size - 1 PROVE MovedTo(b, n, p) \in 0 .. c.size - 1
  <2>1. c.size = b.size + n
    BY <1>6
  <2> QED BY <1>1, <2>1 DEF MovedTo
<1> QED BY <1>4, <1>6, <1>8, <1>10, <1>12, <1>13

(* What lies between head and tail keeps its distance from head.           *)
LEMMA EnlargedDist ==
  ASSUME NEW b, RingType(b), NEW n \in Nat, NEW c, c = Enlarged(b, n),
         NEW p \in 0 .. b.size - 1, Dist(b, p) <= Fill(b)
  PROVE  /\ MovedTo(b, n, p) \in 0 .. c.size - 1
         /\ Dist(c, MovedTo(b, n, p)) = Dist(b, p)
<1>1. /\ b.size \in Nat /\ b.head \in Nat /\ b.head <= b.size
      /\ b.tail \in Nat /\ b.tail < b.size
  BY RingFacts
<1>2. c.size = b.size + n /\ c.head = MovedTo(b, n, b.head)
  BY EnlargedFields
<1> QED BY <1>1, <1>2 DEF MovedTo, Dist, Fill

LEMMA EnlargedFill ==
  ASSUME NEW b, RingType(b), NEW n \in Nat, NEW c, c = Enlarged(b, n)
  PROVE  Fill(c) = Fill(b)
<1>1. /\ b.size \in Nat /\ b.head \in Nat /\ b.head <= b.size
      /\ b.tail \in Nat /\ b.tail < b.size
  BY RingFacts
<1>2. c.size = b.size + n /\ c.head = MovedTo(b, n, b.head) /\ c.tail = b.tail
  BY EnlargedFields
<1> QED BY <1>1, <1>2 DEF MovedTo, Dist, Fill

(* The ring grows and its messages stay what and, from head on, where they *)
(* were.                                                                   *)
LEMMA EnlargedShape ==
  ASSUME NEW b, RingOK(b), NEW n \in Nat, NEW c, c = Enlarged(b, n)
  PROVE  /\ RingOK(c) /\ Live(c) = Live(b) /\ Fill(c) = Fill(b)
         /\ \A id \in Live(b) : From(c, id) = From(b, id) /\ To(c, id) = To(b, id)
<1>1. RingType(b) /\ RingShape(b)
  BY DEF RingOK
<1>2. /\ RingType(c) /\ DOMAIN c.tags = DOMAIN b.tags
      /\ \A i \in DOMAIN b.tags :
           /\ c.tags[i] \in Tag /\ b.tags[i] \in Tag
           /\ c.tags[i].bytes = b.tags[i].bytes /\ c.tags[i].bound = b.tags[i].bound
           /\ c.tags[i].buf = MovedTo(b, n, b.tags[i].buf)
  <2>1. \A i \in DOMAIN b.tags : b.tags[i] \in Tag
    BY <1>1, RingFacts
  <2> QED BY <1>1, <2>1, EnlargedFields
<1>3. Fill(c) = Fill(b)
  BY <1>1, EnlargedFill
<1>4. ASSUME NEW i \in DOMAIN b.tags PROVE c.tags[i] = Null <=> b.tags[i] = Null
  <2>1. /\ b.size \in Nat /\ b.head \in Nat /\ b.tail \in Nat
        /\ b.tags[i].buf \in Int /\ c.tags[i].buf \in Int
    BY <1>1, <1>2, RingFacts DEF Tag
  <2>2. c.tags[i].buf = -1 <=> b.tags[i].buf = -1
    BY <1>2, <2>1 DEF MovedTo
  <2>3. \A tag \in Tag : tag = Null <=> tag.buf = -1 /\ tag.bytes = 0 /\ tag.bound = 0
    BY DEF Tag, Null
  <2> QED BY <1>2, <2>2, <2>3
<1>5. Live(c) = Live(b)
  BY <1>2, <1>4 DEF Live
<1>6. ASSUME NEW id \in Live(b)
      PROVE  /\ From(c, id) = From(b, id) /\ To(c, id) = To(b, id)
             /\ c.tags[id].buf \in 0 .. c.size - 1
             /\ 0 < c.tags[id].bytes /\ c.tags[id].bytes <= c.tags[id].bound
  <2> DEFINE p == b.tags[id].buf
  <2>1. id \in DOMAIN b.tags
    BY DEF Live
  <2>2. /\ p \in 0 .. b.size - 1
        /\ 0 < b.tags[id].bytes /\ b.tags[id].bytes <= b.tags[id].bound
        /\ b.tags[id].bound \in Nat /\ From(b, id) \in Nat /\ Fill(b) \in Nat
        /\ From(b, id) + b.tags[id].bound <= Fill(b) /\ From(b, id) = Dist(b, p)
    BY StretchFacts DEF From
  <2>3. Dist(b, p) <= Fill(b)
    BY <2>2
  <2> HIDE DEF p
  <2>4. MovedTo(b, n, p) \in 0 .. c.size - 1 /\ Dist(c, MovedTo(b, n, p)) = Dist(b, p)
    BY <1>1, <2>2, <2>3, EnlargedDist
  <2>5. From(c, id) = From(b, id)
    BY <1>2, <2>1, <2>2, <2>4 DEF From, p
  <2> QED BY <1>2, <2>1, <2>2, <2>4, <2>5 DEF To, p
<1>7. RingShape(c)
  <2>1. \A id \in Live(b) : To(c, id) <= Fill(c)
    BY <1>1, <1>3, <1>6 DEF RingShape
  <2>2. \A i, j \in Live(b) : i # j => To(c, i) <= From(c, j) \/ To(c, j) <= From(c, i)
    BY <1>1, <1>6 DEF RingShape
  <2> QED BY <1>5, <1>6, <2>1, <2>2 DEF RingShape
<1> QED BY <1>2, <1>3, <1>5, <1>6, <1>7 DEF RingOK

LEMMA EnlargedContent ==
  ASSUME NEW b, RingOK(b), NEW n \in Nat, NEW c, c = Enlarged(b, n), NEW id \in Live(b)
  PROVE  Content(c, id) = Content(b, id)
<1>1. RingType(b) /\ RingOK(c) /\ id \in Live(c) /\ RingType(c) /\ From(c, id) = From(b, id)
  BY EnlargedShape DEF RingOK
<1>2. id \in DOMAIN b.tags /\ c.tags[id].bytes = b.tags[id].bytes
  BY <1>1, EnlargedFields DEF Live
<1>3. ASSUME NEW i \in 1 .. b.tags[id].bytes
      PROVE  c.mem[Cell(c, c.tags[id].buf, i)] = b.mem[Cell(b, b.tags[id].buf, i)]
  <2> DEFINE p == Cell(b, b.tags[id].buf, i)
             q == Cell(c, c.tags[id].buf, i)
  <2>1. p \in 0 .. b.size - 1 /\ Dist(b, p) = From(b, id) + i - 1 /\ Dist(b, p) < Fill(b)
    BY BytesDist
  <2>2. i \in 1 .. c.tags[id].bytes
    BY <1>2
  <2>3. q \in 0 .. c.size - 1 /\ Dist(c, q) = From(c, id) + i - 1
    BY <1>1, <2>2, BytesDist
  <2> HIDE DEF p, q
  <2>4. Dist(b, p) <= Fill(b)
    BY <1>1, <2>1, DistRange, FillRange
  <2>5. MovedTo(b, n, p) \in 0 .. c.size - 1 /\ Dist(c, MovedTo(b, n, p)) = Dist(b, p)
    BY <1>1, <2>1, <2>4, EnlargedDist
  <2>6. q = MovedTo(b, n, p)
    <3>1. Dist(c, q) = Dist(c, MovedTo(b, n, p))
      BY <1>1, <2>1, <2>3, <2>5
    <3> QED BY <1>1, <2>3, <2>5, <3>1, DistInjective
  <2>7. c.mem[MovedTo(b, n, p)] = b.mem[p]
    BY <1>1, <2>1, EnlargedFields
  <2> QED BY <2>6, <2>7 DEF p, q
<1> QED BY <1>2, <1>3, SameContent

(* Where a message's stretch ends.                                         *)
LEMMA EndFacts ==
  ASSUME NEW b, RingOK(b), NEW id \in Live(b)
  PROVE  /\ End(b, id) \in 0 .. b.size
         /\ End(b, id) = b.size => b.tags[id].buf + b.tags[id].bound = b.size
         /\ End(b, id) = b.size => To(b, id) = b.size - b.head /\ b.tags[id].buf >= b.head
         /\ b.tags[id].buf + b.tags[id].bound = b.size => End(b, id) = b.size
         /\ End(b, id) # b.size => Dist(b, End(b, id)) = To(b, id)
<1>1. /\ b.size \in Nat /\ b.size > 0
      /\ b.head \in Nat /\ b.head <= b.size /\ b.tail \in Nat /\ b.tail < b.size
  BY RingFacts DEF RingOK
<1> DEFINE p == b.tags[id].buf
           n == b.tags[id].bound
<1>2. /\ p \in 0 .. b.size - 1 /\ n \in Nat /\ n > 0
      /\ Dist(b, p) + n <= Fill(b) /\ Fill(b) \in Nat /\ Fill(b) < b.size
      /\ To(b, id) = Dist(b, p) + n /\ Dist(b, p) \in Nat
  BY StretchFacts DEF From
<1>3. End(b, id) = IF p + n > b.size THEN p + n - b.size ELSE p + n
  <2>1. End(b, id) = Fixup(b, p + n)
    BY DEF End
  <2> HIDE DEF p, n
  <2> QED BY <1>1, <1>2, <2>1 DEF Fixup
<1> HIDE DEF p, n
<1>4. /\ End(b, id) \in 0 .. b.size
      /\ End(b, id) = b.size => p + n = b.size
      /\ p + n = b.size => End(b, id) = b.size
  BY <1>1, <1>2, <1>3
<1>5. End(b, id) = b.size => To(b, id) = b.size - b.head /\ p >= b.head
  BY <1>1, <1>2, <1>4 DEF Dist
<1>6. End(b, id) # b.size => Dist(b, End(b, id)) = To(b, id)
  BY <1>1, <1>2, <1>3 DEF Dist
<1> QED BY <1>4, <1>5, <1>6 DEF p, n

(* A message that ends at bottom still does when the ring grows.           *)
LEMMA EnlargedTiled ==
  ASSUME NEW b, RingOK(b), RingTiled(b), NEW n \in Nat, NEW c, c = Enlarged(b, n)
  PROVE  RingTiled(c)
<1>1. /\ RingOK(c) /\ Live(c) = Live(b) /\ Fill(c) = Fill(b)
      /\ \A id \in Live(b) : From(c, id) = From(b, id) /\ To(c, id) = To(b, id)
  BY EnlargedShape
<1>2. Starts(c) = Starts(b) /\ Stops(c) = Stops(b)
  BY <1>1 DEF Starts, Stops
<1>3. /\ b.size \in Nat /\ b.size > 0
      /\ b.head \in Nat /\ b.head <= b.size /\ b.tail \in Nat /\ b.tail < b.size
  BY RingFacts DEF RingOK
<1>4. c.size = b.size + n /\ c.head = MovedTo(b, n, b.head)
  BY EnlargedFields DEF RingOK
<1>5. CASE ~EndsAtBottom(b)
  BY <1>2, <1>5 DEF RingTiled
<1>6. CASE EndsAtBottom(b)
  <2>1. b.tail < b.head
    <3>1. CASE b.head = b.size
      BY <1>3, <3>1
    <3>2. ASSUME NEW id \in Live(b), End(b, id) = b.size PROVE b.tail < b.head
      <4>1. To(b, id) = b.size - b.head /\ To(b, id) <= Fill(b)
        BY <3>2, EndFacts, StretchFacts
      <4> QED BY <1>3, <4>1 DEF Fill, Dist
    <3> QED BY <1>6, <3>1, <3>2 DEF EndsAtBottom
  <2>2. c.head = b.head + n /\ c.size - c.head = b.size - b.head
    BY <1>3, <1>4, <2>1 DEF MovedTo
  <2>3. EndsAtBottom(c)
    <3>1. CASE b.head = b.size
      BY <1>4, <2>2, <3>1 DEF EndsAtBottom
    <3>2. ASSUME NEW id \in Live(b), End(b, id) = b.size PROVE EndsAtBottom(c)
      <4>1. /\ b.tags[id].buf + b.tags[id].bound = b.size /\ b.tags[id].buf >= b.head
            /\ b.tags[id].buf \in Int /\ b.tags[id].bound \in Nat
        BY <3>2, EndFacts, StretchFacts
      <4>2. id \in DOMAIN b.tags
        BY DEF Live
      <4>3. c.tags[id].buf = b.tags[id].buf + n /\ c.tags[id].bound = b.tags[id].bound
        BY <2>1, <4>1, <4>2, EnlargedFields DEF RingOK, MovedTo
      <4>4. c.tags[id].buf + c.tags[id].bound = c.size
        BY <1>3, <1>4, <4>1, <4>3
      <4> QED BY <1>1, <4>4, EndFacts DEF EndsAtBottom
    <3> QED BY <1>6, <3>1, <3>2 DEF EndsAtBottom
  <2> QED BY <1>2, <2>2, <2>3 DEF RingTiled
<1> QED BY <1>5, <1>6

(* The pointers of a ring that moves by an int follow it.                  *)
LEMMA NotDisplaced ==
  ASSUME NEW b, RingType(b)
  PROVE  Displaced(b, 0) = b
<1>1. /\ b \in [size : {b.size}, head : 0 .. b.size, tail : 0 .. b.size - 1, tags : Seq(Tag),
                mem : [0 .. b.size - 1 -> Int]]
      /\ b.size \in Nat
  BY DEF RingType
<1> DEFINE f == [i \in DOMAIN b.tags |-> IF i \in Live(b) THEN [b.tags[i] EXCEPT !.buf = @ + 0]
                                        ELSE b.tags[i]]
<1>2. b.tags \in Seq(Tag) /\ b.head \in Int /\ b.tail \in Int
  BY <1>1
<1>3. b.tags = [i \in DOMAIN b.tags |-> b.tags[i]]
  BY <1>2
<1>4. ASSUME NEW i \in DOMAIN b.tags PROVE [b.tags[i] EXCEPT !.buf = @ + 0] = b.tags[i]
  <2>1. b.tags[i] \in Tag
    BY <1>2
  <2> QED BY <2>1 DEF Tag
<1>5. f = b.tags
  <2>1. \A i \in DOMAIN b.tags : f[i] = b.tags[i]
    BY <1>4
  <2>2. f = [i \in DOMAIN b.tags |-> f[i]]
    OBVIOUS
  <2> HIDE DEF f
  <2> QED BY <1>3, <2>1, <2>2
<1>6. Displaced(b, 0) = [b EXCEPT !.head = @ + 0, !.tail = @ + 0, !.tags = f]
  BY DEF Displaced
<1>7. b.head + 0 = b.head /\ b.tail + 0 = b.tail
  BY <1>2
<1>8. b = [size |-> b.size, head |-> b.head, tail |-> b.tail, tags |-> b.tags, mem |-> b.mem]
  BY <1>1
<1> HIDE DEF f
<1>9. Displaced(b, 0) = [b EXCEPT !.head = b.head, !.tail = b.tail, !.tags = b.tags]
  BY <1>5, <1>6, <1>7
<1> QED BY <1>8, <1>9

LEMMA ExpandOK ==
  ASSUME NEW b, RingOK(b), RingTiled(b), NEW req \in Nat \ {0},
         NEW m \in Int, AsInt(m) = m, NEW c, c = Expand(b, req, m)
  PROVE  /\ RingOK(c) /\ RingTiled(c) /\ Live(c) = Live(b)
         /\ Fill(c) + req < c.size
         /\ \A id \in Live(b) : Content(c, id) = Content(b, id)
<1> DEFINE n == Grown(b, req) - b.size
<1>1. RingType(b) /\ b.size \in Nat
  BY RingFacts DEF RingOK
<1>2. n \in Nat /\ n >= req
  <2>1. b.size \div 2 \in Nat
    BY <1>1
  <2>2. Grown(b, req) = b.size + b.size \div 2 + req
    BY DEF Grown
  <2> QED BY <1>1, <2>1, <2>2
<1> HIDE DEF n
<1>3. c = Enlarged(b, n)
  <2> DEFINE e == Enlarged(b, n)
  <2>1. RingType(e)
    BY <1>2, EnlargedShape DEF RingOK
  <2>2. c = Displaced(e, 0)
    BY DEF Expand, n
  <2> HIDE DEF e
  <2>3. c = e
    BY <2>1, <2>2, NotDisplaced
  <2> QED BY <2>3 DEF e
<1>4. /\ RingOK(c) /\ RingTiled(c) /\ Live(c) = Live(b) /\ Fill(c) = Fill(b)
      /\ \A id \in Live(b) : Content(c, id) = Content(b, id)
  BY <1>2, <1>3, EnlargedShape, EnlargedTiled, EnlargedContent
<1>5. Fill(b) \in Nat /\ Fill(b) < b.size /\ c.size = b.size + n
  <2>1. Fill(b) \in Nat /\ Fill(b) < b.size
    BY <1>1, FillRange
  <2>2. c.size = b.size + n
    BY <1>3 DEF Enlarged
  <2> QED BY <2>1, <2>2
<1>6. Fill(c) + req < c.size
  BY <1>1, <1>2, <1>4, <1>5
<1> QED BY <1>4, <1>6

(***************************************************************************)
(* A tag for a new message.                                                *)
(***************************************************************************)
LEMMA AddTagFields ==
  ASSUME NEW b, RingType(b), NEW p \in 0 .. b.size - 1, NEW bytes \in Nat \ {0},
         NEW a, a = AddTag(b, p, bytes)
  PROVE  /\ a.id \in Nat \ {0} /\ a.id \notin Live(b)
         /\ RingType(a.ring) /\ Live(a.ring) = Live(b) \cup {a.id}
         /\ a.ring.size = b.size /\ a.ring.head = b.head /\ a.ring.tail = b.tail
         /\ a.ring.mem = b.mem
         /\ a.ring.tags[a.id] = [buf |-> p, bytes |-> bytes, bound |-> bytes]
         /\ \A i \in Live(b) : a.ring.tags[i] = b.tags[i]
<1>1. /\ b.size \in Nat \ {0} /\ b.tags \in Seq(Tag)
      /\ b \in [size : {b.size}, head : 0 .. b.size, tail : 0 .. b.size - 1, tags : Seq(Tag),
                mem : [0 .. b.size - 1 -> Int]]
  BY DEF RingType
<1> DEFINE free  == DOMAIN b.tags \ Live(b)
           count == Len(b.tags)
           more  == count + count \div 2 + 1
           grown == [i \in 1 .. more |-> IF i <= count THEN b.tags[i] ELSE Null]
           tags  == IF free # {} THEN b.tags ELSE grown
           id    == IF free # {} THEN Min(free) ELSE count + 1
           tag   == [buf |-> p, bytes |-> bytes, bound |-> bytes]
           new   == [tags EXCEPT ![id] = tag]
<1>2. a.id = id /\ a.ring = [b EXCEPT !.tags = new]
  BY DEF AddTag
<1>3. count \in Nat /\ DOMAIN b.tags = 1 .. count /\ \A i \in 1 .. count : b.tags[i] \in Tag
  BY <1>1
<1>4. more \in Nat /\ count + 1 <= more
  <2> HIDE DEF count
  <2>1. count \div 2 \in Nat
    BY <1>3
  <2> QED BY <1>3, <2>1
<1>5. Null \in Tag /\ tag \in Tag /\ tag # Null
  <2>1. p \in Int
    BY <1>1
  <2>2. tag.bytes # Null.bytes
    BY DEF Null
  <2> QED BY <2>1, <2>2 DEF Tag, Null
<1>6. PICK m \in Nat : /\ tags \in [1 .. m -> Tag] /\ id \in 1 .. m /\ count <= m
                       /\ \A i \in 1 .. count : tags[i] = b.tags[i]
                       /\ \A i \in 1 .. m : i > count => tags[i] = Null
                       /\ id \notin Live(b)
  <2>1. CASE free # {}
    <3>1. Min(free) \in free
      <4>1. free \in SUBSET Nat
        BY <1>3
      <4> HIDE DEF free
      <4> QED BY <2>1, <4>1, Least
    <3>2. tags = b.tags /\ id = Min(free)
      BY <2>1
    <3>3. tags \in [1 .. count -> Tag]
      BY <1>1, <1>3, <3>2
    <3> HIDE DEF tags, id
    <3>4. id \in 1 .. count /\ id \notin Live(b)
      BY <1>3, <3>1, <3>2
    <3> HIDE DEF free, count
    <3> QED BY <1>3, <3>2, <3>3, <3>4
  <2>2. CASE free = {}
    <3>1. tags = grown /\ id = count + 1
      BY <2>2
    <3>2. /\ \A i \in 1 .. more : grown[i] = IF i <= count THEN b.tags[i] ELSE Null
          /\ DOMAIN grown = 1 .. more /\ grown = [i \in 1 .. more |-> grown[i]]
      OBVIOUS
    <3> HIDE DEF grown, tags, id, more
    <3>3. \A i \in 1 .. more : grown[i] \in Tag
      BY <1>3, <1>5, <3>2
    <3>4. grown \in [1 .. more -> Tag]
      BY <3>2, <3>3
    <3>5. id \in 1 .. more /\ id \notin Live(b)
      <4>1. id \notin 1 .. count
        BY <1>3, <3>1
      <4> QED BY <1>3, <1>4, <3>1, <4>1 DEF Live
    <3>6. \A i \in 1 .. count : i \in 1 .. more
      BY <1>3, <1>4
    <3>7. \A i \in 1 .. count : grown[i] = b.tags[i]
      BY <1>3, <3>2, <3>6
    <3>8. \A i \in 1 .. more : i > count => grown[i] = Null
      BY <1>3, <1>4, <3>2
    <3>9. count <= more
      BY <1>3, <1>4
    <3> HIDE DEF count
    <3> QED BY <1>4, <3>1, <3>4, <3>5, <3>7, <3>8, <3>9
  <2> QED BY <2>1, <2>2
<1>7. new \in [1 .. m -> Tag] /\ new[id] = tag /\ \A i \in 1 .. m : i # id => new[i] = tags[i]
  <2> HIDE DEF tags, id, tag
  <2> QED BY <1>5, <1>6
<1>8. /\ a.ring.tags = new /\ a.ring.size = b.size /\ a.ring.head = b.head
      /\ a.ring.tail = b.tail /\ a.ring.mem = b.mem
      /\ a.ring \in [size : {b.size}, head : 0 .. b.size, tail : 0 .. b.size - 1, tags : {new},
                     mem : [0 .. b.size - 1 -> Int]]
  <2> HIDE DEF new
  <2> QED BY <1>1, <1>2
<1> HIDE DEF new, tags, id, tag, free, count, more, grown
<1>9. RingType(a.ring)
  <2>1. new \in Seq(Tag)
    BY <1>6, <1>7
  <2> QED BY <1>1, <1>8, <2>1 DEF RingType
<1>10. Live(a.ring) = Live(b) \cup {id}
  <2>1. Live(a.ring) = {i \in 1 .. m : new[i] # Null}
    BY <1>6, <1>7, <1>8 DEF Live
  <2>2. Live(b) = {i \in 1 .. count : b.tags[i] # Null}
    BY <1>3 DEF Live
  <2>3. ASSUME NEW i \in 1 .. m, i # id PROVE new[i] # Null <=> i \in Live(b)
    BY <1>3, <1>6, <1>7, <2>2, <2>3
  <2>4. new[id] # Null /\ id \in 1 .. m /\ Live(b) \subseteq 1 .. m
    BY <1>3, <1>5, <1>6, <1>7, <2>2
  <2> QED BY <2>1, <2>3, <2>4
<1>11. \A i \in Live(b) : new[i] = b.tags[i]
  BY <1>3, <1>6, <1>7 DEF Live
<1>12. id \in Nat \ {0}
  BY <1>6
<1> QED BY <1>2, <1>6, <1>7, <1>8, <1>9, <1>10, <1>11, <1>12 DEF tag

(***************************************************************************)
(* A message is stored behind the others.                                  *)
(***************************************************************************)
(* The bytes behind tail are those that no message has.                    *)
LEMMA BehindTail ==
  ASSUME NEW b, RingType(b), NEW n \in Nat \ {0}, Fill(b) + n < b.size,
         NEW p \in 0 .. b.size - 1, NEW k, k = ((p - b.tail) % b.size) + 1
  PROVE  /\ k \in Nat \ {0} /\ k \in Int
         /\ Dist(b, p) < Fill(b) => ~(k <= n)
         /\ \A i \in 1 .. n : Cell(b, b.tail, i) = p => k = i
<1>1. /\ b.size \in Nat \ {0} /\ b.head \in Nat /\ b.head <= b.size
      /\ b.tail \in 0 .. b.size - 1
      /\ Fill(b) = Dist(b, b.tail) /\ Fill(b) \in Nat
  BY FillRange, RingFacts DEF Fill
<1>2. k \in 1 .. b.size /\ k = IF b.tail <= p THEN p - b.tail + 1 ELSE p - b.tail + b.size + 1
  <2> DEFINE x == (p - b.tail) % b.size
  <2>1. x \in 0 .. b.size - 1 /\ x = IF b.tail <= p THEN p - b.tail ELSE p - b.tail + b.size
    BY <1>1, CellAt
  <2>2. k = x + 1
    OBVIOUS
  <2> HIDE DEF x
  <2> QED BY <1>1, <2>1, <2>2
<1>3. Dist(b, p) < Fill(b) => ~(k <= n)
  BY <1>1, <1>2 DEF Dist
<1>4. ASSUME NEW i \in 1 .. n, Cell(b, b.tail, i) = p PROVE k = i
  <2>1. i \in Nat \ {0} /\ Dist(b, b.tail) + i - 1 < b.size
    BY <1>1
  <2>2. p = IF b.tail + i - 1 < b.size THEN b.tail + i - 1 ELSE b.tail + i - 1 - b.size
    BY <1>1, <1>4, <2>1, CellDist
  <2>3. i <= b.size
    BY <1>1
  <2> QED BY <1>1, <1>2, <2>1, <2>2, <2>3
<1> QED BY <1>2, <1>3, <1>4

LEMMA StoreFields ==
  ASSUME NEW b, RingType(b), NEW datum \in Seq(Int), datum # <<>>,
         Fill(b) + Len(datum) < b.size,
         NEW c, c = Written(b, datum)
  PROVE  /\ RingType(c) /\ c.size = b.size /\ c.head = b.head /\ c.tags = b.tags
         /\ Fill(c) = Fill(b) + Len(datum)
         /\ \A p \in 0 .. b.size - 1 : Dist(b, p) < Fill(b) => c.mem[p] = b.mem[p]
         /\ \A i \in 1 .. Len(datum) : c.mem[Cell(b, b.tail, i)] = datum[i]
<1> DEFINE n == Len(datum)
<1>1. n \in Nat \ {0} /\ Fill(b) + n < b.size /\ \A i \in Int : i > 0 /\ i <= n => datum[i] \in Int
  BY EmptySeq
<1>m. DOMAIN b.mem = 0 .. b.size - 1 /\ b.mem \in [0 .. b.size - 1 -> Int]
  BY RingFacts
<1>r. b \in [size : {b.size}, head : 0 .. b.size, tail : 0 .. b.size - 1, tags : Seq(Tag),
             mem : [0 .. b.size - 1 -> Int]]
  BY DEF RingType
<1>t. b.size \in Nat \ {0} /\ b.tail \in 0 .. b.size - 1 /\ Fill(b) = Dist(b, b.tail) /\ Fill(b) \in Nat
  BY FillRange, RingFacts DEF Fill
<1> DEFINE at(p) == ((p - b.tail) % b.size) + 1
           byte(p) == IF at(p) <= n THEN datum[at(p)] ELSE b.mem[p]
           mem == [p \in 0 .. b.size - 1 |-> byte(p)]
           tail == Cell(b, b.tail, n + 1)
<1>2. c = [b EXCEPT !.mem = mem, !.tail = tail]
  BY <1>m DEF Written
<1>3. mem = [p \in 0 .. b.size - 1 |-> mem[p]] /\ \A p \in 0 .. b.size - 1 : mem[p] = byte(p)
  OBVIOUS
<1> HIDE DEF mem, n
<1>4. ASSUME NEW p \in 0 .. b.size - 1
      PROVE  \E k \in Nat \ {0} :
               /\ Dist(b, p) < Fill(b) => ~(k <= n)
               /\ \A i \in 1 .. n : Cell(b, b.tail, i) = p => k = i
               /\ mem[p] = IF k <= n THEN datum[k] ELSE b.mem[p]
  <2>1. PICK k : k = at(p)
    OBVIOUS
  <2>2. mem[p] = IF k <= n THEN datum[k] ELSE b.mem[p]
    BY <1>3, <2>1
  <2>3. /\ k \in Nat \ {0}
        /\ Dist(b, p) < Fill(b) => ~(k <= n)
        /\ \A i \in 1 .. n : Cell(b, b.tail, i) = p => k = i
    BY <1>1, <2>1, BehindTail
  <2> HIDE DEF at
  <2> QED BY <2>2, <2>3
<1> HIDE DEF at, byte
<1>5. tail \in 0 .. b.size - 1 /\ Dist(b, tail) = Fill(b) + n
  <2>1. n + 1 \in Nat \ {0} /\ Dist(b, b.tail) + (n + 1) - 1 < b.size
    BY <1>1, <1>t
  <2>2. /\ Cell(b, b.tail, n + 1) \in 0 .. b.size - 1
        /\ Dist(b, Cell(b, b.tail, n + 1)) = Dist(b, b.tail) + (n + 1) - 1
    BY <1>t, <2>1, CellDist
  <2> QED BY <1>1, <1>t, <2>2
<1> HIDE DEF tail
<1>6. mem \in [0 .. b.size - 1 -> Int]
  <2>1. ASSUME NEW p \in 0 .. b.size - 1 PROVE mem[p] \in Int
    <3>1. PICK k \in Nat \ {0} : mem[p] = IF k <= n THEN datum[k] ELSE b.mem[p]
      BY <1>4
    <3>2. CASE k <= n
      BY <1>1, <3>1, <3>2
    <3>3. CASE ~(k <= n)
      BY <1>m, <3>1, <3>3
    <3> QED BY <3>2, <3>3
  <2> QED BY <1>3, <2>1
<1>7. /\ c.mem = mem /\ c.tail = tail /\ c.size = b.size /\ c.head = b.head /\ c.tags = b.tags
      /\ c \in [size : {b.size}, head : 0 .. b.size, tail : {tail}, tags : Seq(Tag), mem : {mem}]
  BY <1>r, <1>2
<1>8. RingType(c)
  BY <1>t, <1>5, <1>6, <1>7 DEF RingType
<1>9. Fill(c) = Fill(b) + n
  BY <1>5, <1>7 DEF Fill, Dist
<1>10. ASSUME NEW p \in 0 .. b.size - 1, Dist(b, p) < Fill(b) PROVE c.mem[p] = b.mem[p]
  BY <1>4, <1>7, <1>10
<1>11. ASSUME NEW i \in 1 .. n PROVE c.mem[Cell(b, b.tail, i)] = datum[i]
  <2> DEFINE p == Cell(b, b.tail, i)
  <2>1. i \in Nat \ {0} /\ i <= n /\ Dist(b, b.tail) + i - 1 < b.size
    BY <1>1, <1>t
  <2>2. p \in 0 .. b.size - 1
    BY <1>t, <2>1, CellDist
  <2>3. p = Cell(b, b.tail, i)
    OBVIOUS
  <2> HIDE DEF p
  <2>4. PICK k \in Nat \ {0} : k = i /\ mem[p] = IF k <= n THEN datum[k] ELSE b.mem[p]
    BY <1>4, <2>2, <2>3
  <2>5. mem[p] = datum[i]
    BY <2>1, <2>4
  <2> QED BY <1>7, <2>5 DEF p
<1> QED BY <1>7, <1>8, <1>9, <1>10, <1>11 DEF n

LEMMA StoreOK ==
  ASSUME NEW b, RingOK(b), RingTiled(b), NEW datum \in Seq(Int), datum # <<>>,
         Fill(b) + Len(datum) < b.size, NEW a, a = Store(b, datum)
  PROVE  /\ RingOK(a.ring) /\ RingTiled(a.ring)
         /\ a.id \in Nat \ {0} /\ a.id \notin Live(b)
         /\ Live(a.ring) = Live(b) \cup {a.id}
         /\ Content(a.ring, a.id) = datum
         /\ \A id \in Live(b) : Content(a.ring, id) = Content(b, id)
<1> DEFINE c == Written(b, datum)
           r == a.ring
           n == Len(datum)
<1>1. a = AddTag(c, b.tail, n)
  BY DEF Store
<1>2. n \in Nat /\ n > 0 /\ datum \in [1 .. n -> Int]
  BY EmptySeq
<1>3. RingType(b) /\ RingShape(b) /\ b.size \in Nat /\ b.tail \in 0 .. b.size - 1
      /\ b.tail < b.size /\ b.head \in Nat /\ b.head <= b.size
      /\ Fill(b) \in Nat /\ Fill(b) = Dist(b, b.tail)
  BY RingFacts, FillRange DEF RingOK, Fill
<1>4. /\ RingType(c) /\ c.size = b.size /\ c.head = b.head /\ c.tags = b.tags
      /\ Fill(c) = Fill(b) + n
      /\ \A p \in 0 .. b.size - 1 : Dist(b, p) < Fill(b) => c.mem[p] = b.mem[p]
      /\ \A i \in 1 .. n : c.mem[Cell(b, b.tail, i)] = datum[i]
  BY <1>3, StoreFields
<1> HIDE DEF c, n
<1>5. /\ a.id \in Nat \ {0} /\ a.id \notin Live(b)
      /\ RingType(r) /\ Live(r) = Live(b) \cup {a.id}
      /\ r.size = b.size /\ r.head = b.head /\ r.tail = c.tail /\ r.mem = c.mem
      /\ r.tags[a.id] = [buf |-> b.tail, bytes |-> n, bound |-> n]
      /\ \A i \in Live(b) : r.tags[i] = b.tags[i]
  <2>1. Live(c) = Live(b) /\ b.tail \in 0 .. c.size - 1
    BY <1>3, <1>4 DEF Live
  <2>2. /\ a.id \in Nat \ {0} /\ a.id \notin Live(c)
        /\ RingType(a.ring) /\ Live(a.ring) = Live(c) \cup {a.id}
        /\ a.ring.size = c.size /\ a.ring.head = c.head /\ a.ring.tail = c.tail
        /\ a.ring.mem = c.mem
        /\ a.ring.tags[a.id] = [buf |-> b.tail, bytes |-> n, bound |-> n]
        /\ \A i \in Live(c) : a.ring.tags[i] = c.tags[i]
    BY <1>1, <1>2, <1>4, <2>1, AddTagFields
  <2> QED BY <1>4, <2>1, <2>2
<1> HIDE DEF r
<1>6. Fill(r) = Fill(b) + n /\ Fill(r) < b.size
  <2>1. Fill(r) = Fill(c)
    BY <1>4, <1>5 DEF Fill, Dist
  <2> QED BY <1>4, <2>1 DEF n
<1>7. \A p : Dist(r, p) = Dist(b, p)
  BY <1>5 DEF Dist
<1>8. \A id \in Live(b) : From(r, id) = From(b, id) /\ To(r, id) = To(b, id)
  BY <1>5, <1>7 DEF From, To
<1>9. From(r, a.id) = Fill(b) /\ To(r, a.id) = Fill(r)
  BY <1>3, <1>5, <1>6, <1>7 DEF From, To
<1>10. RingShape(r)
  <2>1. ASSUME NEW id \in Live(b)
        PROVE  /\ r.tags[id].buf \in 0 .. r.size - 1
               /\ 0 < r.tags[id].bytes /\ r.tags[id].bytes <= r.tags[id].bound
               /\ To(r, id) <= Fill(r) /\ To(r, id) <= From(r, a.id)
    <3>1. To(b, id) \in Nat /\ To(b, id) <= Fill(b)
      BY StretchFacts
    <3>2. To(r, id) <= Fill(r) /\ To(r, id) <= From(r, a.id)
      BY <1>2, <1>3, <1>6, <1>8, <1>9, <3>1
    <3> QED BY <1>5, <3>2, StretchFacts
  <2>2. /\ r.tags[a.id].buf \in 0 .. r.size - 1
        /\ 0 < r.tags[a.id].bytes /\ r.tags[a.id].bytes <= r.tags[a.id].bound
        /\ To(r, a.id) <= Fill(r)
    <3>1. To(r, a.id) <= Fill(r)
      BY <1>2, <1>3, <1>6, <1>9
    <3> QED BY <1>2, <1>3, <1>5, <3>1
  <2>3. \A i, j \in Live(b) : i # j => To(r, i) <= From(r, j) \/ To(r, j) <= From(r, i)
    BY <1>3, <1>8 DEF RingShape
  <2> QED BY <1>5, <2>1, <2>2, <2>3 DEF RingShape
<1>11. RingTiled(r)
  <2>1. Starts(r) = Starts(b) \cup {Fill(r)}
    BY <1>5, <1>8, <1>9 DEF Starts
  <2>2. Stops(r) = Stops(b) \cup {Fill(r)}
    BY <1>5, <1>8, <1>9 DEF Stops
  <2>3. EndsAtBottom(b) => EndsAtBottom(r)
    BY <1>5 DEF EndsAtBottom, End, Fixup
  <2> QED BY <1>5, <2>1, <2>2, <2>3 DEF RingTiled
<1>12. Content(r, a.id) = datum
  <2>1. ASSUME NEW i \in 1 .. n PROVE r.mem[Cell(r, b.tail, i)] = datum[i]
    BY <1>4, <1>5 DEF Cell
  <2>2. Content(r, a.id) = [i \in 1 .. n |-> datum[i]]
    <3>1. r.tags[a.id].buf = b.tail /\ r.tags[a.id].bytes = n
      BY <1>5
    <3> QED BY <2>1, <3>1 DEF Content
  <2> QED BY <1>2, <2>2
<1>13. ASSUME NEW id \in Live(b) PROVE Content(r, id) = Content(b, id)
  <2>1. ASSUME NEW i \in 1 .. b.tags[id].bytes
        PROVE  r.mem[Cell(r, r.tags[id].buf, i)] = b.mem[Cell(b, b.tags[id].buf, i)]
    <3> DEFINE p == Cell(b, b.tags[id].buf, i)
    <3>1. p \in 0 .. b.size - 1 /\ Dist(b, p) < Fill(b)
      BY BytesDist
    <3>2. Cell(r, r.tags[id].buf, i) = p
      BY <1>5 DEF Cell
    <3> HIDE DEF p
    <3>3. c.mem[p] = b.mem[p]
      BY <1>4, <3>1
    <3> QED BY <1>5, <3>2, <3>3 DEF p
  <2>2. r.tags[id].bytes = b.tags[id].bytes
    BY <1>5
  <2> QED BY <2>1, <2>2, SameContent
<1>14. RingOK(r)
  BY <1>5, <1>10 DEF RingOK
<1> QED BY <1>5, <1>11, <1>12, <1>13, <1>14 DEF r

(* Put returns an identifier that no message in the ring has, and all      *)
(* messages of the ring and the new one are there.                         *)
LEMMA PutOK ==
  ASSUME NEW b, RingOK(b), RingTiled(b), NEW datum \in Seq(Int), datum # <<>>,
         NEW m \in Int, ~Wild(b, Len(datum), m), NEW a, a = Put(b, datum, m)
  PROVE  /\ RingOK(a.ring) /\ RingTiled(a.ring)
         /\ a.id \in Nat \ {0} /\ a.id \notin Live(b)
         /\ Live(a.ring) = Live(b) \cup {a.id}
         /\ Content(a.ring, a.id) = datum
         /\ \A id \in Live(b) : Content(a.ring, id) = Content(b, id)
<1> DEFINE reset == Reset(b)
           n == Len(datum)
           c == IF Room(reset, n) THEN reset ELSE Expand(reset, n, m)
<1>1. n \in Nat \ {0}
  BY EmptySeq
<1>2. a = Store(c, datum)
  BY DEF Put
<1>3. /\ RingOK(reset) /\ RingTiled(reset) /\ Live(reset) = Live(b)
      /\ \A id \in Live(b) : Content(reset, id) = Content(b, id)
  <2>1. CASE Empty(b)
    <3>1. reset = [b EXCEPT !.head = 0, !.tail = 0]
      BY <2>1 DEF Reset
    <3> HIDE DEF reset
    <3> QED BY <2>1, <3>1, ResetOK
  <2>2. CASE ~Empty(b)
    <3>1. reset = b
      BY <2>2 DEF Reset
    <3> HIDE DEF reset
    <3> QED BY <3>1
  <2> QED BY <2>1, <2>2
<1> HIDE DEF reset
<1>4. /\ RingOK(c) /\ RingTiled(c) /\ Live(c) = Live(b) /\ Fill(c) + n < c.size
      /\ \A id \in Live(b) : Content(c, id) = Content(b, id)
  <2>1. CASE Room(reset, n)
    <3>1. c = reset
      BY <2>1
    <3>2. Fill(reset) + n < reset.size
      BY <1>1, <1>3, <2>1, RoomFill DEF RingOK
    <3> HIDE DEF c, n
    <3> QED BY <1>3, <3>1, <3>2
  <2>2. CASE ~Room(reset, n)
    <3>1. c = Expand(reset, n, m) /\ AsInt(m) = m
      BY <2>2 DEF Wild, reset
    <3> HIDE DEF c, n
    <3>2. /\ RingOK(c) /\ RingTiled(c) /\ Live(c) = Live(reset)
          /\ Fill(c) + n < c.size
          /\ \A id \in Live(reset) : Content(c, id) = Content(reset, id)
      <4>1. RingOK(reset) /\ RingTiled(reset)
        BY <1>3
      <4> HIDE <1>3
      <4> QED BY <1>1, <3>1, <4>1, ExpandOK
    <3> QED BY <1>3, <3>2
  <2> QED BY <2>1, <2>2
<1> HIDE DEF c
<1> QED BY <1>1, <1>2, <1>4, StoreOK

(***************************************************************************)
(* A message is removed.                                                   *)
(***************************************************************************)
LEMMA WithoutShape ==
  ASSUME NEW b, RingOK(b), NEW id \in Live(b), NEW c, c = Without(b, id)
  PROVE  /\ RingOK(c) /\ Live(c) = Live(b) \ {id}
         /\ c.size = b.size /\ c.head = b.head /\ c.tail = b.tail /\ Fill(c) = Fill(b)
         /\ \A i \in Live(c) :
              /\ c.tags[i] = b.tags[i] /\ From(c, i) = From(b, i) /\ To(c, i) = To(b, i)
              /\ End(c, i) = End(b, i) /\ Content(c, i) = Content(b, i)
<1>1. /\ RingType(b) /\ RingShape(b) /\ b.tags \in Seq(Tag)
      /\ Len(b.tags) \in Nat /\ DOMAIN b.tags = 1 .. Len(b.tags)
      /\ b.mem \in [0 .. b.size - 1 -> Int] /\ id \in DOMAIN b.tags
  BY RingFacts DEF RingOK
<1>2. b \in [size : {b.size}, head : 0 .. b.size, tail : 0 .. b.size - 1, tags : Seq(Tag),
             mem : [0 .. b.size - 1 -> Int]] /\ b.size \in Nat \ {0}
  BY <1>1 DEF RingType
<1> DEFINE gone == {Cell(b, b.tags[id].buf, i) : i \in 1 .. b.tags[id].bytes}
           tags == [b.tags EXCEPT ![id] = Null]
           mem  == [p \in DOMAIN b.mem |-> IF p \in gone THEN 0 ELSE b.mem[p]]
<1>3. c = [b EXCEPT !.tags = tags, !.mem = mem]
  BY DEF Without
<1>4. Null \in Tag
  BY DEF Null, Tag
<1>5. /\ tags \in Seq(Tag) /\ DOMAIN tags = DOMAIN b.tags /\ tags[id] = Null
      /\ \A i \in DOMAIN b.tags : i # id => tags[i] = b.tags[i]
  <2>1. b.tags \in [1 .. Len(b.tags) -> Tag]
    BY <1>1
  <2>2. tags \in [1 .. Len(b.tags) -> Tag]
    BY <1>4, <2>1
  <2>3. tags \in Seq(Tag)
    BY <1>1, <2>2
  <2> QED BY <1>1, <2>3
<1>6. mem \in [0 .. b.size - 1 -> Int] /\ \A p \in 0 .. b.size - 1 : p \notin gone => mem[p] = b.mem[p]
  <2> HIDE DEF gone
  <2>1. DOMAIN b.mem = 0 .. b.size - 1 /\ \A p \in 0 .. b.size - 1 : b.mem[p] \in Int
    BY <1>1
  <2>2. mem = [p \in 0 .. b.size - 1 |-> IF p \in gone THEN 0 ELSE b.mem[p]]
    BY <2>1
  <2> HIDE DEF mem
  <2> QED BY <2>1, <2>2
<1> HIDE DEF tags, mem
<1>7. /\ c.tags = tags /\ c.mem = mem /\ c.size = b.size /\ c.head = b.head /\ c.tail = b.tail
      /\ c \in [size : {b.size}, head : 0 .. b.size, tail : 0 .. b.size - 1, tags : {tags},
                mem : {mem}]
  BY <1>2, <1>3
<1>8. RingType(c)
  BY <1>2, <1>5, <1>6, <1>7 DEF RingType
<1>9. Live(c) = Live(b) \ {id}
  BY <1>5, <1>7 DEF Live
<1>10. \A p : Dist(c, p) = Dist(b, p)
  BY <1>7 DEF Dist
<1>11. Fill(c) = Fill(b)
  BY <1>7, <1>10 DEF Fill
<1>12. \A i \in Live(c) : c.tags[i] = b.tags[i]
  BY <1>5, <1>7, <1>9 DEF Live
<1>13. \A i \in Live(c) : From(c, i) = From(b, i) /\ To(c, i) = To(b, i)
  BY <1>10, <1>12 DEF From, To
<1>14. \A i \in Live(c) : End(c, i) = End(b, i)
  BY <1>7, <1>12 DEF End, Fixup
<1>15. RingShape(c)
  BY <1>1, <1>7, <1>9, <1>11, <1>12, <1>13 DEF RingShape
<1>16. ASSUME NEW i \in Live(c) PROVE Content(c, i) = Content(b, i)
  <2>1. i \in Live(b) /\ i # id /\ c.tags[i] = b.tags[i]
    BY <1>9, <1>12
  <2>2. ASSUME NEW k \in 1 .. b.tags[i].bytes
        PROVE  c.mem[Cell(c, c.tags[i].buf, k)] = b.mem[Cell(b, b.tags[i].buf, k)]
    <3> DEFINE p == Cell(b, b.tags[i].buf, k)
    <3>1. p \in 0 .. b.size - 1 /\ From(b, i) <= Dist(b, p) /\ Dist(b, p) < To(b, i)
      BY <2>1, BytesDist
    <3>2. Cell(c, c.tags[i].buf, k) = p
      BY <1>7, <2>1 DEF Cell
    <3> HIDE DEF p
    <3>3. p \notin gone
      <4>1. ASSUME NEW l \in 1 .. b.tags[id].bytes, p = Cell(b, b.tags[id].buf, l) PROVE FALSE
        <5>1. From(b, id) <= Dist(b, p) /\ Dist(b, p) < To(b, id)
          BY <4>1, BytesDist
        <5>2. To(b, i) <= From(b, id) \/ To(b, id) <= From(b, i)
          BY <2>1, StretchesApart
        <5>3. /\ To(b, i) \in Nat /\ From(b, i) \in Nat
              /\ To(b, id) \in Nat /\ From(b, id) \in Nat
          BY <2>1, StretchFacts
        <5>4. Dist(b, p) \in Int
          BY <1>1, <1>2, <3>1, DistRange
        <5> QED BY <3>1, <5>1, <5>2, <5>3, <5>4
      <4> QED BY <4>1
    <3> QED BY <1>6, <1>7, <3>1, <3>2, <3>3 DEF p
  <2> QED BY <2>1, <2>2, SameContent
<1> QED BY <1>7, <1>8, <1>9, <1>11, <1>12, <1>13, <1>14, <1>15, <1>16 DEF RingOK

(* What is behind the removed message is so much nearer to head.           *)
LEMMA HeadMoves ==
  ASSUME NEW b, RingOK(b), NEW id \in Live(b), b.tags[id].buf = b.head,
         NEW n, n = b.tags[id].bound, NEW c, c.size = b.size, c.tail = b.tail,
         c.head = Fixup(b, b.head + n)
  PROVE  /\ n \in Nat /\ n > 0 /\ b.head < b.size /\ c.head \in 0 .. b.size
         /\ From(b, id) = 0 /\ To(b, id) = n
         /\ \A p \in 0 .. b.size - 1 : Dist(b, p) >= n => Dist(c, p) = Dist(b, p) - n
         /\ Fill(b) >= n /\ Fill(c) = Fill(b) - n
<1>1. /\ b.size \in Nat /\ b.size > 0
      /\ b.head \in Nat /\ b.head <= b.size /\ b.tail \in 0 .. b.size - 1
  BY RingFacts DEF RingOK
<1>2. /\ b.tags[id].buf \in 0 .. b.size - 1 /\ n \in Nat /\ n > 0
      /\ To(b, id) = From(b, id) + n /\ To(b, id) <= Fill(b)
      /\ Fill(b) \in Nat /\ Fill(b) < b.size
  BY StretchFacts
<1>3. From(b, id) = 0
  BY <1>1, <1>2 DEF From, Dist
<1>4. c.head = IF b.head + n > b.size THEN b.head + n - b.size ELSE b.head + n
  BY <1>1, <1>2 DEF Fixup
<1>5. c.head \in 0 .. b.size
  BY <1>1, <1>2, <1>3, <1>4
<1>6. ASSUME NEW p \in 0 .. b.size - 1, Dist(b, p) >= n PROVE Dist(c, p) = Dist(b, p) - n
  BY <1>1, <1>2, <1>3, <1>4, <1>6 DEF Dist
<1>7. Fill(c) = Fill(b) - n
  <2>1. Dist(b, b.tail) = Fill(b) /\ Dist(c, b.tail) = Fill(c)
    BY DEF Fill
  <2> QED BY <1>1, <1>2, <1>3, <1>6, <2>1
<1> QED BY <1>1, <1>2, <1>3, <1>5, <1>6, <1>7

LEMMA RemoveAtHead ==
  ASSUME NEW b, RingOK(b), RingTiled(b), NEW id \in Live(b), b.tags[id].buf = b.head,
         NEW c, c = [Without(b, id) EXCEPT !.head = Fixup(b, @ + b.tags[id].bound)]
  PROVE  /\ RingOK(c) /\ RingTiled(c) /\ Live(c) = Live(b) \ {id}
         /\ \A i \in Live(c) : Content(c, i) = Content(b, i)
<1> DEFINE w == Without(b, id)
           n == b.tags[id].bound
<1>1. /\ RingOK(w) /\ Live(w) = Live(b) \ {id}
      /\ w.size = b.size /\ w.head = b.head /\ w.tail = b.tail /\ Fill(w) = Fill(b)
      /\ \A i \in Live(w) :
           /\ w.tags[i] = b.tags[i] /\ From(w, i) = From(b, i) /\ To(w, i) = To(b, i)
           /\ End(w, i) = End(b, i) /\ Content(w, i) = Content(b, i)
  BY WithoutShape
<1>2. w \in [size : {b.size}, head : 0 .. b.size, tail : 0 .. b.size - 1, tags : Seq(Tag),
             mem : [0 .. b.size - 1 -> Int]]
  BY <1>1 DEF RingOK, RingType
<1>3. c = [w EXCEPT !.head = Fixup(b, b.head + n)]
  <2>1. c = [w EXCEPT !.head = Fixup(b, w.head + n)]
    OBVIOUS
  <2> QED BY <1>1, <2>1
<1> HIDE DEF w, n
<1>4. /\ c.size = b.size /\ c.head = Fixup(b, b.head + n) /\ c.tail = b.tail
      /\ c.tags = w.tags /\ c.mem = w.mem
      /\ c \in [size : {b.size}, head : {Fixup(b, b.head + n)}, tail : 0 .. b.size - 1,
                tags : Seq(Tag), mem : [0 .. b.size - 1 -> Int]]
  BY <1>1, <1>2, <1>3
<1>5. /\ n \in Nat /\ n > 0 /\ b.head < b.size /\ c.head \in 0 .. b.size
      /\ From(b, id) = 0 /\ To(b, id) = n
      /\ \A p \in 0 .. b.size - 1 : Dist(b, p) >= n => Dist(c, p) = Dist(b, p) - n
      /\ Fill(b) >= n /\ Fill(c) = Fill(b) - n
  <2>1. n = b.tags[id].bound
    BY DEF n
  <2> QED BY <1>4, <2>1, HeadMoves
<1>6. /\ b.size \in Nat /\ b.size > 0 /\ b.size \in Nat \ {0}
      /\ b.head \in Nat /\ b.head <= b.size /\ b.tail \in 0 .. b.size - 1
  BY RingFacts DEF RingOK
<1>7. RingType(c)
  BY <1>4, <1>5, <1>6 DEF RingType
<1>8. Live(c) = Live(b) \ {id} /\ \A i \in Live(c) : c.tags[i] = b.tags[i]
  BY <1>1, <1>4 DEF Live
<1>9. ASSUME NEW i \in Live(c)
      PROVE  /\ i \in Live(b) /\ From(b, i) \in Nat /\ From(b, i) >= n
             /\ To(b, i) \in Nat /\ To(b, i) > n
             /\ From(c, i) = From(b, i) - n /\ To(c, i) = To(b, i) - n
             /\ To(c, i) <= Fill(c)
  <2>1. i \in Live(b) /\ i # id /\ c.tags[i] = b.tags[i]
    BY <1>8
  <2>2. /\ b.tags[i].buf \in 0 .. b.size - 1
        /\ From(b, i) \in Nat /\ To(b, i) \in Nat /\ From(b, i) < To(b, i)
        /\ To(b, i) = From(b, i) + b.tags[i].bound /\ b.tags[i].bound \in Nat
        /\ To(b, i) <= Fill(b) /\ Fill(b) \in Nat
        /\ From(b, i) = Dist(b, b.tags[i].buf)
    BY <2>1, StretchFacts DEF From
  <2>3. From(b, i) >= n
    <3>1. To(b, id) <= From(b, i) \/ To(b, i) <= From(b, id)
      BY <2>1, StretchesApart
    <3> QED BY <1>5, <2>2, <3>1
  <2>4. From(c, i) = From(b, i) - n
    BY <1>5, <2>1, <2>2, <2>3 DEF From
  <2>5. To(c, i) = From(b, i) - n + b.tags[i].bound
    BY <2>1, <2>4 DEF To
  <2> QED BY <1>5, <2>1, <2>2, <2>3, <2>4, <2>5
<1>10. RingShape(c)
  <2>1. ASSUME NEW i \in Live(c), NEW j \in Live(c), i # j
        PROVE  To(c, i) <= From(c, j) \/ To(c, j) <= From(c, i)
    <3>1. To(b, i) <= From(b, j) \/ To(b, j) <= From(b, i)
      BY <1>8, <2>1, StretchesApart
    <3> QED BY <1>5, <1>9, <3>1
  <2>2. ASSUME NEW i \in Live(c)
        PROVE  /\ c.tags[i].buf \in 0 .. c.size - 1 /\ To(c, i) <= Fill(c)
               /\ 0 < c.tags[i].bytes /\ c.tags[i].bytes <= c.tags[i].bound
    <3>1. i \in Live(b) /\ c.tags[i] = b.tags[i] /\ c.size = b.size
      BY <1>4, <1>8
    <3>2. /\ b.tags[i].buf \in 0 .. b.size - 1
          /\ b.tags[i].bytes \in Nat /\ b.tags[i].bytes > 0
          /\ b.tags[i].bytes <= b.tags[i].bound
      BY <3>1, StretchFacts
    <3> QED BY <1>9, <3>1, <3>2
  <2> QED BY <2>1, <2>2 DEF RingShape
<1>11. \A i \in Live(c) : Content(c, i) = Content(b, i)
  <2>1. ASSUME NEW i \in Live(c) PROVE Content(c, i) = Content(w, i)
    BY <1>1, <1>4 DEF Content, Cell
  <2> QED BY <1>1, <1>8, <2>1
<1>12. /\ Starts(b) = {From(b, i) : i \in Live(c)} \cup {0, Fill(b)}
       /\ Stops(b) = {To(b, i) : i \in Live(c)} \cup {0, n}
  BY <1>5, <1>8 DEF Starts, Stops
<1>13. /\ \A d \in Starts(c) : d \in Nat /\ d + n \in Starts(b)
       /\ \A d \in Starts(b) : d # 0 => d \in Nat /\ d - n \in Starts(c)
       /\ \A d \in Stops(b) : d # 0 => d \in Nat /\ d - n \in Stops(c)
       /\ \A d \in Stops(c) : d \in Nat /\ d + n \in Stops(b)
  <2>1. ASSUME NEW d \in Starts(c) PROVE d \in Nat /\ d + n \in Starts(b)
    <3>1. CASE d = Fill(c)
      BY <1>5, <1>12, <3>1, FillRange DEF RingOK
    <3>2. ASSUME NEW i \in Live(c), d = From(c, i) PROVE d \in Nat /\ d + n \in Starts(b)
      <4>1. d + n = From(b, i) /\ d \in Nat
        BY <1>5, <1>9, <3>2
      <4> QED BY <1>12, <4>1
    <3> QED BY <3>1, <3>2 DEF Starts
  <2>2. ASSUME NEW d \in Starts(b), d # 0 PROVE d \in Nat /\ d - n \in Starts(c)
    <3>1. CASE d = Fill(b)
      BY <1>5, <3>1, FillRange DEF RingOK, Starts
    <3>2. ASSUME NEW i \in Live(c), d = From(b, i) PROVE d \in Nat /\ d - n \in Starts(c)
      BY <1>9, <3>2 DEF Starts
    <3> QED BY <1>12, <2>2, <3>1, <3>2
  <2>3. ASSUME NEW d \in Stops(b), d # 0 PROVE d \in Nat /\ d - n \in Stops(c)
    <3>1. CASE d = n
      BY <1>5, <3>1 DEF Stops
    <3>2. ASSUME NEW i \in Live(c), d = To(b, i) PROVE d \in Nat /\ d - n \in Stops(c)
      BY <1>9, <3>2 DEF Stops
    <3> QED BY <1>12, <2>3, <3>1, <3>2
  <2>4. ASSUME NEW d \in Stops(c) PROVE d \in Nat /\ d + n \in Stops(b)
    <3>1. CASE d = 0
      BY <1>5, <1>12, <3>1
    <3>2. ASSUME NEW i \in Live(c), d = To(c, i) PROVE d \in Nat /\ d + n \in Stops(b)
      <4>1. d + n = To(b, i) /\ d \in Nat
        BY <1>5, <1>9, <3>2
      <4> QED BY <1>12, <4>1
    <3> QED BY <3>1, <3>2 DEF Stops
  <2> QED BY <2>1, <2>2, <2>3, <2>4
<1>14. RingTiled(c)
  <2>1. CASE Starts(b) = Stops(b)
    <3>1. ASSUME NEW d \in Starts(c) PROVE d \in Stops(c)
      <4>1. d \in Nat /\ d + n \in Stops(b) /\ d + n # 0
        BY <1>5, <1>13, <2>1
      <4>2. (d + n) - n \in Stops(c) /\ (d + n) - n = d
        BY <1>5, <1>13, <4>1
      <4> QED BY <4>2
    <3>2. ASSUME NEW d \in Stops(c) PROVE d \in Starts(c)
      <4>1. d \in Nat /\ d + n \in Starts(b) /\ d + n # 0
        BY <1>5, <1>13, <2>1
      <4>2. (d + n) - n \in Starts(c) /\ (d + n) - n = d
        BY <1>5, <1>13, <4>1
      <4> QED BY <4>2
    <3> QED BY <3>1, <3>2 DEF RingTiled
  <2>2. CASE Starts(b) # Stops(b)
    <3>1. PICK x \in Live(b) : End(b, x) = b.size
      BY <1>5, <1>6, <2>2 DEF RingTiled, EndsAtBottom
    <3>2. /\ b.tags[x].buf + b.tags[x].bound = b.size
          /\ To(b, x) = b.size - b.head
      BY <3>1, EndFacts
    <3>3. b.head + n <= b.size
      <4>1. CASE x = id
        BY <1>6, <3>2, <4>1 DEF n
      <4>2. CASE x # id
        <5>1. x \in Live(c)
          BY <1>8, <4>2
        <5>2. To(b, x) > n
          BY <1>9, <5>1
        <5> QED BY <1>5, <1>6, <3>2, <5>2
      <4> QED BY <4>1, <4>2
    <3>4. c.head = b.head + n
      BY <1>4, <1>5, <1>6, <3>3 DEF Fixup
    <3>5. ASSUME NEW d \in Starts(c), d <= c.size - c.head PROVE d \in Stops(c)
      <4>0. d \in Nat /\ d + n \in Starts(b) /\ n \in Nat /\ n > 0 /\ d <= b.size - (b.head + n)
        BY <1>4, <1>5, <1>13, <3>4, <3>5
      <4>1. d \in Nat /\ d + n \in Starts(b) /\ d + n # 0 /\ d + n <= b.size - b.head
        BY <1>6, <4>0
      <4>2. d + n \in Stops(b)
        BY <4>1 DEF RingTiled
      <4>3. (d + n) - n \in Stops(c) /\ (d + n) - n = d
        BY <1>5, <1>13, <4>1, <4>2
      <4> QED BY <4>3
    <3>6. EndsAtBottom(c)
      <4>1. CASE x = id
        <5>1. b.tags[x].buf = b.head /\ b.tags[x].bound = n
          BY <4>1 DEF n
        <5>2. c.head = c.size
          BY <1>4, <3>2, <3>4, <5>1
        <5> QED BY <5>2 DEF EndsAtBottom
      <4>2. CASE x # id
        <5>1. x \in Live(c) /\ End(c, x) = End(b, x)
          BY <1>4, <1>8, <4>2 DEF End, Fixup
        <5> QED BY <1>4, <3>1, <5>1 DEF EndsAtBottom
      <4> QED BY <4>1, <4>2
    <3> QED BY <3>5, <3>6 DEF RingTiled
  <2> QED BY <2>1, <2>2
<1> QED BY <1>7, <1>8, <1>10, <1>11, <1>14 DEF RingOK

(* The message in front ends where the removed one begins.                 *)
LEMMA FrontMeets ==
  ASSUME NEW b, RingOK(b), NEW id \in Live(b), NEW f \in Front(b, id)
  PROVE  /\ f \in Live(b) /\ f # id /\ To(b, f) = From(b, id)
         /\ End(b, f) = b.tags[id].buf /\ End(b, f) # b.size
<1>1. f \in Live(b) /\ f # id /\ End(b, f) = b.tags[id].buf
  BY DEF Front
<1>2. End(b, f) # b.size
  <2>1. b.tags[id].buf \in 0 .. b.size - 1 /\ b.size \in Nat
    BY RingFacts, StretchFacts DEF RingOK
  <2> QED BY <1>1, <2>1
<1> QED BY <1>1, <1>2, EndFacts DEF From

(* When nothing ends where a message begins, and it is not the first, then *)
(* the message lies past bottom, and another one ends at bottom.           *)
LEMMA NoFront ==
  ASSUME NEW b, RingOK(b), RingTiled(b), NEW id \in Live(b), b.tags[id].buf # b.head,
         Front(b, id) = {}
  PROVE  /\ From(b, id) >= b.size - b.head /\ EndsAtBottom(b)
         /\ End(b, id) # b.size
<1>1. /\ b.size \in Nat /\ b.size > 0
      /\ b.head \in Nat /\ b.head <= b.size
  BY RingFacts DEF RingOK
<1>2. /\ b.tags[id].buf \in 0 .. b.size - 1 /\ From(b, id) = Dist(b, b.tags[id].buf)
      /\ From(b, id) \in Nat /\ To(b, id) \in Nat /\ From(b, id) < To(b, id)
  BY StretchFacts DEF From
<1>3. b.head < b.size => From(b, id) # 0
  BY <1>1, <1>2 DEF Dist
<1>4. ASSUME NEW j \in Live(b), To(b, j) = From(b, id)
      PROVE  End(b, j) = b.size
  <2>1. j # id
    BY <1>2, <1>4
  <2>2. ASSUME End(b, j) # b.size PROVE FALSE
    <3>1. End(b, j) \in 0 .. b.size - 1 /\ Dist(b, End(b, j)) = Dist(b, b.tags[id].buf)
      BY <1>1, <1>2, <1>4, <2>2, EndFacts
    <3>2. End(b, j) = b.tags[id].buf
      BY <1>2, <3>1, DistInjective DEF RingOK
    <3> QED BY <2>1, <3>2 DEF Front
  <2> QED BY <2>2
<1>5. From(b, id) >= b.size - b.head
  <2>1. ASSUME From(b, id) < b.size - b.head PROVE FALSE
    <3>1. From(b, id) \in Stops(b) /\ From(b, id) # 0
      BY <1>1, <1>2, <1>3, <2>1 DEF RingTiled, Starts
    <3>2. PICK j \in Live(b) : To(b, j) = From(b, id)
      BY <3>1 DEF Stops
    <3>3. To(b, j) = b.size - b.head
      BY <1>4, <3>2, EndFacts
    <3> QED BY <1>1, <1>2, <2>1, <3>2, <3>3
  <2> QED BY <1>1, <1>2, <2>1
<1>6. EndsAtBottom(b)
  <2>1. ASSUME Starts(b) = Stops(b), b.head # b.size PROVE EndsAtBottom(b)
    <3>1. From(b, id) \in Stops(b) /\ From(b, id) # 0
      BY <1>1, <1>3, <2>1 DEF Starts
    <3>2. PICK j \in Live(b) : To(b, j) = From(b, id)
      BY <3>1 DEF Stops
    <3> QED BY <1>4, <3>2 DEF EndsAtBottom
  <2> QED BY <2>1 DEF RingTiled, EndsAtBottom
<1>7. End(b, id) # b.size
  <2>1. End(b, id) = b.size => To(b, id) = b.size - b.head
    BY EndFacts
  <2> QED BY <1>1, <1>2, <1>5, <2>1
<1> QED BY <1>5, <1>6, <1>7

LEMMA RemoveBehind ==
  ASSUME NEW b, RingOK(b), RingTiled(b), NEW id \in Live(b), b.tags[id].buf # b.head,
         NEW f \in Front(b, id),
         NEW c, c = [Without(b, id) EXCEPT !.tags[f].bound = @ + b.tags[id].bound]
  PROVE  /\ RingOK(c) /\ RingTiled(c) /\ Live(c) = Live(b) \ {id}
         /\ \A i \in Live(c) : Content(c, i) = Content(b, i)
<1> DEFINE w == Without(b, id)
           n == b.tags[id].bound
           tags == [w.tags EXCEPT ![f].bound = @ + n]
<1>1. /\ RingOK(w) /\ Live(w) = Live(b) \ {id}
      /\ w.size = b.size /\ w.head = b.head /\ w.tail = b.tail /\ Fill(w) = Fill(b)
      /\ \A i \in Live(w) :
           /\ w.tags[i] = b.tags[i] /\ From(w, i) = From(b, i) /\ To(w, i) = To(b, i)
           /\ End(w, i) = End(b, i) /\ Content(w, i) = Content(b, i)
  BY WithoutShape
<1>2. w \in [size : {b.size}, head : 0 .. b.size, tail : 0 .. b.size - 1, tags : Seq(Tag),
             mem : [0 .. b.size - 1 -> Int]]
  BY <1>1 DEF RingOK, RingType
<1>3. c = [w EXCEPT !.tags = tags]
  <2> HIDE DEF w
  <2>1. c = [w EXCEPT !.tags[f].bound = @ + n]
    BY DEF w
  <2> QED BY <2>1
<1>4. /\ f \in Live(b) /\ f # id /\ To(b, f) = From(b, id)
      /\ End(b, f) = b.tags[id].buf /\ End(b, f) # b.size
  BY FrontMeets
<1>5. /\ n \in Nat /\ n > 0 /\ From(b, id) \in Nat /\ To(b, id) = From(b, id) + n
      /\ To(b, id) <= Fill(b) /\ Fill(b) \in Nat /\ Fill(b) < b.size
      /\ b.size \in Nat /\ b.head \in Nat /\ b.head <= b.size
  BY StretchFacts, RingFacts DEF RingOK
<1> HIDE DEF w, n
<1>6. /\ w.tags \in Seq(Tag) /\ Len(w.tags) \in Nat /\ DOMAIN w.tags = 1 .. Len(w.tags)
      /\ f \in DOMAIN w.tags /\ w.tags[f] \in Tag
  BY <1>1, <1>4, RingFacts DEF RingOK, Live
<1>7. /\ tags \in Seq(Tag) /\ DOMAIN tags = DOMAIN w.tags
      /\ tags[f] = [w.tags[f] EXCEPT !.bound = @ + n] /\ tags[f] \in Tag
      /\ \A i \in DOMAIN w.tags : i # f => tags[i] = w.tags[i]
  <2>1. [w.tags[f] EXCEPT !.bound = @ + n] \in Tag
    <3>1. PICK t \in Tag : t = w.tags[f]
      BY <1>6
    <3>2. n \in Nat
      BY <1>5
    <3>3. [t EXCEPT !.bound = @ + n] \in Tag
      BY <3>2 DEF Tag
    <3> QED BY <3>1, <3>3
  <2>2. w.tags \in [1 .. Len(w.tags) -> Tag]
    BY <1>6
  <2>3. tags \in [1 .. Len(w.tags) -> Tag] /\ tags[f] = [w.tags[f] EXCEPT !.bound = @ + n]
    BY <1>6, <2>1, <2>2
  <2>4. tags \in Seq(Tag) /\ DOMAIN tags = DOMAIN w.tags
    BY <1>6, <2>3
  <2> QED BY <2>1, <2>3, <2>4
<1> HIDE DEF tags
<1>8. /\ c.size = b.size /\ c.head = b.head /\ c.tail = b.tail /\ c.tags = tags /\ c.mem = w.mem
      /\ c \in [size : {b.size}, head : 0 .. b.size, tail : 0 .. b.size - 1, tags : {tags},
                mem : [0 .. b.size - 1 -> Int]]
  BY <1>1, <1>2, <1>3
<1>9. RingType(c)
  BY <1>7, <1>8 DEF RingType, RingOK
<1>10. /\ tags[f].buf = b.tags[f].buf /\ tags[f].bytes = b.tags[f].bytes
       /\ tags[f].bound = b.tags[f].bound + n /\ tags[f] # Null
  <2>1. w.tags[f] = b.tags[f] /\ b.tags[f].bytes > 0
    BY <1>1, <1>4, StretchFacts
  <2>2. tags[f].buf = b.tags[f].buf /\ tags[f].bytes = b.tags[f].bytes
        /\ tags[f].bound = b.tags[f].bound + n
    BY <1>6, <1>7, <2>1 DEF Tag
  <2>3. tags[f] # Null
    BY <2>1, <2>2 DEF Null
  <2> QED BY <2>2, <2>3
<1>11. Live(c) = Live(b) \ {id}
  <2>1. f \in Live(w)
    BY <1>1, <1>4
  <2> QED BY <1>1, <1>7, <1>8, <1>10, <2>1 DEF Live
<1>12. \A p : Dist(c, p) = Dist(b, p)
  BY <1>8 DEF Dist
<1>13. Fill(c) = Fill(b)
  BY <1>8, <1>12 DEF Fill
<1>14. ASSUME NEW i \in Live(c), i # f
       PROVE  /\ i \in Live(b) /\ i # id /\ c.tags[i] = b.tags[i]
              /\ From(c, i) = From(b, i) /\ To(c, i) = To(b, i) /\ End(c, i) = End(b, i)
  <2>1. i \in Live(w) /\ i \in DOMAIN w.tags /\ i \in Live(b) /\ i # id
    BY <1>1, <1>11 DEF Live
  <2>2. c.tags[i] = b.tags[i]
    BY <1>1, <1>7, <1>8, <1>14, <2>1
  <2>3. From(c, i) = From(b, i) /\ To(c, i) = To(b, i)
    BY <1>12, <2>2 DEF From, To
  <2>4. c.size = b.size
    BY <1>8
  <2>5. End(c, i) = End(b, i)
    <3>1. b.tags[i].buf + b.tags[i].bound \in Int
      BY <2>1, StretchFacts
    <3>2. \A p \in Int : Fixup(c, p) = Fixup(b, p)
      BY <2>4 DEF Fixup
    <3> QED BY <2>2, <3>1, <3>2 DEF End
  <2> QED BY <2>1, <2>2, <2>3, <2>5
<1>15. /\ f \in Live(c) /\ From(c, f) = From(b, f) /\ To(c, f) = To(b, id)
       /\ From(b, f) \in Nat /\ From(b, f) < From(b, id)
       /\ b.tags[f].bound \in Nat /\ From(b, id) = From(b, f) + b.tags[f].bound
       /\ b.tags[f].bytes \in Nat /\ b.tags[f].bytes > 0 /\ b.tags[f].bytes <= b.tags[f].bound
       /\ b.tags[f].buf \in 0 .. b.size - 1
  <2>1. /\ f \in Live(c) /\ c.tags[f].buf = b.tags[f].buf
        /\ c.tags[f].bound = b.tags[f].bound + n
    BY <1>4, <1>8, <1>10, <1>11
  <2>2. From(c, f) = From(b, f)
    BY <1>12, <2>1 DEF From
  <2>3. /\ From(b, f) \in Nat /\ b.tags[f].bound \in Nat
        /\ To(b, f) = From(b, f) + b.tags[f].bound
        /\ b.tags[f].bytes \in Nat /\ b.tags[f].bytes > 0 /\ b.tags[f].bytes <= b.tags[f].bound
        /\ b.tags[f].buf \in 0 .. b.size - 1
    BY <1>4, StretchFacts
  <2>4. To(c, f) = From(b, f) + (b.tags[f].bound + n)
    BY <2>1, <2>2 DEF To
  <2> QED BY <1>4, <1>5, <2>1, <2>2, <2>3, <2>4
<1>16. ASSUME NEW i \in Live(c), i # f
       PROVE  /\ To(c, i) <= From(c, f) \/ To(c, f) <= From(c, i)
              /\ From(b, i) # From(b, id) /\ To(b, i) # To(b, f)
              /\ From(b, i) \in Nat /\ To(b, i) \in Nat
  <2>1. /\ To(b, i) <= From(b, f) \/ To(b, f) <= From(b, i)
        /\ To(b, i) <= From(b, id) \/ To(b, id) <= From(b, i)
        /\ From(b, i) # From(b, id) /\ To(b, i) # To(b, f)
    BY <1>4, <1>14, <1>16, StretchesApart
  <2>2. From(b, i) \in Nat /\ To(b, i) \in Nat /\ From(b, i) < To(b, i)
    BY <1>14, <1>16, StretchFacts
  <2>3. From(c, i) = From(b, i) /\ To(c, i) = To(b, i)
    BY <1>14, <1>16
  <2>4. To(b, i) <= From(b, f) \/ To(b, id) <= From(b, i)
    BY <1>4, <1>15, <1>5, <2>1, <2>2
  <2> QED BY <1>15, <2>1, <2>2, <2>3, <2>4
<1>17. RingShape(c)
  <2>1. ASSUME NEW i \in Live(c)
        PROVE  /\ c.tags[i].buf \in 0 .. c.size - 1
               /\ 0 < c.tags[i].bytes /\ c.tags[i].bytes <= c.tags[i].bound
               /\ To(c, i) <= Fill(c)
    <3>1. CASE i = f
      <4>1. c.tags[i].buf = b.tags[f].buf /\ c.tags[i].bytes = b.tags[f].bytes
            /\ c.tags[i].bound = b.tags[f].bound + n
        BY <1>8, <1>10, <3>1
      <4>2. b.tags[f].bytes <= b.tags[f].bound + n
        BY <1>5, <1>15
      <4> QED BY <1>5, <1>8, <1>13, <1>15, <3>1, <4>1, <4>2
    <3>2. CASE i # f
      BY <1>8, <1>13, <1>14, <3>2, StretchFacts
    <3> QED BY <3>1, <3>2
  <2>2. ASSUME NEW i \in Live(c), NEW j \in Live(c), i # j
        PROVE  To(c, i) <= From(c, j) \/ To(c, j) <= From(c, i)
    <3>1. CASE i = f
      BY <1>16, <2>2, <3>1
    <3>2. CASE j = f
      BY <1>16, <2>2, <3>2
    <3>3. CASE i # f /\ j # f
      BY <1>14, <2>2, <3>3, StretchesApart
    <3> QED BY <3>1, <3>2, <3>3
  <2> QED BY <2>1, <2>2 DEF RingShape
<1>18. ASSUME NEW i \in Live(c) PROVE Content(c, i) = Content(b, i)
  <2>1. Content(w, i) = Content(b, i) /\ w.tags[i] = b.tags[i]
    BY <1>1, <1>11
  <2>2. c.tags[i].buf = w.tags[i].buf /\ c.tags[i].bytes = w.tags[i].bytes
    <3>1. CASE i = f
      BY <1>8, <1>10, <2>1, <3>1
    <3>2. CASE i # f
      BY <1>14, <2>1, <3>2
    <3> QED BY <3>1, <3>2
  <2>3. Content(c, i) = Content(w, i)
    <3>1. c.size = w.size /\ c.mem = w.mem
      BY <1>1, <1>8
    <3>2. \A k : Cell(c, c.tags[i].buf, k) = Cell(w, w.tags[i].buf, k)
      BY <2>2, <3>1 DEF Cell
    <3> QED BY <2>2, <3>1, <3>2 DEF Content
  <2> QED BY <2>1, <2>3
<1>19. /\ Starts(c) \subseteq Starts(b) /\ From(b, id) \notin Starts(c)
       /\ Starts(b) = Starts(c) \cup {From(b, id)}
  <2>1. {From(c, i) : i \in Live(c)} = {From(b, i) : i \in Live(c)}
    BY <1>14, <1>15
  <2>2. Starts(b) = {From(b, i) : i \in Live(c)} \cup {From(b, id), Fill(b)}
    BY <1>11 DEF Starts
  <2>3. From(b, id) # Fill(b) /\ From(b, id) # From(b, f)
    BY <1>5, <1>15
  <2>4. \A i \in Live(c) : From(b, i) # From(b, id)
    BY <1>16, <2>3
  <2> QED BY <1>13, <2>1, <2>2, <2>3, <2>4 DEF Starts
<1>20. Stops(b) = Stops(c) \cup {From(b, id)} /\ From(b, id) \notin Stops(c)
  <2>1. Stops(c) = {To(b, i) : i \in Live(c) \ {f}} \cup {To(b, id), 0}
    <3>1. ASSUME NEW i \in Live(c) PROVE i = f \/ To(c, i) = To(b, i)
      BY <1>14
    <3> QED BY <1>15, <3>1 DEF Stops
  <2>2. Stops(b) = {To(b, i) : i \in Live(c) \ {f}} \cup {To(b, f), To(b, id), 0}
    BY <1>4, <1>11 DEF Stops
  <2>3. From(b, id) # To(b, id) /\ From(b, id) # 0
    BY <1>5, <1>15
  <2>4. \A i \in Live(c) \ {f} : To(b, i) # From(b, id)
    BY <1>4, <1>16
  <2> QED BY <1>4, <2>1, <2>2, <2>3, <2>4
<1>21. RingTiled(c)
  <2>1. ASSUME NEW d \in Starts(c), d <= c.size - c.head PROVE d \in Stops(c)
    BY <1>8, <1>19, <1>20, <2>1 DEF RingTiled
  <2>2. CASE Starts(b) = Stops(b)
    <3>1. Starts(c) = Stops(c)
      BY <1>19, <1>20, <2>2
    <3> QED BY <2>1, <3>1 DEF RingTiled
  <2>3. CASE b.head = b.size
    BY <1>8, <2>1, <2>3 DEF RingTiled, EndsAtBottom
  <2>4. ASSUME NEW x \in Live(b), End(b, x) = b.size PROVE RingTiled(c)
    <3>1. CASE x = id
      <4>1. b.tags[id].buf + n = b.size
        BY <2>4, <3>1, EndFacts DEF n
      <4>2. b.tags[f].buf + b.tags[f].bound = b.tags[id].buf
        <5>1. /\ To(b, id) = b.size - b.head /\ b.tags[id].buf >= b.head
              /\ b.tags[id].buf \in 0 .. b.size - 1
          BY <2>4, <3>1, EndFacts, StretchFacts
        <5>2. From(b, f) = Dist(b, b.tags[f].buf) /\ From(b, id) = Dist(b, b.tags[id].buf)
          BY DEF From
        <5> QED BY <1>5, <1>15, <5>1, <5>2 DEF Dist
      <4>3. c.tags[f].buf + c.tags[f].bound = c.size
        <5>1. c.tags[f].buf = b.tags[f].buf /\ c.tags[f].bound = b.tags[f].bound + n
          BY <1>8, <1>10
        <5>2. b.tags[f].buf \in Int /\ b.tags[f].bound \in Int /\ n \in Int
          BY <1>5, <1>15
        <5>3. c.size = b.size
          BY <1>8
        <5> QED BY <4>1, <4>2, <5>1, <5>2, <5>3
      <4>4. End(c, f) = c.size
        BY <1>9, <1>15, <1>17, <4>3, EndFacts DEF RingOK
      <4> QED BY <1>15, <2>1, <4>4 DEF RingTiled, EndsAtBottom
    <3>2. CASE x # id
      <4>1. x # f /\ x \in Live(c)
        BY <1>4, <1>11, <2>4, <3>2
      <4>2. End(c, x) = c.size
        BY <1>8, <1>14, <2>4, <4>1
      <4> QED BY <2>1, <4>1, <4>2 DEF RingTiled, EndsAtBottom
    <3> QED BY <3>1, <3>2
  <2> QED BY <2>2, <2>3, <2>4 DEF RingTiled, EndsAtBottom
<1> QED BY <1>9, <1>11, <1>17, <1>18, <1>21 DEF RingOK

LEMMA RemoveLeaves ==
  ASSUME NEW b, RingOK(b), RingTiled(b), NEW id \in Live(b), b.tags[id].buf # b.head,
         Front(b, id) = {}, NEW c, c = Without(b, id)
  PROVE  RingTiled(c)
<1>1. /\ RingOK(c) /\ Live(c) = Live(b) \ {id}
      /\ c.size = b.size /\ c.head = b.head /\ c.tail = b.tail /\ Fill(c) = Fill(b)
      /\ \A i \in Live(c) :
           /\ c.tags[i] = b.tags[i] /\ From(c, i) = From(b, i) /\ To(c, i) = To(b, i)
           /\ End(c, i) = End(b, i)
  BY WithoutShape
<1>2. From(b, id) >= b.size - b.head /\ EndsAtBottom(b) /\ End(b, id) # b.size
  BY NoFront
<1>3. EndsAtBottom(c)
  BY <1>1, <1>2 DEF EndsAtBottom
<1>4. ASSUME NEW d \in Starts(c), d <= c.size - c.head PROVE d \in Stops(c)
  <2>1. d \in Starts(b)
    BY <1>1 DEF Starts
  <2>2. d \in Stops(b)
    BY <1>1, <1>4, <2>1 DEF RingTiled
  <2>3. To(b, id) > b.size - b.head
    <3>1. From(b, id) \in Nat /\ To(b, id) \in Nat
      BY StretchFacts
    <3>2. From(b, id) < To(b, id)
      BY StretchFacts
    <3>3. RingType(b)
      BY DEF RingOK
    <3>4. b.size \in Nat /\ b.head \in Nat
      BY <3>3, RingFacts
    <3> QED BY <1>2, <3>1, <3>2, <3>4
  <2>4. d # To(b, id)
    <3>1. d <= b.size - b.head
      BY <1>1, <1>4
    <3>2. \A x, y \in Int : x <= y => ~(x > y)
      OBVIOUS
    <3>3. b.size - b.head \in Int /\ To(b, id) \in Int
      BY StretchFacts, RingFacts DEF RingOK
    <3> QED BY <2>3, <3>1, <3>2, <3>3
  <2> QED BY <1>1, <2>2, <2>4 DEF Stops
<1> QED BY <1>3, <1>4 DEF RingTiled

(* Remove takes the message out and leaves every other as it was.          *)
LEMMA RemoveOK ==
  ASSUME NEW b, RingOK(b), RingTiled(b), NEW id \in Live(b), NEW c, c = Remove(b, id)
  PROVE  /\ RingOK(c) /\ RingTiled(c) /\ Live(c) = Live(b) \ {id}
         /\ \A i \in Live(c) : Content(c, i) = Content(b, i)
<1>1. CASE b.tags[id].buf = b.head
  <2>1. c = [Without(b, id) EXCEPT !.head = Fixup(b, @ + b.tags[id].bound)]
    BY <1>1 DEF Remove
  <2> QED BY <1>1, <2>1, RemoveAtHead
<1>2. CASE b.tags[id].buf # b.head /\ Front(b, id) # {}
  <2>1. Min(Front(b, id)) \in Front(b, id)
    <3>1. Front(b, id) \in SUBSET Nat
      BY RingFacts DEF Front, RingOK
    <3> QED BY <1>2, <3>1, Least
  <2>2. PICK f \in Front(b, id) : f = Min(Front(b, id))
    BY <2>1
  <2>3. c = [Without(b, id) EXCEPT !.tags[f].bound = @ + b.tags[id].bound]
    BY <1>2, <2>2 DEF Remove
  <2> QED BY <1>2, <2>3, RemoveBehind
<1>3. CASE b.tags[id].buf # b.head /\ Front(b, id) = {}
  <2>1. c = Without(b, id)
    BY <1>3 DEF Remove
  <2> QED BY <1>3, <2>1, WithoutShape, RemoveLeaves
<1> QED BY <1>1, <1>2, <1>3

(***************************************************************************)
(* The invariant, action by action.                                        *)
(***************************************************************************)
LEMMA NewRing ==
  /\ RingOK(New(BufSize, TagCount)) /\ RingTiled(New(BufSize, TagCount))
  /\ Live(New(BufSize, TagCount)) = {}
<1> DEFINE b == New(BufSize, TagCount)
<1>1. BufSize \in Nat \ {0} /\ TagCount \in Nat \ {0}
  BY SharedBagAssumption
<1>2. /\ b.size = BufSize /\ b.head = 0 /\ b.tail = 0 /\ b.tags = [i \in 1 .. TagCount |-> Null]
      /\ b.mem = [p \in 0 .. (BufSize - 1) |-> 0]
      /\ b \in [size : {BufSize}, head : {0}, tail : {0}, tags : {b.tags}, mem : {b.mem}]
  BY DEF New
<1> HIDE DEF b
<1>3. b.tags \in Seq(Tag)
  <2>1. Null \in Tag
    BY DEF Null, Tag
  <2> QED BY <1>1, <1>2, <2>1
<1>4. RingType(b)
  <2>1. b.mem \in [0 .. BufSize - 1 -> Int]
    BY <1>2
  <2>2. 0 \in 0 .. BufSize /\ 0 \in 0 .. BufSize - 1
    BY <1>1
  <2> QED BY <1>1, <1>2, <1>3, <2>1, <2>2 DEF RingType
<1>5. Live(b) = {}
  BY <1>2 DEF Live
<1>6. Fill(b) = 0
  BY <1>2 DEF Fill, Dist
<1>7. Starts(b) = {0} /\ Stops(b) = {0}
  BY <1>5, <1>6 DEF Starts, Stops
<1> QED BY <1>4, <1>5, <1>7 DEF RingOK, RingShape, RingTiled, b

LEMMA InitSound == Init => Sound
<1> SUFFICES ASSUME Init PROVE Sound
  OBVIOUS
<1>1. 1 \in Slots
  BY SharedBagAssumption DEF Slots
<1>2. KeysShape
  BY <1>1 DEF Init, KeysShape
<1>3. \A s \in Slots : /\ buf[s] = New(BufSize, TagCount) /\ Live(buf[s]) = {}
                       /\ lost[s] = {} /\ queue[s] = <<>>
  BY NewRing DEF Init
<1>4. RingsShape
  BY <1>3, NewRing DEF RingsShape, Init
<1>5. QueuesShape
  <2>1. queue \in [Slots -> Seq(Nat \cup {Quick})]
    BY DEF Init
  <2>2. Depth \in Nat
    BY SharedBagAssumption
  <2> QED BY <1>3, <2>1, <2>2 DEF QueuesShape
<1>6. NoCall \in Call
  BY DEF NoCall, Call
<1>7. CallsShape
  BY <1>6 DEF Init, CallsShape, CallOK, NoCall, Putting, Getting
<1>8. OnePlace
  BY <1>3 DEF OnePlace
<1>9. SlotsKeepKeys
  <2>1. \A t \in Threads : th[t] = NoCall /\ th[t].id # Quick
    BY ValuesAssumption DEF Init, NoCall
  <2>2. \A e \in Slots : key[e] = NoKey
    BY DEF Init
  <2>3. Used \subseteq Slots
    <3>1. capacity \in Slots
      BY <1>2 DEF KeysShape
    <3> QED BY <3>1, SharedBagAssumption DEF Used, Slots
  <2>4. KeysStay
    <3>1. RightSlot(NoCall)
      BY DEF RightSlot, NoCall, Getting
    <3>2. \A t \in Threads : RightSlot(th[t])
      BY <2>1, <3>1
    <3> QED BY <1>3, <2>2, <2>3, <3>2 DEF KeysStay
  <2> QED BY <1>3, <2>1, <2>4 DEF SlotsKeepKeys, Elements
<1> QED BY <1>2, <1>4, <1>5, <1>7, <1>8, <1>9 DEF Sound

(***************************************************************************)
(* What the invariant says of a thread, a slot and a message.              *)
(***************************************************************************)
LEMMA CallFacts ==
  ASSUME Sound, NEW t \in Threads
  PROVE  /\ th[t] \in Call /\ CallOK(th[t])
         /\ th[t].at # "idle" => th[t].slot \in Slots
         /\ \A s, id : Holds(th[t], s, id) =>
              /\ s \in Slots /\ s = th[t].slot /\ id = th[t].id /\ Kept(s, id) /\ th[t].at # "idle"
              /\ id # Quick => id \in Nat /\ id \in Live(buf[s]) /\ id \notin lost[s]
<1>1. th[t] \in Call /\ CallOK(th[t])
  BY DEF Sound, CallsShape
<1>2. ASSUME NEW s, NEW id, Holds(th[t], s, id)
      PROVE  /\ s \in Slots /\ s = th[t].slot /\ id = th[t].id /\ Kept(s, id) /\ th[t].at # "idle"
             /\ id # Quick => id \in Nat /\ id \in Live(buf[s]) /\ id \notin lost[s]
  <2>1. s \in Slots /\ s = th[t].slot /\ id = th[t].id /\ Kept(s, id) /\ th[t].at # "idle"
    BY <1>1, <1>2 DEF Holds, CallOK, Putting
  <2>2. RingType(buf[s])
    BY <2>1 DEF Sound, RingsShape, RingOK
  <2>3. Live(buf[s]) \subseteq Nat
    BY <2>2, RingFacts
  <2> QED BY <2>1, <2>3 DEF Kept
<1> QED BY <1>1, <1>2 DEF CallOK

LEMMA SlotFacts ==
  ASSUME Sound, NEW s \in Slots
  PROVE  /\ RingOK(buf[s]) /\ RingTiled(buf[s]) /\ Live(buf[s]) \subseteq Nat \ {0}
         /\ lost[s] \subseteq Live(buf[s])
         /\ \A id \in Live(buf[s]) : Content(buf[s], id) \in Messages /\ id # Quick
         /\ queue[s] \in Seq(Nat \cup {Quick}) /\ Len(queue[s]) \in Nat
         /\ DOMAIN queue[s] = 1 .. Len(queue[s]) /\ Len(queue[s]) <= Depth
         /\ \A i \in DOMAIN queue[s] : Kept(s, queue[s][i])
         /\ \A i, j \in DOMAIN queue[s] : queue[s][i] = queue[s][j] /\ i # j => queue[s][i] = Quick
<1>1. /\ RingOK(buf[s]) /\ RingTiled(buf[s]) /\ lost[s] \subseteq Live(buf[s])
      /\ \A id \in Live(buf[s]) : Content(buf[s], id) \in Messages
  BY DEF Sound, RingsShape
<1>2. Live(buf[s]) \subseteq Nat \ {0}
  BY <1>1, RingFacts DEF RingOK
<1>3. /\ queue[s] \in Seq(Nat \cup {Quick}) /\ Len(queue[s]) <= Depth
      /\ \A i \in DOMAIN queue[s] : Kept(s, queue[s][i])
      /\ \A i, j \in DOMAIN queue[s] : queue[s][i] = queue[s][j] /\ i # j => queue[s][i] = Quick
  BY DEF Sound, QueuesShape
<1>4. Len(queue[s]) \in Nat /\ DOMAIN queue[s] = 1 .. Len(queue[s])
  BY <1>3
<1> QED BY <1>1, <1>2, <1>3, <1>4, ValuesAssumption

LEMMA SlotsFacts ==
  ASSUME KeysShape
  PROVE  /\ 1 \in Slots /\ Used \subseteq Slots /\ Slots \subseteq Nat
         /\ capacity \in Nat /\ Depth \in Nat
<1>1. capacity \in Slots
  BY DEF KeysShape
<1> QED BY <1>1, SharedBagAssumption DEF Used, Slots

(***************************************************************************)
(* A step of one thread that leaves rings, queues and messages alone.      *)
(***************************************************************************)
LEMMA SameRings ==
  ASSUME UNCHANGED <<buf, lost>>
  PROVE  /\ RingsShape => RingsShape'
         /\ \A s, id : Kept(s, id)' <=> Kept(s, id)
         /\ \A s, id : Datum(s, id)' = Datum(s, id)
         /\ \A call : CallOK(call) => CallOK(call)'
<1>1. \A s, id : Kept(s, id)' <=> Kept(s, id)
  BY DEF Kept
<1>2. \A s, id : Datum(s, id)' = Datum(s, id)
  BY DEF Datum
<1>3. RingsShape => RingsShape'
  BY DEF RingsShape
<1>4. \A call : CallOK(call) => CallOK(call)'
  BY <1>1, <1>2 DEF CallOK
<1> QED BY <1>1, <1>2, <1>3, <1>4

LEMMA CallStep ==
  ASSUME CallsShape, NEW t \in Threads, NEW call \in Call, th' = [th EXCEPT ![t] = call],
         CallOK(call)',
         \A u \in Threads \ {t} : \A c : c = th[u] => CallOK(c)'
  PROVE  /\ CallsShape' /\ th'[t] = call
         /\ \A u \in Threads : u # t => th'[u] = th[u]
         /\ \A u \in Threads : th'[u] \in Call
<1>1. th \in [Threads -> Call]
  BY DEF CallsShape
<1>2. th' \in [Threads -> Call] /\ th'[t] = call /\ \A u \in Threads : u # t => th'[u] = th[u]
  BY <1>1
<1>3. ASSUME NEW u \in Threads PROVE CallOK(th[u])'
  <2>1. PICK c : c = th'[u]
    OBVIOUS
  <2>2. CallOK(c)'
    <3>1. CASE u = t
      BY <1>2, <2>1, <3>1
    <3>2. CASE u # t
      BY <1>2, <2>1, <3>2
    <3> QED BY <3>1, <3>2
  <2> QED BY <2>1, <2>2 DEF CallOK
<1> QED BY <1>2, <1>3 DEF CallsShape

LEMMA ThreadStep ==
  ASSUME Sound, NEW t \in Threads, NEW call \in Call, th' = [th EXCEPT ![t] = call],
         UNCHANGED <<buf, queue, lost>>, CallOK(call),
         \A s \in Slots, id \in Nat : Holds(call, s, id) <=> Holds(th[t], s, id)
  PROVE  /\ RingsShape' /\ QueuesShape' /\ CallsShape' /\ OnePlace'
         /\ th'[t] = call /\ \A u \in Threads : u # t => th'[u] = th[u]
<1>1. RingsShape'
  BY SameRings DEF Sound
<1>2. QueuesShape'
  BY SameRings DEF Sound, QueuesShape
<1>3. \A u \in Threads \ {t} : \A c : c = th[u] => CallOK(c)'
  BY CallFacts, SameRings
<1>4. /\ CallsShape' /\ th'[t] = call
      /\ \A u \in Threads : u # t => th'[u] = th[u]
  BY <1>3, CallStep, SameRings DEF Sound
<1>5. ASSUME NEW s \in Slots, NEW id \in Nat PROVE HoldersOf(s, id)' = HoldersOf(s, id)
  <2>1. ASSUME NEW u \in Threads PROVE Holds(th'[u], s, id) <=> Holds(th[u], s, id)
    <3>1. CASE u = t
      BY <1>4, <3>1
    <3>2. CASE u # t
      BY <1>4, <3>2
    <3> QED BY <3>1, <3>2
  <2> QED BY <2>1 DEF HoldersOf, Holds
<1>6. OnePlace'
  <2>1. \A s \in Slots : Live(buf[s]) \subseteq Nat
    BY SlotFacts
  <2>2. \A s \in Slots : Elements(queue[s])' = Elements(queue[s])
    BY DEF Elements
  <2>3. OnePlace
    BY DEF Sound
  <2> QED BY <1>5, <2>1, <2>2, <2>3 DEF OnePlace
<1> QED BY <1>1, <1>2, <1>4, <1>6

(***************************************************************************)
(* Steps that store or remove bytes.                                       *)
(***************************************************************************)
LEMMA RingStep ==
  ASSUME RingsShape, NEW s \in Slots, NEW r, buf' = [buf EXCEPT ![s] = r], UNCHANGED lost,
         RingOK(r), RingTiled(r), lost[s] \subseteq Live(r),
         \A i \in Live(r) : Content(r, i) \in Messages,
         \A i \in Live(r) \cap Live(buf[s]) : Content(r, i) = Content(buf[s], i)
  PROVE  /\ RingsShape'
         /\ buf'[s] = r /\ \A x \in Slots : x # s => buf'[x] = buf[x]
         /\ \A x \in Slots : \A i : Kept(x, i) /\ (x = s => i = Quick \/ i \in Live(r)) =>
              Kept(x, i)' /\ Datum(x, i)' = Datum(x, i)
<1>1. DOMAIN buf = Slots /\ lost \in [Slots -> SUBSET Nat]
  BY DEF RingsShape
<1>2. DOMAIN buf' = Slots /\ buf'[s] = r /\ \A x \in Slots : x # s => buf'[x] = buf[x]
  BY <1>1
<1>3. ASSUME NEW x \in Slots
      PROVE  /\ RingOK(buf'[x]) /\ RingTiled(buf'[x]) /\ lost'[x] \subseteq Live(buf'[x])
             /\ \A id \in Live(buf'[x]) : Content(buf'[x], id) \in Messages
  <2>1. CASE x = s
    BY <1>2, <2>1
  <2>2. CASE x # s
    <3>1. buf'[x] = buf[x]
      BY <1>2, <2>2
    <3> QED BY <3>1 DEF RingsShape
  <2> QED BY <2>1, <2>2
<1>4. RingsShape'
  BY <1>1, <1>2, <1>3 DEF RingsShape
<1>5. ASSUME NEW x \in Slots, NEW i, Kept(x, i), x = s => i = Quick \/ i \in Live(r)
      PROVE  Kept(x, i)' /\ Datum(x, i)' = Datum(x, i)
  <2>1. CASE i = Quick
    BY <2>1 DEF Kept, Datum
  <2>2. CASE i # Quick /\ x = s
    <3>1. i \in Live(r) /\ i \in Live(buf[s]) /\ i \notin lost[s]
      BY <1>5, <2>2 DEF Kept
    <3>2. Kept(x, i)'
      BY <1>2, <2>2, <3>1 DEF Kept
    <3>3. Datum(x, i)' = Content(r, i) /\ Datum(x, i) = Content(buf[s], i)
      BY <1>2, <2>2 DEF Datum
    <3> QED BY <3>1, <3>2, <3>3
  <2>3. CASE i # Quick /\ x # s
    BY <1>2, <1>5, <2>3 DEF Kept, Datum
  <2> QED BY <2>1, <2>2, <2>3
<1> QED BY <1>2, <1>4, <1>5

(* StoreBytes puts the message a thread was about to put into the ring,    *)
(* under an identifier that nothing else has.                              *)
LEMMA StoreStep ==
  ASSUME Sound, NEW t \in Threads, StoreBytes(t), Defined'
  PROVE  \E s \in Slots : \E id \in Nat \ {0} :
           /\ s = th[t].slot /\ id \notin Live(buf[s])
           /\ Live(buf'[s]) = Live(buf[s]) \cup {id} /\ Content(buf'[s], id) = th[t].datum
           /\ \A i \in Live(buf[s]) : Content(buf'[s], i) = Content(buf[s], i)
           /\ \A x \in Slots : x # s => buf'[x] = buf[x]
           /\ th' = [th EXCEPT ![t] = [th[t] EXCEPT !.at = "put", !.id = id]]
           /\ RingsShape' /\ Kept(s, id)' /\ th[t].datum = Datum(s, id)'
           /\ \A x \in Slots : \A i : Kept(x, i) => Kept(x, i)' /\ Datum(x, i)' = Datum(x, i)
           /\ ~Kept(s, id)
<1>m. PICK m \in Moves :
        LET s     == th[t].slot
            datum == th[t].datum
            put   == Put(buf[s], datum, m)
        IN  /\ shape' = IF Wild(buf[s], Len(datum), m) THEN "undefined" ELSE shape
            /\ buf' = [buf EXCEPT ![s] = put.ring]
            /\ th' = [th EXCEPT ![t] = [th[t] EXCEPT !.at = "put", !.id = put.id]]
  BY DEF StoreBytes, Goes
<1> DEFINE s == th[t].slot
           put == Put(buf[s], th[t].datum, m)
           id == put.id
<1>n. m \in Int /\ ~Wild(buf[s], Len(th[t].datum), m)
  BY <1>m, MovesAssumption DEF Defined
<1>1. /\ th[t].at = "store" /\ buf' = [buf EXCEPT ![s] = put.ring] /\ UNCHANGED lost
      /\ th' = [th EXCEPT ![t] = [th[t] EXCEPT !.at = "put", !.id = id]]
  BY <1>m DEF StoreBytes
<1>2. s \in Slots /\ th[t].datum \in Messages /\ th[t].datum \in Seq(Int) /\ th[t].datum # <<>>
  <2>1. CallOK(th[t])
    BY CallFacts
  <2> QED BY <1>1, <2>1, SharedBagAssumption DEF CallOK
<1>3. RingOK(buf[s]) /\ RingTiled(buf[s]) /\ lost[s] \subseteq Live(buf[s])
      /\ \A i \in Live(buf[s]) : Content(buf[s], i) \in Messages
  BY <1>2, SlotFacts
<1>4. /\ RingOK(put.ring) /\ RingTiled(put.ring)
      /\ id \in Nat \ {0} /\ id \notin Live(buf[s])
      /\ Live(put.ring) = Live(buf[s]) \cup {id}
      /\ Content(put.ring, id) = th[t].datum
      /\ \A i \in Live(buf[s]) : Content(put.ring, i) = Content(buf[s], i)
  BY <1>2, <1>3, <1>n, PutOK
<1>5. PICK r : r = put.ring
  OBVIOUS
<1>6. PICK k \in Nat \ {0} : k = id
  BY <1>4
<1> HIDE DEF put, id
<1>7. /\ RingsShape' /\ buf'[s] = r /\ \A x \in Slots : x # s => buf'[x] = buf[x]
      /\ \A x \in Slots : \A i : Kept(x, i) /\ (x = s => i = Quick \/ i \in Live(r)) =>
           Kept(x, i)' /\ Datum(x, i)' = Datum(x, i)
  <2>1. \A i \in Live(r) : Content(r, i) \in Messages
    BY <1>2, <1>3, <1>4, <1>5
  <2>2. \A i \in Live(r) \cap Live(buf[s]) : Content(r, i) = Content(buf[s], i)
    BY <1>4, <1>5
  <2>3. lost[s] \subseteq Live(r) /\ buf' = [buf EXCEPT ![s] = r]
    BY <1>1, <1>3, <1>4, <1>5
  <2>4. RingsShape /\ RingOK(r) /\ RingTiled(r)
    BY <1>4, <1>5 DEF Sound
  <2> HIDE DEF s
  <2> QED BY <1>1, <1>2, <2>1, <2>2, <2>3, <2>4, RingStep
<1>8. PICK x \in Slots : x = s
  BY <1>2
<1> HIDE DEF s
<1>9. /\ k \notin Live(buf[x]) /\ Live(buf'[x]) = Live(buf[x]) \cup {k}
      /\ Content(buf'[x], k) = th[t].datum
      /\ \A i \in Live(buf[x]) : Content(buf'[x], i) = Content(buf[x], i)
  BY <1>4, <1>5, <1>6, <1>7, <1>8
<1>10. k # Quick /\ k \notin lost[x]
  BY <1>3, <1>4, <1>6, <1>8, ValuesAssumption
<1>11. Kept(x, k)' /\ th[t].datum = Datum(x, k)' /\ ~Kept(x, k)
  BY <1>1, <1>9, <1>10 DEF Kept, Datum
<1>12. ASSUME NEW y \in Slots, NEW i, Kept(y, i)
       PROVE  Kept(y, i)' /\ Datum(y, i)' = Datum(y, i)
  <2>1. y = s => i = Quick \/ i \in Live(r)
    BY <1>4, <1>5, <1>12 DEF Kept
  <2> QED BY <1>7, <1>12, <2>1
<1>13. th' = [th EXCEPT ![t] = [th[t] EXCEPT !.at = "put", !.id = k]]
  BY <1>1, <1>6
<1>14. x = th[t].slot /\ \A y \in Slots : y # x => buf'[y] = buf[y]
  BY <1>7, <1>8 DEF s
<1> QED BY <1>7, <1>9, <1>11, <1>12, <1>13, <1>14

(* FetchBytes takes the message a thread has received out of the ring.     *)
LEMMA FetchStep ==
  ASSUME Sound, NEW t \in Threads, FetchBytes(t), th[t].id # Quick
  PROVE  \E s \in Slots, id \in Nat \ {0} :
           /\ s = th[t].slot /\ id = th[t].id /\ Holds(th[t], s, id)
           /\ Live(buf'[s]) = Live(buf[s]) \ {id}
           /\ \A i \in Live(buf'[s]) : Content(buf'[s], i) = Content(buf[s], i)
           /\ \A x \in Slots : x # s => buf'[x] = buf[x]
           /\ RingsShape'
           /\ \A x \in Slots : \A i : Kept(x, i) /\ ~(x = s /\ i = id) =>
                Kept(x, i)' /\ Datum(x, i)' = Datum(x, i)
<1>1. PICK s \in Slots, id \in Nat \ {0} :
        s = th[t].slot /\ id = th[t].id /\ Holds(th[t], s, id) /\ id \in Live(buf[s])
        /\ id \notin lost[s]
  <2>1. Holds(th[t], th[t].slot, th[t].id)
    BY DEF FetchBytes, Holds
  <2>2. th[t].slot \in Slots /\ th[t].id \in Live(buf[th[t].slot]) /\ th[t].id \notin lost[th[t].slot]
    BY <2>1, CallFacts
  <2> QED BY <2>1, <2>2, SlotFacts
<1>2. PICK r : r = Remove(buf[s], id)
  OBVIOUS
<1>3. buf' = [buf EXCEPT ![s] = r] /\ UNCHANGED lost
  BY <1>1, <1>2 DEF FetchBytes
<1>4. /\ RingOK(r) /\ RingTiled(r) /\ Live(r) = Live(buf[s]) \ {id}
      /\ \A i \in Live(r) : Content(r, i) = Content(buf[s], i)
  BY <1>1, <1>2, SlotFacts, RemoveOK
<1>5. /\ RingsShape' /\ buf'[s] = r /\ \A x \in Slots : x # s => buf'[x] = buf[x]
      /\ \A x \in Slots : \A i : Kept(x, i) /\ (x = s => i = Quick \/ i \in Live(r)) =>
           Kept(x, i)' /\ Datum(x, i)' = Datum(x, i)
  <2>1. /\ \A i \in Live(r) : Content(r, i) \in Messages
        /\ \A i \in Live(r) \cap Live(buf[s]) : Content(r, i) = Content(buf[s], i)
        /\ lost[s] \subseteq Live(r)
    BY <1>1, <1>4, SlotFacts
  <2> QED BY <1>3, <1>4, <2>1, RingStep DEF Sound
<1>6. ASSUME NEW x \in Slots, NEW i, Kept(x, i), ~(x = s /\ i = id)
      PROVE  Kept(x, i)' /\ Datum(x, i)' = Datum(x, i)
  <2>1. x = s => i = Quick \/ i \in Live(r)
    BY <1>4, <1>6 DEF Kept
  <2> QED BY <1>5, <1>6, <2>1
<1> QED BY <1>1, <1>4, <1>5, <1>6

(***************************************************************************)
(* Queues of identifiers.                                                  *)
(***************************************************************************)
LEMMA AppendFacts ==
  ASSUME NEW S, NEW q \in Seq(S), NEW x \in S
  PROVE  /\ Append(q, x) \in Seq(S) /\ Len(Append(q, x)) = Len(q) + 1
         /\ Len(q) \in Nat /\ DOMAIN q = 1 .. Len(q) /\ DOMAIN Append(q, x) = 1 .. Len(q) + 1
         /\ Append(q, x)[Len(q) + 1] = x /\ Len(q) + 1 \in DOMAIN Append(q, x)
         /\ \A i \in DOMAIN q : i \in DOMAIN Append(q, x) /\ Append(q, x)[i] = q[i]
         /\ \A i \in DOMAIN Append(q, x) : i = Len(q) + 1 \/ i \in DOMAIN q
         /\ Elements(Append(q, x)) = Elements(q) \cup {x}
<1>1. /\ Append(q, x) \in Seq(S) /\ Len(Append(q, x)) = Len(q) + 1
      /\ Len(q) \in Nat /\ DOMAIN q = 1 .. Len(q) /\ DOMAIN Append(q, x) = 1 .. Len(q) + 1
      /\ Append(q, x)[Len(q) + 1] = x
      /\ \A i \in 1 .. Len(q) : Append(q, x)[i] = q[i]
  OBVIOUS
<1>2. PICK n \in Nat : n = Len(q)
  BY <1>1
<1>3. /\ n + 1 \in 1 .. n + 1 /\ \A i \in 1 .. n : i \in 1 .. n + 1
      /\ \A i \in 1 .. n + 1 : i = n + 1 \/ i \in 1 .. n
  OBVIOUS
<1>4. Elements(Append(q, x)) = Elements(q) \cup {x}
  BY <1>1, <1>2, <1>3 DEF Elements
<1> QED BY <1>1, <1>2, <1>3, <1>4

LEMMA TailFacts ==
  ASSUME NEW S, NEW q \in Seq(S), q # <<>>
  PROVE  /\ Tail(q) \in Seq(S) /\ Len(Tail(q)) = Len(q) - 1 /\ Len(q) \in Nat
         /\ DOMAIN q = 1 .. Len(q) /\ DOMAIN Tail(q) = 1 .. Len(q) - 1
         /\ Head(q) = q[1] /\ 1 \in DOMAIN q
         /\ \A i \in DOMAIN Tail(q) : i + 1 \in DOMAIN q /\ i + 1 # 1 /\ Tail(q)[i] = q[i + 1]
         /\ Elements(q) = {Head(q)} \cup Elements(Tail(q))
<1>1. /\ Tail(q) \in Seq(S) /\ Len(Tail(q)) = Len(q) - 1 /\ Len(q) \in Nat /\ Len(q) # 0
      /\ DOMAIN q = 1 .. Len(q) /\ DOMAIN Tail(q) = 1 .. Len(q) - 1 /\ Head(q) = q[1]
      /\ \A i \in 1 .. Len(q) - 1 : Tail(q)[i] = q[i + 1]
  BY HeadTailProperties, EmptySeq
<1>2. PICK n \in Nat : n = Len(q) /\ n # 0
  BY <1>1
<1>3. /\ 1 \in 1 .. n
      /\ \A i \in 1 .. n - 1 : i + 1 \in 1 .. n /\ i + 1 # 1
      /\ \A i \in 1 .. n : i = 1 \/ (i - 1 \in 1 .. n - 1 /\ (i - 1) + 1 = i)
  BY <1>2
<1>4. Elements(q) = {Head(q)} \cup Elements(Tail(q))
  <2>1. ASSUME NEW i \in 1 .. n PROVE q[i] = Head(q) \/ q[i] \in Elements(Tail(q))
    <3>1. CASE i = 1
      BY <1>1, <3>1
    <3>2. CASE i - 1 \in 1 .. n - 1 /\ (i - 1) + 1 = i
      <4>1. Tail(q)[i - 1] = q[i]
        BY <1>1, <1>2, <3>2
      <4> QED BY <1>1, <1>2, <3>2, <4>1 DEF Elements
    <3> QED BY <1>3, <3>1, <3>2
  <2> QED BY <1>1, <1>2, <1>3, <2>1 DEF Elements
<1> QED BY <1>1, <1>2, <1>3, <1>4

LEMMA CallStays ==
  ASSUME NEW c, CallOK(c),
         c.at # "idle" /\ c.slot \in Slots /\ Kept(c.slot, c.id) =>
           Kept(c.slot, c.id)' /\ Datum(c.slot, c.id)' = Datum(c.slot, c.id)
  PROVE  CallOK(c)'
  BY DEF CallOK, Putting

(* The holders of a message when one thread goes to another call.          *)
LEMMA HoldersStep ==
  ASSUME NEW t \in Threads, NEW call, th'[t] = call,
         \A u \in Threads : u # t => th'[u] = th[u], NEW s, NEW id
  PROVE  /\ ~Holds(call, s, id) => HoldersOf(s, id)' = HoldersOf(s, id) \ {t}
         /\ Holds(call, s, id) => HoldersOf(s, id)' = HoldersOf(s, id) \cup {t}
<1>1. ASSUME NEW u \in Threads
      PROVE  Holds(th'[u], s, id) <=> IF u = t THEN Holds(call, s, id) ELSE Holds(th[u], s, id)
  OBVIOUS
<1>2. HoldersOf(s, id)' = {u \in Threads : Holds(th'[u], s, id)}
  BY DEF HoldersOf, Holds
<1>3. HoldersOf(s, id) = {u \in Threads : Holds(th[u], s, id)}
  BY DEF HoldersOf
<1> QED BY <1>1, <1>2, <1>3

LEMMA StoreShapes ==
  ASSUME Sound, NEW t \in Threads, StoreBytes(t), Defined'
  PROVE  RingsShape' /\ QueuesShape' /\ CallsShape' /\ OnePlace'
<1>1. PICK s \in Slots, id \in Nat \ {0} :
        /\ s = th[t].slot /\ id \notin Live(buf[s])
        /\ Live(buf'[s]) = Live(buf[s]) \cup {id} /\ Content(buf'[s], id) = th[t].datum
        /\ \A x \in Slots : x # s => buf'[x] = buf[x]
        /\ th' = [th EXCEPT ![t] = [th[t] EXCEPT !.at = "put", !.id = id]]
        /\ RingsShape' /\ Kept(s, id)' /\ th[t].datum = Datum(s, id)'
        /\ \A x \in Slots : \A i : Kept(x, i) => Kept(x, i)' /\ Datum(x, i)' = Datum(x, i)
        /\ ~Kept(s, id)
  BY StoreStep
<1>2. th[t].at = "store" /\ queue' = queue /\ lost' = lost
  BY DEF StoreBytes
<1>3. th[t] \in Call /\ CallOK(th[t])
  BY CallFacts
<1>d. PICK call : call = [th[t] EXCEPT !.at = "put", !.id = id]
  OBVIOUS
<1>4. call \in Call /\ call.at = "put" /\ call.slot = s /\ call.id = id /\ call.datum = th[t].datum
  BY <1>1, <1>3, <1>d DEF Call, Putting
<1>5. CallOK(call)'
  BY <1>1, <1>4 DEF CallOK, Putting, Getting
<1>6. ASSUME NEW u \in Threads \ {t}, NEW c, c = th[u] PROVE CallOK(c)'
  <2>1. CallOK(c)
    BY <1>6, CallFacts
  <2> QED BY <1>1, <2>1, CallStays
<1>7. CallsShape' /\ th'[t] = call /\ \A u \in Threads : u # t => th'[u] = th[u]
  <2>1. th' = [th EXCEPT ![t] = call]
    BY <1>1, <1>d
  <2> QED BY <1>4, <1>5, <1>6, <2>1, CallStep DEF Sound
<1>8. QueuesShape'
  <2>1. ASSUME NEW x \in Slots, NEW i \in DOMAIN queue[x] PROVE Kept(x, queue[x][i])'
    <3>1. PICK k : k = queue[x][i]
      OBVIOUS
    <3>2. Kept(x, k)
      BY <3>1, SlotFacts
    <3>3. Kept(x, k)'
      BY <1>1, <3>2
    <3> QED BY <1>2, <3>1, <3>3 DEF Kept
  <2> QED BY <1>2, <2>1 DEF Sound, QueuesShape
<1>9. \A x \in Slots : Elements(queue[x])' = Elements(queue[x])
  BY <1>2 DEF Elements
<1>10. ASSUME NEW x \in Slots, NEW i \in Live(buf'[x])
       PROVE  /\ \A u \in HoldersOf(x, i)' : HoldersOf(x, i)' = {u} /\ i \notin Elements(queue[x])
              /\ i \in lost[x] \cup Elements(queue[x]) \/ HoldersOf(x, i)' # {}
  <2>1. CASE x = s /\ i = id
    <3>1. HoldersOf(x, i) = {}
      BY <1>1, <2>1, CallFacts, ValuesAssumption DEF HoldersOf
    <3>2. HoldersOf(x, i)' = {t}
      <4>1. Holds(call, x, i)
        BY <1>4, <2>1 DEF Holds
      <4> QED BY <1>7, <3>1, <4>1, HoldersStep
    <3>3. i \notin Elements(queue[x])
      BY <1>1, <2>1, SlotFacts DEF Elements
    <3> QED BY <3>2, <3>3
  <2>2. CASE ~(x = s /\ i = id)
    <3>1. i \in Live(buf[x])
      <4>1. CASE x = s
        BY <1>1, <2>2, <4>1
      <4>2. CASE x # s
        BY <1>1, <4>2
      <4> QED BY <4>1, <4>2
    <3>2. HoldersOf(x, i)' = HoldersOf(x, i)
      <4>1. ~Holds(call, x, i) /\ t \notin HoldersOf(x, i)
        BY <1>2, <1>4, <2>2 DEF Holds, HoldersOf
      <4> QED BY <1>7, <4>1, HoldersStep
    <3> QED BY <3>1, <3>2 DEF Sound, OnePlace
  <2> QED BY <2>1, <2>2
<1>11. OnePlace'
  BY <1>2, <1>9, <1>10 DEF OnePlace
<1> QED BY <1>1, <1>7, <1>8, <1>11

LEMMA FetchShapes ==
  ASSUME Sound, NEW t \in Threads, FetchBytes(t), th[t].id # Quick
  PROVE  RingsShape' /\ QueuesShape' /\ CallsShape' /\ OnePlace'
<1>1. PICK s \in Slots, id \in Nat \ {0} :
        /\ s = th[t].slot /\ id = th[t].id /\ Holds(th[t], s, id)
        /\ Live(buf'[s]) = Live(buf[s]) \ {id}
        /\ \A x \in Slots : x # s => buf'[x] = buf[x]
        /\ RingsShape'
        /\ \A x \in Slots : \A i : Kept(x, i) /\ ~(x = s /\ i = id) =>
             Kept(x, i)' /\ Datum(x, i)' = Datum(x, i)
  BY FetchStep
<1>2. queue' = queue /\ lost' = lost /\ th' = [th EXCEPT ![t] = NoCall]
  BY DEF FetchBytes, Goes
<1>3. id \in Live(buf[s]) /\ HoldersOf(s, id) = {t} /\ id \notin Elements(queue[s]) /\ id # Quick
  <2>1. Holds(th[t], s, id) /\ id # Quick
    BY <1>1
  <2>2. id \in Live(buf[s])
    BY <2>1, CallFacts
  <2>3. t \in HoldersOf(s, id)
    BY <2>1 DEF HoldersOf
  <2> QED BY <2>1, <2>2, <2>3 DEF Sound, OnePlace
<1>4. NoCall \in Call /\ NoCall.at = "idle"
  BY DEF NoCall, Call
<1>5. CallOK(NoCall)'
  BY DEF CallOK, NoCall, Putting, Getting
<1>6. ASSUME NEW u \in Threads \ {t}, NEW c, c = th[u] PROVE CallOK(c)'
  <2>1. CallOK(c)
    BY <1>6, CallFacts
  <2>2. CASE Holds(c, s, id)
    BY <1>3, <1>6, <2>2 DEF HoldersOf
  <2>3. CASE ~(c.slot = s /\ c.id = id)
    BY <1>1, <2>1, <2>3, CallStays
  <2>4. CASE c.at \notin {"put", "wait to put", "received"}
    BY <2>1, <2>4 DEF CallOK, Putting
  <2> QED BY <2>2, <2>3, <2>4 DEF Holds
<1>7. CallsShape' /\ th'[t] = NoCall /\ \A u \in Threads : u # t => th'[u] = th[u]
  BY <1>2, <1>4, <1>5, <1>6, CallStep DEF Sound
<1>8. QueuesShape'
  <2>1. ASSUME NEW x \in Slots, NEW i \in DOMAIN queue[x] PROVE Kept(x, queue[x][i])'
    <3>1. PICK k : k = queue[x][i]
      OBVIOUS
    <3>2. Kept(x, k) /\ ~(x = s /\ k = id)
      BY <1>3, <3>1, SlotFacts DEF Elements
    <3>3. Kept(x, k)'
      BY <1>1, <3>2
    <3> QED BY <1>2, <3>1, <3>3 DEF Kept
  <2> QED BY <1>2, <2>1 DEF Sound, QueuesShape
<1>9. \A x \in Slots : Elements(queue[x])' = Elements(queue[x])
  BY <1>2 DEF Elements
<1>10. ASSUME NEW x \in Slots, NEW i \in Live(buf'[x])
       PROVE  /\ \A u \in HoldersOf(x, i)' : HoldersOf(x, i)' = {u} /\ i \notin Elements(queue[x])
              /\ i \in lost[x] \cup Elements(queue[x]) \/ HoldersOf(x, i)' # {}
  <2>1. i \in Live(buf[x]) /\ ~(x = s /\ i = id)
    <3>1. CASE x = s
      BY <1>1, <3>1
    <3>2. CASE x # s
      BY <1>1, <3>2
    <3> QED BY <3>1, <3>2
  <2>2. HoldersOf(x, i)' = HoldersOf(x, i)
    <3>1. ~Holds(NoCall, x, i) /\ t \notin HoldersOf(x, i)
      BY <1>1, <1>4, <2>1 DEF Holds, HoldersOf
    <3> QED BY <1>7, <3>1, HoldersStep
  <2> QED BY <2>1, <2>2 DEF Sound, OnePlace
<1>11. OnePlace'
  BY <1>2, <1>9, <1>10 DEF OnePlace
<1> QED BY <1>1, <1>7, <1>8, <1>11

LEMMA EnqueueShapes ==
  ASSUME Sound, NEW t \in Threads, Enqueue(t)
  PROVE  /\ RingsShape' /\ QueuesShape' /\ CallsShape' /\ OnePlace'
         /\ \A x \in Slots : x # th[t].slot => queue'[x] = queue[x]
         /\ queue'[th[t].slot] = Append(queue[th[t].slot], th[t].id)
<1>1. /\ th[t].at \in Putting /\ Len(queue[th[t].slot]) < Depth /\ UNCHANGED <<buf, lost>>
      /\ queue' = [queue EXCEPT ![th[t].slot] = Append(@, th[t].id)]
      /\ th' = [th EXCEPT ![t] = NoCall]
  BY DEF Enqueue, Goes, Putting
<1>2. PICK s, id : s = th[t].slot /\ id = th[t].id
  OBVIOUS
<1>3. Holds(th[t], s, id)
  BY <1>1, <1>2 DEF Holds, Putting
<1>4. s \in Slots /\ Kept(s, id) /\ (id # Quick => id \in Nat /\ id \in Live(buf[s]) /\ id \notin lost[s])
  BY <1>3, CallFacts
<1>5. id # Quick => HoldersOf(s, id) = {t} /\ id \notin Elements(queue[s])
  <2>1. t \in HoldersOf(s, id)
    BY <1>3 DEF HoldersOf
  <2> QED BY <1>4, <2>1 DEF Sound, OnePlace
<1> DEFINE q == queue[s]
           r == Append(q, id)
<1>6. /\ q \in Seq(Nat \cup {Quick}) /\ id \in Nat \cup {Quick} /\ Len(q) \in Nat /\ Len(q) < Depth
      /\ \A i \in DOMAIN q : Kept(s, q[i])
      /\ \A i, j \in DOMAIN q : q[i] = q[j] /\ i # j => q[i] = Quick
  BY <1>1, <1>2, <1>4, SlotFacts
<1>7. queue \in [Slots -> Seq(Nat \cup {Quick})]
  BY DEF Sound, QueuesShape
<1>8. /\ queue'[s] = r /\ \A x \in Slots : x # s => queue'[x] = queue[x]
      /\ DOMAIN queue' = Slots
  BY <1>1, <1>2, <1>4, <1>7
<1>9. /\ r \in Seq(Nat \cup {Quick}) /\ Len(r) = Len(q) + 1
      /\ DOMAIN r = 1 .. Len(q) + 1 /\ r[Len(q) + 1] = id
      /\ \A i \in DOMAIN q : r[i] = q[i]
      /\ \A i \in DOMAIN r : i = Len(q) + 1 \/ i \in DOMAIN q
      /\ Elements(r) = Elements(q) \cup {id}
  <2> HIDE DEF q
  <2> QED BY <1>6, AppendFacts
<1> HIDE DEF q, r
<1>10. NoCall \in Call /\ NoCall.at = "idle" /\ CallOK(NoCall)
  BY DEF NoCall, Call, CallOK, Putting, Getting
<1>11. CallsShape' /\ th'[t] = NoCall /\ \A u \in Threads : u # t => th'[u] = th[u]
  <2>1. ASSUME NEW u \in Threads \ {t}, NEW c, c = th[u] PROVE CallOK(c)'
    BY <1>1, <2>1, CallFacts, SameRings
  <2>2. CallOK(NoCall)'
    BY <1>10 DEF CallOK, NoCall, Putting, Getting
  <2> QED BY <1>1, <1>10, <2>1, <2>2, CallStep DEF Sound
<1>12. QueuesShape'
  <2>1. \A i \in DOMAIN r : Kept(s, r[i])
    BY <1>4, <1>6, <1>9
  <2>2. \A i, j \in DOMAIN r : r[i] = r[j] /\ i # j => r[i] = Quick
    <3>1. ASSUME NEW i \in DOMAIN q, id # Quick PROVE r[i] # id
      <4>1. q[i] \in Elements(q)
        BY DEF Elements
      <4> QED BY <1>5, <1>9, <3>1, <4>1 DEF q
    <3> QED BY <1>6, <1>9, <3>1
  <2>3. Len(r) <= Depth
    <3>1. Depth \in Nat
      BY SharedBagAssumption
    <3> QED BY <1>6, <1>9, <3>1
  <2>4. ASSUME NEW x \in Slots
        PROVE  /\ queue'[x] \in Seq(Nat \cup {Quick}) /\ Len(queue'[x]) <= Depth
               /\ \A i \in DOMAIN queue'[x] : Kept(x, queue'[x][i])
               /\ \A i, j \in DOMAIN queue'[x] :
                    queue'[x][i] = queue'[x][j] /\ i # j => queue'[x][i] = Quick
    <3>1. CASE x = s
      BY <1>8, <1>9, <2>1, <2>2, <2>3, <3>1
    <3>2. CASE x # s
      <4>1. queue'[x] = queue[x]
        BY <1>8, <3>2
      <4> QED BY <4>1, SlotFacts
    <3> QED BY <3>1, <3>2
  <2>5. \A x, i : Kept(x, i)' <=> Kept(x, i)
    BY <1>1, SameRings
  <2>6. \A x \in Slots : \A i \in DOMAIN queue'[x] : Kept(x, queue[x][i])'
    BY <1>1, <2>4 DEF Kept
  <2>7. queue' \in [Slots -> Seq(Nat \cup {Quick})]
    BY <1>1, <1>7, <1>8, <2>4
  <2> QED BY <2>4, <2>6, <2>7 DEF QueuesShape
<1>13. ASSUME NEW x \in Slots, NEW i \in Live(buf[x])
       PROVE  /\ \A u \in HoldersOf(x, i)' : HoldersOf(x, i)' = {u} /\ i \notin Elements(queue'[x])
              /\ i \in lost[x] \cup Elements(queue'[x]) \/ HoldersOf(x, i)' # {}
  <2>1. ~Holds(NoCall, x, i) /\ HoldersOf(x, i)' = HoldersOf(x, i) \ {t}
    <3>1. ~Holds(NoCall, x, i)
      BY <1>10 DEF Holds
    <3> QED BY <1>11, <3>1, HoldersStep
  <2>2. CASE x = s /\ i = id
    <3>1. i # Quick
      BY SlotFacts
    <3> QED BY <1>5, <1>8, <1>9, <2>1, <2>2, <3>1
  <2>3. CASE ~(x = s /\ i = id)
    <3>1. t \notin HoldersOf(x, i)
      BY <1>2, <2>3 DEF HoldersOf, Holds
    <3>2. i \in Elements(queue'[x]) <=> i \in Elements(queue[x])
      BY <1>8, <1>9, <2>3 DEF q
    <3> QED BY <2>1, <3>1, <3>2 DEF Sound, OnePlace
  <2> QED BY <2>2, <2>3
<1>14. OnePlace'
  <2>1. \A x \in Slots : Elements(queue[x])' = Elements(queue'[x])
    BY DEF Elements
  <2> QED BY <1>1, <1>13, <2>1 DEF OnePlace
<1>15. RingsShape'
  BY <1>1, SameRings DEF Sound
<1> QED BY <1>2, <1>8, <1>11, <1>12, <1>14, <1>15 DEF r, q

LEMMA DequeueShapes ==
  ASSUME Sound, NEW t \in Threads, Dequeue(t)
  PROVE  /\ RingsShape' /\ QueuesShape' /\ CallsShape' /\ OnePlace'
         /\ \A x \in Slots : x # th[t].slot => queue'[x] = queue[x]
         /\ queue'[th[t].slot] = Tail(queue[th[t].slot])
         /\ Head(queue[th[t].slot]) \in Elements(queue[th[t].slot])
<1>1. /\ th[t].at \in Getting /\ queue[th[t].slot] # <<>> /\ UNCHANGED <<buf, lost>>
      /\ queue' = [queue EXCEPT ![th[t].slot] = Tail(@)]
      /\ th' = [th EXCEPT ![t] = [th[t] EXCEPT !.at = "received", !.id = Head(queue[th[t].slot])]]
  BY DEF Dequeue, Goes, Getting
<1>2. PICK s, id : s = th[t].slot /\ id = Head(queue[s])
  OBVIOUS
<1>3. th[t] \in Call /\ CallOK(th[t]) /\ s \in Slots /\ th[t].datum = NoKey
  BY <1>1, <1>2, CallFacts DEF CallOK, Getting
<1> DEFINE q == queue[s]
           r == Tail(q)
<1>4. /\ q \in Seq(Nat \cup {Quick}) /\ q # <<>> /\ id = Head(q)
      /\ \A i \in DOMAIN q : Kept(s, q[i])
      /\ \A i, j \in DOMAIN q : q[i] = q[j] /\ i # j => q[i] = Quick
      /\ Len(q) \in Nat /\ Len(q) <= Depth
  BY <1>1, <1>2, <1>3, SlotFacts
<1>5. queue \in [Slots -> Seq(Nat \cup {Quick})]
  BY DEF Sound, QueuesShape
<1>6. /\ queue'[s] = r /\ \A x \in Slots : x # s => queue'[x] = queue[x]
      /\ DOMAIN queue' = Slots
  BY <1>1, <1>2, <1>3, <1>5
<1> HIDE DEF q
<1>7. /\ r \in Seq(Nat \cup {Quick}) /\ Len(r) = Len(q) - 1 /\ id = q[1] /\ 1 \in DOMAIN q
      /\ \A i \in DOMAIN r : i + 1 \in DOMAIN q /\ i + 1 # 1 /\ r[i] = q[i + 1]
      /\ Elements(q) = {id} \cup Elements(r) /\ DOMAIN r = 1 .. Len(q) - 1
  BY <1>4, TailFacts
<1> HIDE DEF r
<1>8. Kept(s, id) /\ id \in Nat \cup {Quick} /\ (id # Quick => id \notin Elements(r))
  <2>1. Kept(s, id)
    BY <1>4, <1>7
  <2>2. id \in Nat \cup {Quick}
    BY <1>4, <1>7
  <2>3. ASSUME id # Quick, NEW i \in DOMAIN r PROVE r[i] # id
    BY <1>4, <1>7, <2>3
  <2> QED BY <2>1, <2>2, <2>3 DEF Elements
<1>9. PICK call : call = [th[t] EXCEPT !.at = "received", !.id = id]
  OBVIOUS
<1>10. /\ call \in Call /\ call.at = "received" /\ call.slot = s /\ call.id = id
       /\ call.datum = NoKey
  BY <1>2, <1>3, <1>8, <1>9 DEF Call
<1>11. CallOK(call)
  BY <1>3, <1>8, <1>10 DEF CallOK, Putting, Getting
<1>12. CallsShape' /\ th'[t] = call /\ \A u \in Threads : u # t => th'[u] = th[u]
  <2>1. ASSUME NEW u \in Threads \ {t}, NEW c, c = th[u] PROVE CallOK(c)'
    BY <1>1, <2>1, CallFacts, SameRings
  <2>2. CallOK(call)'
    BY <1>1, <1>11, SameRings
  <2>3. th' = [th EXCEPT ![t] = call]
    BY <1>1, <1>2, <1>9
  <2> QED BY <1>10, <2>1, <2>2, <2>3, CallStep DEF Sound
<1>13. QueuesShape'
  <2>1. \A i \in DOMAIN r : Kept(s, r[i])
    BY <1>4, <1>7
  <2>2. \A i, j \in DOMAIN r : r[i] = r[j] /\ i # j => r[i] = Quick
    <3>1. ASSUME NEW i \in DOMAIN r, NEW j \in DOMAIN r, i # j PROVE i + 1 # j + 1
      BY <1>4, <1>7, <3>1
    <3> QED BY <1>4, <1>7, <3>1
  <2>3. Len(r) <= Depth
    <3>1. Depth \in Nat
      BY SharedBagAssumption
    <3> QED BY <1>4, <1>7, <3>1
  <2>4. ASSUME NEW x \in Slots
        PROVE  /\ queue'[x] \in Seq(Nat \cup {Quick}) /\ Len(queue'[x]) <= Depth
               /\ \A i \in DOMAIN queue'[x] : Kept(x, queue'[x][i])
               /\ \A i, j \in DOMAIN queue'[x] :
                    queue'[x][i] = queue'[x][j] /\ i # j => queue'[x][i] = Quick
    <3>1. CASE x = s
      BY <1>6, <1>7, <2>1, <2>2, <2>3, <3>1
    <3>2. CASE x # s
      <4>1. queue'[x] = queue[x]
        BY <1>6, <3>2
      <4> QED BY <4>1, SlotFacts
    <3> QED BY <3>1, <3>2
  <2>6. \A x \in Slots : \A i \in DOMAIN queue'[x] : Kept(x, queue[x][i])'
    BY <1>1, <2>4 DEF Kept
  <2>7. queue' \in [Slots -> Seq(Nat \cup {Quick})]
    BY <1>1, <1>5, <1>6, <2>4
  <2> QED BY <2>4, <2>6, <2>7 DEF QueuesShape
<1>14. ASSUME NEW x \in Slots, NEW i \in Live(buf[x])
       PROVE  /\ \A u \in HoldersOf(x, i)' : HoldersOf(x, i)' = {u} /\ i \notin Elements(queue'[x])
              /\ i \in lost[x] \cup Elements(queue'[x]) \/ HoldersOf(x, i)' # {}
  <2>0. t \notin HoldersOf(x, i)
    BY <1>1 DEF HoldersOf, Holds, Getting
  <2>1. CASE x = s /\ i = id
    <3>1. i # Quick
      BY SlotFacts
    <3>2. HoldersOf(x, i) = {}
      BY <1>7, <2>1 DEF Sound, OnePlace, q
    <3>3. HoldersOf(x, i)' = {t}
      <4>1. Holds(call, x, i)
        BY <1>10, <2>1 DEF Holds
      <4> QED BY <1>12, <3>2, <4>1, HoldersStep
    <3> QED BY <1>6, <1>8, <2>1, <3>1, <3>3
  <2>2. CASE ~(x = s /\ i = id)
    <3>1. HoldersOf(x, i)' = HoldersOf(x, i)
      <4>1. ~Holds(call, x, i)
        BY <1>10, <2>2 DEF Holds
      <4> QED BY <1>12, <2>0, <4>1, HoldersStep
    <3>2. i \in Elements(queue'[x]) <=> i \in Elements(queue[x])
      BY <1>6, <1>7, <2>2 DEF q
    <3> QED BY <3>1, <3>2 DEF Sound, OnePlace
  <2> QED BY <2>1, <2>2
<1>15. OnePlace'
  <2>1. \A x \in Slots : Elements(queue[x])' = Elements(queue'[x])
    BY DEF Elements
  <2> QED BY <1>1, <1>14, <2>1 DEF OnePlace
<1>16. RingsShape'
  BY <1>1, SameRings DEF Sound
<1> QED BY <1>2, <1>6, <1>7, <1>12, <1>13, <1>15, <1>16 DEF r, q

LEMMA FailToPutShapes ==
  ASSUME Sound, NEW t \in Threads, FailToPut(t)
  PROVE  RingsShape' /\ QueuesShape' /\ CallsShape' /\ OnePlace'
<1>1. /\ th[t].at \in Putting /\ buf' = buf /\ queue' = queue
      /\ lost' = [lost EXCEPT ![th[t].slot] = IF th[t].id = Quick THEN @ ELSE @ \cup {th[t].id}]
      /\ th' = [th EXCEPT ![t] = NoCall]
  BY DEF FailToPut, Goes, Putting
<1>2. PICK s, id : s = th[t].slot /\ id = th[t].id
  OBVIOUS
<1>3. Holds(th[t], s, id)
  BY <1>1, <1>2 DEF Holds, Putting
<1>4. s \in Slots /\ (id # Quick => id \in Nat /\ id \in Live(buf[s]) /\ id \notin lost[s])
  BY <1>3, CallFacts
<1>5. id # Quick => HoldersOf(s, id) = {t} /\ id \notin Elements(queue[s])
  <2>1. t \in HoldersOf(s, id)
    BY <1>3 DEF HoldersOf
  <2> QED BY <1>4, <2>1 DEF Sound, OnePlace
<1>6. lost \in [Slots -> SUBSET Nat]
  BY DEF Sound, RingsShape
<1>7. /\ lost'[s] = (IF id = Quick THEN lost[s] ELSE lost[s] \cup {id})
      /\ \A x \in Slots : x # s => lost'[x] = lost[x]
      /\ lost' \in [Slots -> SUBSET Nat]
  BY <1>1, <1>2, <1>4, <1>6
<1>8. RingsShape'
  <2>1. \A x \in Slots : lost'[x] \subseteq Live(buf[x])
    BY <1>4, <1>7, SlotFacts
  <2> QED BY <1>1, <1>7, <2>1 DEF Sound, RingsShape
<1>9. ASSUME NEW x \in Slots, NEW i, Kept(x, i), i # Quick => ~(x = s /\ i = id)
      PROVE  Kept(x, i)' /\ Datum(x, i)' = Datum(x, i)
  <2>1. Datum(x, i)' = Datum(x, i)
    BY <1>1 DEF Datum
  <2>2. Kept(x, i)'
    BY <1>1, <1>7, <1>9 DEF Kept
  <2> QED BY <2>1, <2>2
<1>10. NoCall \in Call /\ NoCall.at = "idle"
  BY DEF NoCall, Call
<1>11. CallsShape' /\ th'[t] = NoCall /\ \A u \in Threads : u # t => th'[u] = th[u]
  <2>1. ASSUME NEW u \in Threads \ {t}, NEW c, c = th[u] PROVE CallOK(c)'
    <3>1. CallOK(c)
      BY <2>1, CallFacts
    <3>2. CASE Holds(c, s, id) /\ id # Quick
      BY <1>5, <2>1, <3>2 DEF HoldersOf
    <3>3. CASE ~(c.slot = s /\ c.id = id) \/ id = Quick
      BY <1>9, <3>1, <3>3, CallStays
    <3>4. CASE c.at \notin {"put", "wait to put", "received"}
      BY <3>1, <3>4 DEF CallOK, Putting
    <3> QED BY <3>2, <3>3, <3>4 DEF Holds
  <2>2. CallOK(NoCall)'
    BY DEF CallOK, NoCall, Putting, Getting
  <2> QED BY <1>1, <1>10, <2>1, <2>2, CallStep DEF Sound
<1>12. QueuesShape'
  <2>1. ASSUME NEW x \in Slots, NEW i \in DOMAIN queue[x] PROVE Kept(x, queue[x][i])'
    <3>1. PICK k : k = queue[x][i]
      OBVIOUS
    <3>2. Kept(x, k) /\ (k # Quick => ~(x = s /\ k = id))
      BY <1>5, <3>1, SlotFacts DEF Elements
    <3>3. Kept(x, k)'
      BY <1>9, <3>2
    <3> QED BY <1>1, <3>1, <3>3 DEF Kept
  <2> QED BY <1>1, <2>1 DEF Sound, QueuesShape
<1>13. ASSUME NEW x \in Slots, NEW i \in Live(buf[x])
       PROVE  /\ \A u \in HoldersOf(x, i)' : HoldersOf(x, i)' = {u} /\ i \notin Elements(queue[x])
              /\ i \in lost'[x] \cup Elements(queue[x]) \/ HoldersOf(x, i)' # {}
  <2>1. HoldersOf(x, i)' = HoldersOf(x, i) \ {t}
    <3>1. ~Holds(NoCall, x, i)
      BY <1>10 DEF Holds
    <3> QED BY <1>11, <3>1, HoldersStep
  <2>2. CASE x = s /\ i = id
    <3>1. i # Quick
      BY SlotFacts
    <3> QED BY <1>5, <1>7, <2>1, <2>2, <3>1
  <2>3. CASE ~(x = s /\ i = id)
    <3>1. t \notin HoldersOf(x, i)
      BY <1>2, <2>3 DEF HoldersOf, Holds
    <3>2. i \in lost[x] => i \in lost'[x]
      BY <1>7
    <3> QED BY <2>1, <3>1, <3>2 DEF Sound, OnePlace
  <2> QED BY <2>2, <2>3
<1>14. OnePlace'
  <2>1. \A x \in Slots : Elements(queue[x])' = Elements(queue[x])
    BY <1>1 DEF Elements
  <2> QED BY <1>1, <1>13, <2>1 DEF OnePlace
<1> QED BY <1>8, <1>11, <1>12, <1>14

(***************************************************************************)
(* Looking a key up.                                                       *)
(***************************************************************************)
LEMMA LookupKeys ==
  ASSUME KeysShape, NEW k \in Keys, NEW s \in Used, Lookup(k, s)
  PROVE  key' \in [Slots -> Keys \cup {NoKey}] /\ key'[s] = k
<1>1. key \in [Slots -> Keys \cup {NoKey}] /\ s \in Slots
  BY SlotsFacts DEF KeysShape
<1> DEFINE free  == {e \in Used : key[e] = NoKey}
           empty == {e \in Used : Empty(buf[e])}
<1>2. CASE key[s] = k /\ UNCHANGED key
  BY <1>1, <1>2
<1>3. CASE key' = [e \in Slots |-> CASE e = s -> k
                                     [] e # s /\ free = {} /\ e \in empty -> NoKey
                                     [] OTHER -> key[e]]
  <2> HIDE DEF free, empty
  <2> QED BY <1>1, <1>3
<1> QED BY <1>2, <1>3 DEF Lookup

(* With no more keys than slots a key that no slot has finds a free slot.  *)
LEMMA FreeSlot ==
  ASSUME KeysShape, EnoughSlots, NEW k \in Keys, k \notin {key[e] : e \in Used},
         \A e, f \in Used : key[e] = key[f] /\ e # f => key[e] = NoKey
  PROVE  {e \in Used : key[e] = NoKey} # {}
<1>1. SUFFICES ASSUME {e \in Used : key[e] = NoKey} = {} PROVE FALSE
  OBVIOUS
<1>2. key \in [Slots -> Keys \cup {NoKey}] /\ Used \subseteq Slots /\ capacity \in Nat
  BY SlotsFacts DEF KeysShape
<1>3. IsFiniteSet(Keys) /\ Cardinality(Keys) \in Nat /\ Cardinality(Keys) <= capacity
  BY FS_CardinalityType DEF EnoughSlots
<1>4. IsFiniteSet(Keys \ {k}) /\ Cardinality(Keys \ {k}) = Cardinality(Keys) - 1
  BY <1>3, FS_RemoveElement
<1>5. IsFiniteSet(Used) /\ Cardinality(Used) = capacity
  <2>1. 1 \in Int /\ capacity \in Int
    BY <1>2
  <2>2. IsFiniteSet(1 .. capacity) /\ Cardinality(1 .. capacity) = IF 1 > capacity THEN 0 ELSE capacity - 1 + 1
    BY <2>1, FS_Interval
  <2>3. Cardinality(1 .. capacity) = capacity
    BY <1>2, <2>2
  <2> QED BY <2>2, <2>3 DEF Used
<1> DEFINE f == [e \in Used |-> key[e]]
<1>6. f \in [Used -> Keys \ {k}]
  BY <1>1, <1>2
<1>7. PICK x \in Used, y \in Used : x # y /\ f[x] = f[y]
  <2>1. Cardinality(Keys \ {k}) < Cardinality(Used)
    BY <1>2, <1>3, <1>4, <1>5
  <2> HIDE DEF f
  <2> QED BY <1>4, <1>5, <1>6, <2>1, FS_PigeonHole
<1> QED BY <1>1, <1>7

LEMMA LookupKeeps ==
  ASSUME KeysShape, EnoughSlots, NEW k \in Keys, NEW s \in Used, Lookup(k, s),
         \A e, f \in Used : key[e] = key[f] /\ e # f => key[e] = NoKey
  PROVE  /\ \A e, f \in Used : key'[e] = key'[f] /\ e # f => key'[e] = NoKey
         /\ \A e \in Slots : key[e] # NoKey => key'[e] = key[e]
         /\ key'[s] = k
<1>1. key \in [Slots -> Keys \cup {NoKey}] /\ s \in Slots /\ Used \subseteq Slots
  BY SlotsFacts DEF KeysShape
<1> DEFINE free  == {e \in Used : key[e] = NoKey}
           empty == {e \in Used : Empty(buf[e])}
<1>2. CASE key[s] = k /\ UNCHANGED key
  BY <1>1, <1>2
<1>3. CASE /\ k \notin {key[e] : e \in Used}
           /\ s \in (IF free # {} THEN free ELSE empty)
           /\ key' = [e \in Slots |-> CASE e = s -> k
                                        [] e # s /\ free = {} /\ e \in empty -> NoKey
                                        [] OTHER -> key[e]]
  <2>1. free # {}
    BY <1>3, FreeSlot
  <2>2. key[s] = NoKey
    BY <1>3, <2>1
  <2> HIDE DEF free, empty
  <2>3. key'[s] = k /\ \A e \in Slots : e # s => key'[e] = key[e]
    BY <1>1, <1>3, <2>1
  <2> QED BY <1>1, <1>3, <2>2, <2>3
<1> QED BY <1>2, <1>3 DEF Lookup

(***************************************************************************)
(* Every step keeps the shapes.                                            *)
(***************************************************************************)
LEMMA NewCall ==
  ASSUME Sound, NEW t \in Threads, th[t].at = "idle"
  PROVE  th[t] = NoCall
<1>1. CallOK(th[t])
  BY CallFacts
<1> QED BY <1>1 DEF CallOK

LEMMA KeysStep ==
  ASSUME Sound, [Next]_vars
  PROVE  KeysShape'
<1>1. KeysShape
  BY DEF Sound
<1>2. Messages \subseteq Seq(Int)
  BY SharedBagAssumption
<1>3. ASSUME NEW t \in Threads, LookupGrows(t) PROVE KeysShape'
  BY <1>1, <1>3 DEF KeysShape, LookupGrows
<1>4. ASSUME NEW t \in Threads, BeginPut(t) PROVE KeysShape'
  <2>1. PICK s \in Used, m \in {n \in Messages : Head(n) \in Keys} : Lookup(Head(m), s)
    BY <1>4 DEF BeginPut
  <2>2. key' \in [Slots -> Keys \cup {NoKey}]
    BY <1>1, <2>1, LookupKeys
  <2> QED BY <1>1, <1>4, <2>2 DEF KeysShape, BeginPut
<1>5. ASSUME NEW t \in Threads, BeginGet(t) PROVE KeysShape'
  <2>1. PICK k \in Keys, s \in Used : Lookup(k, s)
    BY <1>5 DEF BeginGet
  <2>2. key' \in [Slots -> Keys \cup {NoKey}]
    BY <1>1, <2>1, LookupKeys
  <2> QED BY <1>1, <1>5, <2>2 DEF KeysShape, BeginGet
<1>6. ASSUME UNCHANGED <<shape, capacity, key, terminate>> PROVE KeysShape'
  BY <1>1, <1>6 DEF KeysShape
<1>10. ASSUME NEW t \in Threads, StoreBytes(t) PROVE KeysShape'
  BY <1>1, <1>10 DEF KeysShape, StoreBytes
<1>7. ASSUME NEW t \in Threads,
             BeginPush(t) \/ Enqueue(t) \/ WaitToPut(t) \/ FailToPut(t)
             \/ BeginPop(t) \/ Dequeue(t) \/ WaitToGet(t) \/ FailToGet(t) \/ FetchBytes(t)
      PROVE  KeysShape'
  BY <1>6, <1>7 DEF BeginPush, Enqueue, WaitToPut, FailToPut, BeginPop, Dequeue,
     WaitToGet, FailToGet, FetchBytes
<1>8. CASE Shutdown
  BY <1>1, <1>8 DEF KeysShape, Shutdown
<1>9. CASE UNCHANGED vars
  BY <1>6, <1>9 DEF vars
<1> QED BY <1>3, <1>4, <1>5, <1>7, <1>8, <1>9, <1>10 DEF Next

(* The calls a step of one thread begins, goes on with or ends.            *)
LEMMA NoCallFacts ==
  /\ NoCall \in Call /\ CallOK(NoCall) /\ NoCall.at = "idle" /\ NoCall.datum = NoKey
  /\ NoCall.id = 0
BY DEF NoCall, Call, CallOK, Putting, Getting

(* A call that waits is the same call.                                     *)
LEMMA CallWaits ==
  ASSUME NEW c \in Call, CallOK(c), NEW d,
         \/ d.at = "wait to put" /\ c.at = "put"
         \/ d.at = "wait to get" /\ c.at = "get",
         d.slot = c.slot, d.id = c.id, d.datum = c.datum
  PROVE  CallOK(d) /\ \A s, id : Holds(d, s, id) <=> Holds(c, s, id)
BY DEF CallOK, Holds, Putting, Getting

LEMMA ThreadShapes ==
  ASSUME Sound, NEW t \in Threads,
         \/ BeginPush(t) \/ BeginPut(t) \/ WaitToPut(t)
         \/ BeginPop(t) \/ BeginGet(t) \/ WaitToGet(t) \/ FailToGet(t)
         \/ FetchBytes(t) /\ th[t].id = Quick
  PROVE  RingsShape' /\ QueuesShape' /\ CallsShape' /\ OnePlace'
<1>1. /\ KeysShape /\ th[t] \in Call /\ CallOK(th[t])
      /\ 1 \in Slots /\ Used \subseteq Slots
      /\ Quick \notin Nat
  BY CallFacts, SlotsFacts, ValuesAssumption DEF Sound
<1>2. NoCall \in Call /\ CallOK(NoCall) /\ NoCall.at = "idle"
  BY NoCallFacts
(* A thread that holds nothing begins a call that holds nothing, or Quick. *)
<1>3. ASSUME NEW call \in Call, CallOK(call), th' = [th EXCEPT ![t] = call],
             UNCHANGED <<buf, queue, lost>>,
             call.at \in {"idle", "store"} \cup Getting \/ call.id = Quick,
             th[t].at \in {"idle", "store"} \cup Getting \/ th[t].id = Quick
      PROVE  RingsShape' /\ QueuesShape' /\ CallsShape' /\ OnePlace'
  <2>1. \A s \in Slots, id \in Nat : ~Holds(call, s, id) /\ ~Holds(th[t], s, id)
    BY <1>1, <1>3 DEF Holds, Getting
  <2> QED BY <1>3, <2>1, ThreadStep
<1>4. CASE BeginPush(t)
  <2>1. th[t].at = "idle" /\ UNCHANGED <<buf, queue, lost>>
    BY <1>4 DEF BeginPush
  <2>2. CASE \E m \in Messages : Goes(t, [NoCall EXCEPT !.slot = 1, !.datum = m, !.at = "store"])
    <3>1. PICK m, call :
            /\ m \in Messages
            /\ call = [NoCall EXCEPT !.slot = 1, !.datum = m, !.at = "store"]
            /\ th' = [th EXCEPT ![t] = call]
      BY <2>2 DEF Goes
    <3>2. call \in Call /\ CallOK(call) /\ call.at = "store"
      <4>1. /\ call \in Call /\ call.at = "store"
            /\ call.slot \in Slots /\ call.datum \in Messages
        BY <1>1, <3>1 DEF NoCall, Call
      <4> QED BY <4>1 DEF CallOK, Putting, Getting
    <3> QED BY <1>3, <2>1, <3>1, <3>2
  <2>3. CASE Goes(t, [NoCall EXCEPT !.slot = 1, !.datum = Quick, !.id = Quick, !.at = "put"])
    <3>1. PICK call : /\ call = [NoCall EXCEPT !.slot = 1, !.datum = Quick, !.id = Quick, !.at = "put"]
                      /\ th' = [th EXCEPT ![t] = call]
      BY <2>3 DEF Goes
    <3>2. call \in Call /\ CallOK(call) /\ call.id = Quick
      <4>1. /\ call \in Call /\ call.id = Quick
            /\ call.at = "put" /\ call.slot \in Slots /\ call.datum = Quick
        BY <1>1, <3>1 DEF NoCall, Call, Putting
      <4> QED BY <4>1 DEF CallOK, Putting, Getting, Kept, Datum
    <3> QED BY <1>3, <2>1, <3>1, <3>2
  <2> QED BY <1>4, <2>2, <2>3 DEF BeginPush
<1>5. CASE BeginPut(t)
  <2>1. PICK s, m, call :
          /\ s \in Used /\ m \in Messages
          /\ call = [NoCall EXCEPT !.slot = s, !.datum = m, !.at = "store"]
          /\ th' = [th EXCEPT ![t] = call]
    BY <1>5 DEF BeginPut, Goes
  <2>2. call \in Call /\ CallOK(call) /\ call.at = "store"
    <3>1. /\ call \in Call /\ call.at = "store"
          /\ call.slot \in Slots /\ call.datum \in Messages
      BY <1>1, <2>1 DEF NoCall, Call
    <3> QED BY <3>1 DEF CallOK, Putting, Getting
  <2>3. th[t].at = "idle" /\ UNCHANGED <<buf, queue, lost>>
    BY <1>5 DEF BeginPut
  <2> QED BY <1>3, <2>1, <2>2, <2>3
<1>6. CASE BeginPop(t)
  <2>1. PICK call : /\ call = [NoCall EXCEPT !.slot = 1, !.at = "get"]
                    /\ th' = [th EXCEPT ![t] = call]
    BY <1>6 DEF BeginPop, Goes
  <2>3. call \in Call /\ CallOK(call) /\ call.at = "get"
    <3>1. /\ call \in Call /\ call.at = "get"
          /\ call.slot \in Slots /\ call.datum = NoKey
      BY <1>1, <2>1 DEF NoCall, Call, Getting
    <3> QED BY <3>1 DEF CallOK, Putting, Getting
  <2>4. th[t].at = "idle" /\ UNCHANGED <<buf, queue, lost>>
    BY <1>6 DEF BeginPop
  <2> QED BY <1>3, <2>1, <2>3, <2>4 DEF Getting
<1>7. CASE BeginGet(t)
  <2>1. PICK k, s, call :
          /\ k \in Keys /\ s \in Used
          /\ call = [NoCall EXCEPT !.slot = s, !.key = k, !.at = "get"]
          /\ th' = [th EXCEPT ![t] = call]
    BY <1>7 DEF BeginGet, Goes
  <2>2. call \in Call /\ CallOK(call) /\ call.at = "get"
    <3>1. /\ call \in Call /\ call.at = "get"
          /\ call.slot \in Slots /\ call.datum = NoKey
      BY <1>1, <2>1 DEF NoCall, Call, Getting
    <3> QED BY <3>1 DEF CallOK, Putting, Getting
  <2>3. th[t].at = "idle" /\ UNCHANGED <<buf, queue, lost>>
    BY <1>7 DEF BeginGet
  <2> QED BY <1>3, <2>1, <2>2, <2>3 DEF Getting
<1>8. CASE WaitToPut(t)
  <2>1. PICK call : call = [th[t] EXCEPT !.at = "wait to put"] /\ th' = [th EXCEPT ![t] = call]
    BY <1>8 DEF WaitToPut, Goes
  <2>2. th[t].at = "put" /\ UNCHANGED <<buf, queue, lost>>
    BY <1>8 DEF WaitToPut
  <2>3. call \in Call /\ CallOK(call) /\ \A s, id : Holds(call, s, id) <=> Holds(th[t], s, id)
    <3>1. /\ call \in Call /\ call.at = "wait to put"
          /\ call.slot = th[t].slot /\ call.id = th[t].id /\ call.datum = th[t].datum
      BY <1>1, <2>1 DEF Call, Putting, Getting
    <3> QED BY <1>1, <2>2, <3>1, CallWaits
  <2> QED BY <2>1, <2>2, <2>3, ThreadStep
<1>9. CASE WaitToGet(t)
  <2>1. PICK call : call = [th[t] EXCEPT !.at = "wait to get"] /\ th' = [th EXCEPT ![t] = call]
    BY <1>9 DEF WaitToGet, Goes
  <2>2. th[t].at = "get" /\ UNCHANGED <<buf, queue, lost>>
    BY <1>9 DEF WaitToGet
  <2>3. call \in Call /\ CallOK(call) /\ \A s, id : Holds(call, s, id) <=> Holds(th[t], s, id)
    <3>1. /\ call \in Call /\ call.at = "wait to get"
          /\ call.slot = th[t].slot /\ call.id = th[t].id /\ call.datum = th[t].datum
      BY <1>1, <2>1 DEF Call, Putting, Getting
    <3> QED BY <1>1, <2>2, <3>1, CallWaits
  <2> QED BY <2>1, <2>2, <2>3, ThreadStep
<1>10. CASE FailToGet(t)
  BY <1>2, <1>3, <1>10 DEF FailToGet, Goes, Getting
<1>11. CASE FetchBytes(t) /\ th[t].id = Quick
  BY <1>2, <1>3, <1>11 DEF FetchBytes, Goes
<1>12. \/ BeginPush(t) \/ BeginPut(t) \/ WaitToPut(t)
       \/ BeginPop(t) \/ BeginGet(t) \/ WaitToGet(t) \/ FailToGet(t)
       \/ FetchBytes(t) /\ th[t].id = Quick
  OBVIOUS
<1> QED BY <1>4, <1>5, <1>6, <1>7, <1>8, <1>9, <1>10, <1>11, <1>12

LEMMA ShapesStep ==
  ASSUME Sound, [Next]_vars, Defined'
  PROVE  RingsShape' /\ QueuesShape' /\ CallsShape' /\ OnePlace'
<1>1. ASSUME NEW t \in Threads, StoreBytes(t)
      PROVE  RingsShape' /\ QueuesShape' /\ CallsShape' /\ OnePlace'
  BY <1>1, StoreShapes
<1>2. ASSUME NEW t \in Threads, Enqueue(t)
      PROVE  RingsShape' /\ QueuesShape' /\ CallsShape' /\ OnePlace'
  BY <1>2, EnqueueShapes
<1>3. ASSUME NEW t \in Threads, FailToPut(t)
      PROVE  RingsShape' /\ QueuesShape' /\ CallsShape' /\ OnePlace'
  BY <1>3, FailToPutShapes
<1>4. ASSUME NEW t \in Threads, Dequeue(t)
      PROVE  RingsShape' /\ QueuesShape' /\ CallsShape' /\ OnePlace'
  BY <1>4, DequeueShapes
<1>5. ASSUME NEW t \in Threads, FetchBytes(t)
      PROVE  RingsShape' /\ QueuesShape' /\ CallsShape' /\ OnePlace'
  BY <1>5, FetchShapes, ThreadShapes
<1>6. ASSUME NEW t \in Threads,
             \/ BeginPush(t) \/ BeginPut(t) \/ WaitToPut(t)
             \/ BeginPop(t) \/ BeginGet(t) \/ WaitToGet(t) \/ FailToGet(t)
      PROVE  RingsShape' /\ QueuesShape' /\ CallsShape' /\ OnePlace'
  BY <1>6, ThreadShapes
<1>7. ASSUME UNCHANGED <<buf, queue, th, lost>>
      PROVE  RingsShape' /\ QueuesShape' /\ CallsShape' /\ OnePlace'
  <2>1. RingsShape' /\ \A s, id : Kept(s, id)' <=> Kept(s, id)
    BY <1>7, SameRings DEF Sound
  <2>2. QueuesShape'
    BY <1>7, <2>1 DEF Sound, QueuesShape
  <2>3. \A u \in Threads : \A c : c = th[u] => CallOK(c)'
    BY <1>7, CallFacts, SameRings
  <2>4. CallsShape'
    <3>1. ASSUME NEW u \in Threads PROVE CallOK(th[u])'
      <4>1. PICK c : c = th[u]
        OBVIOUS
      <4>2. CallOK(c)'
        BY <2>3, <4>1
      <4> QED BY <1>7, <4>1, <4>2 DEF CallOK
    <3> QED BY <1>7, <3>1 DEF Sound, CallsShape
  <2>5. OnePlace'
    <3>1. OnePlace
      BY DEF Sound
    <3>2. /\ \A s, id : HoldersOf(s, id)' = HoldersOf(s, id)
          /\ \A s : Elements(queue[s])' = Elements(queue[s])
      BY <1>7 DEF HoldersOf, Holds, Elements
    <3> QED BY <1>7, <3>1, <3>2 DEF OnePlace
  <2> QED BY <2>1, <2>2, <2>4, <2>5
<1>8. ASSUME NEW t \in Threads, LookupGrows(t)
      PROVE  RingsShape' /\ QueuesShape' /\ CallsShape' /\ OnePlace'
  BY <1>7, <1>8 DEF LookupGrows
<1>9. CASE Shutdown
  BY <1>7, <1>9 DEF Shutdown
<1>10. CASE UNCHANGED vars
  BY <1>7, <1>10 DEF vars
<1> QED BY <1>1, <1>2, <1>3, <1>4, <1>5, <1>6, <1>8, <1>9, <1>10 DEF Next

(***************************************************************************)
(* A slot of a bag with enough slots keeps its key.                        *)
(***************************************************************************)
LEMMA SlotsKeepKeysStep ==
  ASSUME Sound, NEW t \in Threads, NEW call, th' = [th EXCEPT ![t] = call],
         UNCHANGED <<shape, capacity>>,
         shape = "bag" => call.id # Quick /\ \A s \in Slots : Quick \notin Elements(queue'[s]),
         shape = "bag" /\ EnoughSlots /\ KeysStay =>
           /\ \A e \in Slots : key[e] # NoKey => key'[e] = key[e]
           /\ \A e, f \in Used : key'[e] = key'[f] /\ e # f => key'[e] = NoKey
           /\ \A s \in Slots : \A id \in Live(buf'[s]) :
                \/ id \in Live(buf[s]) /\ Content(buf'[s], id) = Content(buf[s], id)
                \/ key[s] # NoKey /\ Head(Content(buf'[s], id)) = key[s]
           /\ RightSlot(call)'
  PROVE  SlotsKeepKeys'
<1>1. SUFFICES ASSUME shape = "bag"
               PROVE  /\ \A s \in Slots : Quick \notin Elements(queue'[s])
                      /\ \A u \in Threads : th'[u].id # Quick
                      /\ EnoughSlots => KeysStay'
  <2>1. EnoughSlots' <=> EnoughSlots
    BY DEF EnoughSlots
  <2>2. \A s : Elements(queue[s])' = Elements(queue'[s])
    BY DEF Elements
  <2> QED BY <2>1, <2>2 DEF SlotsKeepKeys
<1>2. /\ \A u \in Threads : th[u].id # Quick
      /\ EnoughSlots => KeysStay
  BY <1>1 DEF Sound, SlotsKeepKeys
<1>3. th'[t] = call /\ \A u \in Threads : u # t => th'[u] = th[u]
  BY DEF Sound, CallsShape
<1>4. ASSUME EnoughSlots PROVE KeysStay'
  <2>1. KeysStay
    BY <1>2, <1>4
  <2>2. /\ \A e \in Slots : key[e] # NoKey => key'[e] = key[e]
        /\ \A e, f \in Used : key'[e] = key'[f] /\ e # f => key'[e] = NoKey
        /\ \A s \in Slots : \A id \in Live(buf'[s]) :
             \/ id \in Live(buf[s]) /\ Content(buf'[s], id) = Content(buf[s], id)
             \/ key[s] # NoKey /\ Head(Content(buf'[s], id)) = key[s]
        /\ RightSlot(call)'
    BY <1>1, <1>4, <2>1
  <2>3. ASSUME NEW u \in Threads PROVE RightSlot(th[u])'
    <3>1. CASE u = t
      BY <1>3, <2>2, <3>1 DEF RightSlot
    <3>2. CASE u # t
      <4>1. th'[u] = th[u]
        BY <1>3, <3>2
      <4>2. RightSlot(th[u]) /\ (th[u].at # "idle" => th[u].slot \in Slots)
        BY <2>1, CallFacts DEF KeysStay
      <4> QED BY <2>2, <4>1, <4>2 DEF RightSlot, Getting
    <3> QED BY <3>1, <3>2
  <2>4. ASSUME NEW s \in Slots, NEW id \in Live(buf'[s])
        PROVE  key'[s] # NoKey /\ Head(Content(buf'[s], id)) = key'[s]
    <3>1. key[s] # NoKey /\ Head(Content(buf'[s], id)) = key[s]
      BY <2>1, <2>2 DEF KeysStay
    <3> QED BY <2>2, <3>1
  <2>5. Used' = Used
    BY DEF Used
  <2> QED BY <2>2, <2>3, <2>4, <2>5 DEF KeysStay
<1>5. ASSUME NEW u \in Threads PROVE th'[u].id # Quick
  BY <1>1, <1>2, <1>3
<1> QED BY <1>1, <1>4, <1>5

(* A step that looks nothing up.                                           *)
LEMMA KeysUnchanged ==
  ASSUME Sound, NEW t \in Threads, NEW call, th' = [th EXCEPT ![t] = call],
         UNCHANGED <<shape, capacity, key>>,
         shape = "bag" => call.id # Quick /\ \A s \in Slots : Quick \notin Elements(queue'[s]),
         shape = "bag" /\ EnoughSlots /\ KeysStay =>
           /\ \A s \in Slots : \A id \in Live(buf'[s]) :
                \/ id \in Live(buf[s]) /\ Content(buf'[s], id) = Content(buf[s], id)
                \/ key[s] # NoKey /\ Head(Content(buf'[s], id)) = key[s]
           /\ RightSlot(call)
  PROVE  SlotsKeepKeys'
<1>1. RightSlot(call)' <=> RightSlot(call)
  BY DEF RightSlot
<1>2. KeysStay => \A e, f \in Used : key'[e] = key'[f] /\ e # f => key'[e] = NoKey
  BY DEF KeysStay
<1>3. shape = "bag" /\ EnoughSlots /\ KeysStay =>
        /\ \A e \in Slots : key[e] # NoKey => key'[e] = key[e]
        /\ \A e, f \in Used : key'[e] = key'[f] /\ e # f => key'[e] = NoKey
        /\ \A s \in Slots : \A id \in Live(buf'[s]) :
             \/ id \in Live(buf[s]) /\ Content(buf'[s], id) = Content(buf[s], id)
             \/ key[s] # NoKey /\ Head(Content(buf'[s], id)) = key[s]
        /\ RightSlot(call)'
  BY <1>1, <1>2
<1> QED BY <1>3, SlotsKeepKeysStep

(* A step that looks a key up.                                             *)
LEMMA KeysLookedUp ==
  ASSUME Sound, NEW t \in Threads, NEW call, th' = [th EXCEPT ![t] = call],
         UNCHANGED <<shape, capacity, buf, queue>>, call.id # Quick,
         NEW k \in Keys, NEW s \in Used, Lookup(k, s), call.slot = s,
         \/ call.at = "store" /\ Head(call.datum) = k
         \/ call.at = "get" /\ call.key = k
  PROVE  SlotsKeepKeys'
<1>1. KeysShape /\ NoKey \notin Keys
  BY ValuesAssumption DEF Sound
<1>2. ASSUME EnoughSlots, KeysStay
      PROVE  /\ \A e \in Slots : key[e] # NoKey => key'[e] = key[e]
             /\ \A e, f \in Used : key'[e] = key'[f] /\ e # f => key'[e] = NoKey
             /\ RightSlot(call)'
  <2>1. \A e, f \in Used : key[e] = key[f] /\ e # f => key[e] = NoKey
    BY <1>2 DEF KeysStay
  <2>2. /\ \A e, f \in Used : key'[e] = key'[f] /\ e # f => key'[e] = NoKey
        /\ \A e \in Slots : key[e] # NoKey => key'[e] = key[e]
        /\ key'[s] = k
    BY <1>1, <1>2, <2>1, LookupKeeps
  <2>3. RightSlot(call)'
    BY <1>1, <2>2 DEF RightSlot, Getting
  <2> QED BY <2>2, <2>3
<1>3. shape = "bag" => \A x \in Slots : Quick \notin Elements(queue'[x])
  BY DEF Sound, SlotsKeepKeys
<1>4. shape = "bag" /\ EnoughSlots /\ KeysStay =>
        /\ \A e \in Slots : key[e] # NoKey => key'[e] = key[e]
        /\ \A e, f \in Used : key'[e] = key'[f] /\ e # f => key'[e] = NoKey
        /\ \A x \in Slots : \A id \in Live(buf'[x]) :
             \/ id \in Live(buf[x]) /\ Content(buf'[x], id) = Content(buf[x], id)
             \/ key[x] # NoKey /\ Head(Content(buf'[x], id)) = key[x]
        /\ RightSlot(call)'
  BY <1>2
<1> QED BY <1>3, <1>4, SlotsKeepKeysStep

LEMMA KeepKeys ==
  ASSUME Sound, [Next]_vars, Defined'
  PROVE  SlotsKeepKeys'
<1>1. /\ KeysShape /\ NoCall.id # Quick /\ NoCall.at = "idle" /\ 0 # Quick
      /\ SlotsKeepKeys
  BY NoCallFacts, ValuesAssumption DEF Sound
<1>2. ASSUME shape = "bag"
      PROVE  /\ \A s \in Slots : Quick \notin Elements(queue[s])
             /\ \A u \in Threads : th[u].id # Quick
             /\ EnoughSlots /\ KeysStay => \A u \in Threads : RightSlot(th[u])
  BY <1>1, <1>2 DEF SlotsKeepKeys, KeysStay
<1>3. RightSlot(NoCall)
  BY <1>1 DEF RightSlot, Getting
<1>4. ASSUME shape' # "bag" PROVE SlotsKeepKeys'
  BY <1>4 DEF SlotsKeepKeys
<1>5. ASSUME UNCHANGED <<shape, capacity, key, buf, queue, th>> PROVE SlotsKeepKeys'
  <2>1. /\ KeysStay' <=> KeysStay
        /\ EnoughSlots' <=> EnoughSlots
        /\ \A s : Elements(queue[s])' = Elements(queue[s])
    BY <1>5 DEF KeysStay, RightSlot, EnoughSlots, Elements, Used
  <2> QED BY <1>1, <1>5, <2>1 DEF SlotsKeepKeys
(* A call that goes on or ends, and no message is stored.                  *)
<1>6. ASSUME NEW t \in Threads, NEW call, th' = [th EXCEPT ![t] = call],
             UNCHANGED <<shape, capacity, key>>,
             \A s \in Slots : \A id \in Live(buf'[s]) :
               id \in Live(buf[s]) /\ Content(buf'[s], id) = Content(buf[s], id),
             \A s \in Slots : Elements(queue'[s]) \subseteq Elements(queue[s]) \cup {th[t].id},
             \/ call = NoCall
             \/ /\ th[t].at # "idle" /\ call.slot = th[t].slot /\ call.key = th[t].key
                /\ call.at \in Getting \cup {"received"} => th[t].at \in Getting
                /\ call.at # "store"
                /\ call.id \in {th[t].id} \cup Elements(queue[th[t].slot]) /\ th[t].slot \in Slots
      PROVE  SlotsKeepKeys'
  <2>1. shape = "bag" => call.id # Quick /\ \A s \in Slots : Quick \notin Elements(queue'[s])
    BY <1>1, <1>2, <1>6
  <2>2. shape = "bag" /\ EnoughSlots /\ KeysStay => RightSlot(call)
    <3>1. CASE call = NoCall
      BY <1>3, <3>1
    <3>2. CASE /\ th[t].at # "idle" /\ call.slot = th[t].slot /\ call.key = th[t].key
               /\ call.at \in Getting \cup {"received"} => th[t].at \in Getting
               /\ call.at # "store"
      BY <1>2, <3>2 DEF RightSlot
    <3> QED BY <1>6, <3>1, <3>2
  <2>3. shape = "bag" /\ EnoughSlots /\ KeysStay =>
          /\ \A s \in Slots : \A id \in Live(buf'[s]) :
               \/ id \in Live(buf[s]) /\ Content(buf'[s], id) = Content(buf[s], id)
               \/ key[s] # NoKey /\ Head(Content(buf'[s], id)) = key[s]
          /\ RightSlot(call)
    BY <1>6, <2>2
  <2> QED BY <1>6, <2>1, <2>3, KeysUnchanged
<1>7. ASSUME NEW t \in Threads, NEW call, th' = [th EXCEPT ![t] = call],
             UNCHANGED <<shape, capacity, key, buf, queue>>,
             \/ call = NoCall
             \/ /\ th[t].at # "idle" /\ call.slot = th[t].slot /\ call.key = th[t].key
                /\ call.at \in Getting \cup {"received"} => th[t].at \in Getting
                /\ call.at # "store" /\ call.id = th[t].id
      PROVE  SlotsKeepKeys'
  <2>1. th[t].at # "idle" => th[t].slot \in Slots
    BY CallFacts
  <2> QED BY <1>6, <1>7, <2>1
<1>8. ASSUME NEW t \in Threads, LookupGrows(t) \/ BeginPush(t) \/ BeginPop(t) PROVE shape' # "bag"
  BY <1>8 DEF LookupGrows, BeginPush, BeginPop
<1>9. ASSUME NEW t \in Threads, BeginPut(t) PROVE SlotsKeepKeys'
  <2>1. PICK s, m, call :
          /\ s \in Used /\ m \in {n \in Messages : Head(n) \in Keys}
          /\ Lookup(Head(m), s)
          /\ call = [NoCall EXCEPT !.slot = s, !.datum = m, !.at = "store"]
          /\ th' = [th EXCEPT ![t] = call]
    BY <1>9 DEF BeginPut, Goes
  <2>2. PICK k \in Keys : k = Head(m)
    BY <2>1
  <2>3. call.at = "store" /\ call.slot = s /\ call.datum = m /\ call.id = 0
    BY <2>1 DEF NoCall
  <2>4. UNCHANGED <<shape, capacity, buf, queue>>
    BY <1>9 DEF BeginPut
  <2> QED BY <1>1, <2>1, <2>2, <2>3, <2>4, KeysLookedUp
<1>10. ASSUME NEW t \in Threads, BeginGet(t) PROVE SlotsKeepKeys'
  <2>1. PICK k, s, call :
          /\ k \in Keys /\ s \in Used
          /\ Lookup(k, s)
          /\ call = [NoCall EXCEPT !.slot = s, !.key = k, !.at = "get"]
          /\ th' = [th EXCEPT ![t] = call]
    BY <1>10 DEF BeginGet, Goes
  <2>2. call.at = "get" /\ call.slot = s /\ call.key = k /\ call.id = 0
    BY <2>1 DEF NoCall
  <2>3. UNCHANGED <<shape, capacity, buf, queue>>
    BY <1>10 DEF BeginGet
  <2> QED BY <1>1, <2>1, <2>2, <2>3, KeysLookedUp
<1>11. ASSUME NEW t \in Threads, StoreBytes(t) PROVE SlotsKeepKeys'
  <2>1. PICK s \in Slots, id \in Nat \ {0} :
          /\ s = th[t].slot /\ id \notin Live(buf[s])
          /\ Live(buf'[s]) = Live(buf[s]) \cup {id} /\ Content(buf'[s], id) = th[t].datum
          /\ \A i \in Live(buf[s]) : Content(buf'[s], i) = Content(buf[s], i)
          /\ \A x \in Slots : x # s => buf'[x] = buf[x]
          /\ th' = [th EXCEPT ![t] = [th[t] EXCEPT !.at = "put", !.id = id]]
          /\ RingsShape' /\ Kept(s, id)' /\ th[t].datum = Datum(s, id)'
          /\ \A x \in Slots : \A i : Kept(x, i) => Kept(x, i)' /\ Datum(x, i)' = Datum(x, i)
          /\ ~Kept(s, id)
    BY <1>11, StoreStep
  <2>2. PICK call : call = [th[t] EXCEPT !.at = "put", !.id = id]
    OBVIOUS
  <2>3. th[t].at = "store" /\ UNCHANGED <<shape, capacity, key, queue>>
    BY <1>11 DEF StoreBytes, Defined
  <2>4. call.at = "put" /\ call.slot = s /\ call.id = id
    <3>1. th[t] \in Call
      BY CallFacts
    <3> QED BY <2>1, <2>2, <3>1 DEF Call
  <2>5. shape = "bag" => call.id # Quick /\ \A x \in Slots : Quick \notin Elements(queue'[x])
    BY <1>2, <2>3, <2>4, ValuesAssumption
  <2>6. ASSUME EnoughSlots, KeysStay, shape = "bag"
        PROVE  /\ \A x \in Slots : \A i \in Live(buf'[x]) :
                    \/ i \in Live(buf[x]) /\ Content(buf'[x], i) = Content(buf[x], i)
                    \/ key[x] # NoKey /\ Head(Content(buf'[x], i)) = key[x]
               /\ RightSlot(call)
    <3>1. key[s] # NoKey /\ Head(th[t].datum) = key[s]
      BY <1>2, <2>1, <2>3, <2>6 DEF RightSlot
    <3>2. ASSUME NEW x \in Slots, NEW i \in Live(buf'[x])
          PROVE  \/ i \in Live(buf[x]) /\ Content(buf'[x], i) = Content(buf[x], i)
                 \/ key[x] # NoKey /\ Head(Content(buf'[x], i)) = key[x]
      BY <2>1, <3>1
    <3>3. RightSlot(call)
      BY <2>4, <3>1 DEF RightSlot, Getting
    <3> QED BY <3>2, <3>3
  <2>7. th' = [th EXCEPT ![t] = call]
    BY <2>1, <2>2
  <2>8. shape = "bag" /\ EnoughSlots /\ KeysStay =>
          /\ \A x \in Slots : \A i \in Live(buf'[x]) :
               \/ i \in Live(buf[x]) /\ Content(buf'[x], i) = Content(buf[x], i)
               \/ key[x] # NoKey /\ Head(Content(buf'[x], i)) = key[x]
          /\ RightSlot(call)
    BY <2>6
  <2> QED BY <2>3, <2>5, <2>7, <2>8, KeysUnchanged
<1>12. ASSUME NEW t \in Threads, Enqueue(t) PROVE SlotsKeepKeys'
  <2>1. /\ th[t].at \in Putting /\ UNCHANGED <<shape, capacity, key, buf>>
        /\ th' = [th EXCEPT ![t] = NoCall]
    BY <1>12 DEF Enqueue, Goes, Putting
  <2>2. \A x \in Slots : Elements(queue'[x]) \subseteq Elements(queue[x]) \cup {th[t].id}
    <3>1. /\ \A x \in Slots : x # th[t].slot => queue'[x] = queue[x]
          /\ queue'[th[t].slot] = Append(queue[th[t].slot], th[t].id)
      BY <1>12, EnqueueShapes
    <3>2. th[t].slot \in Slots /\ th[t].id \in Nat \cup {Quick}
      BY <2>1, CallFacts DEF Call, Putting
    <3>3. queue[th[t].slot] \in Seq(Nat \cup {Quick})
      BY <3>2, SlotFacts
    <3>4. Elements(queue'[th[t].slot]) = Elements(queue[th[t].slot]) \cup {th[t].id}
      BY <3>1, <3>2, <3>3, AppendFacts
    <3> QED BY <3>1, <3>4
  <2> QED BY <1>6, <2>1, <2>2
<1>13. ASSUME NEW t \in Threads, Dequeue(t) PROVE SlotsKeepKeys'
  <2>1. PICK call :
          /\ call = [th[t] EXCEPT !.at = "received", !.id = Head(queue[th[t].slot])]
          /\ th' = [th EXCEPT ![t] = call]
    BY <1>13 DEF Dequeue, Goes
  <2>2. th[t].at \in Getting /\ UNCHANGED <<shape, capacity, key, buf>> /\ queue[th[t].slot] # <<>>
    BY <1>13 DEF Dequeue, Getting
  <2>3. th[t].slot \in Slots /\ th[t].at # "idle" /\ th[t] \in Call
    BY <2>2, CallFacts DEF Getting
  <2>4. /\ call.at = "received" /\ call.slot = th[t].slot /\ call.key = th[t].key
        /\ call.id = Head(queue[th[t].slot])
    BY <2>1, <2>3 DEF Call
  <2>5. /\ \A x \in Slots : x # th[t].slot => queue'[x] = queue[x]
        /\ queue'[th[t].slot] = Tail(queue[th[t].slot])
        /\ Head(queue[th[t].slot]) \in Elements(queue[th[t].slot])
    BY <1>13, DequeueShapes
  <2>6. \A x \in Slots : Elements(queue'[x]) \subseteq Elements(queue[x]) \cup {th[t].id}
    <3>1. queue[th[t].slot] \in Seq(Nat \cup {Quick})
      BY <2>3, SlotFacts
    <3>2. Elements(queue'[th[t].slot]) \subseteq Elements(queue[th[t].slot])
      BY <2>2, <2>5, <3>1, TailFacts
    <3> QED BY <2>5, <3>2
  <2> QED BY <1>6, <2>1, <2>2, <2>3, <2>4, <2>5, <2>6
<1>14. ASSUME NEW t \in Threads, FetchBytes(t) PROVE SlotsKeepKeys'
  <2>1. UNCHANGED <<shape, capacity, key, queue>> /\ th' = [th EXCEPT ![t] = NoCall]
    BY <1>14 DEF FetchBytes, Goes
  <2>2. \A x \in Slots : \A i \in Live(buf'[x]) :
          i \in Live(buf[x]) /\ Content(buf'[x], i) = Content(buf[x], i)
    <3>1. CASE th[t].id = Quick
      BY <1>14, <3>1 DEF FetchBytes
    <3>2. CASE th[t].id # Quick
      <4>1. PICK s \in Slots, id \in Nat \ {0} :
              /\ Live(buf'[s]) = Live(buf[s]) \ {id}
              /\ \A i \in Live(buf'[s]) : Content(buf'[s], i) = Content(buf[s], i)
              /\ \A x \in Slots : x # s => buf'[x] = buf[x]
        BY <1>14, <3>2, FetchStep
      <4> QED BY <4>1
    <3> QED BY <3>1, <3>2
  <2> QED BY <1>6, <2>1, <2>2
<1>15. ASSUME NEW t \in Threads, FailToPut(t) \/ FailToGet(t) PROVE SlotsKeepKeys'
  BY <1>7, <1>15 DEF FailToPut, FailToGet, Goes
<1>16. ASSUME NEW t \in Threads, WaitToPut(t) PROVE SlotsKeepKeys'
  <2>1. PICK call : call = [th[t] EXCEPT !.at = "wait to put"] /\ th' = [th EXCEPT ![t] = call]
    BY <1>16 DEF WaitToPut, Goes
  <2>2. th[t].at = "put" /\ UNCHANGED <<shape, capacity, key, buf, queue>>
    BY <1>16 DEF WaitToPut
  <2>3. /\ call.at = "wait to put" /\ call.slot = th[t].slot /\ call.key = th[t].key
        /\ call.id = th[t].id
    BY <2>1, CallFacts DEF Call
  <2> QED BY <1>7, <2>1, <2>2, <2>3 DEF Getting
<1>17. ASSUME NEW t \in Threads, WaitToGet(t) PROVE SlotsKeepKeys'
  <2>1. PICK call : call = [th[t] EXCEPT !.at = "wait to get"] /\ th' = [th EXCEPT ![t] = call]
    BY <1>17 DEF WaitToGet, Goes
  <2>2. th[t].at = "get" /\ UNCHANGED <<shape, capacity, key, buf, queue>>
    BY <1>17 DEF WaitToGet
  <2>3. /\ call.at = "wait to get" /\ call.slot = th[t].slot /\ call.key = th[t].key
        /\ call.id = th[t].id
    BY <2>1, CallFacts DEF Call
  <2> QED BY <1>7, <2>1, <2>2, <2>3 DEF Getting
<1>18. CASE Shutdown
  BY <1>4, <1>18 DEF Shutdown
<1>19. CASE UNCHANGED vars
  BY <1>5, <1>19 DEF vars
<1> QED BY <1>4, <1>8, <1>9, <1>10, <1>11, <1>12, <1>13, <1>14, <1>15, <1>16, <1>17, <1>18, <1>19 DEF Next

(* No step is taken after undefined behaviour: the model ends there.       *)
LEMMA Frozen ==
  ASSUME ~Defined, [Next]_vars
  PROVE  UNCHANGED vars
BY DEF Defined, Next, LookupGrows, BeginPush, BeginPut, StoreBytes, Enqueue, WaitToPut, FailToPut,
   BeginPop, BeginGet, Dequeue, WaitToGet, FailToGet, FetchBytes, Shutdown

(* The invariant of the proofs is one: rings, queues, calls and keys keep  *)
(* their shapes whatever the threads do (subr_thread.cpp, bag.cpp, queue.h)*)
(* until realloc moves a ring further than an int says (queue.h:975) or a  *)
(* bag is doubled (bag.cpp:44).                                            *)
THEOREM InvCorrect == Spec => []IInv
<1>1. Init => IInv
  BY InitSound DEF IInv, Sound
<1>2. IInv /\ [Next]_vars => IInv'
  <2> SUFFICES ASSUME IInv, [Next]_vars PROVE IInv'
    OBVIOUS
  <2>1. CASE Defined
    <3>1. Sound /\ KeysShape'
      BY <2>1, KeysStep DEF IInv
    <3>2. Defined' => Sound'
      BY <3>1, ShapesStep, KeepKeys DEF Sound
    <3> QED BY <3>1, <3>2 DEF IInv
  <2>2. CASE ~Defined
    <3>1. UNCHANGED vars
      BY <2>2, Frozen
    <3> QED BY <2>2, <3>1 DEF IInv, KeysShape, Defined, vars
  <2> QED BY <2>1, <2>2
<1> QED BY <1>1, <1>2, PTL DEF Spec

(***************************************************************************)
(* What the invariant says of the properties.                              *)
(***************************************************************************)
LEMMA SeqOf ==
  ASSUME NEW S, NEW T, NEW q \in Seq(S), \A i \in DOMAIN q : q[i] \in T
  PROVE  q \in Seq(T)
<1>1. q \in [1 .. Len(q) -> T] /\ Len(q) \in Nat
  BY LenProperties
<1> QED BY <1>1

(* The type invariant holds of every state: pointers stay in their rings,  *)
(* queues below their depth (fifo_buffer_t, sync_queue_t), as long as what *)
(* the program did is defined.                                             *)
THEOREM TypeCorrect == Spec => []TypeOK
<1>1. IInv => TypeOK
  <2> SUFFICES ASSUME IInv PROVE TypeOK
    OBVIOUS
  <2>1. /\ shape \in {"queue", "bag", "undefined"} /\ terminate \in BOOLEAN
        /\ capacity \in Slots /\ key \in [Slots -> Keys \cup {NoKey}]
    BY DEF IInv, KeysShape
  <2>5. Defined => Sound
    BY DEF IInv
  <2>2. ASSUME Defined, NEW s \in Slots
        PROVE  /\ buf[s].head \in 0..buf[s].size /\ buf[s].tail \in 0..(buf[s].size - 1)
               /\ \A id \in Live(buf[s]) : buf[s].tags[id].buf \in 0..(buf[s].size - 1)
               /\ queue[s] \in Seq(Ids(s) \cup {Quick}) /\ Len(queue[s]) <= Depth
               /\ lost[s] \subseteq Ids(s)
    <3>1. RingOK(buf[s])
      BY <2>2, <2>5, SlotFacts
    <3>2. buf[s].head \in 0..buf[s].size /\ buf[s].tail \in 0..(buf[s].size - 1)
      BY <3>1, RingFacts DEF RingOK
    <3>3. \A id \in Live(buf[s]) : buf[s].tags[id].buf \in 0..(buf[s].size - 1)
      BY <3>1 DEF RingOK, RingShape
    <3>4. Live(buf[s]) \subseteq Ids(s)
      BY DEF Live, Ids
    <3>5. /\ queue[s] \in Seq(Nat \cup {Quick}) /\ Len(queue[s]) <= Depth
          /\ \A i \in DOMAIN queue[s] : Kept(s, queue[s][i])
          /\ lost[s] \subseteq Live(buf[s])
      BY <2>2, <2>5, SlotFacts
    <3>6. queue[s] \in Seq(Ids(s) \cup {Quick})
      <4>1. \A i \in DOMAIN queue[s] : queue[s][i] \in Ids(s) \cup {Quick}
        BY <3>4, <3>5 DEF Kept
      <4> QED BY <3>5, <4>1, SeqOf
    <3> QED BY <3>2, <3>3, <3>4, <3>5, <3>6
  <2>3. Defined => \A t \in Threads : th[t].at = "idle" \/ th[t].slot \in Slots
    BY <2>5, CallFacts
  <2> QED BY <2>1, <2>2, <2>3 DEF TypeOK
<1> QED BY <1>1, InvCorrect, PTL

(* A thread that has received a message under a key has one that was put   *)
(* under that key, in a bag with a slot for every key (bag.cpp:44).        *)
THEOREM RightKeyCorrect == Spec => []RightKey
<1>1. IInv => RightKey
  <2> SUFFICES ASSUME Sound, EnoughSlots, NEW t \in Threads, shape = "bag", th[t].at = "received"
               PROVE  Head(Content(buf[th[t].slot], th[t].id)) = th[t].key
    BY DEF RightKey, IInv, Defined
  <2>1. KeysStay /\ th[t].id # Quick
    BY DEF Sound, SlotsKeepKeys
  <2>2. RightSlot(th[t])
    BY <2>1 DEF KeysStay
  <2>3. th[t].slot \in Slots /\ th[t].id \in Live(buf[th[t].slot])
    BY <2>1, CallFacts DEF CallOK, Kept
  <2> QED BY <2>1, <2>2, <2>3 DEF KeysStay, RightSlot
<1> QED BY <1>1, InvCorrect, PTL

(* Every message in a ring has exactly one place: the queue, one thread's  *)
(* hands, or the failed puts that nobody cleans up (subr_thread.cpp:195).  *)
THEOREM AccountedCorrect == Spec => []Accounted
<1>1. IInv => Accounted
  <2> SUFFICES ASSUME Sound, NEW s \in Slots, NEW id \in Ids(s)
               PROVE  Cardinality({i \in DOMAIN queue[s] : queue[s][i] = id})
                        + Cardinality(HoldersOf(s, id)) + (IF id \in lost[s] THEN 1 ELSE 0)
                      = (IF id \in Live(buf[s]) THEN 1 ELSE 0)
    BY DEF Accounted, IInv
  <2> DEFINE places == {i \in DOMAIN queue[s] : queue[s][i] = id}
  <2>1. id # Quick
    <3>1. id \in Nat
      BY SlotFacts, RingFacts DEF RingOK, Ids
    <3> QED BY <3>1, ValuesAssumption
  <2>2. Cardinality({}) = 0 /\ \A x : Cardinality({x}) = 1
    BY FS_EmptySet, FS_Singleton
  <2>3. id \in lost[s] => id \in Live(buf[s]) /\ places = {} /\ HoldersOf(s, id) = {}
    <3>1. places # {} => id \notin lost[s]
      BY <2>1, SlotFacts DEF Kept
    <3>2. HoldersOf(s, id) # {} => id \notin lost[s]
      BY <2>1, CallFacts DEF HoldersOf
    <3> QED BY <3>1, <3>2, SlotFacts
  <2>4. places # {} => /\ id \in Live(buf[s]) /\ id \in Elements(queue[s])
                       /\ \E i : places = {i}
    <3> SUFFICES ASSUME NEW i \in DOMAIN queue[s], queue[s][i] = id
                 PROVE  id \in Live(buf[s]) /\ id \in Elements(queue[s]) /\ places = {i}
      BY Zenon
    <3>1. id \in Live(buf[s])
      BY <2>1, SlotFacts DEF Kept
    <3>2. id \in Elements(queue[s])
      BY DEF Elements
    <3>3. places = {i}
      BY <2>1, SlotFacts
    <3> QED BY <3>1, <3>2, <3>3
  <2>5. HoldersOf(s, id) # {} => /\ id \in Live(buf[s]) /\ id \notin Elements(queue[s])
                                 /\ \E t : HoldersOf(s, id) = {t}
    <3> SUFFICES ASSUME NEW t \in HoldersOf(s, id)
                 PROVE  id \in Live(buf[s]) /\ id \notin Elements(queue[s])
                        /\ HoldersOf(s, id) = {t}
      BY Zenon
    <3>1. id \in Live(buf[s])
      BY <2>1, CallFacts DEF HoldersOf
    <3> QED BY <3>1 DEF Sound, OnePlace
  <2>6. id \in Live(buf[s]) => id \in lost[s] \/ places # {} \/ HoldersOf(s, id) # {}
    BY DEF Sound, OnePlace, Elements
  <2> HIDE DEF places
  <2>7. CASE id \notin Live(buf[s])
    BY <2>2, <2>3, <2>4, <2>5, <2>7 DEF places
  <2>8. CASE id \in lost[s]
    BY <2>2, <2>3, <2>8 DEF places
  <2>9. CASE id \notin lost[s] /\ places # {}
    <3>1. Cardinality(places) = 1 /\ Cardinality(HoldersOf(s, id)) = 0 /\ id \in Live(buf[s])
      BY <2>2, <2>4, <2>5, <2>9
    <3> QED BY <2>9, <3>1 DEF places
  <2>10. CASE id \notin lost[s] /\ HoldersOf(s, id) # {}
    <3>1. Cardinality(places) = 0 /\ Cardinality(HoldersOf(s, id)) = 1 /\ id \in Live(buf[s])
      BY <2>2, <2>4, <2>5, <2>10
    <3> QED BY <2>10, <3>1 DEF places
  <2> QED BY <2>6, <2>7, <2>8, <2>9, <2>10
<1> QED BY <1>1, InvCorrect, PTL

(***************************************************************************)
(* A ring without holes is tiled by its messages.                          *)
(***************************************************************************)
LEMMA BufsCount ==
  ASSUME NEW b, RingOK(b)
  PROVE  Cardinality({b.tags[id].buf : id \in Live(b)} \cup {b.tail}) = Cardinality(Live(b)) + 1
<1> DEFINE bufs == {b.tags[id].buf : id \in Live(b)}
           f    == [id \in Live(b) |-> b.tags[id].buf]
<1>1. IsFiniteSet(Live(b))
  <2>1. Live(b) \subseteq 1 .. Len(b.tags) /\ Len(b.tags) \in Int /\ 1 \in Int
    BY RingFacts DEF RingOK
  <2>2. IsFiniteSet(1 .. Len(b.tags))
    BY <2>1, FS_Interval
  <2> QED BY <2>1, <2>2, FS_Subset
<1>2. f \in Bijection(Live(b), bufs)
  <2>1. f \in [Live(b) -> bufs] /\ \A x \in bufs : \E id \in Live(b) : f[id] = x
    OBVIOUS
  <2>2. \A i, j \in Live(b) : f[i] = f[j] => i = j
    BY StretchesApart DEF From
  <2> HIDE DEF f, bufs
  <2> QED BY <2>1, <2>2 DEF Bijection, Injection, Surjection, IsInjective
<1>3. IsFiniteSet(bufs) /\ Cardinality(bufs) = Cardinality(Live(b))
  <2>1. ExistsBijection(Live(b), bufs)
    BY <1>2 DEF ExistsBijection
  <2> HIDE DEF bufs
  <2> QED BY <1>1, <2>1, FS_Bijection
<1>4. b.tail \notin bufs
  <2> SUFFICES ASSUME NEW id \in Live(b), b.tags[id].buf = b.tail PROVE FALSE
    OBVIOUS
  <2>1. From(b, id) = Fill(b)
    BY DEF From, Fill
  <2>2. /\ From(b, id) \in Nat /\ To(b, id) \in Nat /\ Fill(b) \in Nat
        /\ b.tags[id].bytes \in Nat /\ b.tags[id].bytes > 0
        /\ From(b, id) + b.tags[id].bytes <= To(b, id) /\ To(b, id) <= Fill(b)
    BY StretchFacts
  <2> QED BY <2>1, <2>2
<1> HIDE DEF bufs
<1>5. Cardinality(bufs \cup {b.tail}) = Cardinality(bufs) + 1
  BY <1>3, <1>4, FS_AddElement
<1> QED BY <1>3, <1>5 DEF bufs

LEMMA TiledRing ==
  ASSUME NEW b, RingOK(b), RingTiled(b), ~EndsAtBottom(b)
  PROVE  {b.tags[id].buf : id \in Live(b)} \cup {b.tail}
         = {End(b, id) : id \in Live(b)} \cup {b.head}
<1>1. RingType(b) /\ b.head \in 0 .. b.size - 1 /\ b.tail \in 0 .. b.size - 1
  <2>1. RingType(b) /\ b.head # b.size
    BY DEF RingOK, EndsAtBottom
  <2> QED BY <2>1, RingFacts
<1>2. \A id \in Live(b) : b.tags[id].buf \in 0 .. b.size - 1
  BY StretchFacts
<1>3. \A id \in Live(b) : End(b, id) \in 0 .. b.size - 1 /\ Dist(b, End(b, id)) = To(b, id)
  <2> TAKE id \in Live(b)
  <2>1. End(b, id) \in 0 .. b.size /\ End(b, id) # b.size
    BY EndFacts DEF EndsAtBottom
  <2>2. Dist(b, End(b, id)) = To(b, id)
    BY <2>1, EndFacts
  <2> QED BY <1>1, <2>1, <2>2, RingFacts
<1>4. Dist(b, b.head) = 0
  BY <1>1, DistRange, RingFacts
<1>5. Starts(b) = Stops(b)
  BY DEF RingTiled
<1>6. ASSUME NEW x \in {b.tags[id].buf : id \in Live(b)} \cup {b.tail}
      PROVE  x \in {End(b, id) : id \in Live(b)} \cup {b.head}
  <2>1. x \in 0 .. b.size - 1 /\ Dist(b, x) \in Starts(b)
    BY <1>1, <1>2 DEF Starts, From, Fill
  <2>2. CASE Dist(b, x) = 0
    BY <1>1, <1>4, <2>1, <2>2, DistInjective
  <2>3. CASE \E id \in Live(b) : Dist(b, x) = To(b, id)
    BY <1>1, <1>3, <2>1, <2>3, DistInjective
  <2> QED BY <1>5, <2>1, <2>2, <2>3 DEF Stops
<1>7. ASSUME NEW x \in {End(b, id) : id \in Live(b)} \cup {b.head}
      PROVE  x \in {b.tags[id].buf : id \in Live(b)} \cup {b.tail}
  <2>1. x \in 0 .. b.size - 1 /\ Dist(b, x) \in Stops(b)
    BY <1>1, <1>3, <1>4 DEF Stops
  <2>2. CASE Dist(b, x) = Dist(b, b.tail)
    BY <1>1, <2>1, <2>2, DistInjective
  <2>3. CASE \E id \in Live(b) : Dist(b, x) = Dist(b, b.tags[id].buf)
    BY <1>1, <1>2, <2>1, <2>3, DistInjective
  <2> QED BY <1>5, <2>1, <2>2, <2>3 DEF Starts, From, Fill
<1> QED BY <1>6, <1>7

(* Head to tail the ring is messages and what was left to them, until one  *)
(* ended exactly at bottom (queue.h:1021).                                 *)
THEOREM TiledCorrect == Spec => []Tiled
<1>1. IInv => Tiled
  <2> SUFFICES ASSUME Sound PROVE Tiled
    BY DEF Tiled, IInv
  <2> QED BY SlotFacts, BufsCount, TiledRing DEF Tiled
<1> QED BY <1>1, InvCorrect, PTL

(***************************************************************************)
(* What queues, calls and hands are as a Mailbox.                          *)
(***************************************************************************)
Boxed(s) == [i \in DOMAIN queue[s] |-> Datum(s, queue[s][i])]
InHand(t) == IF th[t].at = "received" THEN Datum(th[t].slot, th[t].id) ELSE NoKey

Boxes == [s \in Slots |-> Boxed(s)]
Sending == [t \in Threads |-> th[t].datum]
Hands == [t \in Threads |-> InHand(t)]

LEMMA MailboxIs ==
  /\ Box!Init <=> /\ Boxes = [s \in Slots |-> <<>>]
                  /\ Sending = [t \in Threads |-> NoKey] /\ Hands = [t \in Threads |-> NoKey]
                  /\ terminate = FALSE /\ ~Defined = FALSE
  /\ \A t : Box!Begin(t) <=>
       /\ Sending[t] = NoKey /\ Hands[t] = NoKey
       /\ \E m \in Messages \cup {Quick} : Sending' = [Sending EXCEPT ![t] = m]
       /\ UNCHANGED <<Boxes, Hands, terminate>>
  /\ \A t, s : Box!Send(t, s) <=>
       /\ Sending[t] # NoKey /\ Len(Boxes[s]) < Depth /\ ~terminate
       /\ Boxes' = [Boxes EXCEPT ![s] = Append(@, Sending[t])]
       /\ Sending' = [Sending EXCEPT ![t] = NoKey]
       /\ UNCHANGED <<Hands, terminate>>
  /\ \A t : Box!GiveUp(t) <=>
       /\ Sending[t] # NoKey /\ Sending' = [Sending EXCEPT ![t] = NoKey]
       /\ UNCHANGED <<Boxes, Hands, terminate>>
  /\ \A t, s : Box!Receive(t, s) <=>
       /\ Boxes[s] # <<>> /\ Sending[t] = NoKey /\ Hands[t] = NoKey
       /\ Hands' = [Hands EXCEPT ![t] = Head(Boxes[s])]
       /\ Boxes' = [Boxes EXCEPT ![s] = Tail(@)]
       /\ UNCHANGED <<Sending, terminate>>
  /\ \A t : Box!Return(t) <=>
       /\ Hands[t] # NoKey /\ Hands' = [Hands EXCEPT ![t] = NoKey]
       /\ UNCHANGED <<Boxes, Sending, terminate>>
  /\ Box!Close <=> terminate' = TRUE /\ UNCHANGED <<Boxes, Sending, Hands>>
  /\ UNCHANGED Box!boxes <=> UNCHANGED <<Boxes, Sending, Hands, terminate>>
  /\ UNCHANGED Box!vars <=> UNCHANGED Box!boxes /\ (~Defined)' = ~Defined
  /\ Box!Next <=> (Box!Step /\ (~Defined)' = ~Defined) \/ (~Defined)' = TRUE
BY DEF Box!vars, Box!Next, Box!Init, Box!Begin, Box!Send, Box!GiveUp, Box!Receive, Box!Return, Box!Close, Box!boxes,
   Boxes, Sending, Hands, Boxed, InHand

(* A queue of identifiers and the queue of what they stand for.            *)
LEMMA MapAppend ==
  ASSUME NEW S, NEW q \in Seq(S), NEW x \in S, NEW T, NEW f \in [S -> T]
  PROVE  /\ [i \in DOMAIN Append(q, x) |-> f[Append(q, x)[i]]]
              = Append([i \in DOMAIN q |-> f[q[i]]], f[x])
         /\ Len([i \in DOMAIN q |-> f[q[i]]]) = Len(q)
<1> DEFINE g == [i \in DOMAIN q |-> f[q[i]]]
           h == [i \in DOMAIN Append(q, x) |-> f[Append(q, x)[i]]]
<1>1. /\ Append(q, x) \in Seq(S) /\ Len(Append(q, x)) = Len(q) + 1
      /\ Len(q) \in Nat /\ DOMAIN q = 1 .. Len(q) /\ DOMAIN Append(q, x) = 1 .. Len(q) + 1
      /\ Append(q, x)[Len(q) + 1] = x
      /\ \A i \in 1 .. Len(q) : Append(q, x)[i] = q[i] /\ q[i] \in S
      /\ \A i \in 1 .. Len(q) + 1 : Append(q, x)[i] \in S
  OBVIOUS
<1>2. g \in [1 .. Len(q) -> T] /\ h \in [1 .. Len(q) + 1 -> T]
  BY <1>1
<1>3. /\ \A i \in 1 .. Len(q) : h[i] = g[i]
      /\ h[Len(q) + 1] = f[x]
  BY <1>1
<1>4. g \in Seq(T) /\ h \in Seq(T) /\ Len(g) = Len(q) /\ Len(h) = Len(q) + 1
  <2> HIDE DEF g, h
  <2> QED BY <1>1, <1>2
<1>5. h = Append(g, f[x])
  <2>1. f[x] \in T
    OBVIOUS
  <2> HIDE DEF g, h
  <2>2. /\ Append(g, f[x]) \in Seq(T) /\ Len(Append(g, f[x])) = Len(q) + 1
        /\ \A i \in 1 .. Len(q) : Append(g, f[x])[i] = g[i]
        /\ Append(g, f[x])[Len(q) + 1] = f[x]
    BY <1>4, <2>1, AppendProperties
  <2>3. \A i \in 1 .. Len(q) + 1 : i = Len(q) + 1 \/ i \in 1 .. Len(q)
    BY <1>1
  <2> QED BY <1>3, <1>4, <2>2, <2>3, SeqEqual
<1> QED BY <1>4, <1>5

LEMMA MapTail ==
  ASSUME NEW S, NEW q \in Seq(S), q # <<>>, NEW T, NEW f \in [S -> T]
  PROVE  /\ [i \in DOMAIN Tail(q) |-> f[Tail(q)[i]]] = Tail([i \in DOMAIN q |-> f[q[i]]])
         /\ Head([i \in DOMAIN q |-> f[q[i]]]) = f[Head(q)]
         /\ [i \in DOMAIN q |-> f[q[i]]] # <<>>
<1> DEFINE g == [i \in DOMAIN q |-> f[q[i]]]
           h == [i \in DOMAIN Tail(q) |-> f[Tail(q)[i]]]
<1>1. /\ Tail(q) \in Seq(S) /\ Len(Tail(q)) = Len(q) - 1 /\ Len(q) \in Nat /\ Len(q) # 0
      /\ DOMAIN q = 1 .. Len(q) /\ DOMAIN Tail(q) = 1 .. Len(q) - 1 /\ Head(q) = q[1]
      /\ \A i \in 1 .. Len(q) - 1 : Tail(q)[i] = q[i + 1] /\ Tail(q)[i] \in S
      /\ \A i \in 1 .. Len(q) : q[i] \in S
  BY HeadTailProperties, EmptySeq
<1>2. g \in [1 .. Len(q) -> T] /\ h \in [1 .. Len(q) - 1 -> T]
  BY <1>1
<1>3. /\ \A i \in 1 .. Len(q) - 1 : h[i] = g[i + 1]
      /\ g[1] = f[Head(q)]
  BY <1>1
<1>4. g \in Seq(T) /\ h \in Seq(T) /\ Len(g) = Len(q) /\ Len(h) = Len(q) - 1 /\ g # <<>>
  <2> HIDE DEF g, h
  <2>1. g \in Seq(T) /\ Len(g) = Len(q)
    BY <1>1, <1>2
  <2>2. PICK n \in Nat : n = Len(q) - 1
    <3>1. \A m \in Nat : m # 0 => m - 1 \in Nat
      OBVIOUS
    <3> QED BY <1>1, <3>1
  <2>3. h \in [1 .. n -> T]
    BY <1>2, <2>2
  <2>4. h \in Seq(T) /\ Len(h) = n
    BY <2>3
  <2> QED BY <1>1, <2>1, <2>2, <2>4, EmptySeq
<1>5. h = Tail(g) /\ Head(g) = f[Head(q)]
  <2> HIDE DEF g, h
  <2>1. /\ Tail(g) \in Seq(T) /\ Len(Tail(g)) = Len(q) - 1
        /\ \A i \in 1 .. Len(q) - 1 : Tail(g)[i] = g[i + 1]
        /\ Head(g) = g[1]
    BY <1>4, HeadTailProperties
  <2> QED BY <1>3, <1>4, <2>1, SeqEqual
<1> QED BY <1>4, <1>5

LEMMA BoxFacts ==
  ASSUME Sound, NEW s \in Slots
  PROVE  /\ Boxes[s] = Boxed(s)
         /\ \A i : Kept(s, i) => Datum(s, i) \in Messages \cup {Quick} /\ Datum(s, i) # NoKey
<1>1. Boxes[s] = Boxed(s)
  BY DEF Boxes
<1>2. \A i : Kept(s, i) => Datum(s, i) \in Messages \cup {Quick}
  BY SlotFacts DEF Kept, Datum
<1> QED BY <1>1, <1>2, ValuesAssumption

(* Rings that keep what the queues and the calls of other threads refer to.*)
LEMMA BoxesStay ==
  ASSUME Sound,
         \A x \in Slots : \A i \in Elements(queue[x]) : Kept(x, i) => Datum(x, i)' = Datum(x, i),
         NEW s \in Slots, queue'[s] = queue[s]
  PROVE  Boxes'[s] = Boxes[s]
<1>1. \A i \in DOMAIN queue[s] : Datum(s, queue[s][i])' = Datum(s, queue[s][i])
  <2> TAKE i \in DOMAIN queue[s]
  <2>1. PICK k : k = queue[s][i]
    OBVIOUS
  <2>2. Datum(s, k)' = Datum(s, k)
    BY <2>1, SlotFacts DEF Elements
  <2>3. queue'[s][i] = k
    BY <2>1
  <2> QED BY <2>1, <2>2, <2>3 DEF Datum
<1>2. [i \in DOMAIN queue[s] |-> Datum(s, queue[s][i])]' = [i \in DOMAIN queue[s] |-> Datum(s, queue[s][i])]
  BY <1>1
<1> QED BY <1>2 DEF Boxes, Boxed

LEMMA HandsStay ==
  ASSUME Sound, NEW t \in Threads, th'[t] = th[t],
         th[t].at = "received" => Datum(th[t].slot, th[t].id)' = Datum(th[t].slot, th[t].id)
  PROVE  Hands'[t] = Hands[t] /\ Sending'[t] = Sending[t]
BY DEF Hands, InHand, Sending

LEMMA BoxInit == Init => Box!Init
<1> SUFFICES ASSUME Init PROVE Box!Init
  OBVIOUS
<1>1. \A s \in Slots : queue[s] = <<>>
  BY DEF Init
<1>2. \A s \in Slots : Boxed(s) = <<>>
  BY <1>1 DEF Boxed
<1>3. Boxes = [s \in Slots |-> <<>>]
  BY <1>2 DEF Boxes
<1>4. \A t \in Threads : th[t].datum = NoKey /\ th[t].at = "idle"
  BY DEF Init, NoCall
<1>5. Sending = [t \in Threads |-> NoKey] /\ Hands = [t \in Threads |-> NoKey]
  BY <1>4 DEF Sending, Hands, InHand
<1>6. terminate = FALSE /\ Defined
  BY DEF Init, Defined
<1> QED BY <1>3, <1>5, <1>6, MailboxIs

(* A step of one thread after which no queue and no other hand differs.    *)
LEMMA OthersStay ==
  ASSUME Sound, NEW t \in Threads, NEW call, th' = [th EXCEPT ![t] = call],
         \A x \in Slots : \A i : Kept(x, i) /\ ~Holds(th[t], x, i) => Datum(x, i)' = Datum(x, i)
  PROVE  /\ th'[t] = call
         /\ \A u \in Threads : u # t => Hands'[u] = Hands[u] /\ Sending'[u] = Sending[u]
         /\ \A s \in Slots : queue'[s] = queue[s] => Boxes'[s] = Boxes[s]
<1>1. th'[t] = call /\ \A u \in Threads : u # t => th'[u] = th[u]
  BY DEF Sound, CallsShape
<1>2. \A x \in Slots : \A i \in Elements(queue[x]) : Kept(x, i) => Datum(x, i)' = Datum(x, i)
  <2> TAKE x \in Slots
  <2> TAKE i \in Elements(queue[x])
  <2> HAVE Kept(x, i)
  <2>1. CASE i = Quick
    BY <2>1 DEF Datum
  <2>2. CASE i # Quick
    <3>1. ~Holds(th[t], x, i)
      <4>1. i \in Live(buf[x])
        BY <2>2 DEF Kept
      <4> QED BY <4>1 DEF Sound, OnePlace, HoldersOf
    <3> QED BY <3>1
  <2> QED BY <2>1, <2>2
<1>3. ASSUME NEW u \in Threads, u # t
      PROVE  Hands'[u] = Hands[u] /\ Sending'[u] = Sending[u]
  <2>1. th[u].at = "received" => Datum(th[u].slot, th[u].id)' = Datum(th[u].slot, th[u].id)
    <3> SUFFICES ASSUME th[u].at = "received"
                 PROVE  Datum(th[u].slot, th[u].id)' = Datum(th[u].slot, th[u].id)
      OBVIOUS
    <3>1. PICK x, i : x = th[u].slot /\ i = th[u].id
      OBVIOUS
    <3>2. Holds(th[u], x, i)
      BY <3>1 DEF Holds
    <3>3. x \in Slots /\ Kept(x, i) /\ (i # Quick => i \in Live(buf[x]))
      BY <3>2, CallFacts
    <3>4. Datum(x, i)' = Datum(x, i)
      <4>1. CASE i = Quick
        BY <4>1 DEF Datum
      <4>2. CASE i # Quick
        <5>1. ~Holds(th[t], x, i)
          BY <1>3, <3>2, <3>3, <4>2 DEF Sound, OnePlace, HoldersOf
        <5> QED BY <3>3, <5>1
      <4> QED BY <4>1, <4>2
    <3>5. th'[u] = th[u]
      BY <1>1, <1>3
    <3> QED BY <3>1, <3>4, <3>5 DEF Datum
  <2>2. th'[u] = th[u]
    BY <1>1, <1>3
  <2> QED BY <2>1, <2>2, HandsStay
<1>4. \A s \in Slots : queue'[s] = queue[s] => Boxes'[s] = Boxes[s]
  BY <1>2, BoxesStay
<1> QED BY <1>1, <1>3, <1>4

(* Functions that differ in one place at most.                             *)
LEMMA OnlyAt ==
  ASSUME NEW S, NEW f, NEW g, DOMAIN f = S, DOMAIN g = S, f = [x \in S |-> f[x]],
         g = [x \in S |-> g[x]], NEW x \in S,
         \A y \in S : y # x => g[y] = f[y]
  PROVE  /\ g = [f EXCEPT ![x] = g[x]]
         /\ g[x] = f[x] => g = f
  OBVIOUS

LEMMA MailboxShape ==
  /\ DOMAIN Boxes = Slots /\ Boxes = [s \in Slots |-> Boxes[s]]
  /\ DOMAIN Hands = Threads /\ Hands = [t \in Threads |-> Hands[t]]
  /\ DOMAIN Sending = Threads /\ Sending = [t \in Threads |-> Sending[t]]
  /\ DOMAIN Boxes' = Slots /\ Boxes' = [s \in Slots |-> Boxes'[s]]
  /\ DOMAIN Hands' = Threads /\ Hands' = [t \in Threads |-> Hands'[t]]
  /\ DOMAIN Sending' = Threads /\ Sending' = [t \in Threads |-> Sending'[t]]
BY DEF Boxes, Hands, Sending

(* What the step is to the mailbox, if the queues stay as they are.        *)
LEMMA HandStep ==
  ASSUME Sound, NEW t \in Threads, NEW call, th' = [th EXCEPT ![t] = call], UNCHANGED queue,
         \A x \in Slots : \A i : Kept(x, i) /\ ~Holds(th[t], x, i) => Datum(x, i)' = Datum(x, i)
  PROVE  /\ Boxes' = Boxes
         /\ Sending[t] = th[t].datum /\ Hands[t] = InHand(t)
         /\ Sending'[t] = call.datum /\ (call.at # "received" => Hands'[t] = NoKey)
         /\ Sending' = [Sending EXCEPT ![t] = call.datum]
         /\ call.at # "received" => Hands' = [Hands EXCEPT ![t] = NoKey]
         /\ th[t].datum = call.datum => Sending' = Sending
         /\ th[t].at # "received" /\ call.at # "received" => Hands' = Hands /\ Hands[t] = NoKey
<1>1. /\ th'[t] = call
      /\ \A u \in Threads : u # t => Hands'[u] = Hands[u] /\ Sending'[u] = Sending[u]
      /\ \A s \in Slots : Boxes'[s] = Boxes[s]
  BY OthersStay
<1>2. Sending[t] = th[t].datum /\ Hands[t] = InHand(t) /\ Sending'[t] = call.datum
  BY <1>1 DEF Sending, Hands
<1>3. call.at # "received" => Hands'[t] = NoKey
  BY <1>1 DEF Hands, InHand
<1>4. th[t].at # "received" => Hands[t] = NoKey
  BY <1>2 DEF InHand
<1>5. Boxes' = Boxes
  BY <1>1, MailboxShape
<1>6. Sending' = [Sending EXCEPT ![t] = Sending'[t]] /\ (Sending'[t] = Sending[t] => Sending' = Sending)
  BY <1>1, MailboxShape, OnlyAt
<1>7. Hands' = [Hands EXCEPT ![t] = Hands'[t]] /\ (Hands'[t] = Hands[t] => Hands' = Hands)
  BY <1>1, MailboxShape, OnlyAt
<1> QED BY <1>2, <1>3, <1>4, <1>5, <1>6, <1>7

LEMMA ReceiveStep ==
  ASSUME Sound, NEW t \in Threads, Dequeue(t)
  PROVE  \E s \in Slots : Box!Receive(t, s)
<1>1. PICK s, id, call :
        /\ s = th[t].slot /\ id = Head(queue[s])
        /\ call = [th[t] EXCEPT !.at = "received", !.id = id]
        /\ th' = [th EXCEPT ![t] = call]
  BY DEF Dequeue, Goes
<1>2. /\ th[t].at \in Getting /\ queue[s] # <<>> /\ UNCHANGED <<buf, lost, terminate>>
      /\ queue' = [queue EXCEPT ![s] = Tail(@)]
  BY <1>1 DEF Dequeue, Getting
<1>3. th[t] \in Call /\ s \in Slots /\ th[t].datum = NoKey /\ th[t].at # "received"
  BY <1>1, <1>2, CallFacts DEF CallOK, Getting
<1>4. call.at = "received" /\ call.slot = s /\ call.id = id /\ call.datum = NoKey
  BY <1>1, <1>3 DEF Call
<1>5. \A x, i : Datum(x, i)' = Datum(x, i)
  BY <1>2, SameRings
<1>6. /\ th'[t] = call
      /\ \A u \in Threads : u # t => Hands'[u] = Hands[u] /\ Sending'[u] = Sending[u]
      /\ \A x \in Slots : queue'[x] = queue[x] => Boxes'[x] = Boxes[x]
  BY <1>1, <1>5, OthersStay
<1>7. queue'[s] = Tail(queue[s]) /\ \A x \in Slots : x # s => queue'[x] = queue[x]
  BY <1>2, <1>3 DEF Sound, QueuesShape
<1> DEFINE S == Nat \cup {Quick}
           f == [i \in S |-> Datum(s, i)]
           T == {Datum(s, i) : i \in S}
<1>8. queue[s] \in Seq(S) /\ f \in [S -> T]
  BY <1>3, SlotFacts
<1>9. /\ \A i \in DOMAIN queue[s] : queue[s][i] \in S
      /\ \A i \in DOMAIN Tail(queue[s]) : Tail(queue[s])[i] \in S
      /\ id \in S
  BY <1>1, <1>2, <1>8, TailFacts
<1>10. /\ [i \in DOMAIN Tail(queue[s]) |-> f[Tail(queue[s])[i]]] = Tail([i \in DOMAIN queue[s] |-> f[queue[s][i]]])
       /\ Head([i \in DOMAIN queue[s] |-> f[queue[s][i]]]) = f[Head(queue[s])]
       /\ [i \in DOMAIN queue[s] |-> f[queue[s][i]]] # <<>>
  <2> HIDE DEF f, S, T
  <2> QED BY <1>2, <1>8, MapTail
<1>11. Boxed(s) = [i \in DOMAIN queue[s] |-> f[queue[s][i]]]
  BY <1>9 DEF Boxed
<1>12. Boxed(s)' = [i \in DOMAIN Tail(queue[s]) |-> f[Tail(queue[s])[i]]]
  <2>1. Boxed(s)' = [i \in DOMAIN Tail(queue[s]) |-> Datum(s, Tail(queue[s])[i])]
    <3>1. ASSUME NEW i PROVE Datum(s, queue[s][i])' = Datum(s, Tail(queue[s])[i])
      <4>1. PICK k : k = Tail(queue[s])[i]
        OBVIOUS
      <4>2. queue'[s][i] = k
        BY <1>7, <4>1
      <4>3. Datum(s, queue[s][i])' = Datum(s, k)'
        BY <4>2 DEF Datum
      <4> QED BY <1>5, <4>1, <4>3
    <3> QED BY <1>7, <3>1 DEF Boxed
  <2> QED BY <1>9, <2>1
<1>13. f[Head(queue[s])] = Datum(s, id)
  BY <1>1, <1>9
<1> HIDE DEF f, S, T
<1>14. Boxes[s] # <<>> /\ Boxes'[s] = Tail(Boxes[s]) /\ Head(Boxes[s]) = Datum(s, id)
  <2>1. Boxes[s] = Boxed(s) /\ Boxes'[s] = Boxed(s)'
    BY <1>3 DEF Boxes, Boxed
  <2> QED BY <1>10, <1>11, <1>12, <1>13, <2>1
<1>15. Sending[t] = NoKey /\ Sending'[t] = NoKey /\ Hands[t] = NoKey /\ Hands'[t] = Datum(s, id)
  <2>1. Sending[t] = NoKey /\ Sending'[t] = NoKey /\ Hands[t] = NoKey
    BY <1>3, <1>4, <1>6 DEF Sending, Hands, InHand
  <2>2. Hands'[t] = Datum(s, id)'
    BY <1>4, <1>6 DEF Hands, InHand, Datum
  <2> QED BY <1>5, <2>1, <2>2
<1>16. Boxes' = [Boxes EXCEPT ![s] = Tail(@)]
  <2>1. \A x \in Slots : x # s => Boxes'[x] = Boxes[x]
    BY <1>6, <1>7
  <2>2. Boxes' = [Boxes EXCEPT ![s] = Boxes'[s]]
    BY <1>3, <2>1, MailboxShape, OnlyAt
  <2> QED BY <1>14, <2>2
<1>17. Hands' = [Hands EXCEPT ![t] = Head(Boxes[s])] /\ Sending' = Sending
  <2>1. Hands' = [Hands EXCEPT ![t] = Hands'[t]]
    BY <1>6, MailboxShape, OnlyAt
  <2>2. Sending' = Sending
    BY <1>6, <1>15, MailboxShape, OnlyAt
  <2> QED BY <1>14, <1>15, <2>1, <2>2
<1> QED BY <1>2, <1>3, <1>14, <1>15, <1>16, <1>17, MailboxIs

LEMMA SendStep ==
  ASSUME Sound, NEW t \in Threads, Enqueue(t)
  PROVE  \E s \in Slots : Box!Send(t, s)
<1>1. PICK s, id : s = th[t].slot /\ id = th[t].id
  OBVIOUS
<1>2. /\ th[t].at \in Putting /\ Len(queue[s]) < Depth /\ UNCHANGED <<buf, lost, terminate>>
      /\ ~terminate
      /\ queue' = [queue EXCEPT ![s] = Append(@, id)]
      /\ th' = [th EXCEPT ![t] = NoCall]
  BY <1>1 DEF Enqueue, Goes, Putting
<1>3. /\ th[t] \in Call /\ s \in Slots /\ Kept(s, id) /\ th[t].datum = Datum(s, id)
      /\ th[t].at # "received"
  BY <1>1, <1>2, CallFacts DEF CallOK, Putting
<1>4. NoCall.at = "idle" /\ NoCall.datum = NoKey
  BY NoCallFacts
<1>5. \A x, i : Datum(x, i)' = Datum(x, i)
  BY <1>2, SameRings
<1>6. /\ th'[t] = NoCall
      /\ \A u \in Threads : u # t => Hands'[u] = Hands[u] /\ Sending'[u] = Sending[u]
      /\ \A x \in Slots : queue'[x] = queue[x] => Boxes'[x] = Boxes[x]
  BY <1>2, <1>5, OthersStay
<1>7. queue'[s] = Append(queue[s], id) /\ \A x \in Slots : x # s => queue'[x] = queue[x]
  BY <1>2, <1>3 DEF Sound, QueuesShape
<1> DEFINE S == Nat \cup {Quick}
           f == [i \in S |-> Datum(s, i)]
           T == {Datum(s, i) : i \in S}
<1>8. queue[s] \in Seq(S) /\ f \in [S -> T] /\ id \in S
  BY <1>1, <1>3, SlotFacts DEF Call
<1>9. /\ \A i \in DOMAIN queue[s] : queue[s][i] \in S
      /\ \A i \in DOMAIN Append(queue[s], id) : Append(queue[s], id)[i] \in S
  BY <1>8, AppendFacts
<1>10. /\ [i \in DOMAIN Append(queue[s], id) |-> f[Append(queue[s], id)[i]]]
            = Append([i \in DOMAIN queue[s] |-> f[queue[s][i]]], f[id])
       /\ Len([i \in DOMAIN queue[s] |-> f[queue[s][i]]]) = Len(queue[s])
  <2> HIDE DEF f, S, T
  <2> QED BY <1>8, MapAppend
<1>11. Boxed(s) = [i \in DOMAIN queue[s] |-> f[queue[s][i]]]
  BY <1>9 DEF Boxed
<1>12. Boxed(s)' = [i \in DOMAIN Append(queue[s], id) |-> f[Append(queue[s], id)[i]]]
  <2>1. Boxed(s)' = [i \in DOMAIN Append(queue[s], id) |-> Datum(s, Append(queue[s], id)[i])]
    <3>1. ASSUME NEW i PROVE Datum(s, queue[s][i])' = Datum(s, Append(queue[s], id)[i])
      <4>1. PICK k : k = Append(queue[s], id)[i]
        OBVIOUS
      <4>2. queue'[s][i] = k
        BY <1>7, <4>1
      <4>3. Datum(s, queue[s][i])' = Datum(s, k)'
        BY <4>2 DEF Datum
      <4> QED BY <1>5, <4>1, <4>3
    <3> QED BY <1>7, <3>1 DEF Boxed
  <2> QED BY <1>9, <2>1
<1>13. f[id] = Datum(s, id)
  BY <1>8
<1> HIDE DEF f, S, T
<1>14. Len(Boxes[s]) < Depth /\ Boxes'[s] = Append(Boxes[s], Datum(s, id))
  <2>1. Boxes[s] = Boxed(s) /\ Boxes'[s] = Boxed(s)'
    BY <1>3 DEF Boxes, Boxed
  <2> QED BY <1>2, <1>10, <1>11, <1>12, <1>13, <2>1
<1>15. /\ Sending[t] = Datum(s, id) /\ Sending[t] # NoKey
       /\ Sending'[t] = NoKey /\ Hands[t] = NoKey /\ Hands'[t] = NoKey
  <2>1. Sending[t] = Datum(s, id) /\ Sending'[t] = NoKey /\ Hands[t] = NoKey /\ Hands'[t] = NoKey
    BY <1>3, <1>4, <1>6 DEF Sending, Hands, InHand
  <2> QED BY <1>3, <2>1, BoxFacts
<1>16. Boxes' = [Boxes EXCEPT ![s] = Append(@, Sending[t])]
  <2>1. \A x \in Slots : x # s => Boxes'[x] = Boxes[x]
    BY <1>6, <1>7
  <2>2. Boxes' = [Boxes EXCEPT ![s] = Boxes'[s]]
    BY <1>3, <2>1, MailboxShape, OnlyAt
  <2> QED BY <1>14, <1>15, <2>2
<1>17. Sending' = [Sending EXCEPT ![t] = NoKey] /\ Hands' = Hands
  <2>1. Sending' = [Sending EXCEPT ![t] = Sending'[t]]
    BY <1>6, MailboxShape, OnlyAt
  <2>2. Hands' = Hands
    BY <1>6, <1>15, MailboxShape, OnlyAt
  <2> QED BY <1>15, <2>1, <2>2
<1> QED BY <1>2, <1>3, <1>14, <1>15, <1>16, <1>17, MailboxIs

LEMMA ReturnStep ==
  ASSUME Sound, NEW t \in Threads, FetchBytes(t)
  PROVE  Box!Return(t)
<1>1. /\ th[t].at = "received" /\ UNCHANGED <<queue, lost, terminate>>
      /\ th' = [th EXCEPT ![t] = NoCall]
  BY DEF FetchBytes, Goes
<1>2. ASSUME NEW x \in Slots, NEW i, Kept(x, i), ~Holds(th[t], x, i)
      PROVE  Datum(x, i)' = Datum(x, i)
  <2>1. CASE th[t].id = Quick
    <3>1. buf' = buf
      BY <2>1 DEF FetchBytes
    <3> QED BY <3>1 DEF Datum
  <2>2. CASE th[t].id # Quick
    <3>1. PICK s \in Slots, id \in Nat \ {0} :
            /\ s = th[t].slot /\ id = th[t].id /\ Holds(th[t], s, id)
            /\ \A y \in Slots : \A j : Kept(y, j) /\ ~(y = s /\ j = id) =>
                 Kept(y, j)' /\ Datum(y, j)' = Datum(y, j)
      BY <2>2, FetchStep
    <3> QED BY <1>2, <3>1
  <2> QED BY <2>1, <2>2
<1>3. th[t].datum = NoKey /\ Kept(th[t].slot, th[t].id) /\ th[t].slot \in Slots
  BY <1>1, CallFacts DEF CallOK
<1>4. Hands[t] # NoKey
  BY <1>1, <1>3, BoxFacts DEF Hands, InHand
<1>5. NoCall.at = "idle" /\ NoCall.datum = NoKey
  BY NoCallFacts
<1>6. Boxes' = Boxes /\ Sending' = Sending /\ Hands' = [Hands EXCEPT ![t] = NoKey]
  <2>1. \A x \in Slots : \A i : Kept(x, i) /\ ~Holds(th[t], x, i) => Datum(x, i)' = Datum(x, i)
    BY <1>2
  <2>2. /\ Boxes' = Boxes /\ (th[t].datum = NoCall.datum => Sending' = Sending)
        /\ NoCall.at # "received" => Hands' = [Hands EXCEPT ![t] = NoKey]
    BY <1>1, <2>1, HandStep
  <2> QED BY <1>3, <1>5, <2>2
<1> QED BY <1>1, <1>4, <1>6, MailboxIs

LEMMA GiveUpStep ==
  ASSUME Sound, NEW t \in Threads, FailToPut(t)
  PROVE  Box!GiveUp(t)
<1>1. /\ th[t].at \in Putting /\ UNCHANGED <<buf, queue, terminate>>
      /\ th' = [th EXCEPT ![t] = NoCall]
  BY DEF FailToPut, Goes, Putting
<1>2. \A x, i : Datum(x, i)' = Datum(x, i)
  BY <1>1 DEF Datum
<1>3. /\ th[t].datum = Datum(th[t].slot, th[t].id) /\ Kept(th[t].slot, th[t].id)
      /\ th[t].slot \in Slots /\ th[t].at # "received"
  BY <1>1, CallFacts DEF CallOK, Putting
<1>4. th[t].datum # NoKey
  BY <1>3, BoxFacts
<1>5. NoCall.at = "idle" /\ NoCall.datum = NoKey
  BY NoCallFacts
<1>6. /\ Boxes' = Boxes /\ Sending' = [Sending EXCEPT ![t] = NoKey] /\ Hands' = Hands
      /\ Sending[t] = th[t].datum
  BY <1>1, <1>2, <1>3, <1>5, HandStep
<1> QED BY <1>1, <1>4, <1>6, MailboxIs

LEMMA BeginStep ==
  ASSUME Sound, NEW t \in Threads, BeginPush(t) \/ BeginPut(t)
  PROVE  Box!Begin(t)
<1>1. th[t].at = "idle" /\ UNCHANGED <<buf, queue, terminate>>
  BY DEF BeginPush, BeginPut
<1>2. \E m \in Messages \cup {Quick} : \E call :
        th' = [th EXCEPT ![t] = call] /\ call.datum = m /\ call.at # "received"
  <2>1. CASE BeginPut(t)
    <3>1. PICK s, m, call :
            /\ s \in Used /\ m \in Messages
            /\ call = [NoCall EXCEPT !.slot = s, !.datum = m, !.at = "store"]
            /\ th' = [th EXCEPT ![t] = call]
      BY <2>1 DEF BeginPut, Goes
    <3>2. call.datum = m /\ call.at = "store"
      BY <3>1 DEF NoCall
    <3> QED BY <3>1, <3>2
  <2>2. CASE \E m \in Messages : Goes(t, [NoCall EXCEPT !.slot = 1, !.datum = m, !.at = "store"])
    <3>1. PICK m, call :
            /\ m \in Messages
            /\ call = [NoCall EXCEPT !.slot = 1, !.datum = m, !.at = "store"]
            /\ th' = [th EXCEPT ![t] = call]
      BY <2>2 DEF Goes
    <3>2. call.datum = m /\ call.at = "store"
      BY <3>1 DEF NoCall
    <3> QED BY <3>1, <3>2
  <2>3. CASE Goes(t, [NoCall EXCEPT !.slot = 1, !.datum = Quick, !.id = Quick, !.at = "put"])
    <3>1. PICK call : /\ call = [NoCall EXCEPT !.slot = 1, !.datum = Quick, !.id = Quick, !.at = "put"]
                      /\ th' = [th EXCEPT ![t] = call]
      BY <2>3 DEF Goes
    <3>2. call.datum = Quick /\ call.at = "put"
      BY <3>1 DEF NoCall
    <3> QED BY <3>1, <3>2
  <2> QED BY <2>1, <2>2, <2>3 DEF BeginPush
<1>3. PICK m, call :
        /\ m \in Messages \cup {Quick} /\ th' = [th EXCEPT ![t] = call]
        /\ call.datum = m /\ call.at # "received"
  BY <1>2
<1>4. \A x, i : Datum(x, i)' = Datum(x, i)
  BY <1>1 DEF Datum
<1>5. th[t].datum = NoKey /\ th[t].at # "received"
  BY <1>1, NewCall, NoCallFacts
<1>6. /\ Boxes' = Boxes /\ Hands' = Hands /\ Hands[t] = NoKey /\ Sending[t] = NoKey
      /\ Sending' = [Sending EXCEPT ![t] = m]
  BY <1>1, <1>3, <1>4, <1>5, HandStep
<1> QED BY <1>1, <1>3, <1>6, MailboxIs

LEMMA CallIsSilent ==
  ASSUME Sound, NEW t \in Threads,
         \/ StoreBytes(t) \/ WaitToPut(t)
         \/ BeginPop(t) \/ BeginGet(t) \/ WaitToGet(t) \/ FailToGet(t),
         Defined'
  PROVE  UNCHANGED Box!boxes
<1>1. \A x \in Slots : \A i : Kept(x, i) /\ ~Holds(th[t], x, i) => Datum(x, i)' = Datum(x, i)
  <2>1. CASE StoreBytes(t)
    <3>1. PICK s \in Slots, id \in Nat \ {0} :
        /\ s = th[t].slot /\ id \notin Live(buf[s])
        /\ Live(buf'[s]) = Live(buf[s]) \cup {id} /\ Content(buf'[s], id) = th[t].datum
        /\ \A i \in Live(buf[s]) : Content(buf'[s], i) = Content(buf[s], i)
        /\ \A x \in Slots : x # s => buf'[x] = buf[x]
        /\ th' = [th EXCEPT ![t] = [th[t] EXCEPT !.at = "put", !.id = id]]
        /\ RingsShape' /\ Kept(s, id)' /\ th[t].datum = Datum(s, id)'
        /\ \A x \in Slots : \A i : Kept(x, i) => Kept(x, i)' /\ Datum(x, i)' = Datum(x, i)
        /\ ~Kept(s, id)
      BY <2>1, StoreStep
    <3> QED BY <3>1
  <2>2. CASE buf' = buf
    BY <2>2 DEF Datum
  <2> QED BY <2>1, <2>2 DEF WaitToPut, BeginPop, BeginGet, WaitToGet, FailToGet
<1>2. UNCHANGED <<queue, terminate>> /\ th[t].at # "received"
  BY DEF StoreBytes, WaitToPut, BeginPop, BeginGet, WaitToGet, FailToGet
<1>3. th[t] \in Call /\ CallOK(th[t]) /\ NoCall.datum = NoKey /\ NoCall.at = "idle"
  BY CallFacts, NoCallFacts
<1>4. \E call : th' = [th EXCEPT ![t] = call] /\ call.datum = th[t].datum /\ call.at # "received"
  <2>1. CASE \E at \in {"put", "wait to put", "wait to get"} : \E id :
               th' = [th EXCEPT ![t] = [th[t] EXCEPT !.at = at, !.id = id]]
    <3>1. PICK at \in {"put", "wait to put", "wait to get"} :
            \E id : th' = [th EXCEPT ![t] = [th[t] EXCEPT !.at = at, !.id = id]]
      BY <2>1
    <3>2. PICK id : th' = [th EXCEPT ![t] = [th[t] EXCEPT !.at = at, !.id = id]]
      BY <3>1
    <3>3. PICK call : call = [th[t] EXCEPT !.at = at, !.id = id]
      OBVIOUS
    <3>4. call.datum = th[t].datum /\ call.at = at
      BY <1>3, <3>3 DEF Call
    <3> QED BY <3>2, <3>3, <3>4
  <2>2. CASE \E at \in {"wait to put", "wait to get"} :
               th' = [th EXCEPT ![t] = [th[t] EXCEPT !.at = at]]
    <3>1. PICK at \in {"wait to put", "wait to get"} :
            th' = [th EXCEPT ![t] = [th[t] EXCEPT !.at = at]]
      BY <2>2
    <3>2. PICK call : call = [th[t] EXCEPT !.at = at]
      OBVIOUS
    <3>3. call.datum = th[t].datum /\ call.at = at
      BY <1>3, <3>2 DEF Call
    <3> QED BY <3>1, <3>2, <3>3
  <2>3. CASE StoreBytes(t)
    <3>1. PICK m : th' = [th EXCEPT ![t] =
                            [th[t] EXCEPT !.at = "put", !.id = Put(buf[th[t].slot], th[t].datum, m).id]]
      BY <2>3 DEF StoreBytes, Goes
    <3> QED BY <2>1, <3>1
  <2>4. CASE WaitToPut(t) \/ WaitToGet(t)
    BY <2>2, <2>4 DEF WaitToPut, WaitToGet, Goes
  <2>5. CASE BeginPop(t)
    <3>1. th[t] = NoCall
      BY <2>5, NewCall DEF BeginPop
    <3>2. PICK call : call = [NoCall EXCEPT !.slot = 1, !.at = "get"] /\ th' = [th EXCEPT ![t] = call]
      BY <2>5 DEF BeginPop, Goes
    <3>3. call.datum = NoKey /\ call.at = "get"
      BY <3>2 DEF NoCall
    <3> QED BY <1>3, <3>1, <3>2, <3>3
  <2>6. CASE BeginGet(t)
    <3>1. th[t] = NoCall
      BY <2>6, NewCall DEF BeginGet
    <3>2. PICK k, s, call :
            /\ k \in Keys /\ s \in Used
            /\ call = [NoCall EXCEPT !.slot = s, !.key = k, !.at = "get"]
            /\ th' = [th EXCEPT ![t] = call]
      BY <2>6 DEF BeginGet, Goes
    <3>3. call.datum = NoKey /\ call.at = "get"
      BY <3>2 DEF NoCall
    <3> QED BY <1>3, <3>1, <3>2, <3>3
  <2>7. CASE FailToGet(t)
    <3>1. th' = [th EXCEPT ![t] = NoCall] /\ th[t].at \in Getting
      BY <2>7 DEF FailToGet, Goes, Getting
    <3>2. th[t].datum = NoKey
      BY <1>3, <3>1 DEF CallOK
    <3> QED BY <1>3, <3>1, <3>2
  <2> QED BY <2>3, <2>4, <2>5, <2>6, <2>7
<1>5. PICK call : th' = [th EXCEPT ![t] = call] /\ call.datum = th[t].datum /\ call.at # "received"
  BY <1>4
<1>6. Boxes' = Boxes /\ Sending' = Sending /\ Hands' = Hands
  BY <1>1, <1>2, <1>5, HandStep
<1> QED BY <1>2, <1>6, MailboxIs

(* A step of a defined program is a step of the boxes or silent.           *)
LEMMA StepMaps ==
  ASSUME Sound, [Next]_vars, Defined'
  PROVE  Box!Step \/ UNCHANGED Box!boxes
<1>1. ASSUME NEW t \in Threads, BeginPush(t) \/ BeginPut(t) PROVE Box!Begin(t)
  BY <1>1, BeginStep
<1>2. ASSUME NEW t \in Threads, Enqueue(t) PROVE \E s \in Slots : Box!Send(t, s)
  BY <1>2, SendStep
<1>3. ASSUME NEW t \in Threads, FailToPut(t) PROVE Box!GiveUp(t)
  BY <1>3, GiveUpStep
<1>4. ASSUME NEW t \in Threads, Dequeue(t) PROVE \E s \in Slots : Box!Receive(t, s)
  BY <1>4, ReceiveStep
<1>5. ASSUME NEW t \in Threads, FetchBytes(t) PROVE Box!Return(t)
  BY <1>5, ReturnStep
<1>6. ASSUME NEW t \in Threads,
             \/ StoreBytes(t) \/ WaitToPut(t)
             \/ BeginPop(t) \/ BeginGet(t) \/ WaitToGet(t) \/ FailToGet(t)
      PROVE  UNCHANGED Box!boxes
  BY <1>6, CallIsSilent
<1>7. ASSUME UNCHANGED <<buf, queue, th>>
      PROVE  Boxes' = Boxes /\ Sending' = Sending /\ Hands' = Hands
  BY <1>7 DEF Boxes, Sending, Hands, Boxed, InHand, Datum
<1>8. ASSUME NEW t \in Threads PROVE ~LookupGrows(t)
  BY DEF LookupGrows, Defined
<1>9. CASE Shutdown
  BY <1>7, <1>9, MailboxIs DEF Shutdown, Box!Step
<1>10. CASE UNCHANGED vars
  BY <1>7, <1>10, MailboxIs DEF vars
<1> QED BY <1>1, <1>2, <1>3, <1>4, <1>5, <1>6, <1>8, <1>9, <1>10 DEF Next, Box!Step

(* A shared queue and each slot of a shared bag is a box of messages: each *)
(* is delivered once, as it was sent and in order, whatever the rings and  *)
(* tags do (subr_thread.cpp, queue.h), until the program has done what C++ *)
(* leaves undefined (queue.h:975, bag.cpp:44).                             *)
THEOREM MailboxRefined == Spec => RefinesMailbox
<1>1. Init => Box!Init
  BY BoxInit
<1>2. IInv /\ [Next]_vars => [Box!Next]_Box!vars
  <2> SUFFICES ASSUME IInv, [Next]_vars PROVE Box!Next \/ UNCHANGED Box!vars
    BY Zenon
  <2>1. CASE ~Defined
    <3>1. UNCHANGED vars
      BY <2>1, Frozen
    <3>2. UNCHANGED <<Boxes, Sending, Hands, terminate>> /\ (~Defined)' = ~Defined
      BY <3>1 DEF vars, Boxes, Sending, Hands, Boxed, InHand, Datum, Defined
    <3> QED BY <3>2, MailboxIs
  <2>2. CASE ~Defined'
    BY <2>2, MailboxIs
  <2>3. CASE Defined /\ Defined'
    <3>1. Box!Step \/ UNCHANGED Box!boxes
      BY <2>3, StepMaps DEF IInv
    <3>2. (~Defined)' = ~Defined
      BY <2>3
    <3> QED BY <3>1, <3>2, MailboxIs
  <2> QED BY <2>1, <2>2, <2>3
<1> QED BY <1>1, <1>2, InvCorrect, PTL DEF Spec, Box!Spec, RefinesMailbox
==============================================================================
