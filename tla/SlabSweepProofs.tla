-------------------------- MODULE SlabSweepProofs -----------------------------
(***************************************************************************)
(* Theorems about SlabSweep, for any number of pages, any number of        *)
(* objects in a slab and any limit of the cache: the state has its types,  *)
(* every slab is in the ring its free list calls for, no empty slab of the *)
(* ring goes uncounted, and the sweep reclaims what was condemned when it  *)
(* began and nothing else (it implements SweptHeap).                       *)
(*                                                                         *)
(* First what the operations on a ring do to it, as a set; then that each  *)
(* part of IInv is preserved, action by action.                            *)
(***************************************************************************)
EXTENDS SlabSweep, SequenceTheorems, FiniteSetTheorems, TLAPS

LEMMA PageOfObject ==
  ASSUME NEW o \in Objects
  PROVE  PageOf(o) \in Pages
  BY CapacityAssumption, SlotsAssumption DEF Objects, PageOf, Pages

LEMMA SlabObjects ==
  ASSUME NEW p \in Pages
  PROVE  /\ p * Slots \in ObjectsOf(p)
         /\ p * Slots + 1 \in ObjectsOf(p)
  BY CapacityAssumption, SlotsAssumption DEF Objects, ObjectsOf, PageOf, Pages

LEMMA TailSet ==
  ASSUME NEW S, NEW s \in Seq(S), s # <<>>, IsInjective(s)
  PROVE  /\ Head(s) \in ToSet(s) /\ Head(s) \in S
         /\ Tail(s) \in Seq(S) /\ IsInjective(Tail(s))
         /\ ToSet(Tail(s)) = ToSet(s) \ {Head(s)}
<1>1. /\ Tail(s) \in Seq(S) /\ Len(Tail(s)) = Len(s) - 1 /\ Head(s) \in S
      /\ \A i \in 1 .. Len(Tail(s)) : Tail(s)[i] = s[i + 1]
  BY HeadTailProperties
<1>2. Len(s) \in Nat /\ DOMAIN s = 1 .. Len(s) /\ Len(s) # 0 /\ Head(s) = s[1]
  BY EmptySeq, LenProperties
<1>3. DOMAIN Tail(s) = 1 .. Len(Tail(s))
  BY <1>1, LenProperties
<1>4. IsInjective(Tail(s))
  BY <1>1, <1>2, <1>3 DEF IsInjective
<1>5. ToSet(Tail(s)) = ToSet(s) \ {Head(s)}
  <2>1. ASSUME NEW x \in ToSet(Tail(s)) PROVE x \in ToSet(s) \ {Head(s)}
    BY <1>1, <1>2, <1>3 DEF ToSet, IsInjective
  <2>2. ASSUME NEW x \in ToSet(s) \ {Head(s)} PROVE x \in ToSet(Tail(s))
    <3>1. PICK i \in 1 .. Len(s) : x = s[i]
      BY <1>2 DEF ToSet
    <3>2. i # 1 /\ i - 1 \in 1 .. Len(Tail(s)) /\ Tail(s)[i - 1] = s[i]
      BY <1>1, <1>2, <3>1
    <3> QED BY <1>3, <3>1, <3>2 DEF ToSet
  <2> QED BY <2>1, <2>2
<1>6. Head(s) \in ToSet(s)
  BY <1>2 DEF ToSet
<1> QED BY <1>1, <1>4, <1>5, <1>6

LEMMA RemoveAtSet ==
  ASSUME NEW S, NEW s \in Seq(S), IsInjective(s), NEW i \in DOMAIN s
  PROVE  /\ RemoveAt(s, i) \in Seq(S) /\ IsInjective(RemoveAt(s, i))
         /\ ToSet(RemoveAt(s, i)) = ToSet(s) \ {s[i]}
         /\ s # <<>> /\ s[i] \in ToSet(s)
         /\ s[i] # Head(s) => RemoveAt(s, i) # <<>> /\ Head(RemoveAt(s, i)) = Head(s)
<1> DEFINE n == Len(s)
           t == RemoveAt(s, i)
<1>1. n \in Nat /\ DOMAIN s = 1 .. n /\ i \in 1 .. n /\ i \in Int
      /\ \A j \in 1 .. n : s[j] \in S
  BY LenProperties
<1>2. /\ SubSeq(s, 1, i - 1) \in Seq(S) /\ Len(SubSeq(s, 1, i - 1)) = i - 1
      /\ \A j \in 1 .. i - 1 : SubSeq(s, 1, i - 1)[j] = s[j]
  BY <1>1, SubSeqProperties
<1>3. /\ SubSeq(s, i + 1, n) \in Seq(S) /\ Len(SubSeq(s, i + 1, n)) = n - i
      /\ \A j \in 1 .. n - i : SubSeq(s, i + 1, n)[j] = s[j + i]
  BY <1>1, SubSeqProperties
<1>4. /\ t \in Seq(S) /\ Len(t) = n - 1
      /\ \A j \in 1 .. n - 1 : t[j] = IF j < i THEN s[j] ELSE s[j + 1]
  <2> DEFINE a == SubSeq(s, 1, i - 1)
             b == SubSeq(s, i + 1, n)
  <2>1. t = a \o b
    BY DEF RemoveAt
  <2>2. a \in Seq(S) /\ b \in Seq(S)
    BY <1>2, <1>3
  <2>3. /\ a \o b \in Seq(S) /\ Len(a \o b) = Len(a) + Len(b)
        /\ \A j \in 1 .. Len(a) + Len(b) : (a \o b)[j] = IF j <= Len(a) THEN a[j] ELSE b[j - Len(a)]
    BY <2>2, ConcatProperties
  <2>4. Len(a) = i - 1 /\ Len(b) = n - i /\ Len(a) + Len(b) = n - 1
    BY <1>1, <1>2, <1>3
  <2>6. /\ \A j \in 1 .. i - 1 : a[j] = s[j]
        /\ \A j \in 1 .. n - i : b[j] = s[j + i]
    BY <1>2, <1>3
  <2> HIDE DEF a, b, t
  <2>5. ASSUME NEW j \in 1 .. n - 1 PROVE t[j] = IF j < i THEN s[j] ELSE s[j + 1]
    <3>1. CASE j < i
      <4>1. j \in 1 .. i - 1 /\ j <= Len(a)
        BY <1>1, <2>4, <3>1
      <4>2. t[j] = a[j]
        BY <2>1, <2>3, <2>4, <4>1
      <4> QED BY <2>6, <3>1, <4>1, <4>2
    <3>2. CASE ~(j < i)
      <4>1. ~(j <= Len(a)) /\ j - Len(a) = j - i + 1 /\ j - i + 1 \in 1 .. n - i /\ (j - i + 1) + i = j + 1
        BY <1>1, <2>4, <3>2
      <4>2. t[j] = b[j - i + 1]
        BY <2>1, <2>3, <2>4, <4>1
      <4>3. b[j - i + 1] = s[(j - i + 1) + i]
        BY <2>6, <4>1
      <4> QED BY <3>2, <4>1, <4>2, <4>3
    <3> QED BY <3>1, <3>2
  <2> QED BY <2>1, <2>3, <2>4, <2>5
<1>5. DOMAIN t = 1 .. n - 1
  BY <1>4, LenProperties
<1> HIDE DEF t
<1>6. IsInjective(t)
  BY <1>1, <1>4, <1>5 DEF IsInjective
<1>7. ToSet(t) = ToSet(s) \ {s[i]}
  <2>1. ASSUME NEW x \in ToSet(t) PROVE x \in ToSet(s) \ {s[i]}
    <3>1. PICK j \in 1 .. n - 1 : x = t[j]
      BY <1>5 DEF ToSet
    <3>2. PICK k \in 1 .. n : k # i /\ x = s[k]
      <4>1. CASE j < i
        BY <1>1, <1>4, <3>1, <4>1
      <4>2. CASE ~(j < i)
        <5>1. j + 1 \in 1 .. n /\ j + 1 # i /\ x = s[j + 1]
          BY <1>1, <1>4, <3>1, <4>2
        <5> QED BY <5>1
      <4> QED BY <4>1, <4>2
    <3> QED BY <1>1, <3>2 DEF ToSet, IsInjective
  <2>2. ASSUME NEW x \in ToSet(s) \ {s[i]} PROVE x \in ToSet(t)
    <3>1. PICK k \in 1 .. n : x = s[k] /\ k # i
      BY <1>1 DEF ToSet
    <3>2. PICK j \in 1 .. n - 1 : x = t[j]
      <4>1. CASE k < i
        BY <1>1, <1>4, <3>1, <4>1
      <4>2. CASE k > i
        <5>1. k - 1 \in 1 .. n - 1 /\ ~(k - 1 < i) /\ (k - 1) + 1 = k
          BY <1>1, <4>2
        <5> QED BY <1>4, <3>1, <5>1
      <4> QED BY <1>1, <3>1, <4>1, <4>2
    <3> QED BY <1>5, <3>2 DEF ToSet
  <2> QED BY <2>1, <2>2
<1>8. s # <<>> /\ s[i] \in ToSet(s) /\ Head(s) = s[1]
  BY <1>1 DEF ToSet
<1>9. ASSUME s[i] # Head(s) PROVE t # <<>> /\ Head(t) = Head(s)
  <2>1. i > 1 /\ n - 1 >= 1
    BY <1>1, <1>8, <1>9
  <2>2. t[1] = s[1] /\ t # <<>>
    BY <1>1, <1>4, <2>1, EmptySeq
  <2> QED BY <1>8, <2>2
<1> QED BY <1>4, <1>6, <1>7, <1>8, <1>9 DEF t

LEMMA LinkSet ==
  ASSUME NEW S, NEW s \in Seq(S), s # <<>>, IsInjective(s), NEW e \in S, e \notin ToSet(s)
  PROVE  LET t == <<Head(s), e>> \o Tail(s)
         IN  /\ t \in Seq(S) /\ IsInjective(t) /\ t # <<>>
             /\ ToSet(t) = ToSet(s) \cup {e} /\ Head(t) = Head(s)
<1> DEFINE h == <<Head(s), e>>
           t == h \o Tail(s)
           n == Len(s)
<1>1. /\ Head(s) \in S /\ Tail(s) \in Seq(S) /\ IsInjective(Tail(s))
      /\ ToSet(Tail(s)) = ToSet(s) \ {Head(s)} /\ Head(s) \in ToSet(s)
  BY TailSet
<1>2. Len(Tail(s)) = n - 1 /\ n \in Nat /\ n >= 1
  BY HeadTailProperties, LenProperties, EmptySeq
<1>3. h \in Seq(S) /\ Len(h) = 2 /\ h[1] = Head(s) /\ h[2] = e
  BY <1>1
<1> HIDE DEF h
<1>4. /\ t \in Seq(S) /\ Len(t) = n + 1
      /\ t[1] = Head(s) /\ t[2] = e
      /\ \A j \in 3 .. n + 1 : t[j] = Tail(s)[j - 2]
  <2>1. t \in Seq(S) /\ Len(t) = 2 + (n - 1)
        /\ \A j \in 1 .. 2 + (n - 1) : t[j] = IF j <= 2 THEN h[j] ELSE Tail(s)[j - 2]
    <3> DEFINE b == Tail(s)
    <3>1. b \in Seq(S) /\ Len(b) = n - 1
      BY <1>1, <1>2
    <3> HIDE DEF b
    <3>2. /\ h \o b \in Seq(S) /\ Len(h \o b) = Len(h) + Len(b)
          /\ \A j \in 1 .. Len(h) + Len(b) : (h \o b)[j] = IF j <= Len(h) THEN h[j] ELSE b[j - Len(h)]
      BY <1>3, <3>1, ConcatProperties
    <3> QED BY <1>3, <3>1, <3>2 DEF b
  <2> QED BY <1>2, <1>3, <2>1
<1> HIDE DEF t
<1>5. DOMAIN t = 1 .. n + 1 /\ DOMAIN Tail(s) = 1 .. n - 1
  BY <1>1, <1>2, <1>4, LenProperties
<1>6. \A j \in 3 .. n + 1 : j - 2 \in 1 .. n - 1 /\ t[j] \in ToSet(s) \ {Head(s)}
  <2> SUFFICES ASSUME NEW j \in 3 .. n + 1
               PROVE  j - 2 \in 1 .. n - 1 /\ t[j] \in ToSet(s) \ {Head(s)}
    OBVIOUS
  <2>1. j - 2 \in 1 .. n - 1 /\ t[j] = Tail(s)[j - 2]
    BY <1>2, <1>4
  <2>2. Tail(s)[j - 2] \in ToSet(Tail(s))
    BY <1>5, <2>1 DEF ToSet
  <2> QED BY <1>1, <2>1, <2>2
<1>7. IsInjective(t)
  <2> SUFFICES ASSUME NEW a \in 1 .. n + 1, NEW b \in 1 .. n + 1, t[a] = t[b] PROVE a = b
    BY <1>5 DEF IsInjective
  <2>1. CASE a \in 3 .. n + 1 /\ b \in 3 .. n + 1
    BY <1>1, <1>2, <1>4, <1>5, <1>6, <2>1 DEF IsInjective
  <2>2. CASE a \in 1 .. 2 \/ b \in 1 .. 2
    BY <1>1, <1>2, <1>4, <1>6, <2>2
  <2> QED BY <1>2, <2>1, <2>2
<1>8. ToSet(t) = ToSet(s) \cup {e}
  <2>1. ASSUME NEW x \in ToSet(t) PROVE x \in ToSet(s) \cup {e}
    <3>1. PICK j \in 1 .. n + 1 : x = t[j]
      BY <1>5 DEF ToSet
    <3>2. CASE j \in 3 .. n + 1
      BY <1>6, <3>1, <3>2
    <3>3. CASE j \in 1 .. 2
      BY <1>1, <1>4, <3>1, <3>3
    <3> QED BY <1>2, <3>2, <3>3
  <2>2. ASSUME NEW x \in ToSet(s) \ {Head(s)} PROVE x \in ToSet(t)
    <3>1. PICK k \in 1 .. n - 1 : x = Tail(s)[k]
      BY <1>1, <1>5 DEF ToSet
    <3>2. k + 2 \in 3 .. n + 1 /\ t[k + 2] = x
      BY <1>2, <1>4, <3>1
    <3> QED BY <1>2, <1>5, <3>2 DEF ToSet
  <2>3. e \in ToSet(t) /\ Head(s) \in ToSet(t)
    BY <1>2, <1>4, <1>5 DEF ToSet
  <2> QED BY <1>1, <2>1, <2>2, <2>3
<1>9. t # <<>> /\ Head(t) = t[1]
  BY <1>2, <1>4, EmptySeq
<1> QED BY <1>4, <1>7, <1>8, <1>9 DEF t, h

LEMMA OnePage ==
  ASSUME NEW p, NEW o \in ObjectsOf(p)
  PROVE  o \in Objects /\ PageOf(o) = p /\ \A q : o \in ObjectsOf(q) => q = p
  BY DEF ObjectsOf

LEMMA FirstSlab ==
  ASSUME TypeOK, RingsMatch, m_vacant # <<>>
  PROVE  /\ First \in Pages /\ First \in ToSet(m_vacant) /\ First \in SlabPages \ Away
         /\ Tail(m_vacant) \in Seq(Pages) /\ IsInjective(Tail(m_vacant))
         /\ ToSet(Tail(m_vacant)) = ToSet(m_vacant) \ {First}
<1>1. m_vacant \in Seq(Pages) /\ IsInjective(m_vacant)
  BY DEF TypeOK, RingsMatch
<1> QED BY <1>1, TailSet DEF RingsMatch, First

LEMMA RoomOf ==
  ASSUME NEW p, NEW o \in Room(p)
  PROVE  o \in Objects \ used /\ o \in ObjectsOf(p)
  BY DEF Room, ObjectsOf

LEMMA Grows ==
  ASSUME NEW p, NEW o \in ObjectsOf(p), used' = used \cup {o}
  PROVE  /\ \A q : q # p => Room(q)' = Room(q) /\ Empty(q)' = Empty(q)
         /\ Room(p)' = Room(p) \ {o} /\ ~Empty(p)'
<1>1. ASSUME NEW q, q # p PROVE o \notin ObjectsOf(q)
  BY <1>1, OnePage
<1>2. ASSUME NEW q, q # p PROVE Room(q)' = Room(q) /\ Empty(q)' = Empty(q)
  BY <1>1, <1>2 DEF Room, Empty, ObjectsOf
<1>3. Room(p)' = Room(p) \ {o} /\ ~Empty(p)'
  BY DEF Room, Empty, ObjectsOf
<1> QED BY <1>2, <1>3

LEMMA Shrinks ==
  ASSUME NEW p, NEW S, used' = used \ (ObjectsOf(p) \ S)
  PROVE  \A q : q # p => Room(q)' = Room(q) /\ Empty(q)' = Empty(q)
<1> SUFFICES ASSUME NEW q, q # p PROVE Room(q)' = Room(q) /\ Empty(q)' = Empty(q)
  OBVIOUS
<1>1. ObjectsOf(q) \cap ObjectsOf(p) = {} /\ ObjectsOf(q)' = ObjectsOf(q)
  BY OnePage DEF ObjectsOf
<1> QED BY <1>1 DEF Room, Empty

EmptyOf(T) == {p \in T : Empty(p)}

LEMMA PagesFinite ==
  /\ IsFiniteSet(Pages) /\ Cardinality(Pages) = Capacity
  /\ \A T \in SUBSET Pages : IsFiniteSet(EmptyOf(T)) /\ Cardinality(EmptyOf(T)) \in Nat
<1>1. IsFiniteSet(Pages) /\ Cardinality(Pages) = Capacity
  BY FS_Interval, CapacityAssumption DEF Pages
<1>2. ASSUME NEW T \in SUBSET Pages PROVE IsFiniteSet(EmptyOf(T)) /\ Cardinality(EmptyOf(T)) \in Nat
  <2>1. EmptyOf(T) \in SUBSET Pages
    BY DEF EmptyOf
  <2> QED BY <1>1, <2>1, FS_Subset, FS_CardinalityType
<1> QED BY <1>1, <1>2

LEMMA Usage == m_pool_usage \in 0 .. Capacity
<1>1. {p \in Pages : m_pool[p] # "free"} \in SUBSET Pages
  OBVIOUS
<1> QED BY <1>1, PagesFinite, FS_Subset, FS_CardinalityType, CapacityAssumption
   DEF m_pool_usage

LEMMA FewerEmpty ==
  ASSUME NEW T \in SUBSET Pages, NEW U \in SUBSET T
  PROVE  Cardinality(EmptyOf(U)) <= Cardinality(EmptyOf(T))
<1>1. EmptyOf(U) \in SUBSET EmptyOf(T)
  BY DEF EmptyOf
<1> QED BY <1>1, PagesFinite, FS_Subset

LEMMA WithoutOne ==
  ASSUME NEW T \in SUBSET Pages, NEW p
  PROVE  Cardinality(EmptyOf(T \ {p})) =
           IF p \in T /\ Empty(p) THEN Cardinality(EmptyOf(T)) - 1 ELSE Cardinality(EmptyOf(T))
<1>1. EmptyOf(T \ {p}) = EmptyOf(T) \ {p}
  BY DEF EmptyOf
<1>2. p \in EmptyOf(T) <=> p \in T /\ Empty(p)
  BY DEF EmptyOf
<1> QED BY <1>1, <1>2, PagesFinite, FS_RemoveElement

LEMMA WithOne ==
  ASSUME NEW T \in SUBSET Pages, NEW p \in Pages \ T
  PROVE  Cardinality(EmptyOf(T \cup {p})) =
           IF Empty(p) THEN Cardinality(EmptyOf(T)) + 1 ELSE Cardinality(EmptyOf(T))
<1>1. EmptyOf(T \cup {p}) = IF Empty(p) THEN EmptyOf(T) \cup {p} ELSE EmptyOf(T)
  BY DEF EmptyOf
<1>2. p \notin EmptyOf(T)
  BY DEF EmptyOf
<1> QED BY <1>1, <1>2, PagesFinite, FS_AddElement

(* What is counted, as a set: the ring without its first.                  *)
Rest == ToSet(m_vacant) \ {First}
Counted == m_vacant # <<>> => m_cache_count >= Cardinality(EmptyOf(Rest))

LEMMA RestOfRing ==
  ASSUME TypeOK, RingsMatch
  PROVE  /\ EmptiesCounted <=> Counted
         /\ ToSet(m_vacant) \in SUBSET Pages /\ Rest \in SUBSET Pages
         /\ m_vacant = <<>> <=> ToSet(m_vacant) = {}
<1>1. ASSUME m_vacant # <<>> PROVE {p \in ToSet(Tail(m_vacant)) : Empty(p)} = EmptyOf(Rest)
  BY <1>1, FirstSlab DEF EmptyOf, Rest
<1>2. m_vacant \in Seq(Pages)
  BY DEF TypeOK
<1>3. ToSet(m_vacant) \in SUBSET Pages
  BY <1>2, LenProperties DEF ToSet
<1>4. m_vacant = <<>> => ToSet(m_vacant) = {}
  BY DEF ToSet
<1> QED BY <1>1, <1>3, <1>4, FirstSlab DEF Rest, EmptiesCounted, Counted

RingShape(v) == v \in Seq(Pages) /\ IsInjective(v)
CountedIn(v, n) == v # <<>> => n >= Cardinality(EmptyOf(ToSet(v) \ {Head(v)}))

LEMMA UnloadRing ==
  ASSUME TypeOK, RingsMatch, EmptiesCounted, m_vacant # <<>>, UnloadFilled
  PROVE  /\ RingShape(m_vacant') /\ ToSet(m_vacant') = ToSet(m_vacant) \ {First}
         /\ m_occupied' = m_occupied \cup {First}
         /\ m_cache_count' \in Nat /\ CountedIn(m_vacant', m_cache_count')
<1> DEFINE v == Tail(m_vacant)
<1>1. RingShape(v) /\ ToSet(v) = Rest /\ m_vacant' = v
  BY FirstSlab DEF RingShape, Rest, UnloadFilled
<1>2. m_cache_count \in Nat /\ m_cache_count >= Cardinality(EmptyOf(Rest)) /\ Rest \in SUBSET Pages
  BY RestOfRing DEF Counted, TypeOK
<1> HIDE DEF v
<1>3. CASE v = <<>>
  BY <1>1, <1>2, <1>3 DEF UnloadFilled, Rest, CountedIn, v
<1>4. CASE v # <<>>
  <2>1. Head(v) \in Rest
    BY <1>1, <1>4, TailSet DEF RingShape
  <2>2. Cardinality(EmptyOf(Rest \ {Head(v)})) =
          IF Empty(Head(v)) THEN Cardinality(EmptyOf(Rest)) - 1 ELSE Cardinality(EmptyOf(Rest))
    BY <1>2, <2>1, WithoutOne
  <2>3. Cardinality(EmptyOf(Rest)) \in Nat /\ Cardinality(EmptyOf(Rest \ {Head(v)})) \in Nat
    BY <1>2, PagesFinite
  <2>4. m_cache_count' = IF Empty(Head(v)) THEN m_cache_count - 1 ELSE m_cache_count
    BY <1>4 DEF UnloadFilled, v
  <2>5. m_cache_count' \in Nat /\ m_cache_count' >= Cardinality(EmptyOf(Rest \ {Head(v)}))
    BY <1>2, <2>2, <2>3, <2>4
  <2> QED BY <1>1, <2>5 DEF CountedIn, UnloadFilled, Rest
<1> QED BY <1>3, <1>4

LEMMA FullNotEmpty ==
  ASSUME NEW p \in Pages, Room(p) = {}
  PROVE  ~Empty(p)
  BY SlabObjects DEF Room, Empty

LEMMA UnlinkRing ==
  ASSUME TypeOK, RingsMatch, EmptiesCounted, Unlink, page \in SlabPages \ Away
  PROVE  /\ RingShape(m_vacant') /\ ToSet(m_vacant') = ToSet(m_vacant) \ {page}
         /\ m_occupied' = m_occupied \ {page}
         /\ page \notin ToSet(m_vacant) => m_vacant' = m_vacant
         /\ m_vacant # <<>> /\ page # First => m_vacant' # <<>> /\ First' = First
         /\ m_cache_count' \in Nat /\ CountedIn(m_vacant', m_cache_count')
<1> DEFINE Removed(v) == /\ RingShape(v) /\ ToSet(v) = ToSet(m_vacant) \ {page}
                         /\ page \notin ToSet(m_vacant) => v = m_vacant
                         /\ m_vacant # <<>> /\ page # First => v # <<>> /\ Head(v) = First
<1>0. m_vacant \in Seq(Pages) /\ IsInjective(m_vacant)
  BY DEF TypeOK, RingsMatch
<1>1. Removed(m_vacant')
  <2>1. CASE page \notin ToSet(m_vacant) /\ UNCHANGED m_vacant
    BY <1>0, <2>1 DEF RingShape, First
  <2>2. ASSUME NEW i \in DOMAIN m_vacant, m_vacant[i] = page, m_vacant' = RemoveAt(m_vacant, i)
        PROVE  Removed(m_vacant')
    BY <1>0, <2>2, RemoveAtSet DEF RingShape, First
  <2> QED BY <2>1, <2>2 DEF Unlink
<1> HIDE DEF Removed
<1>2. m_cache_count \in Nat /\ Counted /\ Rest \in SUBSET Pages
      /\ Cardinality(EmptyOf(Rest)) \in Nat
  BY RestOfRing, PagesFinite DEF TypeOK
<1>3. m_cache_count' = IF Empty(page) /\ page # First THEN m_cache_count - 1 ELSE m_cache_count
  BY DEF Unlink
<1>4. m_cache_count' \in Nat /\ CountedIn(m_vacant', m_cache_count')
  <2>1. CASE m_vacant = <<>>
    <3>1. page \in m_occupied /\ page \in Pages
      BY <2>1, RestOfRing DEF RingsMatch, SlabPages
    <3>2. ~Empty(page)
      BY <3>1, FullNotEmpty DEF RingsMatch
    <3>3. m_vacant' = <<>>
      BY <1>1, <2>1 DEF Removed, ToSet
    <3> QED BY <1>2, <1>3, <3>2, <3>3 DEF CountedIn
  <2>2. CASE m_vacant # <<>> /\ page = First
    <3>1. ToSet(m_vacant') = Rest /\ Rest \ {Head(m_vacant')} \in SUBSET Rest
      BY <1>1, <2>2 DEF Removed, Rest
    <3>2. Cardinality(EmptyOf(Rest \ {Head(m_vacant')})) <= Cardinality(EmptyOf(Rest))
      BY <1>2, <3>1, FewerEmpty
    <3>3. Cardinality(EmptyOf(Rest \ {Head(m_vacant')})) \in Nat
      BY <1>2, PagesFinite
    <3>4. m_cache_count' = m_cache_count /\ m_cache_count >= Cardinality(EmptyOf(Rest))
      BY <1>2, <1>3, <2>2 DEF Counted
    <3> QED BY <1>2, <3>1, <3>2, <3>3, <3>4 DEF CountedIn
  <2>3. CASE m_vacant # <<>> /\ page # First
    <3>1. ToSet(m_vacant') \ {Head(m_vacant')} = Rest \ {page}
      BY <1>1, <2>3 DEF Removed, Rest
    <3>2. Cardinality(EmptyOf(Rest \ {page})) =
            IF page \in Rest /\ Empty(page) THEN Cardinality(EmptyOf(Rest)) - 1 ELSE Cardinality(EmptyOf(Rest))
      BY <1>2, WithoutOne
    <3>3. Cardinality(EmptyOf(Rest \ {page})) \in Nat
      BY <1>2, PagesFinite
    <3>4. Empty(page) => page \in Rest
      <4>1. page \in Pages /\ (page \in ToSet(m_vacant) \/ page \in m_occupied)
        BY DEF RingsMatch, SlabPages
      <4>2. page \in m_occupied => ~Empty(page)
        BY <4>1, FullNotEmpty DEF RingsMatch
      <4> QED BY <2>3, <4>1, <4>2 DEF Rest
    <3>5. m_cache_count >= Cardinality(EmptyOf(Rest))
      BY <1>2, <2>3 DEF Counted
    <3>6. m_cache_count' \in Nat /\ m_cache_count' >= Cardinality(EmptyOf(Rest \ {page}))
      BY <1>2, <1>3, <2>3, <3>2, <3>3, <3>4, <3>5
    <3> QED BY <3>1, <3>6 DEF CountedIn
  <2> QED BY <2>1, <2>2, <2>3
<1> QED BY <1>1, <1>4 DEF Removed, Unlink, First

LEMMA LinkRing ==
  ASSUME TypeOK, RingsMatch, EmptiesCounted, Link, page \in Pages \ ToSet(m_vacant)
  PROVE  /\ RingShape(m_vacant')
         /\ ToSet(m_vacant') = IF Room(page) = {} THEN ToSet(m_vacant) ELSE ToSet(m_vacant) \cup {page}
         /\ m_occupied' = IF Room(page) = {} THEN m_occupied \cup {page} ELSE m_occupied
         /\ m_vacant # <<>> => m_vacant' # <<>> /\ First' = First
         /\ m_cache_count' \in Nat /\ CountedIn(m_vacant', m_cache_count')
<1>0. m_vacant \in Seq(Pages) /\ IsInjective(m_vacant)
  BY DEF TypeOK, RingsMatch
<1>1. m_cache_count \in Nat /\ Counted /\ Rest \in SUBSET Pages
      /\ Cardinality(EmptyOf(Rest)) \in Nat
  BY RestOfRing, PagesFinite DEF TypeOK
<1>2. CASE Room(page) = {}
  BY <1>0, <1>1, <1>2 DEF Link, RingShape, CountedIn, Counted, Rest, First
<1>3. CASE Room(page) # {} /\ m_vacant = <<>>
  <2>1. m_vacant' = <<page>> /\ m_cache_count' = m_cache_count /\ m_occupied' = m_occupied
    BY <1>3 DEF Link
  <2>2. RingShape(<<page>>) /\ ToSet(<<page>>) = {page} /\ Head(<<page>>) = page
    BY DEF RingShape, IsInjective, ToSet
  <2>3. EmptyOf({page} \ {page}) = {} /\ ToSet(m_vacant) = {}
    BY <1>3 DEF EmptyOf, ToSet
  <2>4. Cardinality(EmptyOf({page} \ {page})) = 0
    BY <2>3, FS_EmptySet
  <2>5. ToSet(<<page>>) \ {Head(<<page>>)} = {page} \ {page}
    BY <2>2
  <2>6. CountedIn(<<page>>, m_cache_count)
    BY <1>1, <2>4, <2>5 DEF CountedIn
  <2> QED BY <1>1, <1>3, <2>1, <2>2, <2>3, <2>6
<1>4. CASE Room(page) # {} /\ m_vacant # <<>>
  <2>1. /\ m_vacant' = <<First, page>> \o Tail(m_vacant) /\ m_occupied' = m_occupied
        /\ m_cache_count' = IF Empty(page) THEN m_cache_count + 1 ELSE m_cache_count
    BY <1>4 DEF Link
  <2>2. /\ RingShape(m_vacant') /\ m_vacant' # <<>> /\ Head(m_vacant') = First
        /\ ToSet(m_vacant') = ToSet(m_vacant) \cup {page}
    BY <1>0, <1>4, <2>1, LinkSet DEF RingShape, First
  <2>3. page \notin Rest /\ ToSet(m_vacant') \ {Head(m_vacant')} = Rest \cup {page}
    BY <1>4, <2>2, FirstSlab DEF Rest
  <2>4. Cardinality(EmptyOf(Rest \cup {page})) =
          IF Empty(page) THEN Cardinality(EmptyOf(Rest)) + 1 ELSE Cardinality(EmptyOf(Rest))
    BY <1>1, <2>3, WithOne
  <2>5. m_cache_count >= Cardinality(EmptyOf(Rest))
    BY <1>1, <1>4 DEF Counted
  <2>6. m_cache_count' \in Nat /\ m_cache_count' >= Cardinality(EmptyOf(Rest \cup {page}))
    BY <1>1, <2>1, <2>4, <2>5
  <2> QED BY <1>4, <2>1, <2>2, <2>3, <2>6 DEF CountedIn, First
<1> QED BY <1>2, <1>3, <1>4

LEMMA CountedNext ==
  ASSUME RingShape(m_vacant'), m_cache_count' \in Nat, CountedIn(m_vacant', m_cache_count'),
         \A p \in ToSet(m_vacant') : Empty(p)' => Empty(p)
  PROVE  EmptiesCounted'
<1> DEFINE v == m_vacant'
           T == ToSet(v) \ {Head(v)}
           U == {p \in ToSet(Tail(v)) : Empty(p)'}
<1> SUFFICES ASSUME v # <<>> PROVE m_cache_count' >= Cardinality(U)
  BY DEF EmptiesCounted
<1>1. v \in Seq(Pages) /\ IsInjective(v)
  BY DEF RingShape
<1>2. ToSet(Tail(v)) = T /\ ToSet(v) \in SUBSET Pages
  <2>1. ToSet(v) \in SUBSET Pages
    BY <1>1, LenProperties DEF ToSet
  <2> QED BY <1>1, <2>1, TailSet
<1>3. U \in SUBSET EmptyOf(T)
  BY <1>2 DEF EmptyOf
<1>4. Cardinality(U) <= Cardinality(EmptyOf(T)) /\ Cardinality(U) \in Nat /\ Cardinality(EmptyOf(T)) \in Nat
  BY <1>2, <1>3, PagesFinite, FS_Subset, FS_CardinalityType
<1>5. m_cache_count' >= Cardinality(EmptyOf(T))
  BY DEF CountedIn
<1> QED BY <1>4, <1>5

LEMMA CountedNow ==
  ASSUME TypeOK, RingsMatch, EmptiesCounted
  PROVE  RingShape(m_vacant) /\ CountedIn(m_vacant, m_cache_count)
<1>1. Counted
  BY RestOfRing
<1> QED BY <1>1 DEF Counted, CountedIn, Rest, First, RingShape, TypeOK, RingsMatch

------------------------------------------------------------------------------
(* The wavefront moves with the page of the sweep.                          *)
LEMMA WaveNext == ASSUME IInv, Next PROVE WaveShape'
<1>1. CASE ExtendPool
  BY <1>1, CapacityAssumption DEF ExtendPool, FreePages, IInv, TypeOK, WaveShape,
     AtPage, Pages, SlabPages, pool, objects, lists, sweepers, machine
<1>2. CASE TakePrivate
  BY <1>2, CapacityAssumption DEF TakePrivate, Allocate, FreePages, IInv, TypeOK,
     WaveShape, AtPage, Pages, SlabPages, pool, objects, lists, sweepers, machine
<1>3. CASE DropPrivate
  BY <1>3, CapacityAssumption DEF DropPrivate, Deallocate, IInv, TypeOK, WaveShape,
     AtPage, Pages, SlabPages, pool, objects, lists, sweepers, machine
<1>4. CASE AllocFast
  BY <1>4, CapacityAssumption DEF AllocFast, Create, Hold, Ahead, IInv, TypeOK,
     WaveShape, AtPage, Pages, SlabPages, pool, objects, lists, sweepers, machine
<1>5. CASE Unload
  BY <1>5, CapacityAssumption DEF Unload, UnloadFilled, IInv, TypeOK, WaveShape,
     AtPage, Pages, SlabPages, pool, objects, lists, sweepers, machine
<1>6. CASE AllocLocked
  BY <1>6, CapacityAssumption DEF AllocLocked, Create, Hold, BornMark,
     UnloadFilled, Ahead, IInv, TypeOK, WaveShape, AtPage, Pages, SlabPages, pool,
     objects, lists, sweepers, machine
<1>7. CASE TakeSlab
  BY <1>7, CapacityAssumption DEF TakeSlab, Allocate, FreePages, IInv, TypeOK,
     WaveShape, AtPage, Pages, SlabPages, pool, objects, lists, sweepers, machine
<1>8. CASE InitSlab
  BY <1>8, CapacityAssumption DEF InitSlab, Create, Hold, IInv, TypeOK, WaveShape,
     AtPage, Pages, SlabPages, pool, objects, lists, sweepers, machine
<1>9. CASE MarkBorn
  BY <1>9, CapacityAssumption DEF MarkBorn, BornMark, Ahead, IInv, TypeOK,
     WaveShape, AtPage, Pages, SlabPages, pool, objects, lists, sweepers, machine
<1>10. CASE Store
  BY <1>10, CapacityAssumption DEF Store, IInv, TypeOK, WaveShape, AtPage, Pages,
     SlabPages, pool, objects, lists, sweepers, machine
<1>11. CASE Load
  BY <1>11, CapacityAssumption DEF Load, Hold, IInv, TypeOK, WaveShape, AtPage,
     Pages, SlabPages, pool, objects, lists, sweepers, machine
<1>12. CASE Drop
  BY <1>12, CapacityAssumption DEF Drop, IInv, TypeOK, WaveShape, AtPage, Pages,
     SlabPages, pool, objects, lists, sweepers, machine
<1>13. CASE BeginSweep
  BY <1>13, CapacityAssumption DEF BeginSweep, Traced, IInv, TypeOK, WaveShape,
     AtPage, Pages, SlabPages, pool, objects, lists, sweepers, machine
<1>14. CASE Look
  BY <1>14, CapacityAssumption DEF Look, HasCache, m_pool_usage, IInv, TypeOK,
     WaveShape, AtPage, Pages, SlabPages, pool, objects, lists, sweepers, machine
<1>15. CASE SkipPages
  BY <1>15, CapacityAssumption DEF SkipPages, SlabsFrom, Advance, EndLoop,
     m_pool_usage, IInv, TypeOK, WaveShape, AtPage, Pages, SlabPages, pool,
     objects, lists, sweepers, machine
<1>16. CASE LookAgain
  BY <1>16, CapacityAssumption DEF LookAgain, IInv, TypeOK, WaveShape, AtPage,
     Pages, SlabPages, pool, objects, lists, sweepers, machine
<1>17. CASE KeepEmpty
  BY <1>17, CapacityAssumption DEF KeepEmpty, Advance, EndLoop, CacheLocked, IInv,
     TypeOK, WaveShape, AtPage, Pages, SlabPages, pool, objects, lists, sweepers,
     machine
<1>18. CASE Detach
  BY <1>18, CapacityAssumption DEF Detach, Unlink, CacheLocked, IInv, TypeOK,
     WaveShape, AtPage, Pages, SlabPages, pool, objects, lists, sweepers, machine
<1>19. CASE ReturnSlab
  BY <1>19, CapacityAssumption DEF ReturnSlab, Deallocate, Enough, IInv, TypeOK,
     WaveShape, AtPage, Pages, SlabPages, pool, objects, lists, sweepers, machine
<1>20. CASE PassReturned
  BY <1>20, CapacityAssumption DEF PassReturned, Advance, EndLoop, IInv, TypeOK,
     WaveShape, AtPage, Pages, SlabPages, pool, objects, lists, sweepers, machine
<1>21. CASE SweepSlab
  BY <1>21, CapacityAssumption DEF SweepSlab, Enough, IInv, TypeOK, WaveShape,
     AtPage, Pages, SlabPages, pool, objects, lists, sweepers, machine
<1>22. CASE Attach
  BY <1>22, CapacityAssumption DEF Attach, Link, EndLoop, CacheLocked, IInv,
     TypeOK, WaveShape, AtPage, Pages, SlabPages, pool, objects, lists, sweepers,
     machine
<1> QED BY <1>1, <1>2, <1>3, <1>4, <1>5, <1>6, <1>7, <1>8, <1>9, <1>10, <1>11,
       <1>12, <1>13, <1>14, <1>15, <1>16, <1>17, <1>18, <1>19, <1>20, <1>21,
       <1>22
     DEF Next, Machine, Sweep

(* A slab that is swept is one, and not the one the machine sets up.        *)
LEMMA SweepNext == ASSUME IInv, Next PROVE SweepShape'
<1>1. CASE ExtendPool
  BY <1>1, CapacityAssumption DEF ExtendPool, FreePages, IInv, TypeOK, WaveShape,
     AtPage, AllocShape, SweepShape, SlabPages, RingsMatch, Away, pool, objects,
     lists, sweepers, machine
<1>2. CASE TakePrivate
  BY <1>2, CapacityAssumption DEF TakePrivate, Allocate, FreePages, IInv, TypeOK,
     WaveShape, AtPage, AllocShape, SweepShape, SlabPages, RingsMatch, Away, pool,
     objects, lists, sweepers, machine
<1>3. CASE DropPrivate
  BY <1>3, CapacityAssumption DEF DropPrivate, Deallocate, IInv, TypeOK, WaveShape,
     AtPage, AllocShape, SweepShape, SlabPages, RingsMatch, Away, pool, objects,
     lists, sweepers, machine
<1>4. CASE AllocFast
  BY <1>4, CapacityAssumption DEF AllocFast, Create, Hold, Ahead, IInv, TypeOK,
     WaveShape, AtPage, AllocShape, SweepShape, SlabPages, RingsMatch, Away, pool,
     objects, lists, sweepers, machine
<1>5. CASE Unload
  BY <1>5, CapacityAssumption DEF Unload, UnloadFilled, IInv, TypeOK, WaveShape,
     AtPage, AllocShape, SweepShape, SlabPages, RingsMatch, Away, pool, objects,
     lists, sweepers, machine
<1>6. CASE AllocLocked
  BY <1>6, CapacityAssumption DEF AllocLocked, Create, Hold, BornMark,
     UnloadFilled, Ahead, IInv, TypeOK, WaveShape, AtPage, AllocShape, SweepShape,
     SlabPages, RingsMatch, Away, pool, objects, lists, sweepers, machine
<1>7. CASE TakeSlab
  BY <1>7, CapacityAssumption DEF TakeSlab, Allocate, FreePages, IInv, TypeOK,
     WaveShape, AtPage, AllocShape, SweepShape, SlabPages, RingsMatch, Away, pool,
     objects, lists, sweepers, machine
<1>8. CASE InitSlab
  BY <1>8, CapacityAssumption DEF InitSlab, Create, Hold, IInv, TypeOK, WaveShape,
     AtPage, AllocShape, SweepShape, SlabPages, RingsMatch, Away, pool, objects,
     lists, sweepers, machine
<1>9. CASE MarkBorn
  BY <1>9, CapacityAssumption DEF MarkBorn, BornMark, Ahead, IInv, TypeOK,
     WaveShape, AtPage, AllocShape, SweepShape, SlabPages, RingsMatch, Away, pool,
     objects, lists, sweepers, machine
<1>10. CASE Store
  BY <1>10, CapacityAssumption DEF Store, IInv, TypeOK, WaveShape, AtPage,
     AllocShape, SweepShape, SlabPages, RingsMatch, Away, pool, objects, lists,
     sweepers, machine
<1>11. CASE Load
  BY <1>11, CapacityAssumption DEF Load, Hold, IInv, TypeOK, WaveShape, AtPage,
     AllocShape, SweepShape, SlabPages, RingsMatch, Away, pool, objects, lists,
     sweepers, machine
<1>12. CASE Drop
  BY <1>12, CapacityAssumption DEF Drop, IInv, TypeOK, WaveShape, AtPage,
     AllocShape, SweepShape, SlabPages, RingsMatch, Away, pool, objects, lists,
     sweepers, machine
<1>13. CASE BeginSweep
  BY <1>13, CapacityAssumption DEF BeginSweep, Traced, IInv, TypeOK, WaveShape,
     AtPage, AllocShape, SweepShape, SlabPages, RingsMatch, Away, pool, objects,
     lists, sweepers, machine
<1>14. CASE Look
  BY <1>14, CapacityAssumption DEF Look, HasCache, m_pool_usage, IInv, TypeOK,
     WaveShape, AtPage, AllocShape, SweepShape, SlabPages, RingsMatch, Away, pool,
     objects, lists, sweepers, machine
<1>15. CASE SkipPages
  BY <1>15, CapacityAssumption DEF SkipPages, SlabsFrom, Advance, EndLoop,
     m_pool_usage, IInv, TypeOK, WaveShape, AtPage, AllocShape, SweepShape,
     SlabPages, RingsMatch, Away, pool, objects, lists, sweepers, machine
<1>16. CASE LookAgain
  BY <1>16, CapacityAssumption DEF LookAgain, IInv, TypeOK, WaveShape, AtPage,
     AllocShape, SweepShape, SlabPages, RingsMatch, Away, pool, objects, lists,
     sweepers, machine
<1>17. CASE KeepEmpty
  BY <1>17, CapacityAssumption DEF KeepEmpty, Advance, EndLoop, CacheLocked, IInv,
     TypeOK, WaveShape, AtPage, AllocShape, SweepShape, SlabPages, RingsMatch,
     Away, pool, objects, lists, sweepers, machine
<1>18. CASE Detach
  BY <1>18, CapacityAssumption DEF Detach, Unlink, CacheLocked, IInv, TypeOK,
     WaveShape, AtPage, AllocShape, SweepShape, SlabPages, RingsMatch, Away, pool,
     objects, lists, sweepers, machine
<1>19. CASE ReturnSlab
  BY <1>19, CapacityAssumption DEF ReturnSlab, Deallocate, Enough, IInv, TypeOK,
     WaveShape, AtPage, AllocShape, SweepShape, SlabPages, RingsMatch, Away, pool,
     objects, lists, sweepers, machine
<1>20. CASE PassReturned
  BY <1>20, CapacityAssumption DEF PassReturned, Advance, EndLoop, IInv, TypeOK,
     WaveShape, AtPage, AllocShape, SweepShape, SlabPages, RingsMatch, Away, pool,
     objects, lists, sweepers, machine
<1>21. CASE SweepSlab
  BY <1>21, CapacityAssumption DEF SweepSlab, Enough, IInv, TypeOK, WaveShape,
     AtPage, AllocShape, SweepShape, SlabPages, RingsMatch, Away, pool, objects,
     lists, sweepers, machine
<1>22. CASE Attach
  BY <1>22, CapacityAssumption DEF Attach, Link, EndLoop, CacheLocked, IInv,
     TypeOK, WaveShape, AtPage, AllocShape, SweepShape, SlabPages, RingsMatch,
     Away, pool, objects, lists, sweepers, machine
<1> QED BY <1>1, <1>2, <1>3, <1>4, <1>5, <1>6, <1>7, <1>8, <1>9, <1>10, <1>11,
       <1>12, <1>13, <1>14, <1>15, <1>16, <1>17, <1>18, <1>19, <1>20, <1>21,
       <1>22
     DEF Next, Machine, Sweep

(* Objects are in slabs, and slabs below the watermark.                     *)
LEMMA PoolNext == ASSUME IInv, Next PROVE PoolShape'
<1>1. CASE ExtendPool
  <2>1. \A p \in Pages : m_pool'[p] = m_pool[p] /\ (p >= m_pool_watermark' => p >= m_pool_watermark)
    BY <1>1 DEF ExtendPool, IInv, TypeOK, Pages
  <2>2. SlabPages' = SlabPages /\ used' = used
    BY <1>1 DEF ExtendPool, SlabPages, objects
  <2> QED BY <2>1, <2>2 DEF IInv, PoolShape, Empty, ObjectsOf
<1>2. CASE TakePrivate
  BY <1>2 DEF TakePrivate, Allocate, FreePages, IInv, TypeOK, AllocShape,
     SweepShape, PoolShape, RingsMatch, SlabPages, Empty, Room, First, pool,
     objects, lists, sweepers, machine
<1>3. CASE DropPrivate
  BY <1>3 DEF DropPrivate, Deallocate, IInv, TypeOK, AllocShape, SweepShape,
     PoolShape, RingsMatch, SlabPages, Empty, Room, First, pool, objects, lists,
     sweepers, machine
<1>4. CASE AllocFast
  <2>1. PICK o \in Room(First) : used' = used \cup {o}
    BY <1>4 DEF AllocFast, Create
  <2>2. First \in SlabPages /\ o \in ObjectsOf(First)
    BY <1>4, <2>1, FirstSlab, RoomOf DEF AllocFast, IInv
  <2>3. \A q : q # First => Empty(q)' = Empty(q)
    BY <2>1, <2>2, Grows
  <2> QED BY <1>4, <2>2, <2>3 DEF AllocFast, IInv, PoolShape, SlabPages, pool
<1>5. CASE Unload
  BY <1>5 DEF Unload, UnloadFilled, IInv, TypeOK, AllocShape, SweepShape,
     PoolShape, RingsMatch, SlabPages, Empty, Room, First, pool, objects, lists,
     sweepers, machine
<1>6. CASE AllocLocked
  <2>1. PICK o \in Room(First) : used' = used \cup {o}
    BY <1>6 DEF AllocLocked, Create
  <2>2. First \in SlabPages /\ o \in ObjectsOf(First)
    BY <1>6, <2>1, FirstSlab, RoomOf DEF AllocLocked, IInv
  <2>3. \A q : q # First => Empty(q)' = Empty(q)
    BY <2>1, <2>2, Grows
  <2> QED BY <1>6, <2>2, <2>3 DEF AllocLocked, IInv, PoolShape, SlabPages, pool
<1>7. CASE TakeSlab
  BY <1>7 DEF TakeSlab, Allocate, FreePages, IInv, TypeOK, AllocShape, SweepShape,
     PoolShape, RingsMatch, SlabPages, Empty, Room, First, pool, objects, lists,
     sweepers, machine
<1>8. CASE InitSlab
  <2>1. taken \in SlabPages /\ taken * Slots \in ObjectsOf(taken)
    BY <1>8, SlabObjects DEF InitSlab, IInv, AllocShape, SlabPages
  <2>2. \A q : q # taken => Empty(q)' = Empty(q)
    BY <1>8, <2>1, Grows DEF InitSlab, Create
  <2> QED BY <1>8, <2>1, <2>2 DEF InitSlab, IInv, PoolShape, SlabPages, pool
<1>9. CASE MarkBorn
  BY <1>9 DEF MarkBorn, BornMark, Ahead, IInv, TypeOK, AllocShape, SweepShape,
     PoolShape, RingsMatch, SlabPages, Empty, Room, First, pool, objects, lists,
     sweepers, machine
<1>10. CASE Store
  BY <1>10 DEF Store, IInv, TypeOK, AllocShape, SweepShape, PoolShape, RingsMatch,
     SlabPages, Empty, Room, First, pool, objects, lists, sweepers, machine
<1>11. CASE Load
  BY <1>11 DEF Load, Hold, IInv, TypeOK, AllocShape, SweepShape, PoolShape,
     RingsMatch, SlabPages, Empty, Room, First, pool, objects, lists, sweepers,
     machine
<1>12. CASE Drop
  BY <1>12 DEF Drop, IInv, TypeOK, AllocShape, SweepShape, PoolShape, RingsMatch,
     SlabPages, Empty, Room, First, pool, objects, lists, sweepers, machine
<1>13. CASE BeginSweep
  BY <1>13 DEF BeginSweep, Traced, IInv, TypeOK, AllocShape, SweepShape, PoolShape,
     RingsMatch, SlabPages, Empty, Room, First, pool, objects, lists, sweepers,
     machine
<1>14. CASE Look
  BY <1>14 DEF Look, HasCache, m_pool_usage, IInv, TypeOK, AllocShape, SweepShape,
     PoolShape, RingsMatch, SlabPages, Empty, Room, First, pool, objects, lists,
     sweepers, machine
<1>15. CASE SkipPages
  BY <1>15 DEF SkipPages, SlabsFrom, Advance, EndLoop, m_pool_usage, IInv, TypeOK,
     AllocShape, SweepShape, PoolShape, RingsMatch, SlabPages, Empty, Room, First,
     pool, objects, lists, sweepers, machine
<1>16. CASE LookAgain
  BY <1>16 DEF LookAgain, IInv, TypeOK, AllocShape, SweepShape, PoolShape,
     RingsMatch, SlabPages, Empty, Room, First, pool, objects, lists, sweepers,
     machine
<1>17. CASE KeepEmpty
  BY <1>17 DEF KeepEmpty, Advance, EndLoop, CacheLocked, IInv, TypeOK, AllocShape,
     SweepShape, PoolShape, RingsMatch, SlabPages, Empty, Room, First, pool,
     objects, lists, sweepers, machine
<1>18. CASE Detach
  BY <1>18 DEF Detach, Unlink, CacheLocked, IInv, TypeOK, AllocShape, SweepShape,
     PoolShape, RingsMatch, SlabPages, Empty, Room, First, pool, objects, lists,
     sweepers, machine
<1>19. CASE ReturnSlab
  BY <1>19 DEF ReturnSlab, Deallocate, Enough, IInv, TypeOK, AllocShape,
     SweepShape, PoolShape, RingsMatch, SlabPages, Empty, Room, First, pool,
     objects, lists, sweepers, machine
<1>20. CASE PassReturned
  BY <1>20 DEF PassReturned, Advance, EndLoop, IInv, TypeOK, AllocShape,
     SweepShape, PoolShape, RingsMatch, SlabPages, Empty, Room, First, pool,
     objects, lists, sweepers, machine
<1>21. CASE SweepSlab
  BY <1>21 DEF SweepSlab, Enough, IInv, TypeOK, AllocShape, SweepShape, PoolShape,
     RingsMatch, SlabPages, Empty, Room, First, pool, objects, lists, sweepers,
     machine
<1>22. CASE Attach
  BY <1>22 DEF Attach, Link, EndLoop, CacheLocked, IInv, TypeOK, AllocShape,
     SweepShape, PoolShape, RingsMatch, SlabPages, Empty, Room, First, pool,
     objects, lists, sweepers, machine
<1> QED BY <1>1, <1>2, <1>3, <1>4, <1>5, <1>6, <1>7, <1>8, <1>9, <1>10, <1>11,
       <1>12, <1>13, <1>14, <1>15, <1>16, <1>17, <1>18, <1>19, <1>20, <1>21,
       <1>22
     DEF Next, Machine, Sweep

(* What the machine works on stays as it was while the sweep goes on.       *)
LEMMA AllocNext == ASSUME IInv, Next PROVE AllocShape'
<1>1. CASE ExtendPool
  BY <1>1, CapacityAssumption DEF ExtendPool, FreePages, IInv, TypeOK, WaveShape,
     AllocShape, SweepShape, RingsMatch, Away, SlabPages, First, Ahead, AtPage,
     Room, Empty, ObjectsOf, TypeOK, pool, objects, lists, sweepers, machine
<1>2. CASE TakePrivate
  BY <1>2, CapacityAssumption DEF TakePrivate, Allocate, FreePages, IInv, TypeOK,
     WaveShape, AllocShape, SweepShape, RingsMatch, Away, SlabPages, First, Ahead,
     AtPage, Room, Empty, ObjectsOf, TypeOK, pool, objects, lists, sweepers, machine
<1>3. CASE DropPrivate
  BY <1>3, CapacityAssumption DEF DropPrivate, Deallocate, IInv, TypeOK, WaveShape,
     AllocShape, SweepShape, RingsMatch, Away, SlabPages, First, Ahead, AtPage,
     Room, Empty, ObjectsOf, TypeOK, pool, objects, lists, sweepers, machine
<1>4. CASE AllocFast
  <2>0. PICK f \in Pages : f = First
    BY <1>4, FirstSlab DEF AllocFast, IInv
  <2>1. PICK o \in Room(f) : used' = used \cup {o} /\ o \in Objects
    BY <1>4, <2>0, RoomOf DEF AllocFast, Create
  <2>2. f \in ToSet(m_vacant) /\ f \in SlabPages \ Away /\ o \in ObjectsOf(f)
    BY <1>4, <2>0, <2>1, FirstSlab, RoomOf DEF AllocFast, IInv
  <2>3. /\ \A q : q # f => Room(q)' = Room(q) /\ Empty(q)' = Empty(q)
        /\ Room(f)' = Room(f) \ {o} /\ ~Empty(f)'
    BY <2>1, <2>2, Grows

  <2>4. m_vacant' = m_vacant /\ First' = f /\ SlabPages' = SlabPages /\ m_sweep_wavefront' = m_sweep_wavefront
        /\ mpc = "run" /\ ~Ahead(f)
    BY <1>4, <2>0 DEF AllocFast, SlabPages, First, pool, lists, sweepers
  <2>5. CASE Room(f) = {o}
    <3>1. mpc' = "unload" /\ taken' = f
      BY <1>4, <2>0, <2>1, <2>5 DEF AllocFast, Create
    <3>2. Room(f)' = {}
      BY <2>3, <2>5
    <3> QED BY <1>4, <2>0, <2>2, <2>4, <3>1, <3>2 DEF AllocFast, AllocShape, Ahead,
       Room
  <2>6. CASE Room(f) # {o}
    <3>1. mpc' = "run" /\ taken' = None
      BY <1>4, <2>0, <2>1, <2>6, RoomOf DEF AllocFast, Create, IInv, AllocShape
    <3> QED BY <3>1 DEF AllocShape
  <2> QED BY <2>5, <2>6
<1>5. CASE Unload
  BY <1>5, CapacityAssumption DEF Unload, UnloadFilled, IInv, TypeOK, WaveShape,
     AllocShape, SweepShape, RingsMatch, Away, SlabPages, First, Ahead, AtPage,
     Room, Empty, ObjectsOf, TypeOK, pool, objects, lists, sweepers, machine
<1>6. CASE AllocLocked
  BY <1>6, CapacityAssumption DEF AllocLocked, Create, Hold, BornMark,
     UnloadFilled, Ahead, IInv, TypeOK, WaveShape, AllocShape, SweepShape,
     RingsMatch, Away, SlabPages, First, Ahead, AtPage, Room, Empty, ObjectsOf,
     TypeOK, pool, objects, lists, sweepers, machine
<1>7. CASE TakeSlab
  <2>1. PICK p \in FreePages : m_pool' = [m_pool EXCEPT ![p] = "slab"] /\ taken' = p
    BY <1>7 DEF TakeSlab, Allocate
  <2>2. p \in Pages \ SlabPages
    BY <2>1, CapacityAssumption DEF FreePages, SlabPages, IInv, TypeOK, Pages
  <2>3. Empty(p) /\ Empty(p)' = Empty(p) /\ p \in SlabPages'
    BY <1>7, <2>1, <2>2 DEF TakeSlab, IInv, PoolShape, SlabPages, TypeOK, Empty,
       objects
  <2> QED BY <1>7, <2>1, <2>3 DEF TakeSlab, AllocShape, lists
<1>8. CASE InitSlab
  <2>0. PICK p \in Pages : p = taken
    BY <1>8 DEF InitSlab, IInv, AllocShape, SlabPages
  <2>1. p * Slots \in ObjectsOf(p) /\ ObjectsOf(p) \cap used = {} /\ ObjectsOf(p)' = ObjectsOf(p)
    BY <1>8, <2>0, SlabObjects DEF InitSlab, IInv, AllocShape, Empty, ObjectsOf
  <2>2. used' = used \cup {p * Slots} /\ mpc' = "born" /\ taken' = p /\ m_vacant' = <<p>> /\ SlabPages' = SlabPages
    BY <1>8, <2>0 DEF InitSlab, Create, SlabPages, pool
  <2>3. p \in SlabPages
    BY <1>8, <2>0 DEF InitSlab, IInv, AllocShape
  <2>4. ObjectsOf(p)' \cap used' = {p * Slots}
    BY <2>1, <2>2
  <2> QED BY <2>2, <2>3, <2>4 DEF AllocShape
<1>9. CASE MarkBorn
  BY <1>9, CapacityAssumption DEF MarkBorn, BornMark, Ahead, IInv, TypeOK,
     WaveShape, AllocShape, SweepShape, RingsMatch, Away, SlabPages, First, Ahead,
     AtPage, Room, Empty, ObjectsOf, TypeOK, pool, objects, lists, sweepers, machine
<1>10. CASE Store
  BY <1>10, CapacityAssumption DEF Store, IInv, TypeOK, WaveShape, AllocShape,
     SweepShape, RingsMatch, Away, SlabPages, First, Ahead, AtPage, Room, Empty,
     ObjectsOf, TypeOK, pool, objects, lists, sweepers, machine
<1>11. CASE Load
  BY <1>11, CapacityAssumption DEF Load, Hold, IInv, TypeOK, WaveShape, AllocShape,
     SweepShape, RingsMatch, Away, SlabPages, First, Ahead, AtPage, Room, Empty,
     ObjectsOf, TypeOK, pool, objects, lists, sweepers, machine
<1>12. CASE Drop
  BY <1>12, CapacityAssumption DEF Drop, IInv, TypeOK, WaveShape, AllocShape,
     SweepShape, RingsMatch, Away, SlabPages, First, Ahead, AtPage, Room, Empty,
     ObjectsOf, TypeOK, pool, objects, lists, sweepers, machine
<1>13. CASE BeginSweep
  BY <1>13, CapacityAssumption DEF BeginSweep, Traced, IInv, TypeOK, WaveShape,
     AllocShape, SweepShape, RingsMatch, Away, SlabPages, First, Ahead, AtPage,
     Room, Empty, ObjectsOf, TypeOK, pool, objects, lists, sweepers, machine
<1>14. CASE Look
  BY <1>14, CapacityAssumption DEF Look, HasCache, m_pool_usage, IInv, TypeOK,
     WaveShape, AllocShape, SweepShape, RingsMatch, Away, SlabPages, First, Ahead,
     AtPage, Room, Empty, ObjectsOf, TypeOK, pool, objects, lists, sweepers, machine
<1>15. CASE SkipPages
  <2>1. page \in Pages /\ m_sweep_wavefront = page /\ m_pool_watermark \in 1 .. Capacity
    BY <1>15 DEF SkipPages, IInv, TypeOK, WaveShape, AtPage
  <2>2. \/ \E q \in SlabsFrom(page + 1) : m_sweep_wavefront' = q
        \/ m_sweep_wavefront' = Capacity
    BY <1>15 DEF SkipPages, Advance
  <2>3. \A q \in SlabsFrom(page + 1) : q \in Pages /\ q > page
    BY <2>1, CapacityAssumption DEF SlabsFrom, Pages
  <2>4. m_sweep_wavefront' \in 0 .. Capacity /\ m_sweep_wavefront' > m_sweep_wavefront
    BY <2>1, <2>2, <2>3, CapacityAssumption DEF Pages

  <2>5. ~Ahead(taken) /\ taken \in Pages => ~Ahead(taken)'
    BY <1>15, <2>1, <2>4 DEF SkipPages, Ahead, machine, Pages
  <2> QED BY <1>15, <2>5 DEF SkipPages, IInv, AllocShape, SlabPages, Room, Empty,
     First, pool, objects, lists, machine
<1>16. CASE LookAgain
  BY <1>16, CapacityAssumption DEF LookAgain, IInv, TypeOK, WaveShape, AllocShape,
     SweepShape, RingsMatch, Away, SlabPages, First, Ahead, AtPage, Room, Empty,
     ObjectsOf, TypeOK, pool, objects, lists, sweepers, machine
<1>17. CASE KeepEmpty
  <2>1. ~Ahead(taken) /\ taken \in Pages => ~Ahead(taken)'
    BY <1>17, CapacityAssumption DEF KeepEmpty, Advance, EndLoop, CacheLocked,
       Ahead, machine, IInv, WaveShape, AtPage, TypeOK, Pages
  <2> QED BY <1>17, <2>1 DEF KeepEmpty, IInv, AllocShape, SlabPages, Room, Empty,
     First, pool, objects, lists, machine
<1>18. CASE Detach
  <2>1. page \in SlabPages \ Away
    BY <1>18 DEF Detach, IInv, SweepShape, Away
  <2>2. /\ RingShape(m_vacant') /\ ToSet(m_vacant') = ToSet(m_vacant) \ {page}
        /\ m_occupied' = m_occupied \ {page}
        /\ page \notin ToSet(m_vacant) => m_vacant' = m_vacant
        /\ m_vacant # <<>> /\ page # First => m_vacant' # <<>> /\ First' = First
        /\ m_cache_count' \in Nat /\ CountedIn(m_vacant', m_cache_count')
    BY <1>18, <2>1, UnlinkRing DEF Detach, IInv

  <2>3. mpc = "unload" => taken # page
    BY <1>18 DEF Detach, IInv, AllocShape, WaveShape, AtPage, Ahead, TypeOK, Pages
  <2>4. Room(taken)' = Room(taken) /\ Ahead(taken)' = Ahead(taken) /\ SlabPages' = SlabPages
    BY <1>18 DEF Detach, Room, Ahead, SlabPages, objects, pool, machine
  <2> QED BY <1>18, <2>2, <2>3, <2>4 DEF Detach, CacheLocked, IInv, AllocShape,
     machine
<1>19. CASE ReturnSlab
  <2>1. mpc # "run" => taken # page
    <3>1. mpc \in {"unload", "born"} => taken \in ToSet(m_vacant)
      BY FirstSlab DEF IInv, AllocShape, First
    <3>2. page \notin ToSet(m_vacant)
      BY <1>19 DEF ReturnSlab, IInv, RingsMatch, Away
    <3> QED BY <1>19, <3>1, <3>2 DEF ReturnSlab, IInv, AllocShape, SweepShape,
       TypeOK
  <2> QED BY <1>19, <2>1 DEF ReturnSlab, Deallocate, IInv, TypeOK, AllocShape,
     SlabPages, Room, Empty, First, Ahead, objects, lists, machine
<1>20. CASE PassReturned
  <2>1. ~Ahead(taken) /\ taken \in Pages => ~Ahead(taken)'
    BY <1>20, CapacityAssumption DEF PassReturned, Advance, EndLoop, Ahead,
       machine, IInv, WaveShape, AtPage, TypeOK, Pages
  <2> QED BY <1>20, <2>1 DEF PassReturned, IInv, AllocShape, SlabPages, Room,
     Empty, First, pool, objects, lists, machine
<1>21. CASE SweepSlab
  <2>1. used' = used \ (ObjectsOf(page) \ marks)
    BY <1>21 DEF SweepSlab
  <2>2. \A q : q # page => Room(q)' = Room(q) /\ Empty(q)' = Empty(q)
    BY <2>1, Shrinks
  <2>3. page \notin ToSet(m_vacant) /\ page \notin m_occupied
    BY <1>21 DEF SweepSlab, IInv, RingsMatch, Away

  <2>4. mpc # "run" => taken # page
    <3>1. mpc \in {"unload", "born"} => taken \in ToSet(m_vacant)
      BY FirstSlab DEF IInv, AllocShape, First
    <3> QED BY <1>21, <2>3, <3>1 DEF SweepSlab, IInv, AllocShape, SweepShape, TypeOK
  <2>5. mpc # "run" => Room(taken)' = Room(taken) /\ Empty(taken)' = Empty(taken)
    BY <1>21, <2>2, <2>4 DEF SweepSlab, machine
  <2>6. mpc = "born" => ObjectsOf(taken)' \cap used' = {taken' * Slots}
    <3>1. ASSUME mpc = "born" PROVE ObjectsOf(taken) \cap ObjectsOf(page) = {}
      BY <2>4, <3>1, OnePage
    <3> QED BY <2>1, <3>1, <1>21 DEF SweepSlab, machine, IInv, AllocShape, ObjectsOf
  <2>7. ~Ahead(taken) /\ taken \in Pages => ~Ahead(taken)'
    BY <1>21 DEF SweepSlab, Ahead, machine, IInv, WaveShape, AtPage, TypeOK, Pages
  <2> QED BY <1>21, <2>5, <2>6, <2>7 DEF SweepSlab, IInv, AllocShape, SlabPages,
     First, pool, lists, machine
<1>22. CASE Attach
  <2>1. page \in Pages /\ page \notin ToSet(m_vacant) /\ page \notin m_occupied
    BY <1>22 DEF Attach, IInv, SweepShape, SlabPages, RingsMatch, Away
  <2>2. /\ RingShape(m_vacant')
        /\ ToSet(m_vacant') = IF Room(page) = {} THEN ToSet(m_vacant) ELSE ToSet(m_vacant) \cup {page}
        /\ m_occupied' = IF Room(page) = {} THEN m_occupied \cup {page} ELSE m_occupied
        /\ m_vacant # <<>> => m_vacant' # <<>> /\ First' = First
        /\ m_cache_count' \in Nat /\ CountedIn(m_vacant', m_cache_count')
    BY <1>22, <2>1, LinkRing DEF Attach, IInv

  <2>3. Room(taken)' = Room(taken) /\ Ahead(taken)' = Ahead(taken) /\ SlabPages' = SlabPages
    BY <1>22, CapacityAssumption DEF Attach, Room, Ahead, SlabPages, objects, pool,
       machine
  <2> QED BY <1>22, <2>2, <2>3 DEF Attach, CacheLocked, IInv, AllocShape, machine
<1> QED BY <1>1, <1>2, <1>3, <1>4, <1>5, <1>6, <1>7, <1>8, <1>9, <1>10, <1>11,
       <1>12, <1>13, <1>14, <1>15, <1>16, <1>17, <1>18, <1>19, <1>20, <1>21,
       <1>22
     DEF Next, Machine, Sweep

(* The types.                                                              *)
LEMMA TypeNext == ASSUME IInv, Next PROVE TypeOK'
<1>1. CASE ExtendPool
  BY <1>1, CapacityAssumption DEF ExtendPool, FreePages, IInv, TypeOK, Pages,
     First, WaveShape, AtPage, SlabPages, pool, objects, lists, sweepers, machine
<1>2. CASE TakePrivate
  BY <1>2, CapacityAssumption DEF TakePrivate, Allocate, FreePages, IInv, TypeOK,
     Pages, First, WaveShape, AtPage, SlabPages, pool, objects, lists, sweepers,
     machine
<1>3. CASE DropPrivate
  BY <1>3, CapacityAssumption DEF DropPrivate, Deallocate, IInv, TypeOK, Pages,
     First, WaveShape, AtPage, SlabPages, pool, objects, lists, sweepers, machine
<1>4. CASE AllocFast
  <2>0. PICK f \in Pages : f = First
    BY <1>4, FirstSlab DEF AllocFast, IInv
  <2>1. PICK o \in Room(f) : used' = used \cup {o} /\ o \in Objects
    BY <1>4, <2>0, RoomOf DEF AllocFast, Create
  <2>2. f \in ToSet(m_vacant) /\ f \in SlabPages \ Away /\ o \in ObjectsOf(f)
    BY <1>4, <2>0, <2>1, FirstSlab, RoomOf DEF AllocFast, IInv
  <2>3. /\ \A q : q # f => Room(q)' = Room(q) /\ Empty(q)' = Empty(q)
        /\ Room(f)' = Room(f) \ {o} /\ ~Empty(f)'
    BY <2>1, <2>2, Grows

  <2>4. taken' \in Pages \cup {None} /\ mpc' \in {"run", "unload"}
    BY <1>4, <2>0 DEF AllocFast, IInv, TypeOK
  <2> QED BY <1>4, <2>0, <2>4, RoomOf DEF AllocFast, Create, Hold, IInv, TypeOK,
     pool, lists, sweepers
<1>5. CASE Unload
  <2>1. /\ RingShape(m_vacant') /\ ToSet(m_vacant') = ToSet(m_vacant) \ {First}
        /\ m_occupied' = m_occupied \cup {First}
        /\ m_cache_count' \in Nat /\ CountedIn(m_vacant', m_cache_count')
    BY <1>5, UnloadRing DEF Unload, IInv, AllocShape

  <2>2. First \in Pages
    BY <1>5, FirstSlab DEF Unload, IInv, AllocShape
  <2> QED BY <1>5, <2>1, <2>2 DEF Unload, IInv, TypeOK, RingShape, pool, objects,
     sweepers
<1>6. CASE AllocLocked
  <2>0. PICK f \in Pages : f = First
    BY <1>6, FirstSlab DEF AllocLocked, IInv
  <2>1. PICK o \in Room(f) : used' = used \cup {o} /\ o \in Objects
    BY <1>6, <2>0, RoomOf DEF AllocLocked, Create
  <2>2. f \in ToSet(m_vacant) /\ f \in SlabPages \ Away /\ o \in ObjectsOf(f)
    BY <1>6, <2>0, <2>1, FirstSlab, RoomOf DEF AllocLocked, IInv
  <2>3. /\ \A q : q # f => Room(q)' = Room(q) /\ Empty(q)' = Empty(q)
        /\ Room(f)' = Room(f) \ {o} /\ ~Empty(f)'
    BY <2>1, <2>2, Grows

  <2>4. m_vacant' \in Seq(Pages) /\ m_occupied' \in SUBSET Pages /\ m_cache_count' \in Nat
    <3>1. CASE UnloadFilled
      <4>1. /\ RingShape(m_vacant') /\ m_occupied' = m_occupied \cup {First} /\ m_cache_count' \in Nat
        BY <1>6, <3>1, UnloadRing DEF AllocLocked, IInv
      <4> QED BY <2>0, <4>1 DEF RingShape, IInv, TypeOK
    <3>2. CASE UNCHANGED lists
      BY <3>2 DEF lists, IInv, TypeOK
    <3> QED BY <1>6, <3>1, <3>2 DEF AllocLocked
  <2>5. marks' \in SUBSET Objects /\ used' \in SUBSET Objects /\ roots' \in SUBSET Objects
        /\ ref' \in [Objects -> Objects \cup {None}]
    BY <1>6, RoomOf DEF AllocLocked, Create, Hold, BornMark, IInv, TypeOK
  <2> QED BY <1>6, <2>4, <2>5 DEF AllocLocked, IInv, TypeOK, pool, sweepers
<1>7. CASE TakeSlab
  BY <1>7, CapacityAssumption DEF TakeSlab, Allocate, FreePages, IInv, TypeOK,
     Pages, First, WaveShape, AtPage, SlabPages, pool, objects, lists, sweepers,
     machine
<1>8. CASE InitSlab
  <2>1. taken \in Pages /\ taken * Slots \in Objects
    BY <1>8, SlabObjects, OnePage DEF InitSlab, IInv, AllocShape, SlabPages
  <2>2. <<taken>> \in Seq(Pages)
    BY <2>1
  <2> QED BY <1>8, <2>1, <2>2 DEF InitSlab, Create, Hold, IInv, TypeOK, pool,
     sweepers
<1>9. CASE MarkBorn
  <2>1. taken * Slots \in Objects
    BY <1>9, SlabObjects, OnePage DEF MarkBorn, IInv, AllocShape, SlabPages
  <2>2. marks' \in SUBSET Objects
    BY <1>9, <2>1 DEF MarkBorn, BornMark, IInv, TypeOK
  <2> QED BY <1>9, <2>2 DEF MarkBorn, IInv, TypeOK, pool, lists, sweepers
<1>10. CASE Store
  BY <1>10, CapacityAssumption DEF Store, IInv, TypeOK, Pages, First, WaveShape,
     AtPage, SlabPages, pool, objects, lists, sweepers, machine
<1>11. CASE Load
  BY <1>11, CapacityAssumption DEF Load, Hold, IInv, TypeOK, Pages, First,
     WaveShape, AtPage, SlabPages, pool, objects, lists, sweepers, machine
<1>12. CASE Drop
  BY <1>12, CapacityAssumption DEF Drop, IInv, TypeOK, Pages, First, WaveShape,
     AtPage, SlabPages, pool, objects, lists, sweepers, machine
<1>13. CASE BeginSweep
  BY <1>13, CapacityAssumption DEF BeginSweep, Traced, IInv, TypeOK, Pages, First,
     WaveShape, AtPage, SlabPages, pool, objects, lists, sweepers, machine
<1>14. CASE Look
  <2>1. memo' \in 0 .. Capacity
    BY <1>14, Usage DEF Look, IInv, TypeOK
  <2> QED BY <1>14, <2>1 DEF Look, IInv, TypeOK, pool, objects, lists, machine
<1>15. CASE SkipPages
  <2>1. page \in Pages /\ m_sweep_wavefront = page /\ m_pool_watermark \in 1 .. Capacity
    BY <1>15 DEF SkipPages, IInv, TypeOK, WaveShape, AtPage
  <2>2. \/ \E q \in SlabsFrom(page + 1) : m_sweep_wavefront' = q
        \/ m_sweep_wavefront' = Capacity
    BY <1>15 DEF SkipPages, Advance
  <2>3. \A q \in SlabsFrom(page + 1) : q \in Pages /\ q > page
    BY <2>1, CapacityAssumption DEF SlabsFrom, Pages
  <2>4. m_sweep_wavefront' \in 0 .. Capacity /\ m_sweep_wavefront' > m_sweep_wavefront
    BY <2>1, <2>2, <2>3, CapacityAssumption DEF Pages

  <2>5. /\ page' = 0 \/ \E q \in SlabsFrom(page + 1) : page' = q
        /\ memo' = 0 /\ cpc' \in {"idle", "look"}
    BY <1>15 DEF SkipPages, Advance, EndLoop
  <2>6. page' \in 0 .. Capacity /\ memo' \in 0 .. Capacity
    BY <2>3, <2>5, CapacityAssumption DEF Pages
  <2>7. m_alloc_barrier' \in BOOLEAN
    BY <1>15, Zenon DEF SkipPages, Advance, IInv, TypeOK
  <2> QED BY <1>15, <2>4, <2>5, <2>6, <2>7 DEF SkipPages, IInv, TypeOK, pool,
     objects, lists, machine
<1>16. CASE LookAgain
  BY <1>16, CapacityAssumption DEF LookAgain, IInv, TypeOK, Pages, First,
     WaveShape, AtPage, SlabPages, pool, objects, lists, sweepers, machine
<1>17. CASE KeepEmpty
  BY <1>17, CapacityAssumption DEF KeepEmpty, Advance, EndLoop, CacheLocked, IInv,
     TypeOK, Pages, First, WaveShape, AtPage, SlabPages, pool, objects, lists,
     sweepers, machine
<1>18. CASE Detach
  <2>1. page \in SlabPages \ Away
    BY <1>18 DEF Detach, IInv, SweepShape, Away
  <2>2. /\ RingShape(m_vacant') /\ ToSet(m_vacant') = ToSet(m_vacant) \ {page}
        /\ m_occupied' = m_occupied \ {page}
        /\ page \notin ToSet(m_vacant) => m_vacant' = m_vacant
        /\ m_vacant # <<>> /\ page # First => m_vacant' # <<>> /\ First' = First
        /\ m_cache_count' \in Nat /\ CountedIn(m_vacant', m_cache_count')
    BY <1>18, <2>1, UnlinkRing DEF Detach, IInv

  <2> QED BY <1>18, <2>2 DEF Detach, IInv, TypeOK, RingShape, pool, objects, machine
<1>19. CASE ReturnSlab
  BY <1>19, CapacityAssumption DEF ReturnSlab, Deallocate, Enough, IInv, TypeOK,
     Pages, First, WaveShape, AtPage, SlabPages, pool, objects, lists, sweepers,
     machine
<1>20. CASE PassReturned
  BY <1>20, CapacityAssumption DEF PassReturned, Advance, EndLoop, IInv, TypeOK,
     Pages, First, WaveShape, AtPage, SlabPages, pool, objects, lists, sweepers,
     machine
<1>21. CASE SweepSlab
  BY <1>21, CapacityAssumption DEF SweepSlab, Enough, IInv, TypeOK, Pages, First,
     WaveShape, AtPage, SlabPages, pool, objects, lists, sweepers, machine
<1>22. CASE Attach
  <2>1. page \in Pages /\ page \notin ToSet(m_vacant) /\ page \notin m_occupied
    BY <1>22 DEF Attach, IInv, SweepShape, SlabPages, RingsMatch, Away
  <2>2. /\ RingShape(m_vacant')
        /\ ToSet(m_vacant') = IF Room(page) = {} THEN ToSet(m_vacant) ELSE ToSet(m_vacant) \cup {page}
        /\ m_occupied' = IF Room(page) = {} THEN m_occupied \cup {page} ELSE m_occupied
        /\ m_vacant # <<>> => m_vacant' # <<>> /\ First' = First
        /\ m_cache_count' \in Nat /\ CountedIn(m_vacant', m_cache_count')
    BY <1>22, <2>1, LinkRing DEF Attach, IInv

  <2>3. page' \in 0 .. Capacity /\ cpc' \in {"idle", "look"}
    BY <1>22, <2>1, CapacityAssumption DEF Attach, EndLoop, Pages
  <2> QED BY <1>22, <2>1, <2>2, <2>3 DEF Attach, IInv, TypeOK, RingShape, pool,
     objects, machine
<1> QED BY <1>1, <1>2, <1>3, <1>4, <1>5, <1>6, <1>7, <1>8, <1>9, <1>10, <1>11,
       <1>12, <1>13, <1>14, <1>15, <1>16, <1>17, <1>18, <1>19, <1>20, <1>21,
       <1>22
     DEF Next, Machine, Sweep

(* Every slab is in its ring.                                               *)
LEMMA RingsNext == ASSUME IInv, Next PROVE RingsMatch'
<1>1. CASE ExtendPool
  BY <1>1 DEF ExtendPool, FreePages, IInv, TypeOK, RingsMatch, Away, SlabPages,
     Room, Empty, First, pool, objects, lists, sweepers, machine
<1>2. CASE TakePrivate
  BY <1>2 DEF TakePrivate, Allocate, FreePages, IInv, TypeOK, RingsMatch, Away,
     SlabPages, Room, Empty, First, pool, objects, lists, sweepers, machine
<1>3. CASE DropPrivate
  BY <1>3 DEF DropPrivate, Deallocate, IInv, TypeOK, RingsMatch, Away, SlabPages,
     Room, Empty, First, pool, objects, lists, sweepers, machine
<1>4. CASE AllocFast
  <2>0. PICK f \in Pages : f = First
    BY <1>4, FirstSlab DEF AllocFast, IInv
  <2>1. PICK o \in Room(f) : used' = used \cup {o} /\ o \in Objects
    BY <1>4, <2>0, RoomOf DEF AllocFast, Create
  <2>2. f \in ToSet(m_vacant) /\ f \in SlabPages \ Away /\ o \in ObjectsOf(f)
    BY <1>4, <2>0, <2>1, FirstSlab, RoomOf DEF AllocFast, IInv
  <2>3. /\ \A q : q # f => Room(q)' = Room(q) /\ Empty(q)' = Empty(q)
        /\ Room(f)' = Room(f) \ {o} /\ ~Empty(f)'
    BY <2>1, <2>2, Grows

  <2>4. /\ m_vacant' = m_vacant /\ m_occupied' = m_occupied /\ SlabPages' = SlabPages /\ First' = First
        /\ cpc' = cpc /\ page' = page /\ mpc = "run" /\ mpc' \in {"run", "unload"}
        /\ Room(f) = {o} => mpc' = "unload"
    BY <1>4, <2>0, <2>1 DEF AllocFast, Create, SlabPages, First, pool, lists,
       sweepers, IInv, TypeOK
  <2>5. f \notin m_occupied
    BY <2>2 DEF IInv, RingsMatch
  <2>6. \A q \in ToSet(m_vacant) : Room(q)' # {} \/ (mpc' = "unload" /\ q = f)
    BY <2>3, <2>4 DEF IInv, RingsMatch
  <2>7. \A q \in m_occupied : Room(q)' = {}
    BY <2>3, <2>5 DEF IInv, RingsMatch
  <2>8. Away' = Away
    BY <2>4 DEF Away
  <2> QED BY <2>0, <2>4, <2>6, <2>7, <2>8 DEF IInv, RingsMatch
<1>5. CASE Unload
  <2>1. /\ RingShape(m_vacant') /\ ToSet(m_vacant') = ToSet(m_vacant) \ {First}
        /\ m_occupied' = m_occupied \cup {First}
        /\ m_cache_count' \in Nat /\ CountedIn(m_vacant', m_cache_count')
    BY <1>5, UnloadRing DEF Unload, IInv, AllocShape

  <2>2. Room(First) = {} /\ First \in ToSet(m_vacant)
    BY <1>5, FirstSlab DEF Unload, IInv, AllocShape
  <2>3. SlabPages' = SlabPages /\ Away' = Away /\ mpc' = "run" /\ \A q : Room(q)' = Room(q)
    BY <1>5 DEF Unload, SlabPages, Away, Room, pool, objects, sweepers
  <2> QED BY <2>1, <2>2, <2>3 DEF IInv, RingsMatch, RingShape
<1>6. CASE AllocLocked
  <2>0. PICK f \in Pages : f = First
    BY <1>6, FirstSlab DEF AllocLocked, IInv
  <2>1. PICK o \in Room(f) : used' = used \cup {o} /\ o \in Objects
    BY <1>6, <2>0, RoomOf DEF AllocLocked, Create
  <2>2. f \in ToSet(m_vacant) /\ f \in SlabPages \ Away /\ o \in ObjectsOf(f)
    BY <1>6, <2>0, <2>1, FirstSlab, RoomOf DEF AllocLocked, IInv
  <2>3. /\ \A q : q # f => Room(q)' = Room(q) /\ Empty(q)' = Empty(q)
        /\ Room(f)' = Room(f) \ {o} /\ ~Empty(f)'
    BY <2>1, <2>2, Grows

  <2>4. SlabPages' = SlabPages /\ Away' = Away /\ mpc' = mpc /\ mpc = "run"
    BY <1>6 DEF AllocLocked, SlabPages, Away, pool, sweepers
  <2>5. CASE Room(f) = {o}
    <3>1. UnloadFilled
      BY <1>6, <2>0, <2>1, <2>5, RoomOf DEF AllocLocked, Create
    <3>2. /\ RingShape(m_vacant') /\ ToSet(m_vacant') = ToSet(m_vacant) \ {f}
          /\ m_occupied' = m_occupied \cup {f}
      BY <1>6, <2>0, <3>1, UnloadRing DEF AllocLocked, IInv
    <3> QED BY <2>2, <2>3, <2>4, <2>5, <3>2 DEF IInv, RingsMatch, RingShape
  <2>6. CASE Room(f) # {o}
    <3>1. UNCHANGED lists
      BY <1>6, <2>0, <2>1, <2>6, RoomOf DEF AllocLocked, Create
    <3>2. Room(f)' # {}
      BY <2>1, <2>3, <2>6
    <3>3. f \notin m_occupied
      BY <2>2 DEF IInv, RingsMatch
    <3>4. \A q \in ToSet(m_vacant) : Room(q)' # {}
      BY <2>3, <2>4, <3>2 DEF IInv, RingsMatch
    <3>5. \A q \in m_occupied : Room(q)' = {}
      BY <2>3, <3>3 DEF IInv, RingsMatch
    <3> QED BY <2>4, <3>1, <3>4, <3>5 DEF IInv, RingsMatch, lists
  <2> QED BY <2>5, <2>6
<1>7. CASE TakeSlab
  <2>1. PICK p \in FreePages : m_pool' = [m_pool EXCEPT ![p] = "slab"] /\ taken' = p
    BY <1>7 DEF TakeSlab, Allocate
  <2>2. p \in Pages \ SlabPages
    BY <2>1, CapacityAssumption DEF FreePages, SlabPages, IInv, TypeOK, Pages
  <2>3. SlabPages' = SlabPages \cup {p}
    BY <2>1, <2>2 DEF SlabPages, IInv, TypeOK
  <2>4. Away' = Away \cup {p} /\ p \notin Away
    BY <1>7, <2>1, <2>2 DEF TakeSlab, Away, IInv, SweepShape, sweepers
  <2>5. m_vacant' = <<>> /\ m_vacant = <<>> /\ m_occupied' = m_occupied /\ \A q : Room(q)' = Room(q)
    BY <1>7 DEF TakeSlab, lists, objects, Room
  <2> QED BY <2>2, <2>3, <2>4, <2>5 DEF IInv, RingsMatch, ToSet
<1>8. CASE InitSlab
  <2>0. PICK p \in Pages : p = taken
    BY <1>8 DEF InitSlab, IInv, AllocShape, SlabPages
  <2>1. p * Slots \in ObjectsOf(p) /\ p * Slots + 1 \in ObjectsOf(p) /\ p * Slots \in Nat
    BY SlabObjects, SlotsAssumption DEF Pages
  <2>2. /\ \A q : q # p => Room(q)' = Room(q)
        /\ Room(p)' = Room(p) \ {p * Slots}
    BY <1>8, <2>0, <2>1, Grows DEF InitSlab, Create
  <2>3. Empty(p) /\ m_vacant = <<>> /\ m_vacant' = <<p>> /\ m_occupied' = m_occupied /\ p \in SlabPages
    BY <1>8, <2>0 DEF InitSlab, IInv, AllocShape
  <2>4. Room(p)' # {}
    BY <2>1, <2>2, <2>3 DEF Room, Empty
  <2>5. SlabPages' = SlabPages /\ Away' = Away \ {p} /\ p \in Away
    BY <1>8, <2>0 DEF InitSlab, SlabPages, Away, pool, sweepers, IInv, SweepShape
  <2>6. ToSet(<<p>>) = {p} /\ ToSet(m_vacant) = {} /\ IsInjective(<<p>>)
    BY <2>3 DEF ToSet, IsInjective
  <2>7. p \notin m_occupied
    BY <2>5 DEF IInv, RingsMatch
  <2> QED BY <2>2, <2>3, <2>4, <2>5, <2>6, <2>7 DEF IInv, RingsMatch
<1>9. CASE MarkBorn
  BY <1>9 DEF MarkBorn, BornMark, Ahead, IInv, TypeOK, RingsMatch, Away, SlabPages,
     Room, Empty, First, pool, objects, lists, sweepers, machine
<1>10. CASE Store
  BY <1>10 DEF Store, IInv, TypeOK, RingsMatch, Away, SlabPages, Room, Empty,
     First, pool, objects, lists, sweepers, machine
<1>11. CASE Load
  BY <1>11 DEF Load, Hold, IInv, TypeOK, RingsMatch, Away, SlabPages, Room, Empty,
     First, pool, objects, lists, sweepers, machine
<1>12. CASE Drop
  BY <1>12 DEF Drop, IInv, TypeOK, RingsMatch, Away, SlabPages, Room, Empty, First,
     pool, objects, lists, sweepers, machine
<1>13. CASE BeginSweep
  BY <1>13 DEF BeginSweep, Traced, IInv, TypeOK, RingsMatch, Away, SlabPages, Room,
     Empty, First, pool, objects, lists, sweepers, machine
<1>14. CASE Look
  BY <1>14 DEF Look, HasCache, m_pool_usage, IInv, TypeOK, RingsMatch, Away,
     SlabPages, Room, Empty, First, pool, objects, lists, sweepers, machine
<1>15. CASE SkipPages
  BY <1>15 DEF SkipPages, SlabsFrom, Advance, EndLoop, m_pool_usage, IInv, TypeOK,
     RingsMatch, Away, SlabPages, Room, Empty, First, pool, objects, lists,
     sweepers, machine
<1>16. CASE LookAgain
  BY <1>16 DEF LookAgain, IInv, TypeOK, RingsMatch, Away, SlabPages, Room, Empty,
     First, pool, objects, lists, sweepers, machine
<1>17. CASE KeepEmpty
  BY <1>17 DEF KeepEmpty, Advance, EndLoop, CacheLocked, IInv, TypeOK, RingsMatch,
     Away, SlabPages, Room, Empty, First, pool, objects, lists, sweepers, machine
<1>18. CASE Detach
  <2>1. page \in SlabPages \ Away
    BY <1>18 DEF Detach, IInv, SweepShape, Away
  <2>2. /\ RingShape(m_vacant') /\ ToSet(m_vacant') = ToSet(m_vacant) \ {page}
        /\ m_occupied' = m_occupied \ {page}
        /\ page \notin ToSet(m_vacant) => m_vacant' = m_vacant
        /\ m_vacant # <<>> /\ page # First => m_vacant' # <<>> /\ First' = First
        /\ m_cache_count' \in Nat /\ CountedIn(m_vacant', m_cache_count')
    BY <1>18, <2>1, UnlinkRing DEF Detach, IInv

  <2>3. SlabPages' = SlabPages /\ Away' = Away \cup {page} /\ \A q : Room(q)' = Room(q)
    BY <1>18 DEF Detach, SlabPages, Away, Room, pool, objects, machine
  <2>4. mpc = "unload" => page # First /\ m_vacant # <<>> /\ mpc' = "unload"
    BY <1>18 DEF Detach, IInv, AllocShape, WaveShape, AtPage, Ahead, TypeOK, Pages,
       machine
  <2>5. \A q \in ToSet(m_vacant') : Room(q)' # {} \/ (mpc' = "unload" /\ q = First')
    BY <2>2, <2>3, <2>4 DEF IInv, RingsMatch
  <2>6. \A q \in m_occupied' : Room(q)' = {}
    BY <2>2, <2>3 DEF IInv, RingsMatch
  <2> QED BY <2>1, <2>2, <2>3, <2>5, <2>6 DEF IInv, RingsMatch, RingShape
<1>19. CASE ReturnSlab
  <2>1. page \in SlabPages /\ page \in Away /\ ~(mpc = "init" /\ page = taken)
    BY <1>19 DEF ReturnSlab, IInv, SweepShape, Away
  <2>2. SlabPages' = SlabPages \ {page} /\ Away' = Away \ {page} /\ First' = First
        /\ mpc' = mpc /\ m_vacant' = m_vacant /\ m_occupied' = m_occupied /\ \A q : Room(q)' = Room(q)
    BY <1>19, <2>1 DEF ReturnSlab, Deallocate, SlabPages, Away, IInv, TypeOK,
       First, Room, lists, objects, machine
  <2> QED BY <2>1, <2>2 DEF IInv, RingsMatch
<1>20. CASE PassReturned
  BY <1>20 DEF PassReturned, Advance, EndLoop, IInv, TypeOK, RingsMatch, Away,
     SlabPages, Room, Empty, First, pool, objects, lists, sweepers, machine
<1>21. CASE SweepSlab
  <2>1. used' = used \ (ObjectsOf(page) \ marks)
    BY <1>21 DEF SweepSlab
  <2>2. \A q : q # page => Room(q)' = Room(q) /\ Empty(q)' = Empty(q)
    BY <2>1, Shrinks
  <2>3. page \notin ToSet(m_vacant) /\ page \notin m_occupied
    BY <1>21 DEF SweepSlab, IInv, RingsMatch, Away

  <2>4. SlabPages' = SlabPages /\ Away' = Away /\ First' = First
        /\ mpc' = mpc /\ m_vacant' = m_vacant /\ m_occupied' = m_occupied
    BY <1>21 DEF SweepSlab, SlabPages, Away, First, pool, lists, machine
  <2>5. \A q \in ToSet(m_vacant) \cup m_occupied : Room(q)' = Room(q)
    BY <2>2, <2>3
  <2> QED BY <2>4, <2>5 DEF IInv, RingsMatch
<1>22. CASE Attach
  <2>1. page \in Pages /\ page \notin ToSet(m_vacant) /\ page \notin m_occupied
    BY <1>22 DEF Attach, IInv, SweepShape, SlabPages, RingsMatch, Away
  <2>2. /\ RingShape(m_vacant')
        /\ ToSet(m_vacant') = IF Room(page) = {} THEN ToSet(m_vacant) ELSE ToSet(m_vacant) \cup {page}
        /\ m_occupied' = IF Room(page) = {} THEN m_occupied \cup {page} ELSE m_occupied
        /\ m_vacant # <<>> => m_vacant' # <<>> /\ First' = First
        /\ m_cache_count' \in Nat /\ CountedIn(m_vacant', m_cache_count')
    BY <1>22, <2>1, LinkRing DEF Attach, IInv

  <2>3. SlabPages' = SlabPages /\ Away' = Away \ {page} /\ page \in Away /\ page \in SlabPages
        /\ mpc' = mpc /\ \A q : Room(q)' = Room(q)
    BY <1>22 DEF Attach, EndLoop, SlabPages, Away, Room, pool, objects, machine,
       IInv, SweepShape
  <2>4. mpc = "unload" => m_vacant # <<>>
    BY DEF IInv, AllocShape
  <2>5. \A q \in ToSet(m_vacant') : Room(q)' # {} \/ (mpc' = "unload" /\ q = First')
    BY <2>2, <2>3, <2>4 DEF IInv, RingsMatch
  <2>6. \A q \in m_occupied' : Room(q)' = {}
    BY <2>2, <2>3 DEF IInv, RingsMatch
  <2> QED BY <2>1, <2>2, <2>3, <2>5, <2>6 DEF IInv, RingsMatch, RingShape
<1> QED BY <1>1, <1>2, <1>3, <1>4, <1>5, <1>6, <1>7, <1>8, <1>9, <1>10, <1>11,
       <1>12, <1>13, <1>14, <1>15, <1>16, <1>17, <1>18, <1>19, <1>20, <1>21,
       <1>22
     DEF Next, Machine, Sweep

(* The empty slabs behind the first are counted.                           *)
LEMMA EmptiesNext == ASSUME IInv, Next PROVE EmptiesCounted'
<1>1. CASE ExtendPool
  BY <1>1 DEF ExtendPool, FreePages, EmptiesCounted, Empty, IInv, pool, objects,
     lists, sweepers, machine
<1>2. CASE TakePrivate
  BY <1>2 DEF TakePrivate, Allocate, FreePages, EmptiesCounted, Empty, IInv, pool,
     objects, lists, sweepers, machine
<1>3. CASE DropPrivate
  BY <1>3 DEF DropPrivate, Deallocate, EmptiesCounted, Empty, IInv, pool, objects,
     lists, sweepers, machine
<1>4. CASE AllocFast
  <2>0. PICK f \in Pages : f = First
    BY <1>4, FirstSlab DEF AllocFast, IInv
  <2>1. PICK o \in Room(f) : used' = used \cup {o} /\ o \in Objects
    BY <1>4, <2>0, RoomOf DEF AllocFast, Create
  <2>2. f \in ToSet(m_vacant) /\ f \in SlabPages \ Away /\ o \in ObjectsOf(f)
    BY <1>4, <2>0, <2>1, FirstSlab, RoomOf DEF AllocFast, IInv
  <2>3. /\ \A q : q # f => Room(q)' = Room(q) /\ Empty(q)' = Empty(q)
        /\ Room(f)' = Room(f) \ {o} /\ ~Empty(f)'
    BY <2>1, <2>2, Grows

  <2>4. RingShape(m_vacant) /\ CountedIn(m_vacant, m_cache_count) /\ m_cache_count \in Nat
    BY CountedNow DEF IInv, TypeOK

  <2>5. \A q : Empty(q)' => Empty(q)
    BY <2>3
  <2> QED BY <1>4, <2>4, <2>5, CountedNext DEF AllocFast, lists
<1>5. CASE Unload
  <2>1. /\ RingShape(m_vacant') /\ ToSet(m_vacant') = ToSet(m_vacant) \ {First}
        /\ m_occupied' = m_occupied \cup {First}
        /\ m_cache_count' \in Nat /\ CountedIn(m_vacant', m_cache_count')
    BY <1>5, UnloadRing DEF Unload, IInv, AllocShape

  <2>2. \A q : Empty(q)' = Empty(q)
    BY <1>5 DEF Unload, Empty, objects
  <2> QED BY <2>1, <2>2, CountedNext
<1>6. CASE AllocLocked
  <2>0. PICK f \in Pages : f = First
    BY <1>6, FirstSlab DEF AllocLocked, IInv
  <2>1. PICK o \in Room(f) : used' = used \cup {o} /\ o \in Objects
    BY <1>6, <2>0, RoomOf DEF AllocLocked, Create
  <2>2. f \in ToSet(m_vacant) /\ f \in SlabPages \ Away /\ o \in ObjectsOf(f)
    BY <1>6, <2>0, <2>1, FirstSlab, RoomOf DEF AllocLocked, IInv
  <2>3. /\ \A q : q # f => Room(q)' = Room(q) /\ Empty(q)' = Empty(q)
        /\ Room(f)' = Room(f) \ {o} /\ ~Empty(f)'
    BY <2>1, <2>2, Grows

  <2>4. RingShape(m_vacant) /\ CountedIn(m_vacant, m_cache_count) /\ m_cache_count \in Nat
    BY CountedNow DEF IInv, TypeOK

  <2>5. \A q : Empty(q)' => Empty(q)
    BY <2>3
  <2>6. CASE UnloadFilled
    <3>1. RingShape(m_vacant') /\ m_cache_count' \in Nat /\ CountedIn(m_vacant', m_cache_count')
      BY <1>6, <2>6, UnloadRing DEF AllocLocked, IInv
    <3> QED BY <2>5, <3>1, CountedNext
  <2>7. CASE UNCHANGED lists
    BY <2>4, <2>5, <2>7, CountedNext DEF lists
  <2> QED BY <1>6, <2>6, <2>7 DEF AllocLocked
<1>7. CASE TakeSlab
  BY <1>7 DEF TakeSlab, Allocate, FreePages, EmptiesCounted, Empty, IInv, pool,
     objects, lists, sweepers, machine
<1>8. CASE InitSlab
  <2>0. PICK p \in Pages : p = taken
    BY <1>8 DEF InitSlab, IInv, AllocShape, SlabPages
  <2>1. m_vacant' = <<p>> /\ m_cache_count' = m_cache_count /\ m_cache_count \in Nat
    BY <1>8, <2>0 DEF InitSlab, IInv, TypeOK
  <2>2. {q \in ToSet(Tail(<<p>>)) : Empty(q)'} = {}
    <3>1. Tail(<<p>>) = <<>> /\ ToSet(<<>>) = {}
      BY DEF ToSet
    <3> QED BY <3>1
  <2> QED BY <2>1, <2>2, FS_EmptySet DEF EmptiesCounted
<1>9. CASE MarkBorn
  BY <1>9 DEF MarkBorn, BornMark, Ahead, EmptiesCounted, Empty, IInv, pool,
     objects, lists, sweepers, machine
<1>10. CASE Store
  BY <1>10 DEF Store, EmptiesCounted, Empty, IInv, pool, objects, lists, sweepers,
     machine
<1>11. CASE Load
  BY <1>11 DEF Load, Hold, EmptiesCounted, Empty, IInv, pool, objects, lists,
     sweepers, machine
<1>12. CASE Drop
  BY <1>12 DEF Drop, EmptiesCounted, Empty, IInv, pool, objects, lists, sweepers,
     machine
<1>13. CASE BeginSweep
  BY <1>13 DEF BeginSweep, Traced, EmptiesCounted, Empty, IInv, pool, objects,
     lists, sweepers, machine
<1>14. CASE Look
  BY <1>14 DEF Look, HasCache, m_pool_usage, EmptiesCounted, Empty, IInv, pool,
     objects, lists, sweepers, machine
<1>15. CASE SkipPages
  BY <1>15 DEF SkipPages, SlabsFrom, Advance, EndLoop, m_pool_usage,
     EmptiesCounted, Empty, IInv, pool, objects, lists, sweepers, machine
<1>16. CASE LookAgain
  BY <1>16 DEF LookAgain, EmptiesCounted, Empty, IInv, pool, objects, lists,
     sweepers, machine
<1>17. CASE KeepEmpty
  BY <1>17 DEF KeepEmpty, Advance, EndLoop, CacheLocked, EmptiesCounted, Empty,
     IInv, pool, objects, lists, sweepers, machine
<1>18. CASE Detach
  <2>1. page \in SlabPages \ Away
    BY <1>18 DEF Detach, IInv, SweepShape, Away
  <2>2. /\ RingShape(m_vacant') /\ ToSet(m_vacant') = ToSet(m_vacant) \ {page}
        /\ m_occupied' = m_occupied \ {page}
        /\ page \notin ToSet(m_vacant) => m_vacant' = m_vacant
        /\ m_vacant # <<>> /\ page # First => m_vacant' # <<>> /\ First' = First
        /\ m_cache_count' \in Nat /\ CountedIn(m_vacant', m_cache_count')
    BY <1>18, <2>1, UnlinkRing DEF Detach, IInv

  <2>3. \A q : Empty(q)' = Empty(q)
    BY <1>18 DEF Detach, Empty, objects
  <2> QED BY <2>2, <2>3, CountedNext
<1>19. CASE ReturnSlab
  BY <1>19 DEF ReturnSlab, Deallocate, Enough, EmptiesCounted, Empty, IInv, pool,
     objects, lists, sweepers, machine
<1>20. CASE PassReturned
  BY <1>20 DEF PassReturned, Advance, EndLoop, EmptiesCounted, Empty, IInv, pool,
     objects, lists, sweepers, machine
<1>21. CASE SweepSlab
  <2>1. used' = used \ (ObjectsOf(page) \ marks)
    BY <1>21 DEF SweepSlab
  <2>2. \A q : q # page => Room(q)' = Room(q) /\ Empty(q)' = Empty(q)
    BY <2>1, Shrinks
  <2>3. page \notin ToSet(m_vacant) /\ page \notin m_occupied
    BY <1>21 DEF SweepSlab, IInv, RingsMatch, Away

  <2>4. RingShape(m_vacant) /\ CountedIn(m_vacant, m_cache_count) /\ m_cache_count \in Nat
    BY CountedNow DEF IInv, TypeOK

  <2>5. \A q \in ToSet(m_vacant) : Empty(q)' = Empty(q)
    BY <2>2, <2>3
  <2> QED BY <1>21, <2>4, <2>5, CountedNext DEF SweepSlab, lists
<1>22. CASE Attach
  <2>1. page \in Pages /\ page \notin ToSet(m_vacant) /\ page \notin m_occupied
    BY <1>22 DEF Attach, IInv, SweepShape, SlabPages, RingsMatch, Away
  <2>2. /\ RingShape(m_vacant')
        /\ ToSet(m_vacant') = IF Room(page) = {} THEN ToSet(m_vacant) ELSE ToSet(m_vacant) \cup {page}
        /\ m_occupied' = IF Room(page) = {} THEN m_occupied \cup {page} ELSE m_occupied
        /\ m_vacant # <<>> => m_vacant' # <<>> /\ First' = First
        /\ m_cache_count' \in Nat /\ CountedIn(m_vacant', m_cache_count')
    BY <1>22, <2>1, LinkRing DEF Attach, IInv

  <2>3. \A q : Empty(q)' = Empty(q)
    BY <1>22 DEF Attach, Empty, objects
  <2> QED BY <2>2, <2>3, CountedNext
<1> QED BY <1>1, <1>2, <1>3, <1>4, <1>5, <1>6, <1>7, <1>8, <1>9, <1>10, <1>11,
       <1>12, <1>13, <1>14, <1>15, <1>16, <1>17, <1>18, <1>19, <1>20, <1>21,
       <1>22
     DEF Next, Machine, Sweep

(* What is condemned lies where the sweep still has to come by, and ahead  *)
(* of the wavefront nothing else is unmarked.                              *)
LEMMA DoomedNext == ASSUME IInv, Next PROVE DoomedShape'
<1>1. CASE ExtendPool
  BY <1>1 DEF ExtendPool, FreePages, IInv, TypeOK, DoomedShape, WaveShape, AtPage,
     AllocShape, Ahead, pool, objects, lists, sweepers, machine
<1>2. CASE TakePrivate
  BY <1>2 DEF TakePrivate, Allocate, FreePages, IInv, TypeOK, DoomedShape,
     WaveShape, AtPage, AllocShape, Ahead, pool, objects, lists, sweepers, machine
<1>3. CASE DropPrivate
  BY <1>3 DEF DropPrivate, Deallocate, IInv, TypeOK, DoomedShape, WaveShape,
     AtPage, AllocShape, Ahead, pool, objects, lists, sweepers, machine
<1>4. CASE AllocFast
  <2>0. PICK f \in Pages : f = First
    BY <1>4, FirstSlab DEF AllocFast, IInv
  <2>1. PICK o \in Room(f) : used' = used \cup {o} /\ o \in Objects
    BY <1>4, <2>0, RoomOf DEF AllocFast, Create
  <2>2. f \in ToSet(m_vacant) /\ f \in SlabPages \ Away /\ o \in ObjectsOf(f)
    BY <1>4, <2>0, <2>1, FirstSlab, RoomOf DEF AllocFast, IInv
  <2>3. /\ \A q : q # f => Room(q)' = Room(q) /\ Empty(q)' = Empty(q)
        /\ Room(f)' = Room(f) \ {o} /\ ~Empty(f)'
    BY <2>1, <2>2, Grows

  <2>4. f \in Pages /\ ~Ahead(f) /\ PageOf(o) = f /\ m_sweep_wavefront' = m_sweep_wavefront
        /\ marks' = marks /\ doomed' = doomed /\ cpc' = cpc /\ page' = page /\ mpc' # "born"
    BY <1>4, <2>0, <2>2, OnePage DEF AllocFast, sweepers, IInv, TypeOK
  <2>5. mpc # "born"
    BY <1>4 DEF AllocFast
  <2> QED BY <2>1, <2>4, <2>5 DEF IInv, DoomedShape, Ahead
<1>5. CASE Unload
  BY <1>5 DEF Unload, UnloadFilled, IInv, TypeOK, DoomedShape, WaveShape, AtPage,
     AllocShape, Ahead, pool, objects, lists, sweepers, machine
<1>6. CASE AllocLocked
  <2>1. PICK o \in Objects \ used : used' = used \cup {o} /\ marks' = IF Ahead(PageOf(o)) THEN marks \cup {o} ELSE marks
    BY <1>6, RoomOf DEF AllocLocked, Create, BornMark
  <2>2. doomed' = doomed /\ cpc' = cpc /\ page' = page /\ mpc' = mpc /\ mpc = "run" /\ m_sweep_wavefront' = m_sweep_wavefront
    BY <1>6 DEF AllocLocked, sweepers
  <2>3. doomed' \subseteq used' \ marks'
    BY <2>1, <2>2 DEF IInv, DoomedShape
  <2> QED BY <2>1, <2>2, <2>3 DEF IInv, DoomedShape, Ahead
<1>7. CASE TakeSlab
  BY <1>7 DEF TakeSlab, Allocate, FreePages, IInv, TypeOK, DoomedShape, WaveShape,
     AtPage, AllocShape, Ahead, pool, objects, lists, sweepers, machine
<1>8. CASE InitSlab
  <2>0. PICK p \in Pages : p = taken
    BY <1>8 DEF InitSlab, IInv, AllocShape, SlabPages
  <2>1. p * Slots \in ObjectsOf(p) /\ ObjectsOf(p) \cap used = {} /\ ObjectsOf(p)' = ObjectsOf(p)
    BY <1>8, <2>0, SlabObjects DEF InitSlab, IInv, AllocShape, Empty, ObjectsOf
  <2>2. used' = used \cup {p * Slots} /\ mpc' = "born" /\ taken' = p /\ marks' = marks \ ObjectsOf(p)
        /\ doomed' = doomed /\ cpc' = cpc /\ page' = page /\ m_sweep_wavefront' = m_sweep_wavefront
    BY <1>8, <2>0 DEF InitSlab, Create, sweepers
  <2>3. PageOf(p * Slots) = p
    BY <2>1, OnePage
  <2>4. doomed \cap ObjectsOf(p) = {}
    BY <2>1 DEF IInv, DoomedShape
  <2>5. \A o \in used' \ marks' : PageOf(o) = p \/ o \in used \ marks
    BY <2>1, <2>2, <2>3, OnePage
  <2>6. mpc # "born"
    BY <1>8 DEF InitSlab
  <2> QED BY <2>1, <2>2, <2>4, <2>5, <2>6 DEF IInv, DoomedShape, Ahead
<1>9. CASE MarkBorn
  <2>0. PICK p \in Pages : p = taken
    BY <1>9 DEF MarkBorn, IInv, AllocShape, SlabPages
  <2>1. p * Slots \in ObjectsOf(p) /\ ObjectsOf(p) \cap used = {p * Slots} /\ PageOf(p * Slots) = p
    BY <1>9, <2>0, SlabObjects, OnePage DEF MarkBorn, IInv, AllocShape
  <2>2. marks' = IF Ahead(p) THEN marks \cup {p * Slots} ELSE marks
    BY <1>9, <2>0, <2>1 DEF MarkBorn, BornMark
  <2>3. /\ used' = used /\ mpc' = "run" /\ doomed' = doomed /\ cpc' = cpc /\ page' = page
        /\ m_sweep_wavefront' = m_sweep_wavefront /\ mpc = "born"
    BY <1>9 DEF MarkBorn, sweepers
  <2>4. doomed \cap ObjectsOf(p) = {}
    BY <2>0, <2>3 DEF IInv, DoomedShape
  <2>5. \A o \in used : PageOf(o) = p => o = p * Slots
    BY <2>1 DEF IInv, TypeOK, ObjectsOf
  <2>6. doomed' \subseteq used' \ marks'
    BY <2>1, <2>2, <2>3, <2>4 DEF IInv, DoomedShape
  <2>7. ASSUME cpc # "idle", NEW o \in used' \ marks', Ahead(PageOf(o))' PROVE o \in doomed
    <3>1. o \in used \ marks /\ Ahead(PageOf(o))
      BY <2>2, <2>3, <2>7 DEF Ahead
    <3>2. PageOf(o) # p
      BY <2>2, <2>3, <2>5, <2>7, <3>1
    <3> QED BY <2>0, <2>7, <3>1, <3>2 DEF IInv, DoomedShape
  <2> QED BY <2>3, <2>6, <2>7 DEF IInv, DoomedShape
<1>10. CASE Store
  BY <1>10 DEF Store, IInv, TypeOK, DoomedShape, WaveShape, AtPage, AllocShape,
     Ahead, pool, objects, lists, sweepers, machine
<1>11. CASE Load
  BY <1>11 DEF Load, Hold, IInv, TypeOK, DoomedShape, WaveShape, AtPage,
     AllocShape, Ahead, pool, objects, lists, sweepers, machine
<1>12. CASE Drop
  BY <1>12 DEF Drop, IInv, TypeOK, DoomedShape, WaveShape, AtPage, AllocShape,
     Ahead, pool, objects, lists, sweepers, machine
<1>13. CASE BeginSweep
  <2>1. /\ doomed' = used' \ marks' /\ cpc' = "look" /\ page' = 0 /\ mpc' = "run" /\ used' \in SUBSET Objects
    BY <1>13 DEF BeginSweep, machine, IInv, TypeOK
  <2>2. \A o \in Objects : PageOf(o) >= 0
    BY PageOfObject DEF Pages
  <2> QED BY <2>1, <2>2 DEF DoomedShape
<1>14. CASE Look
  <2>1. used' = used /\ marks' = marks /\ doomed' = doomed /\ page' = page /\ mpc' = mpc /\ taken' = taken
        /\ m_sweep_wavefront' = m_sweep_wavefront /\ cpc = "look" /\ page \in Pages
    BY <1>14 DEF Look, objects, machine, IInv, WaveShape
  <2>2. CASE m_pool[page] = "slab"
    BY <1>14, <2>1, <2>2 DEF Look, IInv, DoomedShape, Ahead
  <2>3. CASE m_pool[page] # "slab"
    <3>1. cpc' = "skip" /\ Empty(page)
      BY <1>14, <2>1, <2>3 DEF Look, IInv, PoolShape, SlabPages
    <3>2. \A o \in doomed : PageOf(o) # page
      BY <3>1 DEF IInv, TypeOK, DoomedShape, Empty, ObjectsOf
    <3> QED BY <2>1, <3>1, <3>2 DEF IInv, DoomedShape, Ahead
  <2> QED BY <2>2, <2>3
<1>15. CASE SkipPages
  <2>1. page \in Pages /\ m_sweep_wavefront = page /\ m_pool_watermark \in 1 .. Capacity
    BY <1>15 DEF SkipPages, IInv, TypeOK, WaveShape, AtPage
  <2>2. \/ \E q \in SlabsFrom(page + 1) : m_sweep_wavefront' = q
        \/ m_sweep_wavefront' = Capacity
    BY <1>15 DEF SkipPages, Advance
  <2>3. \A q \in SlabsFrom(page + 1) : q \in Pages /\ q > page
    BY <2>1, CapacityAssumption DEF SlabsFrom, Pages
  <2>4. m_sweep_wavefront' \in 0 .. Capacity /\ m_sweep_wavefront' > m_sweep_wavefront
    BY <2>1, <2>2, <2>3, CapacityAssumption DEF Pages

  <2>5. used' = used /\ marks' = marks /\ doomed' = doomed /\ mpc' = mpc /\ taken' = taken /\ cpc = "skip"
    BY <1>15 DEF SkipPages, objects, machine
  <2>6. ASSUME NEW o \in doomed PROVE PageOf(o) \in SlabsFrom(page + 1)
    <3>1. o \in Objects \cap used /\ PageOf(o) \in Pages /\ PageOf(o) >= page /\ PageOf(o) # page
      BY <2>5, PageOfObject DEF IInv, TypeOK, DoomedShape
    <3>2. PageOf(o) \in SlabPages
      BY <3>1 DEF IInv, PoolShape, Empty, ObjectsOf
    <3>3. m_pool[PageOf(o)] = "slab" /\ ~(PageOf(o) >= m_pool_watermark)
      BY <3>1, <3>2 DEF IInv, PoolShape, SlabPages
    <3> QED BY <2>1, <3>1, <3>3 DEF SlabsFrom, Pages
  <2>7. \A o \in used \ marks : Ahead(PageOf(o))' => Ahead(PageOf(o))
    <3> SUFFICES ASSUME NEW o \in used \ marks, Ahead(PageOf(o))' PROVE Ahead(PageOf(o))
      OBVIOUS
    <3>1. PageOf(o) \in Pages
      BY PageOfObject DEF IInv, TypeOK
    <3> QED BY <2>1, <2>4, <3>1 DEF Ahead, Pages
  <2>8. CASE SlabsFrom(page + 1) = {}
    <3>1. doomed = {} /\ cpc' = "idle"
      BY <1>15, <2>6, <2>8 DEF SkipPages, EndLoop
    <3> QED BY <2>5, <3>1 DEF DoomedShape
  <2>9. CASE SlabsFrom(page + 1) # {}
    <3>1. PICK q \in SlabsFrom(page + 1) : (\A r \in SlabsFrom(page + 1) : q <= r) /\ Advance(q)
      BY <1>15, <2>9 DEF SkipPages
    <3>2. q \in Pages /\ q # Capacity
      BY <2>3, <3>1, CapacityAssumption DEF Pages
    <3>3. page' = q /\ cpc' = "look"
      BY <3>1, <3>2 DEF Advance
    <3>4. \A o \in doomed : PageOf(o) >= q
      <4> SUFFICES ASSUME NEW o \in doomed PROVE PageOf(o) >= q
        OBVIOUS
      <4>1. PageOf(o) \in Pages /\ q <= PageOf(o)
        BY <2>3, <2>6, <3>1
      <4> QED BY <3>2, <4>1 DEF Pages
    <3> QED BY <2>5, <2>7, <3>3, <3>4 DEF IInv, DoomedShape
  <2> QED BY <2>8, <2>9
<1>16. CASE LookAgain
  BY <1>16 DEF LookAgain, IInv, TypeOK, DoomedShape, WaveShape, AtPage, AllocShape,
     Ahead, pool, objects, lists, sweepers, machine
<1>17. CASE KeepEmpty
  <2>1. \A o \in doomed : PageOf(o) # page
    BY <1>17 DEF KeepEmpty, IInv, TypeOK, DoomedShape, Empty, ObjectsOf
  <2>2. page \in Pages /\ m_sweep_wavefront = page /\ cpc # "idle" /\ used' = used /\ marks' = marks
        /\ doomed' = doomed /\ mpc' = mpc /\ taken' = taken
    BY <1>17 DEF KeepEmpty, IInv, WaveShape, AtPage, objects, machine
  <2>3. \A o \in doomed : PageOf(o) >= page + 1 /\ PageOf(o) \in Pages
    BY <2>1, <2>2, PageOfObject DEF IInv, TypeOK, DoomedShape, Pages
  <2>4. m_sweep_wavefront' = page + 1
    BY <1>17 DEF KeepEmpty, Advance
  <2>5. \A o \in used \ marks : Ahead(PageOf(o))' => Ahead(PageOf(o))
    <3> SUFFICES ASSUME NEW o \in used \ marks, Ahead(PageOf(o))' PROVE Ahead(PageOf(o))
      OBVIOUS
    <3>1. PageOf(o) \in Pages
      BY PageOfObject DEF IInv, TypeOK
    <3> QED BY <2>2, <2>4, <3>1 DEF Ahead, Pages
  <2>6. CASE page + 1 = Capacity
    <3>1. doomed = {} /\ cpc' = "idle"
      BY <1>17, <2>3, <2>6, CapacityAssumption DEF KeepEmpty, Advance, EndLoop,
         Pages
    <3> QED BY <2>2, <3>1 DEF DoomedShape
  <2>7. CASE page + 1 # Capacity
    <3>1. page' = page + 1 /\ cpc' = "look"
      BY <1>17, <2>7 DEF KeepEmpty, Advance
    <3> QED BY <2>2, <2>3, <2>5, <3>1 DEF IInv, DoomedShape
  <2> QED BY <2>6, <2>7
<1>18. CASE Detach
  BY <1>18 DEF Detach, Unlink, CacheLocked, IInv, TypeOK, DoomedShape, WaveShape,
     AtPage, AllocShape, Ahead, pool, objects, lists, sweepers, machine
<1>19. CASE ReturnSlab
  <2>1. \A o \in doomed : PageOf(o) # page
    BY <1>19 DEF ReturnSlab, IInv, TypeOK, DoomedShape, Empty, ObjectsOf
  <2> QED BY <1>19, <2>1 DEF ReturnSlab, IInv, DoomedShape, Ahead, objects, machine
<1>20. CASE PassReturned
  <2>1. \A o \in doomed : PageOf(o) # page
    BY <1>20 DEF PassReturned, IInv, TypeOK, DoomedShape, Empty, ObjectsOf
  <2>2. page \in Pages /\ m_sweep_wavefront = page /\ cpc # "idle" /\ used' = used /\ marks' = marks
        /\ doomed' = doomed /\ mpc' = mpc /\ taken' = taken
    BY <1>20 DEF PassReturned, IInv, WaveShape, AtPage, objects, machine
  <2>3. \A o \in doomed : PageOf(o) >= page + 1 /\ PageOf(o) \in Pages
    BY <2>1, <2>2, PageOfObject DEF IInv, TypeOK, DoomedShape, Pages
  <2>4. m_sweep_wavefront' = page + 1
    BY <1>20 DEF PassReturned, Advance
  <2>5. \A o \in used \ marks : Ahead(PageOf(o))' => Ahead(PageOf(o))
    <3> SUFFICES ASSUME NEW o \in used \ marks, Ahead(PageOf(o))' PROVE Ahead(PageOf(o))
      OBVIOUS
    <3>1. PageOf(o) \in Pages
      BY PageOfObject DEF IInv, TypeOK
    <3> QED BY <2>2, <2>4, <3>1 DEF Ahead, Pages
  <2>6. CASE page + 1 = Capacity
    <3>1. doomed = {} /\ cpc' = "idle"
      BY <1>20, <2>3, <2>6, CapacityAssumption DEF PassReturned, Advance, EndLoop,
         Pages
    <3> QED BY <2>2, <3>1 DEF DoomedShape
  <2>7. CASE page + 1 # Capacity
    <3>1. page' = page + 1 /\ cpc' = "look"
      BY <1>20, <2>7 DEF PassReturned, Advance
    <3> QED BY <2>2, <2>3, <2>5, <3>1 DEF IInv, DoomedShape
  <2> QED BY <2>6, <2>7
<1>21. CASE SweepSlab
  <2>1. /\ used' = used \ (ObjectsOf(page) \ marks) /\ doomed' = doomed \cap used' /\ marks' = marks \ ObjectsOf(page)
        /\ m_sweep_wavefront' = page + 1 /\ cpc' = "attach" /\ page' = page /\ mpc' = mpc /\ taken' = taken
        /\ cpc = "detached" /\ page \in Pages /\ m_sweep_wavefront = page
    BY <1>21 DEF SweepSlab, machine, IInv, WaveShape, AtPage
  <2>2. \A o \in Objects : PageOf(o) \in Pages /\ (PageOf(o) = page <=> o \in ObjectsOf(page))
    BY PageOfObject DEF ObjectsOf
  <2>3. \A o \in doomed' : PageOf(o) # page
    BY <2>1, <2>2 DEF IInv, TypeOK, DoomedShape
  <2>4. \A o \in used' \ marks' : Ahead(PageOf(o))' => o \in used \ marks /\ Ahead(PageOf(o))
    <3> SUFFICES ASSUME NEW o \in used' \ marks', Ahead(PageOf(o))' PROVE o \in used \ marks /\ Ahead(PageOf(o))
      OBVIOUS
    <3>1. o \in Objects /\ o \in used
      BY <2>1 DEF IInv, TypeOK
    <3>2. PageOf(o) \in Pages /\ PageOf(o) >= page + 1
      BY <2>1, <2>2, <3>1 DEF Ahead
    <3>3. PageOf(o) # page /\ PageOf(o) >= page
      BY <2>1, <3>2 DEF Pages
    <3> QED BY <2>1, <2>2, <3>1, <3>3 DEF Ahead
  <2>5. doomed' \subseteq used' \ marks'
    BY <2>1 DEF IInv, DoomedShape
  <2> QED BY <2>1, <2>3, <2>4, <2>5 DEF IInv, DoomedShape
<1>22. CASE Attach
  <2>1. \A o \in doomed : PageOf(o) # page
    BY <1>22 DEF Attach, IInv, DoomedShape
  <2>2. page \in Pages /\ m_sweep_wavefront' = m_sweep_wavefront /\ cpc # "idle" /\ used' = used /\ marks' = marks
        /\ doomed' = doomed /\ mpc' = mpc /\ taken' = taken
    BY <1>22 DEF Attach, IInv, WaveShape, objects, machine
  <2>3. \A o \in doomed : PageOf(o) >= page + 1 /\ PageOf(o) \in Pages
    BY <2>1, <2>2, PageOfObject DEF IInv, TypeOK, DoomedShape, Pages
  <2>4. CASE page + 1 = Capacity
    <3>1. doomed = {} /\ cpc' = "idle"
      BY <1>22, <2>3, <2>4, CapacityAssumption DEF Attach, EndLoop, Pages
    <3> QED BY <2>2, <3>1 DEF DoomedShape
  <2>5. CASE page + 1 # Capacity
    <3>1. page' = page + 1 /\ cpc' = "look"
      BY <1>22, <2>5 DEF Attach
    <3> QED BY <2>2, <2>3, <3>1 DEF IInv, DoomedShape, Ahead
  <2> QED BY <2>4, <2>5
<1> QED BY <1>1, <1>2, <1>3, <1>4, <1>5, <1>6, <1>7, <1>8, <1>9, <1>10, <1>11,
       <1>12, <1>13, <1>14, <1>15, <1>16, <1>17, <1>18, <1>19, <1>20, <1>21,
       <1>22
     DEF Next, Machine, Sweep

------------------------------------------------------------------------------
LEMMA InitInv == Init => IInv
<1> SUFFICES ASSUME Init PROVE IInv
  OBVIOUS
<1> USE DEF Init
<1>1. TypeOK
  <2>1. m_vacant \in Seq(Pages)
    BY EmptySeq
  <2>2. m_alloc_barrier \in BOOLEAN
    OBVIOUS
  <2>3. m_pool_watermark \in 1 .. Capacity /\ m_sweep_wavefront \in 0 .. Capacity
        /\ page \in 0 .. Capacity /\ memo \in 0 .. Capacity /\ m_cache_count \in Nat
    BY CapacityAssumption
  <2> HIDE DEF Init
  <2> QED BY <2>1, <2>2, <2>3 DEF Init, TypeOK
<1>2. WaveShape /\ AllocShape /\ SweepShape
  BY CapacityAssumption DEF WaveShape, AllocShape, SweepShape, AtPage
<1>3. SlabPages = {} /\ Away = {} /\ ToSet(m_vacant) = {} /\ IsInjective(m_vacant)
  BY DEF SlabPages, Away, ToSet, IsInjective
<1>4. PoolShape /\ RingsMatch
  BY <1>3 DEF PoolShape, RingsMatch, Empty
<1>5. EmptiesCounted /\ DoomedShape
  BY DEF EmptiesCounted, DoomedShape
<1> QED BY <1>1, <1>2, <1>4, <1>5 DEF IInv

LEMMA StutterInv == ASSUME IInv, UNCHANGED vars PROVE IInv'
  BY DEF IInv, TypeOK, WaveShape, AllocShape, SweepShape, PoolShape, RingsMatch,
     EmptiesCounted,
         DoomedShape, vars, pool, objects, lists, sweepers, machine, SlabPages, Away, Room, Empty,
         First, Ahead, AtPage

LEMMA NextInv == IInv /\ [Next]_vars => IInv'
<1>1. ASSUME IInv, Next PROVE IInv'
  BY <1>1, TypeNext, WaveNext, AllocNext, SweepNext, PoolNext, RingsNext,
     EmptiesNext, DoomedNext DEF IInv
<1> QED BY <1>1, StutterInv

(* IInv is an invariant of SlabSweep.                                       *)
THEOREM InvCorrect == Spec => []IInv
  BY InitInv, NextInv, PTL DEF Spec

(* The pages, objects, rings and places of SlabSweep have their types, and  *)
(* m_cache_count never goes below zero.                                     *)
THEOREM TypeCorrect == Spec => []TypeOK
<1>1. IInv => TypeOK
  BY DEF IInv
<1> QED BY <1>1, InvCorrect, PTL

(* Every slab of the cache is in the ring its free list calls for, once,    *)
(* but for those that the sweep or the machine has in its hands: slabs are  *)
(* not lost, not handed out while they are swept, and a page returned to    *)
(* the pool is in no ring (object_slab_cache_t::sweep, unload_filled).      *)
THEOREM RingsCorrect == Spec => []RingsMatch
<1>1. IInv => RingsMatch
  BY DEF IInv
<1> QED BY <1>1, InvCorrect, PTL

(* The empty slabs behind the first of the ring are counted, all of them,   *)
(* so that sweep() gives back what exceeds m_cache_limit.                   *)
THEOREM EmptiesCorrect == Spec => []EmptiesCounted
<1>1. IInv => EmptiesCounted
  BY DEF IInv
<1> QED BY <1>1, InvCorrect, PTL

------------------------------------------------------------------------------
(* Allocation is New, the end of marking Condemn, the sweep of a slab       *)
(* Reclaim; everything else does not change the objects.                    *)
LEMMA StepSweep == IInv /\ [Next]_vars => [Promise!Next]_(Promise!vars)
<1> SUFFICES ASSUME IInv, [Next]_vars PROVE [Promise!Next]_(Promise!vars)
  OBVIOUS
<1> USE DEF Promise!vars
<1>1. ASSUME NEW o \in Objects \ used, used' = used \cup {o}, doomed' = doomed PROVE Promise!Next
  BY <1>1 DEF Promise!Next, Promise!New
<1>2. CASE AllocFast
  <2>1. PICK o \in Room(First) : used' = used \cup {o}
    BY <1>2 DEF AllocFast, Create
  <2> QED BY <1>1, <1>2, <2>1, RoomOf DEF AllocFast
<1>3. CASE AllocLocked
  <2>1. PICK o \in Room(First) : used' = used \cup {o}
    BY <1>3 DEF AllocLocked, Create
  <2> QED BY <1>1, <1>3, <2>1, RoomOf DEF AllocLocked
<1>4. CASE InitSlab
  <2>1. taken * Slots \in ObjectsOf(taken) /\ Empty(taken)
    BY <1>4, SlabObjects DEF InitSlab, IInv, AllocShape, SlabPages
  <2>2. taken * Slots \in Objects \ used
    BY <2>1, OnePage DEF Empty
  <2> QED BY <1>1, <1>4, <2>2 DEF InitSlab, Create
<1>5. CASE BeginSweep
  <2>1. doomed = {} /\ doomed' \in SUBSET used /\ used' = used
    BY <1>5 DEF BeginSweep, IInv, DoomedShape
  <2> QED BY <2>1 DEF Promise!Next, Promise!Condemn
<1>6. CASE SweepSlab
  <2>1. /\ used' = used \ (ObjectsOf(page) \ marks) /\ doomed' = doomed \cap used'
        /\ page \in Pages /\ cpc = "detached" /\ m_sweep_wavefront = page
    BY <1>6 DEF SweepSlab, IInv, WaveShape, AtPage
  <2>2. mpc = "born" => taken # page
    <3>1. page \notin ToSet(m_vacant)
      BY <2>1 DEF IInv, RingsMatch, Away
    <3>2. mpc = "born" => taken \in ToSet(m_vacant)
      BY FirstSlab DEF IInv, AllocShape, First
    <3> QED BY <3>1, <3>2
  <2>3. used \cap (ObjectsOf(page) \ marks) \subseteq doomed
    <3> SUFFICES ASSUME NEW o \in used \cap (ObjectsOf(page) \ marks) PROVE o \in doomed
      OBVIOUS
    <3>1. PageOf(o) = page /\ Ahead(page)
      BY <2>1, OnePage DEF Ahead, Pages
    <3> QED BY <2>1, <2>2, <3>1 DEF IInv, DoomedShape
  <2>4. used' = used \ (doomed \ doomed') /\ doomed' \in SUBSET doomed
    BY <2>1, <2>3
  <2> QED BY <2>4 DEF Promise!Next, Promise!Reclaim
<1>7. ASSUME UNCHANGED <<used, doomed>> PROVE [Promise!Next]_(Promise!vars)
  BY <1>7
<1>8. CASE ExtendPool \/ TakePrivate \/ DropPrivate \/ Unload \/ TakeSlab \/ MarkBorn
  BY <1>7, <1>8 DEF ExtendPool, TakePrivate, DropPrivate, Unload, TakeSlab,
     MarkBorn, objects
<1>9. CASE Store \/ Load \/ Drop \/ Look \/ SkipPages \/ LookAgain \/ KeepEmpty
  BY <1>7, <1>9 DEF Store, Load, Drop, Look, SkipPages, LookAgain, KeepEmpty,
     objects
<1>10. CASE Detach \/ ReturnSlab \/ PassReturned \/ Attach
  BY <1>7, <1>10 DEF Detach, ReturnSlab, PassReturned, Attach, objects
<1>11. CASE UNCHANGED vars
  BY <1>7, <1>11 DEF vars, objects
<1> QED BY <1>2, <1>3, <1>4, <1>5, <1>6, <1>8, <1>9, <1>10, <1>11
        DEF Next, Machine, Sweep

(* SlabSweep implements SweptHeap: a cycle reclaims what was unmarked when  *)
(* it began, all of it before the next cycle condemns anything, and never   *)
(* an object that the machine has created since (the wavefront and the      *)
(* marks of new objects, object_heap.cpp:923-965, object_slab.cpp:165).     *)
THEOREM SweepRefined == Spec => RefinesSweep
<1>1. Init => Promise!Init
  BY DEF Init, Promise!Init
<1> QED BY <1>1, StepSweep, InvCorrect, PTL DEF Spec, RefinesSweep, Promise!Spec
==============================================================================
