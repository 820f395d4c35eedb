-------------------------- MODULE RememberSetProofs ---------------------------
(***************************************************************************)
(* RememberSet for any heap and any number of threads: what a thread       *)
(* refers to exists, or is recorded as given up.                           *)
(***************************************************************************)
EXTENDS RememberSet, FiniteSetTheorems, TLAPS

(***************************************************************************)
(* What a set of cells leads to.                                           *)
(***************************************************************************)
Field == [Cells -> Cells \cup {Nil}]

LEMMA ReachLeast ==
  ASSUME NEW field, NEW S, NEW T \in SUBSET Cells, S \ {Nil} \subseteq T, Closed(field, T)
  PROVE  ReachIn(field, S) \subseteq T
BY DEF ReachIn

LEMMA ReachHolds ==
  ASSUME NEW field \in Field, NEW S \in SUBSET (Cells \cup {Nil})
  PROVE  /\ ReachIn(field, S) \in SUBSET Cells /\ S \ {Nil} \subseteq ReachIn(field, S)
         /\ Closed(field, ReachIn(field, S))
<1>1. ReachIn(field, S) \in SUBSET Cells /\ S \ {Nil} \subseteq ReachIn(field, S)
  BY DEF ReachIn
<1>2. ASSUME NEW o \in ReachIn(field, S), field[o] # Nil
      PROVE  field[o] \in ReachIn(field, S)
  <2>1. o \in Cells /\ field[o] \in Cells
    BY <1>1, <1>2 DEF Field
  <2>2. ASSUME NEW T \in SUBSET Cells, S \ {Nil} \subseteq T, Closed(field, T)
        PROVE  field[o] \in T
    <3>1. o \in T
      BY <2>2, ReachLeast
    <3> QED BY <1>2, <2>2, <3>1 DEF Closed
  <2> QED BY <2>1, <2>2 DEF ReachIn
<1> QED BY <1>1, <1>2 DEF Closed

(* More leads to more.                                                     *)
LEMMA ReachMore ==
  ASSUME NEW field \in Field, NEW S \in SUBSET (Cells \cup {Nil}),
         NEW T \in SUBSET (Cells \cup {Nil}), S \subseteq T
  PROVE  ReachIn(field, S) \subseteq ReachIn(field, T)
<1>1. /\ ReachIn(field, T) \in SUBSET Cells /\ T \ {Nil} \subseteq ReachIn(field, T)
      /\ Closed(field, ReachIn(field, T))
  BY ReachHolds
<1> QED BY <1>1, ReachLeast

(* What leads to one cell of a set, and is a set of its own otherwise.     *)
LEMMA ReachThrough ==
  ASSUME NEW field \in Field, NEW S \in SUBSET (Cells \cup {Nil}),
         NEW T \in SUBSET (Cells \cup {Nil}), S \ {Nil} \subseteq ReachIn(field, T)
  PROVE  ReachIn(field, S) \subseteq ReachIn(field, T)
<1>1. ReachIn(field, T) \in SUBSET Cells /\ Closed(field, ReachIn(field, T))
  BY ReachHolds
<1> QED BY <1>1, ReachLeast

(***************************************************************************)
(* What the invariant says.                                                *)
(***************************************************************************)
LEMMA Types ==
  ASSUME IInv
  PROVE  /\ used \in SUBSET Cells /\ ref \in Field /\ Env \in used
         /\ \A t \in Rows : held[t] \in SUBSET Cells
         /\ DOMAIN held = Rows /\ DOMAIN state = Rows
         /\ marks \in SUBSET Cells /\ forgotten \in SUBSET Cells
         /\ \A c \in Threads : param[c] \in SUBSET Cells /\ c \in Rows /\ c # Owner
         /\ Owner \in Rows /\ Env \in Cells /\ Nil \notin Cells
         /\ \A T \in SUBSET Threads : Seeds(T) \in SUBSET Cells
<1>1. Owner \in Rows /\ Env \in Cells /\ Nil \notin Cells
      /\ \A c \in Threads : c \in Rows /\ c # Owner
  BY EnvAssumption, ThreadsAssumption DEF Rows, Owner
<1>2. /\ used \in SUBSET Cells /\ ref \in Field /\ Env \in used
      /\ held \in [Rows -> SUBSET Cells] /\ param \in [Threads -> SUBSET Cells]
      /\ DOMAIN held = Rows /\ DOMAIN state = Rows
      /\ marks \in SUBSET Cells /\ forgotten \in SUBSET Cells
  BY DEF IInv, TypeOK, HeapShape, Field
<1>3. ASSUME NEW T \in SUBSET Threads
      PROVE  Seeds(T) \in SUBSET Cells
  <2>1. Given(T) \subseteq Cells
    BY <1>2 DEF Given
  <2>2. Entered(T) \subseteq Cells
    BY DEF Entered
  <2> QED BY <1>1, <1>2, <2>1, <2>2 DEF Seeds
<1> QED BY <1>1, <1>2, <1>3

LEMMA SeedsMore ==
  ASSUME IInv, NEW T \in SUBSET Threads, NEW U \in SUBSET Threads, T \subseteq U
  PROVE  Seeds(T) \subseteq Seeds(U)
<1>1. Given(T) \subseteq Given(U)
  BY DEF Given
<1>2. Entered(T) \subseteq Entered(U)
  BY DEF Entered
<1> QED BY <1>1, <1>2 DEF Seeds

(* The row of a thread that has no children can be left out of a line.     *)
LEMMA LineWithout ==
  ASSUME IInv, NEW T \in SUBSET Threads, Line(T), NEW c \in Threads, Children(c) = {}
  PROVE  Line(T \ {c})
<1>1. ASSUME NEW d \in T, d # c, parent[d] = c PROVE FALSE
  <2>1. state[d] # "free" \/ parent[d] = Owner
    BY <1>1 DEF IInv, TableShape
  <2>2. c # Owner
    BY Types
  <2> QED BY <1>1, <2>1, <2>2 DEF Children
<1> QED BY <1>1 DEF Line

LEMMA InitIInv == Init => IInv
<1> SUFFICES ASSUME Init PROVE IInv
  OBVIOUS
<1>1. Owner \in Rows /\ Threads \subseteq Rows /\ Owner \notin Threads /\ Env \in Cells
  BY EnvAssumption, ThreadsAssumption DEF Rows, Owner
<1>2. m_child = 0 /\ {c \in Threads : parent[c] = Owner /\ state[c] = "active"} = {}
  BY <1>1 DEF Init
<1>3. TypeOK
  BY <1>1 DEF Init, TypeOK
<1>4. HeldKept /\ LineKept /\ WriteKept
  BY <1>1 DEF Init, HeldKept, LineKept, WriteKept
<1>5. HeapShape
  BY <1>1 DEF Init, HeapShape
<1>6. TableShape
  <2>1. \A N \in SUBSET Threads : N # {} => \E c \in N : parent[c] \notin N
    BY <1>1 DEF Init
  <2>2. /\ state[Owner] = "active"
        /\ \A t \in Threads : state[t] # "active" => held[t] = {}
        /\ \A c \in Threads : state[c] = "free" => parent[c] = Owner /\ param[c] = {}
        /\ \A c \in Threads : parent[c] # Owner => state[parent[c]] # "free"
    BY <1>1 DEF Init
  <2> QED BY <1>2, <2>1, <2>2, FS_EmptySet DEF TableShape
<1> QED BY <1>3, <1>4, <1>5, <1>6 DEF IInv

(***************************************************************************)
(* m_child counts the children of thread 0 that have not ended.            *)
(***************************************************************************)
Counted == {c \in Threads : parent[c] = Owner /\ state[c] = "active"}

LEMMA CountedFacts ==
  ASSUME IInv
  PROVE  IsFiniteSet(Counted) /\ m_child = Cardinality(Counted) /\ m_child \in Nat
<1>1. IsFiniteSet(Counted)
  BY ThreadsAssumption, FS_Subset DEF Counted
<1> QED BY <1>1 DEF IInv, TableShape, TypeOK, Counted

LEMMA SpawnCounts ==
  ASSUME IInv, NEW t \in Rows, Spawn(t)
  PROVE  m_child' = Cardinality(Counted') /\ m_child' \in Nat
<1>1. PICK c \in Threads :
        /\ state[c] = "free" /\ state' = [state EXCEPT ![c] = "active"]
        /\ parent' = [parent EXCEPT ![c] = t]
  BY DEF Spawn
<1>2. m_child' = IF t = Owner THEN m_child + 1 ELSE m_child
  BY DEF Spawn
<1>3. state \in [Rows -> {"free", "active", "ended", "sync"}] /\ parent \in [Threads -> Rows]
      /\ c \in Rows
  BY Types DEF IInv, TypeOK
<1>4. c \notin Counted
  BY <1>1 DEF Counted
<1>5. Counted' = IF t = Owner THEN Counted \cup {c} ELSE Counted
  BY <1>1, <1>3 DEF Counted, Rows
<1>6. Cardinality(Counted \cup {c}) = Cardinality(Counted) + 1
  BY <1>4, CountedFacts, FS_AddElement
<1> QED BY <1>2, <1>5, <1>6, CountedFacts

LEMMA EndCounts ==
  ASSUME IInv, NEW c \in Threads, End(c)
  PROVE  m_child' = Cardinality(Counted') /\ m_child' \in Nat
<1>1. /\ state[c] = "active" /\ UNCHANGED parent
      /\ state' = [state EXCEPT ![c] = IF Children(c) = {} THEN "ended" ELSE "sync"]
      /\ m_child' = IF parent[c] = Owner THEN m_child - 1 ELSE m_child
  BY DEF End, CountOff, Running
<1>2. state \in [Rows -> {"free", "active", "ended", "sync"}] /\ c \in Rows
  BY Types DEF IInv, TypeOK
<1>3. Counted' = IF parent[c] = Owner THEN Counted \ {c} ELSE Counted
  BY <1>1, <1>2 DEF Counted, Rows
<1>4. parent[c] = Owner => c \in Counted
  BY <1>1 DEF Counted
<1>5. parent[c] = Owner => Cardinality(Counted \ {c}) = Cardinality(Counted) - 1
                           /\ Cardinality(Counted \ {c}) \in Nat
  BY <1>4, CountedFacts, FS_RemoveElement, FS_CardinalityType
<1> QED BY <1>1, <1>3, <1>5, CountedFacts

LEMMA TypeStep ==
  ASSUME IInv, [Next]_vars
  PROVE  TypeOK'
<1>1. TypeOK
  BY DEF IInv
<1> USE DEF TypeOK, cycle, heap, table
<1>2. /\ Owner \in Rows /\ Env \in Cells /\ Nil \notin Cells
      /\ \A t \in Threads : t \in Rows
  BY Types
<1>3. CASE New
  BY <1>1, <1>2, <1>3 DEF New, Take
<1>4. ASSUME NEW t \in Rows, Load(t) PROVE TypeOK'
  BY <1>1, <1>2, <1>4 DEF Load, Take
<1>5. ASSUME NEW t \in Rows, Drop(t) PROVE TypeOK'
  BY <1>1, <1>2, <1>5 DEF Drop
<1>6. CASE BeginWrite
  <2>1. PICK o \in held[Owner] \cup {Env}, v \in held[Owner] \cup {ref[Env], Nil} :
          /\ store' = <<o, v>>
          /\ IF Barred(o) THEN Remember(ref[o], v) ELSE UNCHANGED m_remember_set
          /\ forgotten' = forgotten \cup CutOff(o, v)
    BY <1>6 DEF BeginWrite
  <2>2. o \in Cells /\ v \in Cells \cup {Nil}
    BY <1>1, <1>2, <2>1
  <2>3. CutOff(o, v) \in SUBSET Cells
    BY DEF CutOff, Reach, ReachIn
  <2>4. m_remember_set' \in [Cells -> SUBSET Threads]
    BY <1>1, <2>1 DEF Remember, Entry
  <2> QED BY <1>1, <1>6, <2>1, <2>2, <2>3, <2>4 DEF BeginWrite
<1>7. CASE EndWrite
  <2>1. store \in Cells \X (Cells \cup {Nil})
    BY <1>1, <1>7 DEF EndWrite
  <2>2. store[1] \in Cells /\ store[2] \in Cells \cup {Nil}
    BY <2>1
  <2>3. ref' \in [Cells -> Cells \cup {Nil}] /\ marks' \in SUBSET Cells
    BY <1>1, <1>7, <2>2 DEF EndWrite
  <2> QED BY <1>1, <1>7, <2>3 DEF EndWrite
<1>8. ASSUME Snapshot
      PROVE  m_remember_set' \in [Cells -> SUBSET Threads] /\ forgotten' \in SUBSET Cells
  BY <1>1, <1>8 DEF Snapshot, Reach, ReachIn
<1>9. CASE Collect
  <2>1. Snapshot
    BY <1>9 DEF Collect
  <2> QED BY <1>1, <1>8, <1>9, <2>1 DEF Collect
<1>10. CASE FallBack
  <2>1. Snapshot
    BY <1>10 DEF FallBack
  <2>2. marks' \in SUBSET Cells /\ marking' = "retry"
    BY <1>10 DEF FallBack, Reach, ReachIn
  <2> QED BY <1>1, <1>8, <1>10, <2>1, <2>2 DEF FallBack
<1>11. CASE BeginMark
  <2>1. marks' \in SUBSET Cells /\ marking' = "yes"
    BY <1>11 DEF BeginMark, Reach, ReachIn
  <2> QED BY <1>1, <1>11, <2>1 DEF BeginMark
<1>12. ASSUME NEW t \in Rows, Spawn(t) PROVE TypeOK'
  <2>1. m_child' \in Nat
    BY <1>12, SpawnCounts
  <2> QED BY <1>1, <1>2, <1>12, <2>1 DEF Spawn
<1>13. ASSUME NEW c \in Threads, End(c) PROVE TypeOK'
  <2>1. m_child' \in Nat
    BY <1>13, EndCounts
  <2>2. forgotten' \in SUBSET Cells
    BY <1>1, <1>13 DEF End, GivenUp, Reach, ReachIn
  <2>3. m_remember_set' \in [Cells -> SUBSET Threads]
    BY <1>1, <1>13 DEF End, Cleared
  <2> QED BY <1>1, <1>2, <1>13, <2>1, <2>2, <2>3 DEF End
<1>14. ASSUME NEW c \in Threads, Free(c) PROVE TypeOK'
  BY <1>1, <1>2, <1>14 DEF Free
<1>15. CASE UNCHANGED vars
  BY <1>1, <1>15 DEF vars
<1> QED BY <1>3, <1>4, <1>5, <1>6, <1>7, <1>9, <1>10, <1>11, <1>12, <1>13, <1>14, <1>15 DEF Next

LEMMA TableStep ==
  ASSUME IInv, [Next]_vars
  PROVE  TableShape'
<1>1. /\ state \in [Rows -> {"free", "active", "ended", "sync"}] /\ held \in [Rows -> SUBSET Cells]
      /\ parent \in [Threads -> Rows] /\ param \in [Threads -> SUBSET Cells]
      /\ Owner \in Rows /\ \A c \in Threads : c \in Rows /\ c # Owner
      /\ TableShape
  BY Types DEF IInv, TypeOK
<1>2. /\ state[Owner] = "active"
      /\ \A t \in Threads : state[t] # "active" => held[t] = {}
      /\ \A c \in Threads : state[c] = "free" => parent[c] = Owner /\ param[c] = {}
      /\ \A c \in Threads : parent[c] # Owner => state[parent[c]] # "free"
      /\ \A N \in SUBSET Threads : N # {} => \E c \in N : parent[c] \notin N
  BY <1>1 DEF TableShape
<1>3. ASSUME UNCHANGED table, NEW t \in Rows, state[t] = "active",
             \A u \in Threads : u # t => held'[u] = held[u]
      PROVE  TableShape'
  <2>1. \A u \in Threads : state'[u] # "active" => held'[u] = {}
    BY <1>2, <1>3 DEF table
  <2> QED BY <1>3, <1>1, <2>1 DEF TableShape, table
<1>4. ASSUME UNCHANGED table, UNCHANGED held PROVE TableShape'
  BY <1>1, <1>3, <1>4 DEF TableShape
<1>5. CASE New
  BY <1>1, <1>3, <1>5 DEF New, Take, Running
<1>6. ASSUME NEW t \in Rows, Load(t) \/ Drop(t) PROVE TableShape'
  BY <1>1, <1>3, <1>6 DEF Load, Drop, Take, Running
<1>7. ASSUME NEW t \in Rows, Spawn(t) PROVE TableShape'
  <2>1. PICK c \in Threads, S \in SUBSET held[t] :
          /\ state[c] = "free" /\ state' = [state EXCEPT ![c] = "active"]
          /\ parent' = [parent EXCEPT ![c] = t] /\ param' = [param EXCEPT ![c] = S]
          /\ held' = [held EXCEPT ![c] = S]
    BY <1>7 DEF Spawn
  <2>2. state[t] = "active" /\ t # c
    BY <1>7, <2>1 DEF Spawn, Running
  <2>3. /\ state'[Owner] = "active"
        /\ \A u \in Threads : state'[u] # "active" => held'[u] = {}
        /\ \A d \in Threads : state'[d] = "free" => parent'[d] = Owner /\ param'[d] = {}
    BY <1>1, <1>2, <2>1, <2>2
  <2>4. ASSUME NEW d \in Threads, parent'[d] # Owner PROVE state'[parent'[d]] # "free"
    <3>1. CASE d = c
      BY <1>1, <2>1, <2>2, <3>1
    <3>2. CASE d # c
      BY <1>1, <1>2, <2>1, <2>4, <3>2
    <3> QED BY <3>1, <3>2
  <2>5. ASSUME NEW N \in SUBSET Threads, N # {} PROVE \E d \in N : parent'[d] \notin N
    <3>1. CASE N \ {c} = {}
      <4>1. N = {c} /\ parent'[c] = t
        BY <1>1, <2>1, <2>5, <3>1
      <4> QED BY <2>2, <4>1
    <3>2. CASE N \ {c} # {}
      <4>1. PICK d \in N \ {c} : parent[d] \notin N \ {c}
        BY <1>2, <3>2
      <4>2. parent[d] # c
        BY <1>1, <1>2, <2>1
      <4> QED BY <1>1, <2>1, <4>1, <4>2
    <3> QED BY <3>1, <3>2
  <2>6. m_child' = Cardinality(Counted')
    BY <1>7, SpawnCounts
  <2> QED BY <2>3, <2>4, <2>5, <2>6 DEF TableShape, Counted
<1>8. ASSUME NEW c \in Threads, End(c) PROVE TableShape'
  <2>1. /\ state' = [state EXCEPT ![c] = IF Children(c) = {} THEN "ended" ELSE "sync"]
        /\ held' = [held EXCEPT ![c] = {}] /\ UNCHANGED <<parent, param>>
    BY <1>8 DEF End
  <2>2. m_child' = Cardinality(Counted')
    BY <1>8, EndCounts
  <2>3. /\ state'[Owner] = "active" /\ state'[c] \in {"ended", "sync"}
        /\ \A u \in Rows : u # c => state'[u] = state[u] /\ held'[u] = held[u]
        /\ held'[c] = {}
    BY <1>1, <1>2, <2>1
  <2>4. /\ \A t \in Threads : state'[t] # "active" => held'[t] = {}
        /\ \A d \in Threads : state'[d] = "free" => parent'[d] = Owner /\ param'[d] = {}
        /\ \A d \in Threads : parent'[d] # Owner => state'[parent'[d]] # "free"
    BY <1>1, <1>2, <2>1, <2>3
  <2>5. \A N \in SUBSET Threads : N # {} => \E d \in N : parent'[d] \notin N
    BY <1>2, <2>1
  <2> QED BY <2>2, <2>3, <2>4, <2>5 DEF TableShape, Counted
<1>9. ASSUME NEW c \in Threads, Free(c) PROVE TableShape'
  <2>1. /\ state' = [state EXCEPT ![c] = "free"] /\ param' = [param EXCEPT ![c] = {}]
        /\ parent' = [parent EXCEPT ![c] = Owner] /\ UNCHANGED <<held, m_child>>
        /\ state[c] \in {"ended", "sync"} /\ Children(c) = {}
    BY <1>9 DEF Free
  <2>2. /\ state'[Owner] = "active" /\ state'[c] = "free" /\ parent'[c] = Owner /\ param'[c] = {}
        /\ \A u \in Rows : u # c => state'[u] = state[u]
        /\ \A u \in Threads : u # c => parent'[u] = parent[u] /\ param'[u] = param[u]
    BY <1>1, <1>2, <2>1
  <2>3. Counted' = Counted
    BY <2>1, <2>2, <1>1 DEF Counted
  <2>4. /\ \A t \in Threads : state'[t] # "active" => held'[t] = {}
        /\ \A d \in Threads : state'[d] = "free" => parent'[d] = Owner /\ param'[d] = {}
    BY <1>1, <1>2, <2>1, <2>2
  <2>5. ASSUME NEW d \in Threads, parent'[d] # Owner PROVE state'[parent'[d]] # "free"
    <3>1. d # c /\ parent'[d] = parent[d] /\ parent[d] \in Rows
      BY <1>1, <2>2, <2>5
    <3>2. parent[d] # c
      BY <1>1, <1>2, <2>1, <2>5, <3>1 DEF Children
    <3> QED BY <1>2, <2>2, <2>5, <3>1, <3>2
  <2>6. ASSUME NEW N \in SUBSET Threads, N # {} PROVE \E d \in N : parent'[d] \notin N
    <3>1. PICK d \in N : parent[d] \notin N
      BY <1>2, <2>6
    <3> QED BY <1>1, <2>2, <3>1
  <2>7. m_child' = Cardinality(Counted')
    BY <2>1, <2>3, CountedFacts
  <2> QED BY <2>2, <2>4, <2>5, <2>6, <2>7 DEF TableShape, Counted
<1>10. CASE BeginWrite \/ EndWrite \/ Collect \/ BeginMark \/ FallBack \/ UNCHANGED vars
  BY <1>4, <1>10 DEF BeginWrite, EndWrite, Collect, BeginMark, FallBack, vars
<1> QED BY <1>5, <1>6, <1>7, <1>8, <1>9, <1>10 DEF Next

(***************************************************************************)
(* The heap itself: what exists refers to what exists.                     *)
(***************************************************************************)
LEMMA ReachSelf ==
  ASSUME NEW field \in Field, NEW S \in SUBSET (Cells \cup {Nil}), NEW o \in S, o # Nil
  PROVE  o \in ReachIn(field, S)
BY ReachHolds

(* What a collection leaves: all that its roots lead to.                   *)
Alive == Reach(marks \cup Roots)

LEMMA AliveFacts ==
  ASSUME IInv
  PROVE  /\ Alive \in SUBSET Cells /\ Closed(ref, Alive) /\ Locals \subseteq Alive
         /\ Children(Owner) # {} => Arguments \cup Kept \subseteq Alive
<1>1. /\ held[Owner] \in SUBSET Cells /\ Env \in Cells /\ marks \in SUBSET Cells /\ ref \in Field
      /\ \A c \in Threads : param[c] \in SUBSET Cells
      /\ Nil \notin Cells
  BY Types
<1>2. Arguments \in SUBSET Cells /\ Kept \in SUBSET Cells /\ Locals \in SUBSET Cells
  BY <1>1 DEF Arguments, Children, Kept, Remembered, Locals
<1>3. marks \cup Roots \in SUBSET (Cells \cup {Nil}) /\ Nil \notin Roots
  BY <1>1, <1>2 DEF Roots
<1>4. /\ Alive \in SUBSET Cells /\ Closed(ref, Alive)
      /\ (marks \cup Roots) \ {Nil} \subseteq Alive
  BY <1>1, <1>3, ReachHolds DEF Alive, Reach
<1>5. Roots \subseteq Alive
  BY <1>3, <1>4
<1> QED BY <1>4, <1>5 DEF Roots

LEMMA HeapStep ==
  ASSUME IInv, [Next]_vars
  PROVE  HeapShape'
<1>1. /\ Env \in used /\ held[Owner] \subseteq used
      /\ \A o \in used : ref[o] \in used \cup {Nil}
      /\ \A o \in Cells : o \notin used => ref[o] = Nil
      /\ used \in SUBSET Cells /\ ref \in Field /\ held \in [Rows -> SUBSET Cells]
      /\ Owner \in Rows /\ Owner \notin Threads
  BY Types DEF IInv, TypeOK, HeapShape
<1>2. ASSUME UNCHANGED heap, held'[Owner] \subseteq used
      PROVE  HeapShape'
  BY <1>1, <1>2 DEF HeapShape, heap
<1>3. ASSUME UNCHANGED heap, UNCHANGED held
      PROVE  HeapShape'
  BY <1>1, <1>2, <1>3
<1>4. CASE New
  <2>1. PICK o \in Cells \ used :
          /\ held' = [held EXCEPT ![Owner] = @ \cup {o}]
          /\ used' = used \cup {o} /\ ref' = [ref EXCEPT ![o] = Nil]
    BY <1>4 DEF New, Take
  <2>2. held'[Owner] = held[Owner] \cup {o}
    BY <1>1, <2>1
  <2> QED BY <1>1, <2>1, <2>2 DEF HeapShape, Field
<1>5. ASSUME NEW t \in Rows, Load(t) PROVE HeapShape'
  <2>1. PICK o \in (held[t] \cup {Env}) \cap used :
          ref[o] # Nil /\ held' = [held EXCEPT ![t] = @ \cup {ref[o]}]
    BY <1>5 DEF Load, Take
  <2>2. ref[o] \in used /\ held'[Owner] \subseteq held[Owner] \cup {ref[o]}
    BY <1>1, <2>1
  <2> QED BY <1>1, <1>2, <1>5, <2>2 DEF Load
<1>6. ASSUME NEW t \in Rows, Drop(t) PROVE HeapShape'
  BY <1>1, <1>2, <1>6 DEF Drop
<1>7. ASSUME NEW t \in Rows, Spawn(t) PROVE HeapShape'
  BY <1>1, <1>2, <1>7 DEF Spawn
<1>8. ASSUME NEW c \in Threads, End(c) PROVE HeapShape'
  BY <1>1, <1>2, <1>8 DEF End
<1>9. CASE EndWrite
  <2>1. /\ store[1] \in used /\ store[2] \in used \cup {Nil}
        /\ ref' = [ref EXCEPT ![store[1]] = store[2]] /\ UNCHANGED <<used, held>>
    BY <1>9 DEF EndWrite, IInv, WriteKept
  <2>2. \A o \in Cells : ref'[o] = IF o = store[1] THEN store[2] ELSE ref[o]
    BY <1>1, <2>1 DEF Field
  <2> QED BY <1>1, <2>1, <2>2 DEF HeapShape
<1>10. CASE Collect
  <2>1. /\ used' = used \cap Alive /\ UNCHANGED held
        /\ ref' = [o \in Cells |-> IF o \in Alive THEN ref[o] ELSE Nil]
    BY <1>10 DEF Collect, Alive
  <2>2. held[Owner] \cup {Env} \subseteq Alive /\ Closed(ref, Alive)
    BY AliveFacts DEF Locals
  <2>3. ASSUME NEW o \in Cells
        PROVE  IF o \in used' THEN ref'[o] \in used' \cup {Nil} ELSE ref'[o] = Nil
    BY <1>1, <2>1, <2>2 DEF Closed
  <2> QED BY <1>1, <2>1, <2>2, <2>3 DEF HeapShape
<1>11. CASE BeginWrite \/ BeginMark \/ FallBack \/ (\E c \in Threads : Free(c)) \/ UNCHANGED vars
  BY <1>3, <1>11 DEF BeginWrite, BeginMark, FallBack, Free, vars
<1> QED BY <1>4, <1>5, <1>6, <1>7, <1>8, <1>9, <1>10, <1>11 DEF Next

(***************************************************************************)
(* The snapshot: what it drops it gives up.                                *)
(***************************************************************************)
LEMMA SeedsGrow ==
  ASSUME IInv, NEW T \in SUBSET Threads, forgotten \subseteq forgotten',
         UNCHANGED <<state, parent, param>>,
         \A o \in Cells : m_remember_set[o] \subseteq m_remember_set'[o] \/ o \in forgotten'
  PROVE  Seeds(T) \subseteq Seeds(T)'
<1>1. Given(T)' = Given(T)
  BY DEF Given, Active
<1>2. Entered(T) \subseteq Entered(T)' \cup forgotten'
  BY DEF Entered
<1> QED BY <1>1, <1>2 DEF Seeds

LEMMA SnapshotFacts ==
  ASSUME IInv, Snapshot
  PROVE  /\ forgotten \subseteq forgotten'
         /\ \A o \in Cells : m_remember_set[o] \subseteq m_remember_set'[o] \/ o \in forgotten'
         /\ Children(Owner) # {} =>
              /\ Closed(ref, forgotten') /\ forgotten' \in SUBSET Cells
              /\ \A o \in Cells : m_remember_set'[o] # {} => o \in Kept
<1>1. CASE Children(Owner) = {}
  BY <1>1 DEF Snapshot
<1>2. CASE Children(Owner) # {}
  <2> DEFINE G == forgotten \cup (Remembered \ Kept)
  <2>1. /\ m_remember_set' = [o \in Cells |-> IF o \in Kept THEN m_remember_set[o] ELSE {}]
        /\ forgotten' = forgotten \cup Reach(G)
    BY <1>2 DEF Snapshot
  <2>2. G \in SUBSET Cells /\ ref \in Field /\ Nil \notin G
    BY Types DEF Remembered
  <2>3. G \ {Nil} \subseteq Reach(G) /\ Closed(ref, Reach(G)) /\ Reach(G) \in SUBSET Cells
    BY <2>2, ReachHolds DEF Reach
  <2>4. forgotten' = Reach(G)
    BY <2>1, <2>2, <2>3
  <2>5. \A o \in Cells : m_remember_set[o] \subseteq m_remember_set'[o] \/ o \in forgotten'
    BY <2>1, <2>2, <2>3, <2>4 DEF Remembered
  <2> QED BY <2>1, <2>3, <2>4, <2>5
<1> QED BY <1>1, <1>2

(* Thread 0 has a child as long as any thread runs.                        *)
LEMMA SomeChild ==
  ASSUME IInv, Children(Owner) = {}
  PROVE  \A t \in Threads : held[t] = {}
<1> DEFINE N == {t \in Threads : state[t] # "free"}
<1>1. ASSUME N # {} PROVE FALSE
  <2>1. PICK c \in N : parent[c] \notin N
    BY <1>1 DEF IInv, TableShape
  <2>2. parent[c] \in Rows /\ parent[c] # Owner
    BY <2>1 DEF IInv, TypeOK, Children
  <2>3. state[parent[c]] # "free"
    BY <2>1, <2>2 DEF IInv, TableShape
  <2> QED BY <2>1, <2>2, <2>3 DEF Rows
<1> QED BY <1>1 DEF IInv, TableShape

(* What the threads hold when a collection begins stays, or is given up.   *)
LEMMA CollectKeeps ==
  ASSUME IInv, Snapshot, Children(Owner) # {}, UNCHANGED <<state, parent, param>>,
         NEW T \in SUBSET Threads
  PROVE  /\ Seeds(T) \subseteq Seeds(T)' /\ Seeds(T)' \subseteq Alive \cup forgotten'
         /\ Seeds(T)' \in SUBSET Cells
<1>1. /\ forgotten \subseteq forgotten' /\ forgotten' \in SUBSET Cells
      /\ \A o \in Cells : m_remember_set[o] \subseteq m_remember_set'[o] \/ o \in forgotten'
      /\ \A o \in Cells : m_remember_set'[o] # {} => o \in Kept
  BY SnapshotFacts
<1>2. Seeds(T) \subseteq Seeds(T)'
  BY <1>1, SeedsGrow
<1>3. Locals \subseteq Alive /\ Arguments \cup Kept \subseteq Alive /\ Alive \in SUBSET Cells
  BY AliveFacts
<1>4. Entered(T)' \subseteq Alive
  BY <1>1, <1>3 DEF Entered
<1>5. Given(T)' \subseteq Arguments
  BY DEF Given, Arguments, Children, Active
<1>6. Seeds(T)' \subseteq Alive \cup forgotten'
  BY <1>3, <1>4, <1>5 DEF Seeds, Locals
<1> QED BY <1>1, <1>2, <1>3, <1>6

(***************************************************************************)
(* A step that changes the table: the line that a set of rows was part of  *)
(* before it, and all that its cells were found from.                      *)
(***************************************************************************)
LEMMA SpawnLine ==
  ASSUME IInv, NEW t \in Rows, NEW c \in Threads, NEW S \in SUBSET Cells, state[c] = "free",
         state[t] = "active", state' = [state EXCEPT ![c] = "active"],
         parent' = [parent EXCEPT ![c] = t], param' = [param EXCEPT ![c] = S],
         UNCHANGED <<m_remember_set, forgotten>>,
         NEW T \in SUBSET Threads, Line(T)'
  PROVE  /\ Line(T \ {c}) /\ Seeds(T \ {c}) \subseteq Seeds(T)'
         /\ c \in T => t \in (T \ {c}) \cup {Owner}
         /\ c \in T /\ t = Owner => S \subseteq Seeds(T)'
<1>1. /\ state \in [Rows -> {"free", "active", "ended", "sync"}]
      /\ parent \in [Threads -> Rows] /\ param \in [Threads -> SUBSET Cells]
      /\ c \in Rows /\ c # Owner /\ t # c
      /\ \A d \in Threads : d \in Rows
  BY Types DEF IInv, TypeOK
<1>2. /\ state'[c] = "active" /\ parent'[c] = t /\ param'[c] = S
      /\ \A d \in Threads : d # c => /\ state'[d] = state[d] /\ parent'[d] = parent[d]
                                     /\ param'[d] = param[d]
  BY <1>1
<1>3. ASSUME NEW d \in T, d # c PROVE parent[d] \in (T \ {c}) \cup {Owner}
  <2>1. parent[d] \in T \cup {Owner}
    BY <1>2, <1>3 DEF Line
  <2>2. parent[d] # c
    BY <1>1 DEF IInv, TableShape
  <2> QED BY <2>1, <2>2
<1>4. Given(T \ {c}) \subseteq Given(T)'
  BY <1>2 DEF Given, Active
<1>5. Entered(T \ {c}) \subseteq Entered(T)'
  BY DEF Entered
<1>6. c \in T /\ t = Owner => S \subseteq Given(T)'
  BY <1>2 DEF Given, Active
<1> QED BY <1>1, <1>2, <1>3, <1>4, <1>5, <1>6 DEF Line, Seeds

LEMMA FreeLine ==
  ASSUME IInv, NEW c \in Threads, Free(c), NEW T \in SUBSET Threads, Line(T)'
  PROVE  Line(T \ {c}) /\ Seeds(T \ {c}) \subseteq Seeds(T)'
<1>1. /\ state' = [state EXCEPT ![c] = "free"] /\ param' = [param EXCEPT ![c] = {}]
      /\ parent' = [parent EXCEPT ![c] = Owner] /\ UNCHANGED <<m_remember_set, forgotten>>
      /\ Children(c) = {}
  BY DEF Free
<1>2. /\ state \in [Rows -> {"free", "active", "ended", "sync"}]
      /\ parent \in [Threads -> Rows] /\ param \in [Threads -> SUBSET Cells]
      /\ \A d \in Threads : d \in Rows /\ d # Owner
  BY Types DEF IInv, TypeOK
<1>3. \A d \in Threads : d # c => /\ state'[d] = state[d] /\ parent'[d] = parent[d]
                                  /\ param'[d] = param[d]
  BY <1>1, <1>2
<1>4. ASSUME NEW d \in T, d # c PROVE parent[d] \in (T \ {c}) \cup {Owner}
  <2>1. parent[d] \in T \cup {Owner}
    BY <1>3, <1>4 DEF Line
  <2>2. parent[d] # c
    BY <1>1, <1>2 DEF IInv, TableShape, Children
  <2> QED BY <2>1, <2>2
<1>5. Given(T \ {c}) \subseteq Given(T)'
  BY <1>3 DEF Given, Active
<1>6. Entered(T \ {c}) \subseteq Entered(T)'
  BY <1>1 DEF Entered
<1> QED BY <1>1, <1>4, <1>5, <1>6 DEF Line, Seeds

LEMMA EndLine ==
  ASSUME IInv, NEW c \in Threads, End(c), NEW T \in SUBSET Threads, Line(T)'
  PROVE  \E U \in SUBSET Threads :
           T \ {c} \subseteq U /\ Line(U) /\ Seeds(U) \subseteq Seeds(T)'
<1>1. /\ UNCHANGED <<parent, param>> /\ m_remember_set' = Cleared(c)
      /\ state' = [state EXCEPT ![c] = IF Children(c) = {} THEN "ended" ELSE "sync"]
      /\ forgotten' = forgotten \cup GivenUp(c)
  BY DEF End
<1>2. /\ state \in [Rows -> {"free", "active", "ended", "sync"}]
      /\ ref \in Field /\ param \in [Threads -> SUBSET Cells]
      /\ m_remember_set \in [Cells -> SUBSET Threads]
      /\ Nil \notin Cells /\ \A d \in Threads : d \in Rows /\ d # Owner
  BY Types DEF IInv, TypeOK
<1>3. \A d \in Threads : d # c => state'[d] = state[d]
  BY <1>1, <1>2
<1>4. Line(T)
  BY <1>1 DEF Line
<1>5. \A o \in Cells : m_remember_set[o] \cap (T \ {c}) \subseteq m_remember_set'[o]
  BY <1>1, <1>2 DEF Cleared
<1>6. Given(T \ {c}) \subseteq Given(T)'
  BY <1>1, <1>3 DEF Given, Active
<1>7. Entered(T \ {c}) \subseteq Entered(T)'
  BY <1>5 DEF Entered
<1>8. CASE Children(c) = {}
  <2>1. Line(T \ {c})
    BY <1>4, <1>8, LineWithout
  <2>2. Seeds(T \ {c}) \subseteq Seeds(T)'
    BY <1>1, <1>6, <1>7 DEF Seeds
  <2> QED BY <2>1, <2>2
<1>9. CASE Children(c) # {}
  <2> DEFINE G == param[c] \cup {o \in Cells : c \in m_remember_set[o]}
  <2>1. G \in SUBSET (Cells \cup {Nil}) /\ Nil \notin G
    BY <1>2
  <2>2. G \subseteq Reach(G)
    BY <1>2, <2>1, ReachHolds DEF Reach
  <2>3. G \subseteq forgotten'
    BY <1>1, <1>9, <2>2 DEF GivenUp
  <2>4. Given(T) \subseteq Given(T \ {c}) \cup param[c]
    BY DEF Given
  <2>5. Entered(T) \subseteq Entered(T \ {c}) \cup {o \in Cells : c \in m_remember_set[o]}
    BY DEF Entered
  <2>6. Given(T) \cup Entered(T) \subseteq Given(T)' \cup Entered(T)' \cup forgotten'
    BY <1>6, <1>7, <2>3, <2>4, <2>5
  <2>7. Seeds(T) \subseteq Seeds(T)'
    BY <1>1, <2>6 DEF Seeds
  <2> QED BY <1>4, <2>7
<1> QED BY <1>8, <1>9

(***************************************************************************)
(* Every step keeps what a line of threads refers to within reach of what  *)
(* is kept for that line.                                                  *)
(***************************************************************************)
LEMMA LineReach ==
  ASSUME IInv, NEW U \in SUBSET Threads, Line(U), NEW t \in U
  PROVE  held[t] \subseteq Reach(Seeds(U))
BY DEF IInv, LineKept

LEMMA ReachSeeds ==
  ASSUME IInv, NEW T \in SUBSET Threads
  PROVE  /\ Reach(Seeds(T)) \in SUBSET Cells /\ Seeds(T) \subseteq Reach(Seeds(T))
         /\ Closed(ref, Reach(Seeds(T)))
<1>1. Seeds(T) \in SUBSET (Cells \cup {Nil}) /\ Nil \notin Seeds(T) /\ ref \in Field
  BY Types
<1> QED BY <1>1, ReachHolds DEF Reach

(* The cells a set of rows refers to are found after the step when they    *)
(* were found before, from less, and the field is the same.                *)
LEMMA LineGoesOn ==
  ASSUME IInv, ref' = ref, NEW T \in SUBSET Threads, NEW U \in SUBSET Threads, Line(U),
         Seeds(U) \subseteq Seeds(T)', Seeds(T)' \in SUBSET Cells, NEW t \in U
  PROVE  held[t] \subseteq Reach(Seeds(T))'
<1>1. held[t] \subseteq Reach(Seeds(U))
  BY LineReach
<1>2. ref \in Field /\ Seeds(U) \in SUBSET (Cells \cup {Nil})
      /\ Seeds(T)' \in SUBSET (Cells \cup {Nil})
  BY Types
<1> DEFINE G == Seeds(T)'
<1>3. ReachIn(ref, Seeds(U)) \subseteq ReachIn(ref, G)
  BY <1>2, ReachMore
<1>4. Reach(Seeds(T))' = ReachIn(ref, G)
  BY DEF Reach, ReachIn, Closed
<1> QED BY <1>1, <1>3, <1>4 DEF Reach

LEMMA SeedsType ==
  ASSUME TypeOK', NEW T \in SUBSET Threads
  PROVE  Seeds(T)' \in SUBSET Cells
<1>1. Env \in Cells
  BY EnvAssumption
<1>2. Given(T)' \subseteq Cells
  BY DEF Given, TypeOK
<1>3. Entered(T)' \subseteq Cells
  BY DEF Entered
<1> QED BY <1>1, <1>2, <1>3 DEF Seeds, TypeOK

LEMMA HeldStep ==
  ASSUME IInv, [Next]_vars
  PROVE  HeldKept'
<1>1. /\ \A t \in Rows : held[t] \ used \subseteq forgotten
      /\ held \in [Rows -> SUBSET Cells] /\ used \in SUBSET Cells /\ Env \in used
      /\ \A o \in used : ref[o] \in used \cup {Nil}
      /\ Owner \in Rows /\ \A c \in Threads : c \in Rows
  BY Types DEF IInv, TypeOK, HeldKept, HeapShape
<1>2. ASSUME UNCHANGED <<used, held>>, forgotten \subseteq forgotten' PROVE HeldKept'
  BY <1>1, <1>2 DEF HeldKept
<1>3. CASE New
  <2>1. PICK o \in Cells \ used :
          /\ \A t \in Rows : o \notin held[t]
          /\ held' = [held EXCEPT ![Owner] = @ \cup {o}]
          /\ used' = used \cup {o} /\ forgotten' = forgotten \ {o}
    BY <1>3 DEF New, Take
  <2>2. \A t \in Rows : held'[t] \subseteq held[t] \cup {o}
    BY <1>1, <2>1
  <2> QED BY <1>1, <2>1, <2>2 DEF HeldKept
<1>4. ASSUME NEW t \in Rows, Load(t) PROVE HeldKept'
  <2>1. PICK o \in (held[t] \cup {Env}) \cap used :
          ref[o] # Nil /\ held' = [held EXCEPT ![t] = @ \cup {ref[o]}]
    BY <1>4 DEF Load, Take
  <2>2. ref[o] \in used /\ \A u \in Rows : held'[u] \subseteq held[u] \cup {ref[o]}
    BY <1>1, <2>1
  <2> QED BY <1>1, <1>4, <2>2 DEF HeldKept, Load, heap
<1>5. ASSUME NEW t \in Rows, Drop(t) PROVE HeldKept'
  <2>1. \A u \in Rows : held'[u] \subseteq held[u]
    BY <1>1, <1>5 DEF Drop
  <2> QED BY <1>1, <1>5, <2>1 DEF HeldKept, Drop, heap
<1>6. ASSUME NEW t \in Rows, Spawn(t) PROVE HeldKept'
  <2>1. PICK c \in Threads, S \in SUBSET held[t] : held' = [held EXCEPT ![c] = S]
    BY <1>6 DEF Spawn
  <2>2. \A u \in Rows : held'[u] \subseteq held[u] \/ held'[u] \subseteq held[t]
    BY <1>1, <2>1
  <2> QED BY <1>1, <1>6, <2>2 DEF HeldKept, Spawn, heap
<1>7. ASSUME NEW c \in Threads, End(c) PROVE HeldKept'
  <2>1. \A u \in Rows : held'[u] \subseteq held[u]
    BY <1>1, <1>7 DEF End
  <2> QED BY <1>1, <1>7, <2>1 DEF HeldKept, End, heap
<1>8. CASE Collect
  <2>1. /\ Snapshot /\ used' = used \cap Alive /\ UNCHANGED <<held, state, parent, param>>
    BY <1>8 DEF Collect, Alive, table
  <2>2. forgotten \subseteq forgotten'
    BY <2>1, SnapshotFacts
  <2>3. held[Owner] \subseteq Alive
    BY AliveFacts DEF Locals
  <2>4. CASE Children(Owner) = {}
    <3>1. \A t \in Threads : held[t] = {}
      BY <2>4, SomeChild
    <3> QED BY <1>1, <2>1, <2>2, <2>3, <3>1 DEF HeldKept, Rows
  <2>5. CASE Children(Owner) # {}
    <3>1. Seeds(Threads) \subseteq Alive \cup forgotten'
      BY <2>1, <2>5, CollectKeeps
    <3>2. Closed(ref, Alive \cup forgotten') /\ Alive \cup forgotten' \in SUBSET Cells
      <4>1. Closed(ref, forgotten') /\ forgotten' \in SUBSET Cells
        BY <2>1, <2>5, SnapshotFacts
      <4>2. Closed(ref, Alive) /\ Alive \in SUBSET Cells
        BY AliveFacts
      <4> QED BY <4>1, <4>2 DEF Closed
    <3>3. Reach(Seeds(Threads)) \subseteq Alive \cup forgotten'
      BY <3>1, <3>2, ReachLeast DEF Reach
    <3>4. Line(Threads)
      BY DEF IInv, TypeOK, Line, Rows
    <3>5. \A t \in Threads : held[t] \subseteq Alive \cup forgotten'
      BY <3>3, <3>4, LineReach
    <3> QED BY <1>1, <2>1, <2>2, <2>3, <3>5 DEF HeldKept, Rows
  <2> QED BY <2>4, <2>5
<1>9. CASE BeginWrite \/ EndWrite \/ BeginMark \/ FallBack \/ (\E c \in Threads : Free(c))
           \/ UNCHANGED vars
  <2>1. forgotten \subseteq forgotten'
    BY <1>9, SnapshotFacts DEF BeginWrite, EndWrite, BeginMark, FallBack, Free, vars
  <2> QED BY <1>2, <1>9, <2>1 DEF BeginWrite, EndWrite, BeginMark, FallBack, Free, vars, heap
<1> QED BY <1>3, <1>4, <1>5, <1>6, <1>7, <1>8, <1>9 DEF Next

LEMMA LineStep ==
  ASSUME IInv, [Next]_vars
  PROVE  LineKept'
<1> SUFFICES ASSUME NEW T \in SUBSET Threads, Line(T)'
             PROVE  \A t \in T : held'[t] \subseteq Reach(Seeds(T))'
  BY DEF LineKept
<1> TAKE t \in T
<1>1. /\ held \in [Rows -> SUBSET Cells] /\ ref \in Field /\ t \in Rows /\ t # Owner
      /\ Owner \in Rows /\ Nil \notin Cells /\ Env \in Cells
  BY Types DEF IInv, TypeOK
<1>2. TypeOK' /\ Seeds(T)' \in SUBSET Cells
  BY TypeStep, SeedsType
<1>3. ASSUME ref' = ref, NEW U \in SUBSET Threads, Line(U), Seeds(U) \subseteq Seeds(T)', t \in U,
             held'[t] \subseteq held[t]
      PROVE  held'[t] \subseteq Reach(Seeds(T))'
  BY <1>2, <1>3, LineGoesOn
<1>4. ASSUME ref' = ref, UNCHANGED <<state, parent, param>>, held'[t] \subseteq held[t],
             forgotten \subseteq forgotten',
             \A o \in Cells : m_remember_set[o] \subseteq m_remember_set'[o] \/ o \in forgotten'
      PROVE  held'[t] \subseteq Reach(Seeds(T))'
  <2>1. Line(T)
    BY <1>4 DEF Line
  <2>2. Seeds(T) \subseteq Seeds(T)'
    BY <1>4, SeedsGrow
  <2> QED BY <1>3, <1>4, <2>1, <2>2
<1>5. CASE New
  <2>1. PICK o \in Cells \ used :
          /\ \A u \in Rows : o \notin held[u]
          /\ held' = [held EXCEPT ![Owner] = @ \cup {o}]
          /\ ref' = [ref EXCEPT ![o] = Nil] /\ forgotten' = forgotten \ {o}
          /\ UNCHANGED <<state, parent, param, m_remember_set>>
    BY <1>5 DEF New, Take, table
  <2>2. ref[o] = Nil /\ ref' = ref
    BY <1>1, <2>1 DEF IInv, HeapShape, Field
  <2>3. held'[t] = held[t] /\ Line(T)
    BY <1>1, <2>1 DEF Line
  <2>4. Seeds(T) \subseteq Seeds(T)' \cup {o}
    <3>1. Given(T)' = Given(T) /\ Entered(T)' = Entered(T)
      BY <2>1 DEF Given, Active, Entered
    <3> QED BY <2>1, <3>1 DEF Seeds
  <2> DEFINE G == Seeds(T)'
             R == ReachIn(ref, G)
  <2>5. R \in SUBSET Cells /\ G \subseteq R /\ Closed(ref, R)
    <3>1. G \in SUBSET (Cells \cup {Nil}) /\ Nil \notin G
      BY <1>1, <1>2
    <3> QED BY <1>1, <3>1, ReachHolds
  <2>6. Closed(ref, R \cup {o}) /\ R \cup {o} \in SUBSET Cells
    BY <2>1, <2>2, <2>5 DEF Closed
  <2>7. Reach(Seeds(T)) \subseteq R \cup {o}
    BY <2>4, <2>5, <2>6, ReachLeast DEF Reach
  <2>8. held[t] \subseteq Reach(Seeds(T))
    BY <2>3, LineReach
  <2>9. Reach(Seeds(T))' = R
    BY <2>2 DEF Reach, ReachIn, Closed
  <2> QED BY <1>1, <2>1, <2>3, <2>7, <2>8, <2>9
<1>6. ASSUME NEW u \in Rows, Load(u) PROVE held'[t] \subseteq Reach(Seeds(T))'
  <2>1. PICK o \in (held[u] \cup {Env}) \cap used :
          ref[o] # Nil /\ held' = [held EXCEPT ![u] = @ \cup {ref[o]}]
    BY <1>6 DEF Load, Take
  <2>2. UNCHANGED <<ref, state, parent, param, m_remember_set, forgotten>>
    BY <1>6 DEF Load, heap, table
  <2>3. Line(T) /\ Reach(Seeds(T))' = Reach(Seeds(T))
    BY <2>2 DEF Line, Reach, ReachIn, Closed, Seeds, Given, Entered, Active
  <2>4. held[t] \subseteq Reach(Seeds(T)) /\ Env \in Reach(Seeds(T))
        /\ Closed(ref, Reach(Seeds(T)))
    BY <2>3, LineReach, ReachSeeds DEF Seeds
  <2>5. u # t => held'[t] = held[t]
    BY <1>1, <2>1
  <2>6. u = t => held'[t] = held[t] \cup {ref[o]} /\ o \in held[t] \cup {Env}
    BY <1>1, <2>1
  <2>7. u = t => ref[o] \in Reach(Seeds(T))
    BY <2>1, <2>4, <2>6 DEF Closed
  <2> QED BY <2>3, <2>4, <2>5, <2>6, <2>7
<1>7. ASSUME NEW u \in Rows, Drop(u) PROVE held'[t] \subseteq Reach(Seeds(T))'
  BY <1>1, <1>4, <1>7 DEF Drop, heap, table
<1>8. ASSUME NEW u \in Rows, Spawn(u) PROVE held'[t] \subseteq Reach(Seeds(T))'
  <2>1. PICK c \in Threads, S \in SUBSET held[u] :
          /\ state[c] = "free" /\ state' = [state EXCEPT ![c] = "active"]
          /\ parent' = [parent EXCEPT ![c] = u] /\ param' = [param EXCEPT ![c] = S]
          /\ held' = [held EXCEPT ![c] = S]
    BY <1>8 DEF Spawn
  <2>2. state[u] = "active" /\ UNCHANGED <<ref, m_remember_set, forgotten>> /\ S \in SUBSET Cells
    BY <1>1, <1>8 DEF Spawn, Running, heap
  <2>3. /\ Line(T \ {c}) /\ Seeds(T \ {c}) \subseteq Seeds(T)'
        /\ c \in T => u \in (T \ {c}) \cup {Owner}
        /\ c \in T /\ u = Owner => S \subseteq Seeds(T)'
    BY <2>1, <2>2, SpawnLine
  <2>4. CASE t # c
    <3>1. held'[t] = held[t]
      BY <1>1, <2>1, <2>4
    <3> QED BY <1>3, <2>2, <2>3, <2>4, <3>1
  <2>5. CASE t = c /\ u # Owner
    <3>1. held'[t] = S /\ u \in T \ {c}
      BY <1>1, <2>1, <2>3, <2>5
    <3>2. held[u] \subseteq Reach(Seeds(T))'
      BY <1>2, <2>2, <2>3, <3>1, LineGoesOn
    <3> QED BY <3>1, <3>2
  <2>6. CASE t = c /\ u = Owner
    <3>1. held'[t] = S /\ S \subseteq Seeds(T)'
      BY <1>1, <2>1, <2>3, <2>6
    <3> DEFINE G == Seeds(T)'
    <3>2. G \in SUBSET (Cells \cup {Nil}) /\ Nil \notin G
      BY <1>1, <1>2
    <3>3. G \subseteq ReachIn(ref, G)
      BY <1>1, <3>2, ReachHolds
    <3>4. Reach(Seeds(T))' = ReachIn(ref, G)
      BY <2>2 DEF Reach, ReachIn, Closed
    <3> QED BY <3>1, <3>3, <3>4
  <2> QED BY <2>4, <2>5, <2>6
<1>9. ASSUME NEW c \in Threads, End(c) PROVE held'[t] \subseteq Reach(Seeds(T))'
  <2>1. PICK U \in SUBSET Threads : T \ {c} \subseteq U /\ Line(U) /\ Seeds(U) \subseteq Seeds(T)'
    BY <1>9, EndLine
  <2>2. ref' = ref /\ held' = [held EXCEPT ![c] = {}]
    BY <1>9 DEF End, heap
  <2>3. CASE t = c
    BY <1>1, <2>2, <2>3
  <2>4. CASE t # c
    BY <1>1, <1>3, <2>1, <2>2, <2>4
  <2> QED BY <2>3, <2>4
<1>10. ASSUME NEW c \in Threads, Free(c) PROVE held'[t] \subseteq Reach(Seeds(T))'
  <2>1. Line(T \ {c}) /\ Seeds(T \ {c}) \subseteq Seeds(T)'
    BY <1>10, FreeLine
  <2>2. ref' = ref /\ held' = held /\ state[c] # "active"
    BY <1>10 DEF Free, heap
  <2>3. CASE t = c
    BY <2>2, <2>3 DEF IInv, TableShape
  <2>4. CASE t # c
    BY <1>3, <2>1, <2>2, <2>4
  <2> QED BY <2>3, <2>4
<1>11. CASE BeginWrite
  <2>1. PICK o \in held[Owner] \cup {Env}, v \in held[Owner] \cup {ref[Env], Nil} :
          /\ IF Barred(o) THEN Remember(ref[o], v) ELSE UNCHANGED m_remember_set
          /\ forgotten' = forgotten \cup CutOff(o, v)
    BY <1>11 DEF BeginWrite
  <2>2. \A p \in Cells : m_remember_set[p] \subseteq m_remember_set'[p]
    BY <2>1 DEF Remember, Entry, IInv, TypeOK
  <2> QED BY <1>4, <1>11, <2>1, <2>2 DEF BeginWrite, heap, table
<1>12. CASE EndWrite
  <2>1. /\ ref' = [ref EXCEPT ![store[1]] = store[2]] /\ store # <<>>
        /\ UNCHANGED <<held, state, parent, param, m_remember_set, forgotten>>
    BY <1>12 DEF EndWrite, table
  <2>2. Line(T) /\ Seeds(T)' = Seeds(T)
    BY <2>1 DEF Line, Seeds, Given, Entered, Active
  <2>3. store[1] \in Cells /\ store[2] \in Cells \cup {Nil}
    BY <2>1 DEF IInv, TypeOK
  <2>4. CASE held[t] = {}
    BY <2>1, <2>4
  <2>5. CASE held[t] # {}
    <3> DEFINE f == [ref EXCEPT ![store[1]] = store[2]]
               R == ReachIn(f, Seeds(T))
    <3>1. f \in Field /\ Seeds(T) \in SUBSET (Cells \cup {Nil}) /\ Nil \notin Seeds(T)
      BY <1>1, <2>3, Types DEF Field
    <3>2. R \in SUBSET Cells /\ Seeds(T) \subseteq R /\ Closed(f, R)
      BY <3>1, ReachHolds
    <3>3. ref[store[1]] \in {Nil} \cup Seeds(T) \cup ReachIn(f, {store[2]})
      BY <2>1, <2>2, <2>5 DEF IInv, WriteKept, TableShape
    <3>4. ASSUME store[1] \in R PROVE ref[store[1]] \in R \cup {Nil}
      <4>1. f[store[1]] = store[2]
        BY <1>1, <2>3 DEF Field
      <4>2. {store[2]} \ {Nil} \subseteq R
        BY <3>2, <3>4, <4>1 DEF Closed
      <4>3. ReachIn(f, {store[2]}) \subseteq R
        <5> DEFINE S == {store[2]}
        <5> HIDE DEF f, R, S
        <5>1. S \ {Nil} \subseteq R
          BY <4>2 DEF S
        <5>2. ReachIn(f, S) \subseteq R
          BY <3>2, <5>1, ReachLeast
        <5> QED BY <5>2 DEF S
      <4> QED BY <3>2, <3>3, <4>3
    <3>5. \A o \in R : o # store[1] => ref[o] \in R \cup {Nil}
      BY <1>1, <3>2 DEF Closed, Field
    <3>6. Closed(ref, R)
      BY <3>4, <3>5 DEF Closed
    <3>7. Reach(Seeds(T)) \subseteq R
      BY <3>1, <3>2, <3>6, ReachLeast DEF Reach
    <3>8. held[t] \subseteq Reach(Seeds(T))
      BY <2>2, LineReach
    <3>9. Reach(Seeds(T))' = R
      BY <2>1, <2>2 DEF Reach, ReachIn, Closed
    <3> QED BY <2>1, <3>7, <3>8, <3>9
  <2> QED BY <2>4, <2>5
<1>13. CASE Collect
  <2>1. /\ Snapshot /\ UNCHANGED <<held, state, parent, param>>
        /\ ref' = [o \in Cells |-> IF o \in Alive THEN ref[o] ELSE Nil]
    BY <1>13 DEF Collect, Alive, table
  <2>2. CASE Children(Owner) = {}
    BY <2>1, <2>2, SomeChild
  <2>3. CASE Children(Owner) # {}
    <3> DEFINE f == [o \in Cells |-> IF o \in Alive THEN ref[o] ELSE Nil]
               F == forgotten'
               G == Seeds(T)'
               R == ReachIn(f, G)
    <3>1. /\ Seeds(T) \subseteq G /\ G \subseteq Alive \cup F /\ G \in SUBSET Cells
      BY <2>1, <2>3, CollectKeeps
    <3>2. Closed(ref, F) /\ F \in SUBSET Cells
      BY <2>1, <2>3, SnapshotFacts
    <3>3. Closed(ref, Alive) /\ Alive \in SUBSET Cells
      BY AliveFacts
    <3>4. f \in Field /\ G \in SUBSET (Cells \cup {Nil}) /\ Nil \notin G
      BY <1>1, <3>1 DEF Field
    <3>5. R \in SUBSET Cells /\ G \subseteq R /\ Closed(f, R)
      BY <3>4, ReachHolds
    <3>6. Closed(f, Alive \cup F) /\ Alive \cup F \in SUBSET Cells
      BY <3>2, <3>3 DEF Closed
    <3>7. R \subseteq Alive \cup F
      BY <3>1, <3>6, ReachLeast
    <3>8. F \subseteq G
      BY DEF Seeds
    <3>9. Closed(ref, R)
      <4>1. ASSUME NEW o \in R, o \in Alive PROVE ref[o] \in R \cup {Nil}
        BY <3>5, <4>1 DEF Closed
      <4>2. ASSUME NEW o \in R, o \in F PROVE ref[o] \in R \cup {Nil}
        BY <3>2, <3>5, <3>8, <4>2 DEF Closed
      <4> QED BY <3>7, <4>1, <4>2 DEF Closed
    <3>10. Reach(Seeds(T)) \subseteq R
      BY <3>1, <3>5, <3>9, ReachLeast DEF Reach
    <3>11. Line(T)
      BY <2>1 DEF Line
    <3>12. held[t] \subseteq Reach(Seeds(T))
      BY <3>11, LineReach
    <3>13. Reach(Seeds(T))' = R
      BY <2>1 DEF Reach, ReachIn, Closed
    <3> QED BY <2>1, <3>10, <3>12, <3>13
  <2> QED BY <2>2, <2>3
<1>14. CASE FallBack
  <2>1. Snapshot /\ UNCHANGED <<ref, held, state, parent, param>>
    BY <1>14 DEF FallBack, heap, table
  <2> QED BY <1>4, <2>1, SnapshotFacts
<1>15. CASE BeginMark \/ UNCHANGED vars
  BY <1>4, <1>15 DEF BeginMark, vars, heap, table
<1> QED BY <1>5, <1>6, <1>7, <1>8, <1>9, <1>10, <1>11, <1>12, <1>13, <1>14, <1>15 DEF Next

(***************************************************************************)
(* What thread 0 is about to overwrite will still be found: nobody loses   *)
(* it between remember() and the store.                                    *)
(***************************************************************************)
LEMMA WriteStep ==
  ASSUME IInv, [Next]_vars
  PROVE  WriteKept'
<1>1. /\ held \in [Rows -> SUBSET Cells] /\ ref \in Field /\ used \in SUBSET Cells
      /\ held[Owner] \subseteq used /\ Env \in used
      /\ m_remember_set \in [Cells -> SUBSET Threads]
      /\ Owner \in Rows /\ Nil \notin Cells /\ \A d \in Threads : d \in Rows /\ d # Owner
      /\ state \in [Rows -> {"free", "active", "ended", "sync"}]
      /\ parent \in [Threads -> Rows]
  BY Types DEF IInv, TypeOK, HeapShape
<1>2. ASSUME UNCHANGED <<used, ref, store>>, store # <<>>,
             \A T \in SUBSET Threads :
               Line(T)' /\ (\E t \in T : state'[t] = "active") =>
                 \E U \in SUBSET Threads :
                   Line(U) /\ (\E t \in U : state[t] = "active") /\ Seeds(U) \subseteq Seeds(T)'
      PROVE  WriteKept'
  <2> SUFFICES ASSUME NEW T \in SUBSET Threads, Line(T)', \E t \in T : state'[t] = "active"
               PROVE  ref[store[1]] \in {Nil} \cup Seeds(T)'
                        \cup ReachIn([ref EXCEPT ![store[1]] = store[2]], {store[2]})
    <3>1. store[1] \in used /\ store[2] \in used \cup {Nil}
      BY <1>2 DEF IInv, WriteKept
    <3> QED BY <1>2, <3>1 DEF WriteKept, ReachIn, Closed
  <2>1. PICK U \in SUBSET Threads :
          Line(U) /\ (\E t \in U : state[t] = "active") /\ Seeds(U) \subseteq Seeds(T)'
    BY <1>2
  <2>2. ref[store[1]] \in {Nil} \cup Seeds(U)
                            \cup ReachIn([ref EXCEPT ![store[1]] = store[2]], {store[2]})
    BY <1>2, <2>1 DEF IInv, WriteKept
  <2> QED BY <2>1, <2>2
<1>3. CASE store' = <<>>
  BY <1>3 DEF WriteKept
<1>4. CASE BeginWrite
  <2>1. PICK o \in held[Owner] \cup {Env}, v \in held[Owner] \cup {ref[Env], Nil} :
          /\ store' = <<o, v>>
          /\ IF Barred(o) THEN Remember(ref[o], v) ELSE UNCHANGED m_remember_set
          /\ forgotten' = forgotten \cup CutOff(o, v)
    BY <1>4 DEF BeginWrite
  <2>2. /\ UNCHANGED <<used, ref, state, parent, param>>
        /\ o \in used /\ v \in used \cup {Nil} /\ store'[1] = o /\ store'[2] = v
    <3>1. ref[Env] \in used \cup {Nil}
      BY Types DEF IInv, HeapShape
    <3> QED BY <1>1, <1>4, <2>1, <3>1 DEF BeginWrite, heap, table
  <2> DEFINE behind == ReachIn([ref EXCEPT ![o] = v], {v})
  <2>3. ASSUME NEW T \in SUBSET Threads, NEW t \in T, state[t] = "active"
        PROVE  ref[o] \in {Nil} \cup Seeds(T)' \cup behind
    <3>1. CASE ref[o] = Nil
      BY <3>1
    <3>2. CASE ref[o] # Nil /\ CutOff(o, v) = Reach({ref[o]})
      <4>1. ref[o] \in Cells /\ {ref[o]} \in SUBSET (Cells \cup {Nil})
        BY <1>1, <2>2, <3>2 DEF Field
      <4>2. ref[o] \in Reach({ref[o]})
        BY <1>1, <3>2, <4>1, ReachSelf DEF Reach
      <4> QED BY <2>1, <3>2, <4>2 DEF Seeds
    <3>3. CASE ref[o] \in behind
      BY <3>3
    <3>4. CASE ref[o] # Nil /\ EnteredForAll(ref[o])
      <4>1. t \in m_remember_set[ref[o]] /\ ref[o] \in Cells
        BY <1>1, <2>2, <2>3, <3>4 DEF EnteredForAll, Field
      <4>2. m_remember_set[ref[o]] \subseteq m_remember_set'[ref[o]]
        BY <1>1, <2>1, <4>1 DEF Remember, Entry
      <4>3. ref[o] \in Entered(T)'
        BY <4>1, <4>2 DEF Entered
      <4> QED BY <4>3 DEF Seeds
    <3>5. ~Alone
      BY <2>3 DEF Alone
    <3>6. \/ CutOff(o, v) = Reach({ref[o]})
          \/ ref[o] \in {Nil} \cup behind \/ EnteredForAll(ref[o])
      BY <3>5 DEF CutOff
    <3> QED BY <3>1, <3>2, <3>3, <3>4, <3>6
  <2>4. \A T \in SUBSET Threads :
          Line(T)' /\ (\E t \in T : state'[t] = "active") =>
            ref[o] \in {Nil} \cup Seeds(T)' \cup behind
    BY <2>2, <2>3
  <2>5. /\ store'[1] \in used' /\ store'[2] \in used' \cup {Nil}
        /\ ref'[store'[1]] = ref[o]
        /\ ReachIn([ref' EXCEPT ![store'[1]] = store'[2]], {store'[2]}) = behind
    BY <2>2
  <2> QED BY <2>4, <2>5 DEF WriteKept
<1>5. CASE New \/ EndWrite \/ Collect \/ BeginMark \/ FallBack
  BY <1>3, <1>5 DEF New, EndWrite, Collect, BeginMark, FallBack, Running
<1>6. ASSUME NEW t \in Rows, Load(t) \/ Drop(t) PROVE WriteKept'
  <2>1. UNCHANGED <<used, ref, store, state, parent, param, m_remember_set, forgotten>>
    BY <1>6 DEF Load, Drop, heap, table
  <2>2. \A T \in SUBSET Threads : Line(T)' = Line(T) /\ Seeds(T)' = Seeds(T)
    BY <2>1 DEF Line, Seeds, Given, Entered, Active
  <2> QED BY <1>2, <1>3, <2>1, <2>2
<1>7. ASSUME NEW t \in Rows, Spawn(t) PROVE WriteKept'
  <2>1. PICK c \in Threads, S \in SUBSET held[t] :
          /\ state[c] = "free" /\ state' = [state EXCEPT ![c] = "active"]
          /\ parent' = [parent EXCEPT ![c] = t] /\ param' = [param EXCEPT ![c] = S]
    BY <1>7 DEF Spawn
  <2>2. /\ state[t] = "active" /\ (t = Owner => store = <<>>)
        /\ UNCHANGED <<used, ref, store, m_remember_set, forgotten>> /\ S \in SUBSET Cells
    BY <1>1, <1>7 DEF Spawn, Running, heap
  <2>3. ASSUME t # Owner, NEW T \in SUBSET Threads, Line(T)', NEW u \in T, state'[u] = "active"
        PROVE  \E U \in SUBSET Threads :
                 Line(U) /\ (\E w \in U : state[w] = "active") /\ Seeds(U) \subseteq Seeds(T)'
    <3>1. /\ Line(T \ {c}) /\ Seeds(T \ {c}) \subseteq Seeds(T)'
          /\ c \in T => t \in (T \ {c}) \cup {Owner}
      BY <2>1, <2>2, <2>3, SpawnLine
    <3>2. \E w \in T \ {c} : state[w] = "active"
      BY <1>1, <2>1, <2>2, <2>3, <3>1
    <3> QED BY <3>1, <3>2
  <2> QED BY <1>2, <1>3, <2>2, <2>3
<1>8. ASSUME NEW c \in Threads, End(c) PROVE WriteKept'
  <2>1. /\ state' = [state EXCEPT ![c] = IF Children(c) = {} THEN "ended" ELSE "sync"]
        /\ UNCHANGED <<used, ref, store>>
    BY <1>8 DEF End, heap
  <2>2. ASSUME NEW T \in SUBSET Threads, Line(T)', NEW u \in T, state'[u] = "active"
        PROVE  \E U \in SUBSET Threads :
                 Line(U) /\ (\E w \in U : state[w] = "active") /\ Seeds(U) \subseteq Seeds(T)'
    <3>1. PICK U \in SUBSET Threads : T \ {c} \subseteq U /\ Line(U) /\ Seeds(U) \subseteq Seeds(T)'
      BY <1>8, <2>2, EndLine
    <3>2. u # c /\ state[u] = "active"
      BY <1>1, <2>1, <2>2
    <3> QED BY <3>1, <3>2
  <2> QED BY <1>2, <1>3, <2>1, <2>2
<1>9. ASSUME NEW c \in Threads, Free(c) PROVE WriteKept'
  <2>1. state' = [state EXCEPT ![c] = "free"] /\ UNCHANGED <<used, ref, store>>
    BY <1>9 DEF Free, heap
  <2>2. ASSUME NEW T \in SUBSET Threads, Line(T)', NEW u \in T, state'[u] = "active"
        PROVE  \E U \in SUBSET Threads :
                 Line(U) /\ (\E w \in U : state[w] = "active") /\ Seeds(U) \subseteq Seeds(T)'
    <3>1. Line(T \ {c}) /\ Seeds(T \ {c}) \subseteq Seeds(T)'
      BY <1>9, <2>2, FreeLine
    <3>2. u # c /\ state[u] = "active"
      BY <1>1, <2>1, <2>2
    <3> QED BY <2>2, <3>1, <3>2
  <2> QED BY <1>2, <1>3, <2>1, <2>2
<1>10. CASE UNCHANGED vars
  <2>1. UNCHANGED <<used, ref, store, state, parent, param, m_remember_set, forgotten>>
    BY <1>10 DEF vars, heap, table
  <2>2. \A T \in SUBSET Threads : Line(T)' = Line(T) /\ Seeds(T)' = Seeds(T)
    BY <2>1 DEF Line, Seeds, Given, Entered, Active
  <2> QED BY <1>2, <1>3, <2>1, <2>2
<1> QED BY <1>4, <1>5, <1>6, <1>7, <1>8, <1>9, <1>10 DEF Next

(***************************************************************************)
(* The theorems.                                                           *)
(***************************************************************************)
(* The invariant holds whatever the threads, the heap and the collector do  *)
(* (remember, snapshot and spawn of interpreter.cpp, and mutator_thread).   *)
THEOREM InvCorrect == Spec => []IInv
<1>1. IInv /\ [Next]_vars => IInv'
  BY TypeStep, HeldStep, LineStep, WriteStep, HeapStep, TableStep DEF IInv
<1> QED BY <1>1, InitIInv, PTL DEF Spec

(* Every variable of the remember set, of the table's rows and of the heap  *)
(* has its type: m_child, which counts up in spawn() and down when a child  *)
(* of thread 0 ends, never falls below zero.                                *)
THEOREM TypeCorrect == Spec => []TypeOK
<1>1. IInv => TypeOK
  BY DEF IInv
<1> QED BY <1>1, InvCorrect, PTL

(* Whatever a thread refers to exists, or is recorded as given up: the      *)
(* arguments in the table (spawn, snapshot) and the new values that         *)
(* remember() enters in the set keep the rest, however many threads         *)
(* spawn, end and read while thread 0 writes and collects.                  *)
THEOREM HeldKeptCorrect == Spec => []HeldKept
<1>1. IInv => HeldKept
  BY DEF IInv
<1> QED BY <1>1, InvCorrect, PTL
==============================================================================
