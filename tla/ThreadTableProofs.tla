-------------------------- MODULE ThreadTableProofs --------------------------
(***************************************************************************)
(* Theorems about ThreadTable, for every capacity, every set of addresses  *)
(* and every reuse of them: a parent outlives its children, the counters   *)
(* count, and the table implements ThreadTree.                             *)
(*                                                                         *)
(* The inductive invariant is IInv of ThreadTable.  update() may change    *)
(* the row of another thread; it never makes a row free, and that is all   *)
(* the proofs need of it.                                                  *)
(***************************************************************************)
EXTENDS ThreadTable, FiniteSetTheorems, TLAPS

------------------------------------------------------------------------------
LEMMA RootIsRow == Root \in Rows /\ Rows \subseteq Int /\ None \notin Rows
BY CapacityAssumption DEF Root, Rows, None

(* update() changes one state at most, and not to "free". *)
LEMMA UpdateShape ==
  ASSUME TableType, NEW t \in Rows, NEW s \in {"active", "block"}, Update(t, s)
  PROVE  /\ state' \in [Rows -> States]
         /\ \A u \in Rows : state[u] # "free" => state'[u] # "free"
         /\ UNCHANGED <<vm, parent>>
<1>1. s \in States /\ s # "free"
  BY DEF States
<1>2. state \in [Rows -> States] /\ state' = [state EXCEPT ![First(self[t])] = s]
  BY DEF TableType, Update
<1> QED BY <1>1, <1>2 DEF Update

(* The end of a wait, or the beginning of one. *)
LEMMA AwaitShape ==
  ASSUME TableType, ThreadType, NEW t \in Rows, AwaitChildren(t)
  PROVE  /\ state' \in [Rows -> States]
         /\ \A u \in Rows : state[u] # "free" => state'[u] # "free"
         /\ \/ pc' = [pc EXCEPT ![t] = "wait"]
            \/ pc' = [pc EXCEPT ![t] = "delete"] /\ ~HasChildren(t)
         /\ UNCHANGED <<vm, parent>>
BY DEF AwaitChildren, TableType, States

------------------------------------------------------------------------------
(* Counting in the heap at an address, also at one where there is none. *)
LEMMA CountType ==
  ASSUME NEW f \in [Addresses -> Int], NEW b, NEW v, b \in Addresses => v \in Int
  PROVE  [f EXCEPT ![b] = v] \in [Addresses -> Int]
<1>1. ASSUME NEW x \in Addresses PROVE [f EXCEPT ![b] = v][x] \in Int
  <2>1. CASE x = b
    BY <2>1
  <2>2. CASE x # b
    BY <2>2
  <2> QED BY <2>1, <2>2
<1> QED BY <1>1

LEMMA TypeInit == Init => TableType /\ ThreadType
<1> SUFFICES ASSUME Init PROVE TableType /\ ThreadType
  OBVIOUS
<1>1. PICK a \in Addresses :
        /\ allocated = {a} /\ m_child = [b \in Addresses |-> 0] /\ m_live = 1
        /\ vm \in [Rows -> Addresses \cup {NoVM}]
        /\ self = [t \in Rows |-> IF t = Root THEN a ELSE NoVM]
        /\ state = [t \in Rows |-> IF t = Root THEN "active" ELSE "free"]
        /\ parent = [t \in Rows |-> None]
        /\ pc = [t \in Rows |-> IF t = Root THEN "run" ELSE "none"]
        /\ woken = [t \in Rows |-> FALSE]
  BY DEF Init
<1>2. state \in [Rows -> States] /\ pc \in [Rows -> PCs]
  BY <1>1 DEF States, PCs, Running
<1>3. allocated \in SUBSET Addresses /\ m_live \in Int /\ m_child \in [Addresses -> Int]
  BY <1>1
<1>4. /\ self \in [Rows -> Addresses \cup {NoVM}]
      /\ parent \in [Rows -> Rows \cup {None}]
  BY <1>1
<1>5. woken \in [Rows -> BOOLEAN]
  BY <1>1, Zenon
<1> QED BY <1>1, <1>2, <1>3, <1>4, <1>5 DEF TableType, ThreadType

LEMMA TypeNext ==
  ASSUME TableType, ThreadType, [Next]_vars
  PROVE  TableType' /\ ThreadType'
<1> USE DEF memory, table
<1>1. ASSUME NEW t \in Rows, Block(t) PROVE TableType' /\ ThreadType'
  <2>1. Update(t, "block") /\ pc' = [pc EXCEPT ![t] = "call"]
        /\ UNCHANGED <<memory, m_live, self, woken>>
    BY <1>1 DEF Block
  <2>2. pc' \in [Rows -> PCs]
    BY <2>1 DEF ThreadType, PCs, Running
  <2> QED BY <2>1, <2>2, UpdateShape DEF TableType, ThreadType
<1>2. ASSUME NEW t \in Rows, Unblock(t) PROVE TableType' /\ ThreadType'
  <2>1. Update(t, "active") /\ pc' = [pc EXCEPT ![t] = "run"]
        /\ UNCHANGED <<memory, m_live, self, woken>>
    BY <1>2 DEF Unblock
  <2>2. pc' \in [Rows -> PCs]
    BY <2>1 DEF ThreadType, PCs, Running
  <2> QED BY <2>1, <2>2, UpdateShape DEF TableType, ThreadType
<1>3. ASSUME NEW t \in Rows, End(t) PROVE TableType' /\ ThreadType'
  BY <1>3 DEF End, TableType, ThreadType, PCs
<1>4. ASSUME NEW t \in Rows, NEW c \in Rows, NEW a \in Addresses, Spawn(t, c, a)
      PROVE  TableType' /\ ThreadType'
  <2>1. m_child' \in [Addresses -> Int]
    BY <1>4 DEF Spawn, TableType
  <2>4. m_live' \in Int /\ allocated' \in SUBSET Addresses
    BY <1>4 DEF Spawn, TableType
  <2>2. /\ state' \in [Rows -> States]
        /\ vm' \in [Rows -> Addresses \cup {NoVM}]
        /\ parent' \in [Rows -> Rows \cup {None}]
    BY <1>4 DEF Spawn, TableType, States
  <2>3. /\ pc' \in [Rows -> PCs]
        /\ self' \in [Rows -> Addresses \cup {NoVM}]
        /\ woken' \in [Rows -> BOOLEAN]
    BY <1>4 DEF Spawn, ThreadType, PCs, Running
  <2> QED BY <2>1, <2>2, <2>3, <2>4 DEF TableType, ThreadType
<1>5. ASSUME NEW t \in Rows, Leave(t) PROVE TableType' /\ ThreadType'
  <2>1. AwaitChildren(t) /\ UNCHANGED <<allocated, m_live, self, woken>>
    BY <1>5 DEF Leave
  <2>2. m_child' \in [Addresses -> Int]
    <3> DEFINE b == vm[parent[t]]
               v == m_child[b] - 1
    <3>1. m_child' = [m_child EXCEPT ![b] = v]
      BY <1>5 DEF Leave
    <3>2. m_child \in [Addresses -> Int] /\ (b \in Addresses => v \in Int)
      BY DEF TableType
    <3> HIDE DEF b, v
    <3> QED BY <3>1, <3>2, CountType
  <2>3. pc' \in [Rows -> PCs]
    BY <2>1, AwaitShape DEF ThreadType, PCs
  <2> QED BY <2>1, <2>2, <2>3, AwaitShape DEF TableType, ThreadType
<1>6. ASSUME NEW t \in Rows, WakeUp(t) PROVE TableType' /\ ThreadType'
  <2>1. AwaitChildren(t) /\ UNCHANGED <<memory, m_live, self>>
    BY <1>6 DEF WakeUp
  <2>2. woken' \in [Rows -> BOOLEAN]
    BY <1>6 DEF WakeUp, ThreadType
  <2>3. pc' \in [Rows -> PCs]
    BY <2>1, AwaitShape DEF ThreadType, PCs
  <2> QED BY <2>1, <2>2, <2>3, AwaitShape DEF TableType, ThreadType
<1>7. ASSUME NEW t \in Rows, Delete(t) PROVE TableType' /\ ThreadType'
  BY <1>7 DEF Delete, TableType, ThreadType, PCs
<1>8. ASSUME NEW t \in Rows, Free(t) PROVE TableType' /\ ThreadType'
  <2>1. m_live' \in Int /\ state' \in [Rows -> States]
    BY <1>8 DEF Free, TableType, States
  <2>2. pc' \in [Rows -> PCs] /\ self' \in [Rows -> Addresses \cup {NoVM}]
    BY <1>8 DEF Free, ThreadType, PCs
  <2>3. woken' \in [Rows -> BOOLEAN]
    BY <1>8 DEF Free, ThreadType
  <2> QED BY <1>8, <2>1, <2>2, <2>3 DEF Free, TableType, ThreadType
<1>9. ASSUME NEW t \in Rows, SpuriousWake(t) PROVE TableType' /\ ThreadType'
  BY <1>9 DEF SpuriousWake, TableType, ThreadType
<1>10. CASE UNCHANGED vars
  BY <1>10 DEF vars, TableType, ThreadType
<1> QED
  BY <1>1, <1>2, <1>3, <1>4, <1>5, <1>6, <1>7, <1>8, <1>9, <1>10, Zenon DEF Next, Teardown

------------------------------------------------------------------------------
(* The other parts of IInv, for one action after the other: first what the  *)
(* actions that leave the tree alone have in common.                        *)
Tied == RootStays /\ OwnRow /\ OwnVM /\ ParentOutlives

LEMMA TiedInit == Init => Tied
<1> SUFFICES ASSUME Init PROVE Tied
  OBVIOUS
<1>1. PICK a \in Addresses :
        /\ allocated = {a} /\ vm \in [Rows -> Addresses \cup {NoVM}] /\ vm[Root] = a
        /\ self = [t \in Rows |-> IF t = Root THEN a ELSE NoVM]
        /\ state = [t \in Rows |-> IF t = Root THEN "active" ELSE "free"]
        /\ parent = [t \in Rows |-> None]
        /\ pc = [t \in Rows |-> IF t = Root THEN "run" ELSE "none"]
  BY DEF Init
<1>2. pc[Root] = "run" /\ parent[Root] = None /\ self[Root] = a /\ state[Root] # "free"
  BY <1>1, RootIsRow
<1>3. \A t \in Rows : pc[t] # "none" => t = Root
  BY <1>1
<1> QED BY <1>1, <1>2, <1>3, RootIsRow
        DEF Tied, RootStays, Running, OwnRow, OwnVM, ParentOutlives, Alive

(* A step of one thread that does not touch the VMs and the parents. *)
LEMMA TiedStep ==
  ASSUME TableType, ThreadType, Tied, NEW t \in Rows, NEW q \in PCs \ {"none", "deleted"},
         Alive(t), pc' = [pc EXCEPT ![t] = q], t = Root => q \in Running,
         q = "delete" => ~HasChildren(t),
         \A u \in Rows : state[u] # "free" => state'[u] # "free",
         UNCHANGED <<allocated, vm, parent, self>>
  PROVE  Tied'
<1>1. \A u \in Rows : pc'[u] = IF u = t THEN q ELSE pc[u]
  BY DEF ThreadType
<1>2. \A u \in Rows : (pc'[u] # "none" <=> pc[u] # "none") /\ (Alive(u)' <=> Alive(u))
  BY <1>1 DEF Alive
<1>3. RootStays'
  BY <1>1, RootIsRow DEF Tied, RootStays
<1>4. OwnRow'
  BY <1>2 DEF Tied, OwnRow
<1>5. OwnVM'
  <2>1. \A u \in Rows : Alive(u)' => self'[u] \in allocated' /\ vm'[u] = self'[u]
    BY <1>2 DEF Tied, OwnVM
  <2>2. \A u, w \in Rows : Alive(u)' /\ Alive(w)' /\ u # w => self'[u] # self'[w]
    BY <1>2 DEF Tied, OwnVM
  <2> QED BY <2>1, <2>2 DEF OwnVM, Alive
<1>6. ParentOutlives'
  <2> SUFFICES ASSUME NEW c \in Rows \ {Root}, pc'[c] # "none"
               PROVE  Usable(parent[c])'
    BY DEF ParentOutlives
  <2> DEFINE p == parent[c]
  <2>1. Usable(p)
    BY <1>2 DEF Tied, ParentOutlives
  <2>2. p = t => HasChildren(t)
    BY <1>2 DEF Tied, OwnRow, HasChildren
  <2>3. pc'[p] # "delete"
    BY <1>1, <2>1, <2>2 DEF Usable
  <2>4. Alive(p)'
    BY <1>2, <2>1 DEF Usable
  <2> QED BY <2>1, <2>3, <2>4 DEF Usable, Alive
<1> QED BY <1>3, <1>4, <1>5, <1>6 DEF Tied

LEMMA TiedSpawn ==
  ASSUME TableType, ThreadType, Tied, NEW t \in Rows, NEW c \in Rows, NEW a \in Addresses,
         Spawn(t, c, a)
  PROVE  Tied'
<1>1. /\ pc[t] = "call" /\ state[c] = "free" /\ a \notin allocated
      /\ allocated' = allocated \cup {a}
      /\ state' = [state EXCEPT ![c] = "active"]
      /\ vm' = [vm EXCEPT ![c] = a]
      /\ parent' = [parent EXCEPT ![c] = t]
      /\ self' = [self EXCEPT ![c] = a]
      /\ pc' = [pc EXCEPT ![c] = "run", ![t] = "spawned"]
  BY DEF Spawn, FirstFree
<1>2. pc[c] = "none" /\ c # t /\ c # Root
  BY <1>1 DEF Tied, OwnRow, RootStays, Running
<1>3. \A u \in Rows : /\ pc'[u] = IF u = c THEN "run" ELSE IF u = t THEN "spawned" ELSE pc[u]
                      /\ parent'[u] = IF u = c THEN t ELSE parent[u]
                      /\ vm'[u] = IF u = c THEN a ELSE vm[u]
                      /\ self'[u] = IF u = c THEN a ELSE self[u]
                      /\ state'[u] = IF u = c THEN "active" ELSE state[u]
  BY <1>1, <1>2 DEF TableType, ThreadType
<1>4. \A u \in Rows : u # c => (Alive(u)' <=> Alive(u)) /\ (pc'[u] # "none" <=> pc[u] # "none")
  <2> SUFFICES ASSUME NEW u \in Rows, u # c
               PROVE  (Alive(u)' <=> Alive(u)) /\ (pc'[u] # "none" <=> pc[u] # "none")
    OBVIOUS
  <2>1. CASE u = t
    <3>1. pc'[u] = "spawned" /\ pc[u] = "call"
      BY <1>1, <1>3, <2>1
    <3> QED BY <3>1 DEF Alive
  <2>2. CASE u # t
    <3>1. pc'[u] = pc[u]
      BY <1>3, <2>2
    <3> QED BY <3>1 DEF Alive
  <2> QED BY <2>1, <2>2
<1>5. RootStays'
  BY <1>2, <1>3, RootIsRow DEF Tied, RootStays, Running
<1>6. OwnRow'
  BY <1>3, <1>4 DEF Tied, OwnRow
<1>7. OwnVM'
  <2>1. \A u \in Rows : Alive(u)' => self'[u] \in allocated' /\ vm'[u] = self'[u]
    BY <1>1, <1>3, <1>4 DEF Tied, OwnVM
  <2>2. \A u, w \in Rows : Alive(u)' /\ Alive(w)' /\ u # w => self'[u] # self'[w]
    BY <1>1, <1>3, <1>4 DEF Tied, OwnVM
  <2> QED BY <2>1, <2>2 DEF OwnVM, Alive
<1>8. ParentOutlives'
  <2> SUFFICES ASSUME NEW d \in Rows \ {Root}, pc'[d] # "none"
               PROVE  Usable(parent[d])'
    BY DEF ParentOutlives
  <2>1. CASE d = c
    <3>1. Alive(t) /\ parent'[d] = t /\ pc'[t] = "spawned"
      BY <1>1, <1>2, <1>3, <2>1 DEF Alive
    <3> QED BY <1>1, <1>2, <1>3, <3>1 DEF Tied, OwnVM, Usable, Alive
  <2>2. CASE d # c
    <3> DEFINE p == parent[d]
    <3>1. Usable(p)
      BY <1>4, <2>2 DEF Tied, ParentOutlives
    <3>2. p # c /\ parent'[d] = p
      BY <1>2, <1>3, <2>2, <3>1 DEF Usable, Alive
    <3>3. p \in Rows /\ Alive(p)' /\ pc'[p] # "delete"
      BY <1>3, <1>4, <3>1, <3>2 DEF Usable
    <3>4. vm'[p] = self'[p] /\ self'[p] \in allocated'
      BY <1>1, <1>3, <3>1, <3>2 DEF Usable
    <3> QED BY <3>2, <3>3, <3>4 DEF Usable, Alive
  <2> QED BY <2>1, <2>2
<1> QED BY <1>5, <1>6, <1>7, <1>8 DEF Tied

LEMMA TiedDelete ==
  ASSUME TableType, ThreadType, Tied, NEW t \in Rows, Delete(t)
  PROVE  Tied'
<1>1. /\ pc[t] = "delete" /\ allocated' = allocated \ {self[t]}
      /\ pc' = [pc EXCEPT ![t] = "deleted"]
      /\ UNCHANGED <<state, vm, parent, self>>
  BY DEF Delete, table
<1>2. \A u \in Rows : pc'[u] = IF u = t THEN "deleted" ELSE pc[u]
  BY <1>1 DEF ThreadType
<1>3. /\ \A u \in Rows : Alive(u)' <=> Alive(u) /\ u # t
      /\ \A u \in Rows : pc'[u] # "none" <=> pc[u] # "none"
      /\ Alive(t) /\ t # Root
  BY <1>1, <1>2 DEF Alive, Tied, RootStays, Running
<1>4. RootStays'
  BY <1>1, <1>2, <1>3, RootIsRow DEF Tied, RootStays
<1>5. OwnRow'
  BY <1>1, <1>3 DEF Tied, OwnRow
<1>6. OwnVM'
  <2>1. \A u \in Rows : Alive(u)' => self'[u] \in allocated' /\ vm'[u] = self'[u]
    BY <1>1, <1>3 DEF Tied, OwnVM
  <2>2. \A u, w \in Rows : Alive(u)' /\ Alive(w)' /\ u # w => self'[u] # self'[w]
    BY <1>1, <1>3 DEF Tied, OwnVM
  <2> QED BY <2>1, <2>2 DEF OwnVM, Alive
<1>7. ParentOutlives'
  <2> SUFFICES ASSUME NEW c \in Rows \ {Root}, pc'[c] # "none"
               PROVE  Usable(parent[c])'
    BY DEF ParentOutlives
  <2> DEFINE p == parent[c]
  <2>1. Usable(p)
    BY <1>3 DEF Tied, ParentOutlives
  <2>2. p # t
    BY <1>1, <2>1 DEF Usable
  <2>3. self[p] # self[t]
    BY <1>3, <2>1, <2>2 DEF Tied, OwnVM, Usable
  <2> QED BY <1>1, <1>2, <1>3, <2>1, <2>2, <2>3 DEF Usable, Alive
<1> QED BY <1>4, <1>5, <1>6, <1>7 DEF Tied

LEMMA TiedFree ==
  ASSUME TableType, ThreadType, Tied, NEW t \in Rows, Free(t)
  PROVE  Tied'
<1>1. /\ pc[t] = "deleted"
      /\ state' = [state EXCEPT ![t] = "free"]
      /\ pc' = [pc EXCEPT ![t] = "none"]
      /\ self' = [self EXCEPT ![t] = NoVM]
      /\ UNCHANGED <<allocated, vm, parent>>
  BY DEF Free, memory
<1>2. \A u \in Rows : /\ pc'[u] = IF u = t THEN "none" ELSE pc[u]
                      /\ u # t => self'[u] = self[u] /\ state'[u] = state[u]
  BY <1>1 DEF TableType, ThreadType
<1>3. /\ \A u \in Rows : Alive(u)' <=> Alive(u)
      /\ \A u \in Rows : pc'[u] # "none" <=> pc[u] # "none" /\ u # t
      /\ ~Alive(t) /\ t # Root
  BY <1>1, <1>2 DEF Alive, Tied, RootStays, Running
<1>4. RootStays'
  BY <1>1, <1>2, <1>3, RootIsRow DEF Tied, RootStays
<1>5. OwnRow'
  BY <1>2, <1>3 DEF Tied, OwnRow
<1>6. OwnVM'
  <2>1. \A u \in Rows : Alive(u)' => self'[u] \in allocated' /\ vm'[u] = self'[u]
    BY <1>1, <1>2, <1>3 DEF Tied, OwnVM
  <2>2. \A u, w \in Rows : Alive(u)' /\ Alive(w)' /\ u # w => self'[u] # self'[w]
    BY <1>1, <1>2, <1>3 DEF Tied, OwnVM
  <2> QED BY <2>1, <2>2 DEF OwnVM, Alive
<1>7. ParentOutlives'
  <2> SUFFICES ASSUME NEW c \in Rows \ {Root}, pc'[c] # "none"
               PROVE  Usable(parent[c])'
    BY DEF ParentOutlives
  <2> DEFINE p == parent[c]
  <2>1. Usable(p)
    BY <1>3 DEF Tied, ParentOutlives
  <2>2. p # t
    BY <1>3, <2>1 DEF Usable
  <2> QED BY <1>1, <1>2, <1>3, <2>1, <2>2 DEF Usable, Alive
<1> QED BY <1>4, <1>5, <1>6, <1>7 DEF Tied

LEMMA TiedNext ==
  ASSUME TableType, ThreadType, Tied, [Next]_vars
  PROVE  Tied'
<1>1. ASSUME NEW t \in Rows, Block(t) PROVE Tied'
  <2>1. Update(t, "block") /\ pc[t] = "run" /\ pc' = [pc EXCEPT ![t] = "call"]
        /\ UNCHANGED <<allocated, self>>
    BY <1>1 DEF Block, memory
  <2>2. Alive(t) /\ "call" \in Running /\ "call" \in PCs \ {"none", "deleted"}
    BY <2>1 DEF Alive, Running, PCs
  <2> QED BY <2>1, <2>2, UpdateShape, TiedStep
<1>2. ASSUME NEW t \in Rows, Unblock(t) PROVE Tied'
  <2>1. Update(t, "active") /\ pc[t] \in {"call", "spawned"} /\ pc' = [pc EXCEPT ![t] = "run"]
        /\ UNCHANGED <<allocated, self>>
    BY <1>2 DEF Unblock, memory
  <2>2. Alive(t) /\ "run" \in Running /\ "run" \in PCs \ {"none", "deleted"}
    BY <2>1 DEF Alive, Running, PCs
  <2> QED BY <2>1, <2>2, UpdateShape, TiedStep
<1>3. ASSUME NEW t \in Rows, End(t) PROVE Tied'
  <2>1. t # Root /\ pc[t] = "run" /\ pc' = [pc EXCEPT ![t] = "ended"]
        /\ UNCHANGED <<allocated, state, vm, parent, self>>
    BY <1>3 DEF End, memory, table
  <2>2. Alive(t) /\ "ended" \in PCs \ {"none", "deleted"}
    BY <2>1 DEF Alive, PCs
  <2> QED BY <2>1, <2>2, TiedStep
<1>4. ASSUME NEW t \in Rows, Leave(t) \/ WakeUp(t) PROVE Tied'
  <2>1. AwaitChildren(t) /\ pc[t] \in {"ended", "wait"} /\ UNCHANGED <<allocated, self>>
    BY <1>4 DEF Leave, WakeUp, memory
  <2>2. Alive(t) /\ t # Root /\ {"wait", "delete"} \subseteq PCs \ {"none", "deleted"}
    BY <2>1 DEF Alive, PCs, Tied, RootStays, Running
  <2>3. CASE pc' = [pc EXCEPT ![t] = "wait"]
    BY <2>1, <2>2, <2>3, AwaitShape, TiedStep
  <2>4. CASE pc' = [pc EXCEPT ![t] = "delete"] /\ ~HasChildren(t)
    BY <2>1, <2>2, <2>4, AwaitShape, TiedStep
  <2> QED BY <2>1, <2>3, <2>4, AwaitShape
<1>5. ASSUME NEW t \in Rows, SpuriousWake(t) PROVE Tied'
  BY <1>5 DEF SpuriousWake, memory, table, Tied, RootStays, OwnRow, OwnVM, ParentOutlives,
              Usable, Alive
<1>6. CASE UNCHANGED vars
  BY <1>6 DEF vars, memory, table, Tied, RootStays, OwnRow, OwnVM, ParentOutlives, Usable, Alive
<1> QED
  BY <1>1, <1>2, <1>3, <1>4, <1>5, <1>6, TiedSpawn, TiedDelete, TiedFree, Zenon
  DEF Next, Teardown

(* IInv is inductive: a thread owns its row and its VM, and its parent has  *)
(* not gone.                                                                *)
THEOREM InvCorrect == Spec => []IInv
<1>1. Init => IInv
  BY TypeInit, TiedInit DEF IInv, Tied
<1>2. IInv /\ [Next]_vars => IInv'
  BY TypeNext, TiedNext DEF IInv, Tied
<1> QED BY <1>1, <1>2, PTL DEF Spec

(* The VM of the parent of a thread exists until the thread has freed its   *)
(* row, however addresses come back: ParentOutlives is a part of IInv.      *)
THEOREM ParentOutlivesCorrect == Spec => []ParentOutlives
<1>1. IInv => ParentOutlives
  BY DEF IInv
<1> QED BY <1>1, InvCorrect, PTL

------------------------------------------------------------------------------
(* The counters. *)
LEMMA RowsFinite ==
  /\ IsFiniteSet(Rows) /\ Cardinality(Rows) = Capacity
  /\ \A S \in SUBSET Rows : /\ IsFiniteSet(S)
                            /\ Cardinality(S) \in Nat /\ Cardinality(S) <= Capacity
<1>1. IsFiniteSet(0 .. Capacity - 1) /\ Cardinality(0 .. Capacity - 1) = Capacity
  <2> DEFINE last == Capacity - 1
  <2>1. last \in Int /\ ~(0 > last) /\ last - 0 + 1 = Capacity
    BY CapacityAssumption
  <2> HIDE DEF last
  <2>2. IsFiniteSet(0 .. last) /\ Cardinality(0 .. last) = last - 0 + 1
    BY <2>1, FS_Interval
  <2> QED BY <2>1, <2>2 DEF last
<1>2. IsFiniteSet(Rows) /\ Cardinality(Rows) = Capacity
  BY <1>1 DEF Rows
<1>3. ASSUME NEW S \in SUBSET Rows
      PROVE  IsFiniteSet(S) /\ Cardinality(S) \in Nat /\ Cardinality(S) <= Capacity
  <2>1. IsFiniteSet(S) /\ Cardinality(S) <= Cardinality(Rows)
    BY <1>2, FS_Subset, Zenon
  <2>2. Cardinality(S) \in Nat
    BY <2>1, FS_CardinalityType, Zenon
  <2> QED BY <1>2, <2>1, <2>2, Zenon
<1> QED BY <1>2, <1>3, Zenon

Present == {t \in Rows : pc[t] # "none"}

LEMMA LiveNext ==
  ASSUME IInv, LiveCounted, [Next]_vars
  PROVE  LiveCounted'
<1>1. Present \in SUBSET Rows /\ m_live = Cardinality(Present)
  BY DEF LiveCounted, Present
<1>2. SUFFICES m_live' = Cardinality(Present')
  BY DEF LiveCounted, Present
<1>3. ASSUME NEW t \in Rows, NEW q \in PCs \ {"none"}, pc[t] # "none",
             pc' = [pc EXCEPT ![t] = q], m_live' = m_live
      PROVE  m_live' = Cardinality(Present')
  <2>1. Present' = Present
    BY <1>3 DEF Present, IInv, ThreadType
  <2> QED BY <1>1, <1>3, <2>1
<1>4. ASSUME NEW t \in Rows, Block(t) \/ Unblock(t) \/ End(t) PROVE m_live' = Cardinality(Present')
  <2>1. {"call", "run", "ended"} \subseteq PCs \ {"none"}
    BY DEF PCs, Running
  <2> QED BY <1>3, <1>4, <2>1 DEF Block, Unblock, End
<1>5. ASSUME NEW t \in Rows, Leave(t) \/ WakeUp(t) PROVE m_live' = Cardinality(Present')
  <2>1. {"wait", "delete"} \subseteq PCs \ {"none"}
    BY DEF PCs
  <2>2. AwaitChildren(t) /\ pc[t] # "none" /\ m_live' = m_live
    BY <1>5 DEF Leave, WakeUp
  <2> QED BY <1>3, <2>1, <2>2, AwaitShape DEF IInv
<1>6. ASSUME NEW t \in Rows, Delete(t) PROVE m_live' = Cardinality(Present')
  <2>1. "deleted" \in PCs \ {"none"}
    BY DEF PCs
  <2> QED BY <1>3, <1>6, <2>1 DEF Delete
<1>7. ASSUME NEW t \in Rows, NEW c \in Rows, NEW a \in Addresses, Spawn(t, c, a)
      PROVE  m_live' = Cardinality(Present')
  <2>1. /\ pc[t] = "call" /\ pc[c] = "none" /\ m_live' = m_live + 1
        /\ pc' = [pc EXCEPT ![c] = "run", ![t] = "spawned"]
    BY <1>7 DEF Spawn, FirstFree, IInv, OwnRow
  <2>2. Present' = Present \cup {c} /\ c \notin Present
    BY <2>1 DEF Present, IInv, ThreadType
  <2> QED BY <1>1, <2>1, <2>2, RowsFinite, FS_AddElement
<1>8. ASSUME NEW t \in Rows, Free(t) PROVE m_live' = Cardinality(Present')
  <2>1. pc[t] = "deleted" /\ pc' = [pc EXCEPT ![t] = "none"] /\ m_live' = m_live - 1
    BY <1>8 DEF Free
  <2>2. Present' = Present \ {t} /\ t \in Present
    BY <2>1 DEF Present, IInv, ThreadType
  <2> QED BY <1>1, <2>1, <2>2, RowsFinite, FS_RemoveElement
<1>9. ASSUME UNCHANGED <<pc, m_live>> PROVE m_live' = Cardinality(Present')
  BY <1>1, <1>9 DEF Present
<1>10. ASSUME NEW t \in Rows, SpuriousWake(t) PROVE m_live' = Cardinality(Present')
  BY <1>9, <1>10 DEF SpuriousWake
<1>11. CASE UNCHANGED vars
  BY <1>9, <1>11 DEF vars
<1> QED BY <1>4, <1>5, <1>6, <1>7, <1>8, <1>10, <1>11, Zenon DEF Next, Teardown

LEMMA LiveInit == Init => LiveCounted
<1> SUFFICES ASSUME Init PROVE LiveCounted
  OBVIOUS
<1>1. m_live = 1 /\ pc = [t \in Rows |-> IF t = Root THEN "run" ELSE "none"]
  BY DEF Init
<1>2. Present = {Root}
  BY <1>1, RootIsRow DEF Present
<1> QED BY <1>1, <1>2, FS_Singleton DEF LiveCounted, Present

(* live_thread_count() is the number of threads that exist. *)
THEOREM LiveCountedCorrect == Spec => []LiveCounted
BY LiveInit, LiveNext, InvCorrect, PTL DEF Spec

(* The rows and the threads keep their types; m_live stays inside the table *)
(* because it counts.                                                       *)
THEOREM TypeCorrect == Spec => []TypeOK
<1>1. IInv /\ LiveCounted => TypeOK
  <2> SUFFICES ASSUME IInv, LiveCounted PROVE m_live \in 1 .. Capacity
    BY DEF TypeOK, IInv
  <2>1. Present \in SUBSET Rows /\ m_live = Cardinality(Present)
    BY DEF LiveCounted, Present
  <2>2. Root \in Present
    BY RootIsRow DEF Present, IInv, RootStays, Running
  <2>3. Cardinality(Present) # 0
    BY <2>1, <2>2, RowsFinite, FS_EmptySet
  <2> QED BY <2>1, <2>3, RowsFinite, CapacityAssumption
<1> QED BY <1>1, InvCorrect, LiveCountedCorrect, PTL

LEMMA ChildrenInit == Init => ChildrenCounted
<1> SUFFICES ASSUME Init PROVE ChildrenCounted
  OBVIOUS
<1>1. PICK a \in Addresses :
        /\ m_child = [b \in Addresses |-> 0]
        /\ self = [t \in Rows |-> IF t = Root THEN a ELSE NoVM]
        /\ pc = [t \in Rows |-> IF t = Root THEN "run" ELSE "none"]
  BY DEF Init
<1>2. \A t \in Rows : Counted(t) = {}
  BY <1>1 DEF Counted, Running
<1>3. \A t \in Rows : Alive(t) => m_child[self[t]] = 0
  BY <1>1 DEF Alive
<1> QED BY <1>2, <1>3, FS_EmptySet DEF ChildrenCounted

(* Nobody starts, ends or goes. *)
LEMMA ChildrenKept ==
  ASSUME IInv, ChildrenCounted, UNCHANGED <<m_child, parent>>,
         \A t \in Rows : Alive(t)' => Alive(t) /\ self'[t] = self[t],
         \A t \in Rows : pc'[t] \in Running \cup {"ended"} <=> pc[t] \in Running \cup {"ended"}
  PROVE  ChildrenCounted'
<1>1. \A t \in Rows : Counted(t)' = Counted(t)
  BY DEF Counted
<1> QED BY <1>1 DEF ChildrenCounted, Alive

LEMMA ChildrenLeave ==
  ASSUME IInv, ChildrenCounted, NEW t \in Rows, Leave(t)
  PROVE  ChildrenCounted'
<1> DEFINE p == parent[t]
<1>1. /\ pc[t] = "ended" /\ t # Root
      /\ m_child' = [m_child EXCEPT ![vm[p]] = @ - 1]
      /\ AwaitChildren(t) /\ UNCHANGED self
  BY DEF Leave, IInv, RootStays, Running
<1>2. /\ UNCHANGED parent
      /\ pc' = [pc EXCEPT ![t] = "wait"] \/ pc' = [pc EXCEPT ![t] = "delete"]
  BY <1>1, AwaitShape DEF IInv
<1>3. Usable(p)
  BY <1>1 DEF IInv, ParentOutlives
<1>4. \A u \in Rows : u # t => pc'[u] = pc[u]
  BY <1>2 DEF IInv, ThreadType
<1>5. pc'[t] \in {"wait", "delete"}
  BY <1>2 DEF IInv, ThreadType
<1>6. \A u \in Rows : Alive(u)' <=> Alive(u)
  BY <1>1, <1>4, <1>5 DEF Alive
<1>7. Counted(p)' = Counted(p) \ {t} /\ t \in Counted(p)
  BY <1>1, <1>2, <1>4, <1>5 DEF Counted, Running
<1>8. \A u \in Rows : u # p => Counted(u)' = Counted(u)
  BY <1>1, <1>2, <1>4, <1>5 DEF Counted, Running
<1>9. self[p] \in Addresses /\ m_child' = [m_child EXCEPT ![self[p]] = @ - 1]
  BY <1>1, <1>3 DEF Usable, IInv, TableType
<1>10. m_child'[self[p]] = Cardinality(Counted(p)')
  <2>1. m_child[self[p]] = Cardinality(Counted(p)) /\ Counted(p) \in SUBSET Rows
    BY <1>3 DEF Usable, ChildrenCounted, Counted
  <2>2. Cardinality(Counted(p)') = Cardinality(Counted(p)) - 1
    BY <1>7, <2>1, RowsFinite, FS_RemoveElement
  <2> QED BY <1>9, <2>1, <2>2 DEF IInv, TableType
<1>11. ASSUME NEW u \in Rows, Alive(u), u # p
       PROVE  m_child'[self[u]] = Cardinality(Counted(u)')
  <2>1. self[u] # self[p]
    BY <1>3, <1>11 DEF Usable, IInv, OwnVM
  <2>2. self[u] \in Addresses
    BY <1>11 DEF IInv, OwnVM, TableType
  <2>3. m_child'[self[u]] = m_child[self[u]]
    BY <1>9, <2>1, <2>2 DEF IInv, TableType
  <2> QED BY <1>8, <1>11, <2>3 DEF ChildrenCounted
<1>12. ASSUME NEW u \in Rows, Alive(u)' PROVE m_child'[self'[u]] = Cardinality(Counted(u)')
  <2>1. Alive(u) /\ self'[u] = self[u]
    BY <1>1, <1>6, <1>12
  <2>2. CASE u = p
    BY <1>2, <1>10, <2>1, <2>2 DEF Counted
  <2>3. CASE u # p
    BY <1>11, <2>1, <2>3
  <2> QED BY <2>2, <2>3
<1> QED BY <1>12 DEF ChildrenCounted, Alive, Counted

LEMMA ChildrenSpawn ==
  ASSUME IInv, ChildrenCounted, NEW t \in Rows, NEW c \in Rows, NEW a \in Addresses,
         Spawn(t, c, a)
  PROVE  ChildrenCounted'
<1>1. /\ pc[t] = "call" /\ state[c] = "free" /\ a \notin allocated
      /\ m_child' = [b \in Addresses |-> IF b = a THEN 0
                                       ELSE IF b = self[t] THEN m_child[b] + 1 ELSE m_child[b]]
      /\ parent' = [parent EXCEPT ![c] = t]
      /\ self' = [self EXCEPT ![c] = a]
      /\ pc' = [pc EXCEPT ![c] = "run", ![t] = "spawned"]
  BY DEF Spawn, FirstFree
<1>2. pc[c] = "none" /\ c # t /\ c # Root
  BY <1>1 DEF IInv, OwnRow, RootStays, Running
<1>3. \A u \in Rows : /\ pc'[u] = IF u = c THEN "run" ELSE IF u = t THEN "spawned" ELSE pc[u]
                      /\ parent'[u] = IF u = c THEN t ELSE parent[u]
                      /\ self'[u] = IF u = c THEN a ELSE self[u]
  BY <1>1, <1>2 DEF IInv, TableType, ThreadType
<1>4. \A u \in Rows : u # c => (pc'[u] \in Running \cup {"ended"} <=> pc[u] \in Running \cup {"ended"})
  BY <1>1, <1>3 DEF Running
<1>5. \A u \in Rows : Alive(u)' /\ u # c => Alive(u) /\ self'[u] = self[u]
  BY <1>1, <1>3 DEF Alive
<1>6. \A d \in Rows \ {Root} : pc[d] # "none" => parent[d] # c
  BY <1>2 DEF IInv, ParentOutlives, Usable, Alive
<1>7. Counted(c)' = {}
  <2> SUFFICES ASSUME NEW d \in Counted(c)' PROVE FALSE
    OBVIOUS
  <2>1. d \in Rows \ {Root} /\ pc'[d] \in Running \cup {"ended"} /\ parent'[d] = c
    BY DEF Counted
  <2>2. d # c
    BY <1>2, <1>3, <2>1
  <2>3. pc[d] # "none" /\ parent[d] = c
    BY <1>3, <1>4, <2>1, <2>2 DEF Running
  <2> QED BY <1>6, <2>1, <2>3
<1>8. Counted(t)' = Counted(t) \cup {c} /\ c \notin Counted(t)
  <2>1. "run" \in Running /\ "none" \notin Running \cup {"ended"}
    BY DEF Running
  <2> QED BY <1>2, <1>3, <1>4, <2>1 DEF Counted
<1>9. \A u \in Rows \ {c, t} : Counted(u)' = Counted(u)
  <2>1. "none" \notin Running \cup {"ended"}
    BY DEF Running
  <2> QED BY <1>2, <1>3, <1>4, <2>1 DEF Counted
<1>10. \A u \in Rows : Alive(u) => self[u] \in Addresses /\ self[u] # a
  BY <1>1 DEF IInv, OwnVM, TableType
<1>11. Alive(t)
  BY <1>1 DEF Alive
<1>12. m_child'[self[t]] = Cardinality(Counted(t)')
  <2>1. m_child[self[t]] = Cardinality(Counted(t)) /\ Counted(t) \in SUBSET Rows
    BY <1>11 DEF ChildrenCounted, Counted
  <2>2. Cardinality(Counted(t)') = Cardinality(Counted(t)) + 1
    BY <1>8, <2>1, RowsFinite, FS_AddElement
  <2>3. m_child'[self[t]] = m_child[self[t]] + 1
    BY <1>1, <1>10, <1>11
  <2> QED BY <2>1, <2>2, <2>3
<1>13. ASSUME NEW u \in Rows, Alive(u), u \notin {c, t}
       PROVE  m_child'[self[u]] = Cardinality(Counted(u)')
  <2>1. self[u] # self[t]
    BY <1>11, <1>13 DEF IInv, OwnVM
  <2>2. m_child'[self[u]] = m_child[self[u]]
    BY <1>1, <1>10, <1>13, <2>1
  <2> QED BY <1>9, <1>13, <2>2 DEF ChildrenCounted
<1>14. m_child'[self'[c]] = Cardinality(Counted(c)')
  BY <1>1, <1>3, <1>7, FS_EmptySet
<1>15. ASSUME NEW u \in Rows, Alive(u)' PROVE m_child'[self'[u]] = Cardinality(Counted(u)')
  <2>1. u # c => Alive(u) /\ self'[u] = self[u]
    BY <1>5, <1>15
  <2> QED BY <1>12, <1>13, <1>14, <2>1
<1> QED BY <1>15 DEF ChildrenCounted, Alive, Counted

LEMMA ChildrenNext ==
  ASSUME IInv, ChildrenCounted, [Next]_vars
  PROVE  ChildrenCounted'
<1> USE DEF memory, table
<1>1. ASSUME NEW t \in Rows, NEW q, pc' = [pc EXCEPT ![t] = q], UNCHANGED <<m_child, parent, self>>,
             q # "deleted" => Alive(t),
             pc[t] \in Running \cup {"ended"} <=> q \in Running \cup {"ended"}
      PROVE  ChildrenCounted'
  <2>1. \A u \in Rows : pc'[u] = IF u = t THEN q ELSE pc[u]
    BY <1>1 DEF IInv, ThreadType
  <2>2. \A u \in Rows : Alive(u)' => Alive(u) /\ self'[u] = self[u]
    BY <1>1, <2>1 DEF Alive
  <2>3. \A u \in Rows : pc'[u] \in Running \cup {"ended"} <=> pc[u] \in Running \cup {"ended"}
    BY <1>1, <2>1
  <2> QED BY <1>1, <2>2, <2>3, ChildrenKept
<1>2. ASSUME NEW t \in Rows, Block(t) \/ Unblock(t) \/ End(t) PROVE ChildrenCounted'
  <2>1. PICK q \in {"call", "run", "ended"} :
          pc' = [pc EXCEPT ![t] = q] /\ pc[t] \in Running /\ UNCHANGED <<m_child, parent, self>>
    BY <1>2 DEF Block, Unblock, End, Update, Running
  <2>2. q \in Running \cup {"ended"} /\ q # "deleted" /\ Alive(t)
    BY <2>1 DEF Running, Alive
  <2> QED BY <1>1, <2>1, <2>2
<1>3. ASSUME NEW t \in Rows, WakeUp(t) PROVE ChildrenCounted'
  <2>1. PICK q \in {"wait", "delete"} :
          pc' = [pc EXCEPT ![t] = q] /\ pc[t] = "wait" /\ UNCHANGED <<m_child, parent, self>>
    BY <1>3 DEF WakeUp, AwaitChildren
  <2>2. q \notin Running \cup {"ended"} /\ "wait" \notin Running \cup {"ended"} /\ Alive(t)
    BY <2>1 DEF Running, Alive
  <2> QED BY <1>1, <2>1, <2>2
<1>4. ASSUME NEW t \in Rows, Delete(t) PROVE ChildrenCounted'
  <2>1. pc' = [pc EXCEPT ![t] = "deleted"] /\ pc[t] = "delete" /\ UNCHANGED <<m_child, parent, self>>
    BY <1>4 DEF Delete
  <2>2. "deleted" \notin Running \cup {"ended"} /\ "delete" \notin Running \cup {"ended"}
    BY DEF Running
  <2> QED BY <1>1, <2>1, <2>2
<1>5. ASSUME NEW t \in Rows, Free(t) PROVE ChildrenCounted'
  <2>1. /\ pc[t] = "deleted" /\ pc' = [pc EXCEPT ![t] = "none"]
        /\ self' = [self EXCEPT ![t] = NoVM] /\ UNCHANGED <<m_child, parent>>
    BY <1>5 DEF Free
  <2>2. \A u \in Rows : pc'[u] = (IF u = t THEN "none" ELSE pc[u]) /\ (u # t => self'[u] = self[u])
    BY <2>1 DEF IInv, ThreadType
  <2>3. \A u \in Rows : Alive(u)' => Alive(u) /\ self'[u] = self[u]
    BY <2>2 DEF Alive
  <2>4. \A u \in Rows : pc'[u] \in Running \cup {"ended"} <=> pc[u] \in Running \cup {"ended"}
    BY <2>1, <2>2 DEF Running
  <2> QED BY <2>1, <2>3, <2>4, ChildrenKept
<1>6. ASSUME UNCHANGED <<m_child, parent, pc, self>> PROVE ChildrenCounted'
  BY <1>6 DEF ChildrenCounted, Counted, Alive
<1>7. ASSUME NEW t \in Rows, SpuriousWake(t) PROVE ChildrenCounted'
  BY <1>6, <1>7 DEF SpuriousWake
<1>8. CASE UNCHANGED vars
  BY <1>6, <1>8 DEF vars
<1> QED BY <1>2, <1>3, <1>4, <1>5, <1>7, <1>8, ChildrenLeave, ChildrenSpawn, Zenon
        DEF Next, Teardown

(* m_child of a heap counts the children that have not come to their end. *)
THEOREM ChildrenCountedCorrect == Spec => []ChildrenCounted
BY ChildrenInit, ChildrenNext, InvCorrect, PTL DEF Spec

------------------------------------------------------------------------------
(* The table implements ThreadTree: spawn() is Spawn, the return of run()   *)
(* is End, deleting a VM is Delete, and every other step stutters.          *)
Up == [t \in Rows |-> IF Alive(t) THEN parent[t] ELSE None]
Run == {t \in Rows : pc[t] \in Running}

LEMMA TreeMembers ==
  ASSUME IInv
  PROVE  \A t \in Rows : t \in Tree!Members <=> Alive(t)
<1>1. \A t \in Rows : Up[t] # None <=> Alive(t) /\ t # Root
  BY RootIsRow DEF Up, IInv, RootStays, ParentOutlives, Usable, Alive
<1>2. Alive(Root) /\ Root \in Rows
  BY RootIsRow DEF IInv, RootStays, Running, Alive
<1> QED BY <1>1, <1>2 DEF Tree!Members, Up

LEMMA TreeInit == Init => Tree!Init
<1> SUFFICES ASSUME Init PROVE Tree!Init
  OBVIOUS
<1>1. pc = [t \in Rows |-> IF t = Root THEN "run" ELSE "none"] /\ parent = [t \in Rows |-> None]
  BY DEF Init
<1>2. Run = {Root}
  BY <1>1, RootIsRow DEF Run, Running
<1>3. Up = [t \in Rows |-> None]
  BY <1>1 DEF Up
<1> QED BY <1>2, <1>3 DEF Tree!Init, Run, Up

LEMMA TreeNext ==
  ASSUME IInv, IInv', [Next]_vars
  PROVE  [Tree!Next]_(Tree!vars)
<1> USE DEF memory, table
<1>1. Tree!vars = <<Run, Up>>
  BY DEF Tree!vars, Run, Up
<1>2. ASSUME NEW t \in Rows, NEW q, pc' = [pc EXCEPT ![t] = q], UNCHANGED parent,
             pc[t] \in Running <=> q \in Running,
             pc[t] \notin {"none", "deleted"} <=> q \notin {"none", "deleted"}
      PROVE  UNCHANGED <<Run, Up>>
  <2>1. \A u \in Rows : pc'[u] = IF u = t THEN q ELSE pc[u]
    BY <1>2 DEF IInv, ThreadType
  <2>2. UNCHANGED Run
    BY <1>2, <2>1 DEF Run
  <2>3. UNCHANGED Up
    BY <1>2, <2>1 DEF Up, Alive
  <2> QED BY <2>2, <2>3
<1>3. ASSUME NEW t \in Rows, Block(t) \/ Unblock(t) PROVE UNCHANGED <<Run, Up>>
  <2>1. PICK q \in {"call", "run"} :
          pc' = [pc EXCEPT ![t] = q] /\ pc[t] \in Running /\ UNCHANGED parent
    BY <1>3 DEF Block, Unblock, Update, Running
  <2>2. q \in Running /\ q \notin {"none", "deleted"} /\ pc[t] \notin {"none", "deleted"}
    BY <2>1 DEF Running
  <2> QED BY <1>2, <2>1, <2>2
<1>4. ASSUME NEW t \in Rows, Leave(t) \/ WakeUp(t) PROVE UNCHANGED <<Run, Up>>
  <2>1. PICK q \in {"wait", "delete"} :
          pc' = [pc EXCEPT ![t] = q] /\ pc[t] \in {"ended", "wait"} /\ UNCHANGED parent
    BY <1>4 DEF Leave, WakeUp, AwaitChildren
  <2>2. q \notin Running /\ pc[t] \notin Running
    BY <2>1 DEF Running
  <2> QED BY <1>2, <2>1, <2>2
<1>5. ASSUME NEW t \in Rows, Free(t) PROVE UNCHANGED <<Run, Up>>
  <2>1. "none" \notin Running /\ "deleted" \notin Running
    BY DEF Running
  <2> QED BY <1>2, <1>5, <2>1 DEF Free
<1>6. ASSUME UNCHANGED <<pc, parent>> PROVE UNCHANGED <<Run, Up>>
  BY <1>6 DEF Run, Up, Alive
<1>7. ASSUME NEW t \in Rows, SpuriousWake(t) PROVE UNCHANGED <<Run, Up>>
  BY <1>6, <1>7 DEF SpuriousWake
<1>8. CASE UNCHANGED vars
  <2>1. UNCHANGED <<Run, Up>>
    BY <1>6, <1>8 DEF vars, table
  <2> QED BY <1>1, <2>1 DEF Tree!vars, Run, Up
<1>9. ASSUME NEW t \in Rows, End(t) PROVE Tree!End(t)
  <2>1. t # Root /\ pc[t] = "run" /\ pc' = [pc EXCEPT ![t] = "ended"] /\ UNCHANGED parent
    BY <1>9 DEF End
  <2>2. t \in Run \ {Root} /\ Run' = Run \ {t}
    BY <2>1 DEF Run, Running, IInv, ThreadType
  <2>3. Up' = Up
    <3>1. \A u \in Rows : Alive(u)' <=> Alive(u)
      BY <2>1 DEF Alive, IInv, ThreadType
    <3> QED BY <2>1, <3>1 DEF Up, Alive
  <2> QED BY <2>2, <2>3 DEF Tree!End, Run, Up
<1>10. ASSUME NEW t \in Rows, NEW c \in Rows, NEW a \in Addresses, Spawn(t, c, a)
       PROVE  Tree!Spawn(t, c)
  <2>1. /\ pc[t] = "call" /\ pc[c] = "none" /\ t # c
        /\ pc' = [pc EXCEPT ![c] = "run", ![t] = "spawned"]
        /\ parent' = [parent EXCEPT ![c] = t]
    BY <1>10 DEF Spawn, FirstFree, IInv, OwnRow
  <2>2. t \in Run /\ c \notin Tree!Members
    BY <2>1, TreeMembers DEF Run, Running, Alive
  <2>3. Run' = Run \cup {c}
    BY <2>1 DEF Run, Running, IInv, ThreadType
  <2>4. Up' = [Up EXCEPT ![c] = t]
    <3>1. \A u \in Rows : Alive(u)' <=> Alive(u) \/ u = c
      BY <2>1 DEF Alive, IInv, ThreadType
    <3>2. \A u \in Rows : parent'[u] = IF u = c THEN t ELSE parent[u]
      BY <2>1 DEF IInv, TableType
    <3> QED BY <3>1, <3>2 DEF Up, Alive
  <2> QED BY <2>2, <2>3, <2>4 DEF Tree!Spawn, Run, Up
<1>11. ASSUME NEW t \in Rows, Delete(t) PROVE Tree!Delete(t)
  <2>1. pc[t] = "delete" /\ pc' = [pc EXCEPT ![t] = "deleted"] /\ UNCHANGED parent
    BY <1>11 DEF Delete
  <2>2. t \in Tree!Members \ Run /\ t # Root
    BY <2>1, TreeMembers DEF Run, Running, Alive, IInv, RootStays
  <2>3. \A c \in Rows : Up[c] # t
    BY <2>1, RootIsRow DEF Up, IInv, RootStays, ParentOutlives, Usable, Alive
  <2>4. Run' = Run
    BY <2>1 DEF Run, Running, IInv, ThreadType
  <2>5. Up' = [Up EXCEPT ![t] = None]
    <3>1. \A u \in Rows : Alive(u)' <=> Alive(u) /\ u # t
      BY <2>1 DEF Alive, IInv, ThreadType
    <3> QED BY <2>1, <3>1 DEF Up, Alive
  <2> QED BY <2>2, <2>3, <2>4, <2>5 DEF Tree!Delete, Run, Up
<1>12. CASE Next
  <2>1. PICK t \in Rows :
          \/ Block(t) \/ Unblock(t) \/ End(t)
          \/ \E c \in Rows, a \in Addresses : Spawn(t, c, a)
          \/ Teardown(t) \/ SpuriousWake(t)
    BY <1>12 DEF Next
  <2>2. CASE Block(t) \/ Unblock(t) \/ Leave(t) \/ WakeUp(t) \/ Free(t) \/ SpuriousWake(t)
    <3>1. UNCHANGED <<Run, Up>>
      BY <1>3, <1>4, <1>5, <1>7, <2>2
    <3> QED BY <1>1, <3>1 DEF Tree!vars, Run, Up
  <2>3. CASE End(t)
    BY <1>9, <2>3 DEF Tree!Next
  <2>4. CASE \E c \in Rows, a \in Addresses : Spawn(t, c, a)
    BY <1>10, <2>4 DEF Tree!Next
  <2>5. CASE Delete(t)
    BY <1>11, <2>5 DEF Tree!Next
  <2> QED BY <2>1, <2>2, <2>3, <2>4, <2>5 DEF Teardown
<1> QED BY <1>8, <1>12

(* Threads form a tree, and the heap of a thread goes away only when it has *)
(* ended and no heap of a child is left.                                    *)
THEOREM TreeCorrect == Spec => RefinesTree
<1>1. IInv /\ IInv' /\ [Next]_vars => [Tree!Next]_(Tree!vars)
  BY TreeNext
<1> QED BY <1>1, TreeInit, InvCorrect, PTL DEF Spec, RefinesTree, Tree!Spec

------------------------------------------------------------------------------
(* The rows tell the states of their threads as long as no address is       *)
(* shared: update() then finds the row of the thread that calls it.         *)
LEMMA FirstIsOwn ==
  ASSUME IInv, Unshared, NEW t \in Rows, Alive(t)
  PROVE  First(self[t]) = t
<1>1. vm[t] = self[t] /\ self[t] # NoVM
  BY AddressAssumption DEF IInv, OwnVM, TableType
<1>2. \A u \in Rows : vm[u] = self[t] => u = t
  BY <1>1 DEF Unshared
<1>3. t <= t
  BY RootIsRow
<1>4. t \in Rows /\ vm[t] = self[t] /\ \A u \in Rows : vm[u] = self[t] => t <= u
  BY <1>1, <1>2, <1>3
<1>5. ASSUME NEW w \in Rows, vm[w] = self[t] PROVE w = t
  BY <1>2, <1>5
<1> QED BY <1>4, <1>5 DEF First

LEMMA ToldInit == Init => StateTold
<1> SUFFICES ASSUME Init PROVE StateTold
  OBVIOUS
<1>1. /\ state = [t \in Rows |-> IF t = Root THEN "active" ELSE "free"]
      /\ pc = [t \in Rows |-> IF t = Root THEN "run" ELSE "none"]
  BY DEF Init
<1> QED BY <1>1 DEF StateTold, Told

LEMMA ToldNext ==
  ASSUME IInv, Unshared, StateTold, [Next]_vars
  PROVE  StateTold'
<1> USE DEF table
<1>1. /\ state \in [Rows -> States] /\ pc \in [Rows -> PCs]
      /\ \A t \in Rows : state[t] \in Told(pc[t])
  BY DEF IInv, TableType, ThreadType, StateTold
<1>2. ASSUME NEW t \in Rows, NEW q, NEW s \in Told(q),
             pc' = [pc EXCEPT ![t] = q], state' = [state EXCEPT ![t] = s]
      PROVE  StateTold'
  BY <1>1, <1>2 DEF StateTold
<1>3. ASSUME NEW t \in Rows, NEW q, state[t] \in Told(q),
             pc' = [pc EXCEPT ![t] = q], UNCHANGED state
      PROVE  StateTold'
  BY <1>1, <1>3 DEF StateTold
<1>4. ASSUME NEW t \in Rows, Block(t) \/ Unblock(t) PROVE StateTold'
  <2>1. Alive(t)
    BY <1>4 DEF Block, Unblock, Alive
  <2>2. First(self[t]) = t
    BY <2>1, FirstIsOwn
  <2>3. CASE Block(t)
    <3>1. pc' = [pc EXCEPT ![t] = "call"] /\ state' = [state EXCEPT ![t] = "block"]
      BY <2>2, <2>3 DEF Block, Update
    <3>2. "block" \in Told("call")
      BY DEF Told
    <3> QED BY <1>2, <3>1, <3>2
  <2>4. CASE Unblock(t)
    <3>1. pc' = [pc EXCEPT ![t] = "run"] /\ state' = [state EXCEPT ![t] = "active"]
      BY <2>2, <2>4 DEF Unblock, Update
    <3>2. "active" \in Told("run")
      BY DEF Told
    <3> QED BY <1>2, <3>1, <3>2
  <2> QED BY <1>4, <2>3, <2>4
<1>5. ASSUME NEW t \in Rows, End(t) PROVE StateTold'
  <2>1. pc[t] = "run" /\ pc' = [pc EXCEPT ![t] = "ended"] /\ UNCHANGED state
    BY <1>5 DEF End
  <2>2. Told("run") = {"active"} /\ Told("ended") = {"active"}
    BY DEF Told
  <2>3. state[t] \in Told("ended")
    BY <1>1, <2>1, <2>2
  <2> QED BY <1>3, <2>1, <2>3
<1>6. ASSUME NEW t \in Rows, NEW c \in Rows, NEW a \in Addresses, Spawn(t, c, a)
      PROVE  StateTold'
  <2>1. /\ pc[t] = "call" /\ state[c] = "free"
        /\ state' = [state EXCEPT ![c] = "active"]
        /\ pc' = [pc EXCEPT ![c] = "run", ![t] = "spawned"]
    BY <1>6 DEF Spawn, FirstFree
  <2>2. /\ Told("call") = {"block"} /\ Told("spawned") = {"block"}
        /\ Told("run") = {"active"}
    BY DEF Told
  <2>3. c # t
    BY <1>1, <2>1, <2>2
  <2>4. \A u \in Rows : u # c /\ u # t => state'[u] = state[u] /\ pc'[u] = pc[u]
    BY <1>1, <2>1
  <2>5. state'[c] \in Told(pc'[c]) /\ state'[t] \in Told(pc'[t])
    BY <1>1, <2>1, <2>2, <2>3
  <2> QED BY <1>1, <2>4, <2>5 DEF StateTold
<1>7. ASSUME NEW t \in Rows, pc[t] \in {"ended", "wait"}, AwaitChildren(t) PROVE StateTold'
  <2>1. Told("ended") = {"active"} /\ Told("wait") = {"sync"} /\ Told("delete") = {"active", "sync"}
    BY DEF Told
  <2>2. CASE HasChildren(t)
    <3>1. state' = [state EXCEPT ![t] = "sync"] /\ pc' = [pc EXCEPT ![t] = "wait"]
      BY <1>7, <2>2 DEF AwaitChildren
    <3> QED BY <1>2, <2>1, <3>1
  <2>3. CASE ~HasChildren(t)
    <3>1. UNCHANGED state /\ pc' = [pc EXCEPT ![t] = "delete"]
      BY <1>7, <2>3 DEF AwaitChildren
    <3>2. state[t] \in Told("delete")
      BY <1>1, <1>7, <2>1
    <3> QED BY <1>3, <3>1, <3>2
  <2> QED BY <2>2, <2>3
<1>8. ASSUME NEW t \in Rows, Leave(t) \/ WakeUp(t) PROVE StateTold'
  BY <1>7, <1>8 DEF Leave, WakeUp
<1>9. ASSUME NEW t \in Rows, Delete(t) PROVE StateTold'
  <2>1. pc[t] = "delete" /\ pc' = [pc EXCEPT ![t] = "deleted"] /\ UNCHANGED state
    BY <1>9 DEF Delete
  <2>2. Told("delete") = {"active", "sync"} /\ Told("deleted") = {"active", "sync"}
    BY DEF Told
  <2>3. state[t] \in Told("deleted")
    BY <1>1, <2>1, <2>2
  <2> QED BY <1>3, <2>1, <2>3
<1>10. ASSUME NEW t \in Rows, Free(t) PROVE StateTold'
  <2>1. pc' = [pc EXCEPT ![t] = "none"] /\ state' = [state EXCEPT ![t] = "free"]
    BY <1>10 DEF Free
  <2>2. "free" \in Told("none")
    BY DEF Told
  <2> QED BY <1>2, <2>1, <2>2
<1>11. ASSUME UNCHANGED <<state, pc>> PROVE StateTold'
  BY <1>11, <1>1 DEF StateTold
<1>12. ASSUME NEW t \in Rows, SpuriousWake(t) PROVE StateTold'
  BY <1>11, <1>12 DEF SpuriousWake
<1>13. CASE UNCHANGED vars
  BY <1>11, <1>13 DEF vars
<1> QED BY <1>4, <1>5, <1>6, <1>8, <1>9, <1>10, <1>12, <1>13, Zenon DEF Next, Teardown

(* As long as no two rows have the address of one VM, every row tells the   *)
(* state of its thread, between any two critical sections: snapshot() finds *)
(* the children that run or block, and spawn() takes no row in use.         *)
THEOREM RowsTellCorrect == Spec => RowsTellState
<1>1. IInv /\ Unshared /\ StateTold /\ [Next]_vars => StateTold'
  BY ToldNext
<1> QED BY <1>1, ToldInit, InvCorrect, PTL DEF Spec, RowsTellState

==============================================================================
