--------------------------- MODULE SyncQueueProofs ---------------------------
(***************************************************************************)
(* Theorems of SyncQueue, for every set of threads, every set of data and  *)
(* every capacity.                                                         *)
(***************************************************************************)
EXTENDS SyncQueue, SequenceTheorems, FiniteSetTheorems, TLAPS

USE DEF PCs

(* pthread_cond_signal changes pc at one sleeping thread, or not at all. *)
LEMMA SignalOneShape ==
  ASSUME NEW K, NEW p, NEW q \in SignalOne(K, p)
  PROVE  \/ q = p /\ Sleepers(K) = {}
         \/ \E u \in Sleepers(K) : q = [p EXCEPT ![u] = "woken"]
BY DEF SignalOne

(* The same of the signal that ends a put or a get, which is skipped when   *)
(* nobody says it sleeps.                                                   *)
LEMMA SignalGettersShape ==
  ASSUME NEW q \in SignalGetters(pc)
  PROVE  \/ q = pc /\ (n_more_get = 0 \/ Sleepers(BlockingGets) = {})
         \/ \E u \in Sleepers(BlockingGets) : q = [pc EXCEPT ![u] = "woken"]
BY SignalOneShape DEF SignalGetters

LEMMA SignalPuttersShape ==
  ASSUME NEW q \in SignalPutters(pc)
  PROVE  \/ q = pc /\ (n_more_put = 0 \/ Sleepers(BlockingPuts) = {})
         \/ \E u \in Sleepers(BlockingPuts) : q = [pc EXCEPT ![u] = "woken"]
BY SignalOneShape DEF SignalPutters

LEMMA SignalTyped ==
  /\ pc \in [Threads -> PCs] =>
       /\ \A q \in SignalGetters(pc) : q \in [Threads -> PCs]
       /\ \A q \in SignalPutters(pc) : q \in [Threads -> PCs]
  /\ \A K : \A p \in [Threads -> PCs] : \A q \in SignalOne(K, p) : q \in [Threads -> PCs]
<1>1. \A K : \A p \in [Threads -> PCs] : \A q \in SignalOne(K, p) : q \in [Threads -> PCs]
  BY DEF SignalOne, Sleepers
<1>2. QED
  BY <1>1 DEF SignalGetters, SignalPutters

------------------------------------------------------------------------------
LEMMA TypeStep == TypeOK /\ [Next]_vars => TypeOK'
<1> SUFFICES ASSUME TypeOK, [Next]_vars PROVE TypeOK'
  OBVIOUS
<1> USE CapacityAssumption DEF TypeOK, Slots, Calls, NoCall, ring
<1>1. ASSUME NEW t \in Threads, NEW k \in PutKinds \cup GetKinds,
             NEW d \in Data \cup {NoDatum}, Call(t, k, d)
      PROVE  TypeOK'
  BY <1>1 DEF Call
<1>2. ASSUME NEW t \in Threads, PutStore(t) PROVE TypeOK'
  <2>1. op[t].datum \in Data \cup {NoDatum}
    OBVIOUS
  <2>2. PICK p \in SignalGetters(pc) : Return(t, "ok", p)
    BY <1>2 DEF PutStore
  <2>3. p \in [Threads -> PCs]
    BY SignalTyped
  <2>4. pc' \in [Threads -> PCs] /\ op' \in [Threads -> Calls \cup {NoCall}]
    BY <2>2, <2>3 DEF Return
  <2>5. result' \in [Threads -> Data \cup {NoDatum, "none", "ok", "failed"}]
    BY <2>2 DEF Return
  <2>6. n' \in 0 .. Capacity /\ head' \in Slots /\ tail' \in Slots
    BY <1>2 DEF PutStore, Succ
  <2>7. buf' \in [Slots -> Data \cup {NoDatum}]
    BY <1>2, <2>1 DEF PutStore
  <2>8. /\ n_more_get' \in Int /\ n_more_put' \in Int
        /\ terminate' \in BOOLEAN /\ lock' \in Threads \cup {Free}
    BY <1>2 DEF PutStore, LeavePut
  <2>9. QED
    BY <2>4, <2>5, <2>6, <2>7, <2>8
<1>3. ASSUME NEW t \in Threads, PutShut(t) \/ PutFull(t) \/ PutSleep(t) PROVE TypeOK'
  <2>1. CASE PutShut(t)
    BY <2>1 DEF PutShut, Return, LeavePut
  <2>2. CASE PutFull(t)
    BY <2>2 DEF PutFull, LeavePut
  <2>3. CASE PutSleep(t)
    BY <2>3 DEF PutSleep
  <2>4. QED
    BY <1>3, <2>1, <2>2, <2>3
<1>4. ASSUME NEW t \in Threads, GetTake(t) PROVE TypeOK'
  BY <1>4, SignalTyped DEF GetTake, Return, LeaveGet, Succ
<1>5. ASSUME NEW t \in Threads, GetShut(t) \/ GetEmpty(t) \/ GetSleep(t) PROVE TypeOK'
  <2>1. CASE GetShut(t)
    BY <2>1 DEF GetShut, Return, LeaveGet
  <2>2. CASE GetEmpty(t)
    BY <2>2 DEF GetEmpty, LeaveGet
  <2>3. CASE GetSleep(t)
    BY <2>3 DEF GetSleep
  <2>4. QED
    BY <1>5, <2>1, <2>2, <2>3
<1>6. ASSUME NEW t \in Threads,
             TryRefused(t) \/ GiveUp(t) \/ SpuriousWake(t) \/ Expire(t)
      PROVE  TypeOK'
  <2>1. CASE TryRefused(t)
    BY <2>1 DEF TryRefused, Return
  <2>2. CASE GiveUp(t)
    BY <2>2 DEF GiveUp, Return, LeavePut, LeaveGet
  <2>3. CASE SpuriousWake(t)
    BY <2>3 DEF SpuriousWake
  <2>4. CASE Expire(t)
    BY <2>4 DEF Expire
  <2>5. QED
    BY <1>6, <2>1, <2>2, <2>3, <2>4
<1>7. ASSUME NEW t \in Threads,
             ShutdownSet(t) \/ ShutdownPeekGet(t) \/ ShutdownPeekPut(t)
      PROVE  TypeOK'
  <2>1. CASE ShutdownSet(t)
    BY <2>1 DEF ShutdownSet
  <2>2. CASE ShutdownPeekGet(t)
    BY <2>2 DEF ShutdownPeekGet
  <2>3. CASE ShutdownPeekPut(t)
    BY <2>3 DEF ShutdownPeekPut
  <2>4. QED
    BY <1>7, <2>1, <2>2, <2>3
<1>8. ASSUME NEW t \in Threads, ShutdownSignal(t) PROVE TypeOK'
  BY <1>8, SignalTyped DEF ShutdownSignal
<1>9. CASE UNCHANGED vars
  BY <1>9 DEF vars
<1>10. ASSUME NEW t \in Threads,
              \/ \E k \in PutKinds \cap CallKinds, d \in Data : Call(t, k, d)
              \/ \E k \in GetKinds \cap CallKinds : Call(t, k, NoDatum)
       PROVE  TypeOK'
  BY <1>1, <1>10
<1>11. QED
  BY <1>2, <1>3, <1>4, <1>5, <1>6, <1>7, <1>8, <1>9, <1>10, Zenon DEF Next, Step

LEMMA InitTyped == Init => TypeOK
<1> SUFFICES ASSUME Init PROVE TypeOK
  OBVIOUS
<1>1. 0 \in Slots /\ 0 \in 0 .. Capacity
  BY CapacityAssumption DEF Slots
<1>2. pc \in [Threads -> PCs] /\ op \in [Threads -> Calls \cup {NoCall}]
  BY DEF Init
<1>3. buf \in [Slots -> Data \cup {NoDatum}]
  BY DEF Init
<1>4. result \in [Threads -> Data \cup {NoDatum, "none", "ok", "failed"}]
  BY DEF Init
<1>5. /\ n \in 0 .. Capacity /\ head \in Slots /\ tail \in Slots
      /\ n_more_get \in Int /\ n_more_put \in Int
      /\ lock \in Threads \cup {Free}
  BY <1>1 DEF Init
<1>6. terminate \in BOOLEAN
  BY Zenon DEF Init
<1>7. QED
  BY <1>2, <1>3, <1>4, <1>5, <1>6 DEF TypeOK

(* The ring indices stay inside the ring and the number of elements between *)
(* 0 and the capacity, whatever the calls, timeouts and shutdowns.          *)
THEOREM TypeCorrect == Spec => []TypeOK
BY InitTyped, TypeStep, PTL DEF Spec

------------------------------------------------------------------------------
(* A finite set of threads has a cardinality that moves by one. *)
LEMMA ThreadSets ==
  ASSUME NEW S \in SUBSET Threads, NEW t \in Threads
  PROVE  /\ Cardinality(S) \in Nat
         /\ S = {} <=> Cardinality(S) = 0
         /\ t \in S => Cardinality(S \ {t}) = Cardinality(S) - 1
         /\ t \notin S => Cardinality(S \cup {t}) = Cardinality(S) + 1
<1>1. IsFiniteSet(S)
  BY FS_Subset, ThreadsAssumption
<1>2. QED
  BY <1>1, FS_CardinalityType, FS_EmptySet, FS_AddElement, FS_RemoveElement

(* What a return does to the sets of threads, whoever it signals: the       *)
(* signalled thread is still counted, the returning one no longer.          *)
LEMMA ReturnCounted ==
  ASSUME TypeOK, NEW t \in Threads, op[t].kind \in PutKinds \cup GetKinds,
         NEW r, NEW p,
         \/ p = pc
         \/ \E u \in Threads : pc[u] = "waiting" /\ p = [pc EXCEPT ![u] = "woken"],
         Return(t, r, p)
  PROVE  /\ Counted(BlockingPuts)' = Counted(BlockingPuts) \ {t}
         /\ Counted(BlockingGets)' = Counted(BlockingGets) \ {t}
BY DEF TypeOK, Return, Counted, BlockingPuts, BlockingGets, NoCall

(* The decrement on the way out of a wait matches the set. *)
LEMMA LeavePutCounted ==
  ASSUME TypeOK, CallShape, CountersMatch, NEW t \in Threads,
         op[t].kind \in PutKinds, pc[t] \in {"enter", "woken", "expired"},
         LeavePut(t), n_more_get' = n_more_get,
         Counted(BlockingPuts)' = Counted(BlockingPuts) \ {t},
         Counted(BlockingGets)' = Counted(BlockingGets) \ {t}
  PROVE  CountersMatch'
<1>1. t \notin Counted(BlockingGets)
  BY DEF Counted, BlockingGets, PutKinds
<1>2. t \in Counted(BlockingPuts) <=> pc[t] # "enter"
  BY DEF Counted, CallShape, BlockingPuts, BlockingGets, PutKinds
<1>3. Counted(BlockingPuts) \in SUBSET Threads
  BY DEF Counted
<1>4. Counted(BlockingGets)' = Counted(BlockingGets)
  BY <1>1
<1>5. CASE pc[t] = "enter"
  <2>1. Counted(BlockingPuts)' = Counted(BlockingPuts)
    BY <1>2, <1>5
  <2>2. QED
    BY <1>4, <1>5, <2>1 DEF CountersMatch, LeavePut
<1>6. CASE pc[t] # "enter"
  <2>1. Cardinality(Counted(BlockingPuts)') = Cardinality(Counted(BlockingPuts)) - 1
    BY <1>2, <1>3, <1>6, ThreadSets
  <2>2. QED
    BY <1>4, <1>6, <2>1 DEF CountersMatch, LeavePut
<1>7. QED
  BY <1>5, <1>6

LEMMA LeaveGetCounted ==
  ASSUME TypeOK, CallShape, CountersMatch, NEW t \in Threads,
         op[t].kind \in GetKinds, pc[t] \in {"enter", "woken", "expired"},
         LeaveGet(t), n_more_put' = n_more_put,
         Counted(BlockingPuts)' = Counted(BlockingPuts) \ {t},
         Counted(BlockingGets)' = Counted(BlockingGets) \ {t}
  PROVE  CountersMatch'
<1>1. t \notin Counted(BlockingPuts)
  BY DEF Counted, BlockingPuts, GetKinds
<1>2. t \in Counted(BlockingGets) <=> pc[t] # "enter"
  BY DEF Counted, CallShape, BlockingPuts, BlockingGets, GetKinds
<1>3. Counted(BlockingGets) \in SUBSET Threads
  BY DEF Counted
<1>4. Counted(BlockingPuts)' = Counted(BlockingPuts)
  BY <1>1
<1>5. CASE pc[t] = "enter"
  <2>1. Counted(BlockingGets)' = Counted(BlockingGets)
    BY <1>2, <1>5
  <2>2. QED
    BY <1>4, <1>5, <2>1 DEF CountersMatch, LeaveGet
<1>6. CASE pc[t] # "enter"
  <2>1. Cardinality(Counted(BlockingGets)') = Cardinality(Counted(BlockingGets)) - 1
    BY <1>2, <1>3, <1>6, ThreadSets
  <2>2. QED
    BY <1>4, <1>6, <2>1 DEF CountersMatch, LeaveGet
<1>7. QED
  BY <1>5, <1>6

------------------------------------------------------------------------------
(* The inductive invariant, action by action.  TypeOK' comes from TypeStep.  *)

LEMMA InvCall ==
  ASSUME IInv, TypeOK', NEW t \in Threads, NEW k, NEW d, Call(t, k, d),
         \/ k \in PutKinds /\ d \in Data
         \/ k \in GetKinds /\ d = NoDatum
  PROVE  IInv'
<1> USE DEF IInv, TypeOK, Call, ring
<1>1. CallShape'
  BY DEF CallShape, PutKinds, GetKinds, BlockingPuts, BlockingGets, TimedKinds, NoCall
<1>2. Deciding'
  BY DEF Deciding
<1>3. RingShape'
  BY DEF RingShape, Slot
<1>4. CountersMatch'
  <2>1. /\ Counted(BlockingPuts)' = Counted(BlockingPuts)
        /\ Counted(BlockingGets)' = Counted(BlockingGets)
    BY DEF Counted, CallShape, NoCall, BlockingPuts, BlockingGets
  <2>2. QED
    BY <2>1 DEF CountersMatch
<1>5. QED
  BY <1>1, <1>2, <1>3, <1>4

(* A return leaves the shape of every other call alone. *)
LEMMA InvReturn ==
  ASSUME IInv, TypeOK', NEW t \in Threads, pc[t] \in {"enter", "woken", "expired"},
         NEW r, NEW p,
         \/ p = pc
         \/ \E u \in Threads : pc[u] = "waiting" /\ p = [pc EXCEPT ![u] = "woken"],
         Return(t, r, p), terminate' = terminate, lock' = lock
  PROVE  /\ CallShape'
         /\ op[t].kind \in PutKinds \cup GetKinds
         /\ lock = Free \/ n' = n => Deciding'
<1> USE DEF IInv, TypeOK, Return
<1>1. op[t].kind \in PutKinds \cup GetKinds
  BY DEF CallShape, Calls, NoCall
<1>2. CallShape'
  BY DEF CallShape, PutKinds, GetKinds, BlockingPuts, BlockingGets, TimedKinds, NoCall
<1>3. ASSUME lock = Free \/ n' = n PROVE Deciding'
  BY <1>3, LockAssumption DEF Deciding
<1>4. QED
  BY <1>1, <1>2, <1>3

LEMMA InvPutStore ==
  ASSUME IInv, TypeOK', NEW t \in Threads, PutStore(t)
  PROVE  IInv'
<1>1. PICK p \in SignalGetters(pc) : Return(t, "ok", p)
  BY DEF PutStore
<1>2. \/ p = pc
      \/ \E u \in Threads : pc[u] = "waiting" /\ p = [pc EXCEPT ![u] = "woken"]
  BY SignalGettersShape DEF Sleepers
<1>3. pc[t] \in {"enter", "woken", "expired"} /\ terminate' = terminate /\ lock' = lock
  BY DEF PutStore, Awake
<1>4. CallShape' /\ Deciding'
  BY <1>1, <1>2, <1>3, InvReturn DEF PutStore, Awake
<1>5. RingShape'
  <2>1. op[t].datum \in Data
    BY DEF PutStore, IInv, CallShape
  <2>2. /\ n' = n + 1 /\ head' = head /\ tail' = Succ(tail)
        /\ buf' = [buf EXCEPT ![tail] = op[t].datum]
        /\ n \in 0 .. Capacity - 1 /\ head \in Slots /\ tail \in Slots
        /\ buf \in [Slots -> Data \cup {NoDatum}]
    BY CapacityAssumption DEF PutStore, IInv, TypeOK
  <2>3. tail' = Slot(n)'
    BY <2>2, CapacityAssumption DEF IInv, RingShape, Slot, Succ, Slots
  <2>4. ASSUME NEW i \in 0 .. n PROVE buf'[Slot(i)'] \in Data
    <3>1. Slot(i)' = Slot(i) /\ Slot(i) \in Slots
      BY <2>2, CapacityAssumption DEF Slot, Slots
    <3>2. CASE i = n
      BY <2>1, <2>2, <3>1, <3>2 DEF IInv, RingShape
    <3>3. CASE i # n
      <4>1. Slot(i) # tail /\ i \in 0 .. n - 1
        BY <2>2, <3>3, CapacityAssumption DEF Slot, Slots, IInv, RingShape
      <4>2. QED
        BY <2>2, <3>1, <4>1 DEF IInv, RingShape
    <3>4. QED
      BY <3>2, <3>3
  <2>5. QED
    BY <2>2, <2>3, <2>4 DEF RingShape
<1>6. CountersMatch'
  BY <1>1, <1>2, <1>3, ReturnCounted, LeavePutCounted DEF IInv, PutStore
<1>7. QED
  BY <1>4, <1>5, <1>6 DEF IInv

LEMMA InvGetTake ==
  ASSUME IInv, TypeOK', NEW t \in Threads, GetTake(t)
  PROVE  IInv'
<1>1. PICK p \in SignalPutters(pc) : Return(t, buf[head], p)
  BY DEF GetTake
<1>2. \/ p = pc
      \/ \E u \in Threads : pc[u] = "waiting" /\ p = [pc EXCEPT ![u] = "woken"]
  BY SignalPuttersShape DEF Sleepers
<1>3. pc[t] \in {"enter", "woken", "expired"} /\ terminate' = terminate /\ lock' = lock
  BY DEF GetTake, Awake
<1>4. CallShape' /\ Deciding'
  BY <1>1, <1>2, <1>3, InvReturn DEF GetTake, Awake
<1>5. RingShape'
  <2>1. /\ n' = n - 1 /\ head' = Succ(head) /\ tail' = tail /\ buf' = buf
        /\ n \in 1 .. Capacity /\ head \in Slots /\ tail \in Slots
    BY CapacityAssumption DEF GetTake, IInv, TypeOK
  <2>2. \A i \in 0 .. n - 1 : Slot(i)' = Slot(i + 1)
    BY <2>1, CapacityAssumption DEF Slot, Slots, Succ
  <2>3. tail' = Slot(n)'
    BY <2>1, CapacityAssumption DEF Slot, Slots, Succ, IInv, RingShape
  <2>4. ASSUME NEW i \in 0 .. n' - 1 PROVE buf'[Slot(i)'] \in Data
    BY <2>1, <2>2 DEF IInv, RingShape
  <2>5. QED
    BY <2>3, <2>4 DEF RingShape
<1>6. CountersMatch'
  BY <1>1, <1>2, <1>3, ReturnCounted, LeaveGetCounted DEF IInv, GetTake
<1>7. QED
  BY <1>4, <1>5, <1>6 DEF IInv

(* A call that returns without touching the ring. *)
LEMMA InvFail ==
  ASSUME IInv, TypeOK', NEW t \in Threads,
         PutShut(t) \/ GetShut(t) \/ TryRefused(t) \/ GiveUp(t)
  PROVE  IInv'
<1>1. pc[t] \in {"enter", "woken", "expired"}
  BY DEF PutShut, GetShut, TryRefused, GiveUp, Awake
<1>2. Return(t, "failed", pc) /\ UNCHANGED <<n, head, tail, buf, terminate, lock>>
  BY DEF PutShut, GetShut, TryRefused, GiveUp, ring
<1>3. CallShape' /\ Deciding' /\ op[t].kind \in PutKinds \cup GetKinds
  BY <1>1, <1>2, InvReturn
<1>4. RingShape'
  BY <1>2 DEF IInv, RingShape, Slot
<1>5. /\ Counted(BlockingPuts)' = Counted(BlockingPuts) \ {t}
      /\ Counted(BlockingGets)' = Counted(BlockingGets) \ {t}
  BY <1>2, <1>3, ReturnCounted DEF IInv
<1>6. CountersMatch'
  <2>1. CASE PutShut(t) \/ (GiveUp(t) /\ op[t].kind \in BlockingPuts)
    <3>1. LeavePut(t) /\ n_more_get' = n_more_get /\ op[t].kind \in PutKinds
      BY <2>1 DEF PutShut, GiveUp, BlockingPuts, PutKinds
    <3>2. QED
      BY <1>1, <1>5, <3>1, LeavePutCounted DEF IInv
  <2>2. CASE GetShut(t) \/ (GiveUp(t) /\ op[t].kind \notin BlockingPuts)
    <3>1. LeaveGet(t) /\ n_more_put' = n_more_put
      BY <2>2 DEF GetShut, GiveUp
    <3>2. op[t].kind \in GetKinds
      BY <2>2 DEF IInv, CallShape, GetShut, GiveUp, BlockingPuts, BlockingGets, GetKinds
    <3>3. QED
      BY <1>1, <1>5, <3>1, <3>2, LeaveGetCounted DEF IInv
  <2>3. CASE TryRefused(t)
    <3>1. t \notin Counted(BlockingPuts) /\ t \notin Counted(BlockingGets)
      BY <2>3 DEF TryRefused, Counted
    <3>2. Counted(BlockingPuts)' = Counted(BlockingPuts)
      BY <1>5, <3>1
    <3>3. Counted(BlockingGets)' = Counted(BlockingGets)
      BY <1>5, <3>1
    <3>4. UNCHANGED <<n_more_get, n_more_put>>
      BY <2>3 DEF TryRefused
    <3>5. QED
      BY <3>2, <3>3, <3>4 DEF IInv, CountersMatch
  <2>4. QED
    BY <2>1, <2>2, <2>3
<1>7. QED
  BY <1>3, <1>4, <1>6 DEF IInv

(* A blocking call finds the queue full (empty) and keeps the mutex. *)
LEMMA InvDecide ==
  ASSUME IInv, TypeOK', NEW t \in Threads, PutFull(t) \/ GetEmpty(t)
  PROVE  IInv'
<1> USE DEF IInv, TypeOK
<1>1. /\ pc[t] \in {"enter", "woken"} /\ lock = Free /\ lock' = t
      /\ op[t].kind \in BlockingPuts \cup BlockingGets
      /\ pc' = [pc EXCEPT ![t] = "deciding"]
      /\ UNCHANGED <<n, head, tail, buf, terminate, op>>
  BY DEF PutFull, GetEmpty, Awake, ring
<1>2. CallShape'
  BY <1>1 DEF CallShape
<1>3. Deciding'
  <2>1. /\ op[t].kind \in BlockingPuts => n = Capacity
        /\ op[t].kind \in BlockingGets => n = 0
    BY DEF PutFull, GetEmpty, BlockingPuts, BlockingGets
  <2>2. \A u \in Threads : pc[u] # "deciding"
    BY <1>1, LockAssumption DEF Deciding
  <2>3. QED
    BY <1>1, <2>1, <2>2 DEF Deciding
<1>4. RingShape'
  BY <1>1 DEF RingShape, Slot
<1>5. /\ Counted(BlockingPuts)' = Counted(BlockingPuts) \ {t}
      /\ Counted(BlockingGets)' = Counted(BlockingGets) \ {t}
  BY <1>1 DEF Counted
<1>6. CountersMatch'
  <2>1. CASE PutFull(t)
    <3>1. LeavePut(t) /\ n_more_get' = n_more_get /\ op[t].kind \in PutKinds
      BY <2>1 DEF PutFull, BlockingPuts, PutKinds
    <3>2. QED
      BY <1>1, <1>5, <3>1, LeavePutCounted
  <2>2. CASE GetEmpty(t)
    <3>1. LeaveGet(t) /\ n_more_put' = n_more_put /\ op[t].kind \in GetKinds
      BY <2>2 DEF GetEmpty, BlockingGets, GetKinds
    <3>2. QED
      BY <1>1, <1>5, <3>1, LeaveGetCounted
  <2>3. QED
    BY <2>1, <2>2
<1>7. QED
  BY <1>2, <1>3, <1>4, <1>6

(* It announces the sleep, releases the mutex and sleeps. *)
LEMMA InvSleep ==
  ASSUME IInv, TypeOK', NEW t \in Threads, PutSleep(t) \/ GetSleep(t)
  PROVE  IInv'
<1> USE DEF IInv, TypeOK
<1>1. /\ pc[t] = "deciding" /\ lock' = Free
      /\ pc' = [pc EXCEPT ![t] = "waiting"]
      /\ UNCHANGED <<n, head, tail, buf, terminate, op>>
  BY DEF PutSleep, GetSleep, ring
<1>2. CallShape'
  BY <1>1 DEF CallShape
<1>3. Deciding'
  BY <1>1 DEF Deciding
<1>4. RingShape'
  BY <1>1 DEF RingShape, Slot
<1>5. CountersMatch'
  <2>1. /\ Counted(BlockingPuts) \in SUBSET Threads
        /\ Counted(BlockingGets) \in SUBSET Threads
        /\ t \notin Counted(BlockingPuts) /\ t \notin Counted(BlockingGets)
    BY <1>1 DEF Counted
  <2>2. CASE PutSleep(t)
    <3>1. /\ Counted(BlockingPuts)' = Counted(BlockingPuts) \cup {t}
          /\ Counted(BlockingGets)' = Counted(BlockingGets)
      BY <1>1, <2>2 DEF Counted, PutSleep, BlockingPuts, BlockingGets
    <3>2. QED
      BY <2>1, <2>2, <3>1, ThreadSets DEF CountersMatch, PutSleep
  <2>3. CASE GetSleep(t)
    <3>1. /\ Counted(BlockingGets)' = Counted(BlockingGets) \cup {t}
          /\ Counted(BlockingPuts)' = Counted(BlockingPuts)
      BY <1>1, <2>3 DEF Counted, GetSleep, BlockingPuts, BlockingGets
    <3>2. QED
      BY <2>1, <2>3, <3>1, ThreadSets DEF CountersMatch, GetSleep
  <2>4. QED
    BY <2>2, <2>3
<1>6. QED
  BY <1>2, <1>3, <1>4, <1>5

(* Steps that only move threads inside a wait or inside shutdown(). *)
LEMMA InvMove ==
  ASSUME IInv, TypeOK', UNCHANGED <<n, head, tail, buf, n_more_get, n_more_put, lock, op>>,
         terminate' = terminate \/ terminate',
         \A u \in Threads :
           \/ pc'[u] = pc[u]
           \/ pc[u] = "waiting" /\ pc'[u] = "woken"
           \/ pc[u] = "waiting" /\ pc'[u] = "expired" /\ op[u].kind \in TimedKinds
           \/ {pc[u], pc'[u]} \subseteq {"idle", "peek_get", "peek_put", "signal"}
  PROVE  IInv'
<1> USE DEF IInv, TypeOK
<1>1. CallShape'
  BY DEF CallShape
<1>2. Deciding'
  BY DEF Deciding
<1>3. RingShape'
  BY DEF RingShape, Slot
<1>4. CountersMatch'
  <2>1. \A K : Counted(K)' = Counted(K)
    BY DEF Counted
  <2>2. QED
    BY <2>1 DEF CountersMatch
<1>5. QED
  BY <1>1, <1>2, <1>3, <1>4

LEMMA InvStep == IInv /\ [Next]_vars => IInv'
<1> SUFFICES ASSUME IInv, [Next]_vars PROVE IInv'
  OBVIOUS
<1>0. TypeOK'
  BY TypeStep DEF IInv
<1>1. ASSUME NEW t \in Threads,
             \/ \E k \in PutKinds \cap CallKinds, d \in Data : Call(t, k, d)
             \/ \E k \in GetKinds \cap CallKinds : Call(t, k, NoDatum)
      PROVE  IInv'
  BY <1>0, <1>1, InvCall
<1>2. ASSUME NEW t \in Threads, Step(t) \/ SpuriousWake(t) \/ Expire(t) \/ ShutdownSet(t)
      PROVE  IInv'
  <2>1. CASE PutStore(t)
    BY <1>0, <2>1, InvPutStore
  <2>2. CASE GetTake(t)
    BY <1>0, <2>2, InvGetTake
  <2>3. CASE PutShut(t) \/ GetShut(t) \/ TryRefused(t) \/ GiveUp(t)
    BY <1>0, <2>3, InvFail
  <2>4. CASE PutFull(t) \/ GetEmpty(t)
    BY <1>0, <2>4, InvDecide
  <2>5. CASE PutSleep(t) \/ GetSleep(t)
    BY <1>0, <2>5, InvSleep
  <2>6. CASE SpuriousWake(t) \/ Expire(t)
    BY <1>0, <2>6, InvMove DEF SpuriousWake, Expire, IInv, TypeOK, ring
  <2>7. CASE ShutdownSet(t) \/ ShutdownPeekGet(t) \/ ShutdownPeekPut(t)
    BY <1>0, <2>7, InvMove
       DEF ShutdownSet, ShutdownPeekGet, ShutdownPeekPut, IInv, TypeOK, ring
  <2>8. CASE ShutdownSignal(t)
    <3>1. PICK p \in SignalOne(BlockingGets, [pc EXCEPT ![t] = "peek_get"]) :
                 pc' \in SignalOne(BlockingPuts, p)
      BY <2>8 DEF ShutdownSignal
    <3>2. \/ p = [pc EXCEPT ![t] = "peek_get"]
          \/ \E u \in Threads : /\ pc[u] = "waiting"
                                /\ p = [[pc EXCEPT ![t] = "peek_get"] EXCEPT ![u] = "woken"]
      BY <3>1 DEF SignalOne, Sleepers
    <3>3. \/ pc' = p
          \/ \E u \in Threads : pc[u] = "waiting" /\ pc' = [p EXCEPT ![u] = "woken"]
      BY <3>1, SignalOneShape DEF Sleepers
    <3>4. \A u \in Threads :
            \/ pc'[u] = pc[u]
            \/ pc[u] = "waiting" /\ pc'[u] = "woken"
            \/ {pc[u], pc'[u]} \subseteq {"idle", "peek_get", "peek_put", "signal"}
      BY <2>8, <3>2, <3>3 DEF ShutdownSignal, IInv, TypeOK
    <3>5. UNCHANGED <<n, head, tail, buf, n_more_get, n_more_put, terminate, lock, op>>
      BY <2>8 DEF ShutdownSignal, ring
    <3>6. QED
      BY <1>0, <3>4, <3>5, InvMove
  <2>9. QED
    BY <1>2, <2>1, <2>2, <2>3, <2>4, <2>5, <2>6, <2>7, <2>8, Zenon DEF Step
<1>3. CASE UNCHANGED vars
  BY <1>0, <1>3, InvMove DEF vars
<1>4. QED
  BY <1>1, <1>2, <1>3, Zenon DEF Next

LEMMA InvInit == Init => IInv
<1> SUFFICES ASSUME Init PROVE IInv
  OBVIOUS
<1>1. TypeOK
  BY InitTyped
<1>2. CallShape
  BY DEF Init, CallShape, NoCall, PutKinds, GetKinds
<1>3. Deciding
  BY DEF Init, Deciding
<1>4. RingShape
  BY CapacityAssumption DEF Init, RingShape, Slot
<1>5. CountersMatch
  <2>1. Counted(BlockingGets) = {} /\ Counted(BlockingPuts) = {}
    BY DEF Init, Counted
  <2>2. QED
    BY <2>1, FS_EmptySet DEF Init, CountersMatch
<1>6. QED
  BY <1>1, <1>2, <1>3, <1>4, <1>5 DEF IInv

(* The calls in progress, the ring and the counters always fit together:    *)
(* the inductive invariant the other theorems rest on.                      *)
THEOREM InvCorrect == Spec => []IInv
BY InvInit, InvStep, PTL DEF Spec

(* n_more_get and n_more_put are the numbers of threads inside a wait, on   *)
(* every path through signals, spurious wakeups, timeouts and shutdown.     *)
THEOREM CountersCorrect == Spec => []CountersMatch
<1>1. IInv => CountersMatch
  BY DEF IInv
<1>2. QED
  BY <1>1, InvCorrect, PTL

------------------------------------------------------------------------------
(* No lost wakeup between a put and a get.                                   *)

(* A step that wakes or expires sleepers and removes no woken thread keeps  *)
(* what is owed, when the ring does not change.                             *)
LEMMA OwedMonotone ==
  ASSUME NoLostWakeup, n' = n, terminate => terminate',
         \A K : Sleepers(K)' \subseteq Sleepers(K) /\ Woken(K) \subseteq Woken(K)',
         \A K : Woken(K)' \subseteq Threads,
         n \in Nat, Capacity \in Nat
  PROVE  NoLostWakeup'
<1>1. \A K : /\ Cardinality(Woken(K)) <= Cardinality(Woken(K)')
             /\ Cardinality(Woken(K)) \in Nat /\ Cardinality(Woken(K)') \in Nat
  <2> TAKE K
  <2>1. IsFiniteSet(Woken(K)')
    BY FS_Subset, ThreadsAssumption
  <2>2. IsFiniteSet(Woken(K)) /\ Cardinality(Woken(K)) <= Cardinality(Woken(K)')
    BY <2>1, FS_Subset
  <2>3. QED
    BY <2>1, <2>2, FS_CardinalityType
<1>2. GettersOwed'
  BY <1>1 DEF NoLostWakeup, GettersOwed
<1>3. PuttersOwed'
  BY <1>1 DEF NoLostWakeup, PuttersOwed
<1>4. QED
  BY <1>2, <1>3 DEF NoLostWakeup

LEMMA OwedPutStore ==
  ASSUME IInv, NoLostWakeup, NEW t \in Threads, PutStore(t)
  PROVE  NoLostWakeup'
<1> USE DEF IInv, TypeOK
<1>1. PICK p \in SignalGetters(pc) : Return(t, "ok", p)
  BY DEF PutStore
<1>2. /\ op[t].kind \in PutKinds /\ op[t].kind \notin BlockingGets
      /\ pc[t] \in {"enter", "woken"}
      /\ n' = n + 1 /\ n \in Nat /\ Capacity \in Nat /\ terminate' = terminate
  BY CapacityAssumption DEF PutStore, Awake, PutKinds, BlockingGets
<1>3. Sleepers(BlockingGets) = {} \/ n_more_get # 0
  <2>1. Sleepers(BlockingGets) \subseteq Counted(BlockingGets)
    BY DEF Sleepers, Counted
  <2>2. Counted(BlockingGets) \in SUBSET Threads
    BY DEF Counted
  <2>3. QED
    BY <1>2, <2>1, <2>2, ThreadSets DEF CountersMatch
<1>4. GettersOwed'
  <2>1. CASE p = pc /\ Sleepers(BlockingGets) = {}
    <3>1. Sleepers(BlockingGets)' = {}
      BY <1>1, <2>1 DEF Return, Sleepers, NoCall
    <3>2. QED
      BY <3>1 DEF GettersOwed
  <2>2. CASE \E u \in Sleepers(BlockingGets) : p = [pc EXCEPT ![u] = "woken"]
    <3>1. PICK u \in Sleepers(BlockingGets) : p = [pc EXCEPT ![u] = "woken"]
      BY <2>2
    <3>2. /\ u \in Threads /\ u # t /\ u \notin Woken(BlockingGets)
          /\ Woken(BlockingGets) \in SUBSET Threads
      BY <1>2, <3>1 DEF Sleepers, Woken
    <3>3. Woken(BlockingGets)' = Woken(BlockingGets) \cup {u}
      BY <1>1, <1>2, <3>1, <3>2 DEF Return, Woken, Sleepers, NoCall
    <3>4. n <= Cardinality(Woken(BlockingGets))
      BY <3>1 DEF NoLostWakeup, GettersOwed
    <3>5. QED
      BY <1>2, <3>2, <3>3, <3>4, ThreadSets DEF GettersOwed
  <2>3. QED
    BY <1>1, <1>3, <2>1, <2>2, SignalGettersShape
<1>5. PuttersOwed'
  <2>1. p = pc \/ \E u \in Sleepers(BlockingGets) : p = [pc EXCEPT ![u] = "woken"]
    BY <1>1, SignalGettersShape
  <2>2. /\ Sleepers(BlockingPuts)' = Sleepers(BlockingPuts)
        /\ Woken(BlockingPuts)' = Woken(BlockingPuts) \ {t}
    BY <1>1, <1>2, <2>1 DEF Return, Sleepers, Woken, NoCall, BlockingPuts, BlockingGets
  <2>3. /\ Cardinality(Woken(BlockingPuts)) \in Nat
        /\ Cardinality(Woken(BlockingPuts)') \in Nat
        /\ Cardinality(Woken(BlockingPuts)') >= Cardinality(Woken(BlockingPuts)) - 1
    <3>1. Woken(BlockingPuts) \in SUBSET Threads
      BY DEF Woken
    <3>2. CASE t \in Woken(BlockingPuts)
      BY <2>2, <3>1, <3>2, ThreadSets
    <3>3. CASE t \notin Woken(BlockingPuts)
      <4>1. Woken(BlockingPuts)' = Woken(BlockingPuts)
        BY <2>2, <3>3
      <4>2. Cardinality(Woken(BlockingPuts)) \in Nat
        BY <3>1, ThreadSets
      <4>3. QED
        BY <4>1, <4>2
    <3>4. QED
      BY <3>2, <3>3
  <2>4. QED
    BY <1>2, <2>2, <2>3 DEF NoLostWakeup, PuttersOwed
<1>6. QED
  BY <1>4, <1>5 DEF NoLostWakeup

LEMMA OwedGetTake ==
  ASSUME IInv, NoLostWakeup, NEW t \in Threads, GetTake(t)
  PROVE  NoLostWakeup'
<1> USE DEF IInv, TypeOK
<1>1. PICK p \in SignalPutters(pc) : Return(t, buf[head], p)
  BY DEF GetTake
<1>2. /\ op[t].kind \in GetKinds /\ op[t].kind \notin BlockingPuts
      /\ pc[t] \in {"enter", "woken"}
      /\ n' = n - 1 /\ n \in Nat /\ Capacity \in Nat /\ terminate' = terminate
  BY CapacityAssumption DEF GetTake, Awake, GetKinds, BlockingPuts
<1>3. Sleepers(BlockingPuts) = {} \/ n_more_put # 0
  <2>1. Sleepers(BlockingPuts) \subseteq Counted(BlockingPuts)
    BY DEF Sleepers, Counted
  <2>2. Counted(BlockingPuts) \in SUBSET Threads
    BY DEF Counted
  <2>3. QED
    BY <1>2, <2>1, <2>2, ThreadSets DEF CountersMatch
<1>4. PuttersOwed'
  <2>1. CASE p = pc /\ Sleepers(BlockingPuts) = {}
    <3>1. Sleepers(BlockingPuts)' = {}
      BY <1>1, <2>1 DEF Return, Sleepers, NoCall
    <3>2. QED
      BY <3>1 DEF PuttersOwed
  <2>2. CASE \E u \in Sleepers(BlockingPuts) : p = [pc EXCEPT ![u] = "woken"]
    <3>1. PICK u \in Sleepers(BlockingPuts) : p = [pc EXCEPT ![u] = "woken"]
      BY <2>2
    <3>2. /\ u \in Threads /\ u # t /\ u \notin Woken(BlockingPuts)
          /\ Woken(BlockingPuts) \in SUBSET Threads
      BY <1>2, <3>1 DEF Sleepers, Woken
    <3>3. Woken(BlockingPuts)' = Woken(BlockingPuts) \cup {u}
      BY <1>1, <1>2, <3>1, <3>2 DEF Return, Woken, Sleepers, NoCall
    <3>4. terminate \/ Capacity - n <= Cardinality(Woken(BlockingPuts))
      BY <3>1 DEF NoLostWakeup, PuttersOwed
    <3>5. /\ Cardinality(Woken(BlockingPuts)) \in Nat
          /\ Cardinality(Woken(BlockingPuts)') = Cardinality(Woken(BlockingPuts)) + 1
      BY <3>2, <3>3, ThreadSets
    <3>6. QED
      BY <1>2, <3>4, <3>5 DEF PuttersOwed
  <2>3. QED
    BY <1>1, <1>3, <2>1, <2>2, SignalPuttersShape
<1>5. GettersOwed'
  <2>1. p = pc \/ \E u \in Sleepers(BlockingPuts) : p = [pc EXCEPT ![u] = "woken"]
    BY <1>1, SignalPuttersShape
  <2>2. /\ Sleepers(BlockingGets)' = Sleepers(BlockingGets)
        /\ Woken(BlockingGets)' = Woken(BlockingGets) \ {t}
    BY <1>1, <1>2, <2>1 DEF Return, Sleepers, Woken, NoCall, BlockingPuts, BlockingGets
  <2>3. /\ Cardinality(Woken(BlockingGets)) \in Nat
        /\ Cardinality(Woken(BlockingGets)') \in Nat
        /\ Cardinality(Woken(BlockingGets)') >= Cardinality(Woken(BlockingGets)) - 1
    <3>1. Woken(BlockingGets) \in SUBSET Threads
      BY DEF Woken
    <3>2. CASE t \in Woken(BlockingGets)
      BY <2>2, <3>1, <3>2, ThreadSets
    <3>3. CASE t \notin Woken(BlockingGets)
      <4>1. Woken(BlockingGets)' = Woken(BlockingGets)
        BY <2>2, <3>3
      <4>2. Cardinality(Woken(BlockingGets)) \in Nat
        BY <3>1, ThreadSets
      <4>3. QED
        BY <4>1, <4>2
    <3>4. QED
      BY <3>2, <3>3
  <2>4. QED
    BY <1>2, <2>2, <2>3 DEF NoLostWakeup, GettersOwed
<1>6. QED
  BY <1>4, <1>5 DEF NoLostWakeup

(* Calls that return empty-handed: a woken putter leaves only after a       *)
(* shutdown, a woken getter only when nothing is left.                      *)
LEMMA OwedFail ==
  ASSUME IInv, NoLostWakeup, NEW t \in Threads,
         PutShut(t) \/ GetShut(t) \/ TryRefused(t) \/ GiveUp(t)
  PROVE  NoLostWakeup'
<1> USE DEF IInv, TypeOK
<1>1. Return(t, "failed", pc) /\ n' = n /\ terminate' = terminate /\ pc[t] # "waiting"
  BY DEF PutShut, GetShut, TryRefused, GiveUp, Awake, ring
<1>2. \A K \in {BlockingPuts, BlockingGets} :
        Sleepers(K)' = Sleepers(K) /\ Woken(K)' = Woken(K) \ {t}
  BY <1>1 DEF Return, Sleepers, Woken, NoCall, BlockingPuts, BlockingGets
<1>3. GettersOwed'
  <2>1. CASE t \notin Woken(BlockingGets)
    BY <1>1, <1>2, <2>1 DEF NoLostWakeup, GettersOwed
  <2>2. CASE t \in Woken(BlockingGets)
    <3>1. n = 0
      BY <2>2 DEF Woken, PutShut, GetShut, TryRefused, GiveUp, BlockingPuts, BlockingGets
    <3>2. Woken(BlockingGets)' \in SUBSET Threads
      BY <1>2 DEF Woken
    <3>3. Cardinality(Woken(BlockingGets)') \in Nat
      BY <3>2, ThreadSets
    <3>4. QED
      BY <1>1, <3>1, <3>3 DEF GettersOwed
  <2>3. QED
    BY <2>1, <2>2
<1>4. PuttersOwed'
  <2>1. CASE t \notin Woken(BlockingPuts)
    BY <1>1, <1>2, <2>1 DEF NoLostWakeup, PuttersOwed
  <2>2. CASE t \in Woken(BlockingPuts)
    <3>1. terminate
      BY <2>2 DEF Woken, PutShut, GetShut, TryRefused, GiveUp, BlockingPuts, BlockingGets
    <3>2. QED
      BY <1>1, <3>1 DEF PuttersOwed
  <2>3. QED
    BY <2>1, <2>2
<1>5. QED
  BY <1>3, <1>4 DEF NoLostWakeup

(* Going to sleep: the queue is full (empty), nothing is owed. *)
LEMMA OwedSleep ==
  ASSUME IInv, NoLostWakeup, NEW t \in Threads,
         PutFull(t) \/ GetEmpty(t) \/ PutSleep(t) \/ GetSleep(t)
  PROVE  NoLostWakeup'
<1> USE DEF IInv, TypeOK
<1>1. n' = n /\ terminate' = terminate /\ op' = op
  BY DEF PutFull, GetEmpty, PutSleep, GetSleep, ring
<1>2. \A K : Cardinality(Woken(K)') \in Nat
  <2> TAKE K
  <2>1. Woken(K)' \in SUBSET Threads
    BY DEF Woken
  <2>2. QED
    BY <2>1, ThreadSets
<1>3. CASE op[t].kind \in BlockingPuts
  <2>1. n = Capacity
    BY <1>3 DEF PutFull, GetEmpty, PutSleep, GetSleep, Deciding, BlockingPuts, BlockingGets
  <2>2. PuttersOwed'
    BY <1>1, <1>2, <2>1, CapacityAssumption DEF PuttersOwed
  <2>3. /\ Sleepers(BlockingGets)' = Sleepers(BlockingGets)
        /\ Woken(BlockingGets)' = Woken(BlockingGets)
    BY <1>3 DEF PutFull, GetEmpty, PutSleep, GetSleep, Sleepers, Woken, Awake,
                BlockingPuts, BlockingGets
  <2>4. QED
    BY <1>1, <2>2, <2>3 DEF NoLostWakeup, GettersOwed
<1>4. CASE op[t].kind \in BlockingGets
  <2>1. n = 0
    BY <1>4 DEF PutFull, GetEmpty, PutSleep, GetSleep, Deciding, BlockingPuts, BlockingGets
  <2>2. GettersOwed'
    BY <1>1, <1>2, <2>1 DEF GettersOwed
  <2>3. /\ Sleepers(BlockingPuts)' = Sleepers(BlockingPuts)
        /\ Woken(BlockingPuts)' = Woken(BlockingPuts)
    BY <1>4 DEF PutFull, GetEmpty, PutSleep, GetSleep, Sleepers, Woken, Awake,
                BlockingPuts, BlockingGets
  <2>4. QED
    BY <1>1, <2>2, <2>3 DEF NoLostWakeup, PuttersOwed
<1>5. QED
  BY <1>3, <1>4 DEF PutFull, GetEmpty, PutSleep, GetSleep

(* Steps that only move threads inside a wait or inside shutdown(). *)
LEMMA OwedMove ==
  ASSUME IInv, NoLostWakeup, n' = n, op' = op, terminate => terminate',
         \A u \in Threads :
           \/ pc'[u] = pc[u]
           \/ pc[u] = "waiting" /\ pc'[u] \in {"woken", "expired"}
           \/ pc[u] # "woken" /\ pc'[u] # "waiting"
  PROVE  NoLostWakeup'
<1>1. \A K : Sleepers(K)' \subseteq Sleepers(K) /\ Woken(K) \subseteq Woken(K)'
  BY DEF Sleepers, Woken
<1>2. \A K : Woken(K)' \subseteq Threads
  BY DEF Woken
<1>3. n \in Nat /\ Capacity \in Nat
  BY CapacityAssumption DEF IInv, TypeOK
<1>4. QED
  BY <1>1, <1>2, <1>3, OwedMonotone

(* A new call concerns neither the sleeping nor the woken. *)
LEMMA OwedCall ==
  ASSUME IInv, NoLostWakeup, NEW t \in Threads, NEW k, NEW d, Call(t, k, d)
  PROVE  NoLostWakeup'
<1>1. \A K : Sleepers(K)' = Sleepers(K) /\ Woken(K)' = Woken(K)
  BY DEF Call, Sleepers, Woken, IInv, TypeOK
<1>2. n' = n /\ terminate' = terminate
  BY DEF Call, ring
<1>3. QED
  BY <1>1, <1>2 DEF NoLostWakeup, GettersOwed, PuttersOwed

LEMMA OwedStep == IInv /\ NoLostWakeup /\ [Next]_vars => NoLostWakeup'
<1> SUFFICES ASSUME IInv, NoLostWakeup, [Next]_vars PROVE NoLostWakeup'
  OBVIOUS
<1>1. ASSUME NEW t \in Threads,
             \/ \E k \in PutKinds \cap CallKinds, d \in Data : Call(t, k, d)
             \/ \E k \in GetKinds \cap CallKinds : Call(t, k, NoDatum)
      PROVE  NoLostWakeup'
  BY <1>1, OwedCall
<1>2. ASSUME NEW t \in Threads, Step(t) \/ SpuriousWake(t) \/ Expire(t) \/ ShutdownSet(t)
      PROVE  NoLostWakeup'
  <2>1. CASE PutStore(t)
    BY <2>1, OwedPutStore
  <2>2. CASE GetTake(t)
    BY <2>2, OwedGetTake
  <2>3. CASE PutShut(t) \/ GetShut(t) \/ TryRefused(t) \/ GiveUp(t)
    BY <2>3, OwedFail
  <2>4. CASE PutFull(t) \/ GetEmpty(t) \/ PutSleep(t) \/ GetSleep(t)
    BY <2>4, OwedSleep
  <2>5. CASE SpuriousWake(t) \/ Expire(t)
    BY <2>5, OwedMove DEF SpuriousWake, Expire, IInv, TypeOK, ring
  <2>6. CASE ShutdownSet(t) \/ ShutdownPeekGet(t) \/ ShutdownPeekPut(t)
    <3>1. n' = n /\ op' = op /\ (terminate => terminate')
      BY <2>6 DEF ShutdownSet, ShutdownPeekGet, ShutdownPeekPut, ring
    <3>2. \A u \in Threads : pc'[u] = pc[u] \/ (pc[u] # "woken" /\ pc'[u] # "waiting")
      BY <2>6 DEF ShutdownSet, ShutdownPeekGet, ShutdownPeekPut, IInv, TypeOK
    <3>3. QED
      BY <3>1, <3>2, OwedMove
  <2>7. CASE ShutdownSignal(t)
    <3>1. PICK p \in SignalOne(BlockingGets, [pc EXCEPT ![t] = "peek_get"]) :
                 pc' \in SignalOne(BlockingPuts, p)
      BY <2>7 DEF ShutdownSignal
    <3>2. \/ p = [pc EXCEPT ![t] = "peek_get"]
          \/ \E u \in Threads : /\ pc[u] = "waiting"
                                /\ p = [[pc EXCEPT ![t] = "peek_get"] EXCEPT ![u] = "woken"]
      BY <3>1 DEF SignalOne, Sleepers
    <3>3. \/ pc' = p
          \/ \E u \in Threads : pc[u] = "waiting" /\ pc' = [p EXCEPT ![u] = "woken"]
      BY <3>1, SignalOneShape DEF Sleepers
    <3>4. \A u \in Threads :
            \/ pc'[u] = pc[u]
            \/ pc[u] = "waiting" /\ pc'[u] \in {"woken", "expired"}
            \/ pc[u] # "woken" /\ pc'[u] # "waiting"
      BY <2>7, <3>2, <3>3 DEF ShutdownSignal, IInv, TypeOK
    <3>5. n' = n /\ op' = op /\ terminate' = terminate
      BY <2>7 DEF ShutdownSignal, ring
    <3>6. QED
      BY <3>4, <3>5, OwedMove
  <2>8. QED
    BY <1>2, <2>1, <2>2, <2>3, <2>4, <2>5, <2>6, <2>7, Zenon DEF Step
<1>3. CASE UNCHANGED vars
  BY <1>3, OwedMove DEF vars
<1>4. QED
  BY <1>1, <1>2, <1>3, Zenon DEF Next

(* One signal per put and per get is enough: no element waits in the ring   *)
(* next to a sleeping getter, and no free slot next to a sleeping putter,   *)
(* unless somebody already woken is on the way to it.                       *)
THEOREM NoLostWakeupCorrect == Spec => []NoLostWakeup
<1>1. Init => NoLostWakeup
  BY DEF Init, NoLostWakeup, GettersOwed, PuttersOwed, Sleepers
<1>2. QED
  BY <1>1, OwedStep, InvCorrect, PTL DEF Spec

(***************************************************************************)
(* SyncQueue implements BoundedFifo: the ring, the mutex and the condition *)
(* variables, with timeouts and shutdown, are a linearisable bounded FIFO, *)
(* for every set of threads, every set of data and every capacity.         *)
(***************************************************************************)
USE DEF Fifo!PutKinds, Fifo!GetKinds, Fifo!Kinds, Fifo!BlockingKinds, Fifo!TimedKinds,
        PutKinds, GetKinds, BlockingPuts, BlockingGets, TimedKinds

LEMMA IntervalLength ==
  ASSUME NEW i \in Nat, NEW j \in Nat, 1 .. i = 1 .. j
  PROVE  i = j
<1>1. i <= j
  <2>1. CASE i = 0
    BY <2>1
  <2>2. CASE i # 0
    <3>1. i \in 1 .. j
      BY <2>2
    <3>2. QED
      BY <3>1
  <2>3. QED
    BY <2>1, <2>2
<1>2. j <= i
  <2>1. CASE j = 0
    BY <2>1
  <2>2. CASE j # 0
    <3>1. j \in 1 .. i
      BY <2>2
    <3>2. QED
      BY <3>1
  <2>3. QED
    BY <2>1, <2>2
<1>3. QED
  BY <1>1, <1>2

(* The ring read from head is a sequence of n data. *)
LEMMA ContentsShape ==
  ASSUME IInv
  PROVE  /\ Contents \in Seq(Data)
         /\ Len(Contents) = n
         /\ \A i \in 1 .. n : Contents[i] = buf[Slot(i - 1)]
<1>1. n \in Nat
  BY CapacityAssumption DEF IInv, TypeOK
<1>2. \A i \in 1 .. n : buf[Slot(i - 1)] \in Data
  <2> TAKE i \in 1 .. n
  <2>1. i - 1 \in 0 .. n - 1
    BY <1>1
  <2>2. QED
    BY <2>1 DEF IInv, RingShape
<1>3. Contents \in [1 .. n -> Data]
  BY <1>2 DEF Contents
<1>4. Contents \in Seq(Data)
  BY <1>1, <1>3, SeqDef
<1>5. Len(Contents) = n
  <2>1. Len(Contents) \in Nat /\ DOMAIN Contents = 1 .. Len(Contents)
    BY <1>4, LenProperties
  <2>2. DOMAIN Contents = 1 .. n
    BY <1>3
  <2>3. QED
    BY <1>1, <2>1, <2>2, IntervalLength
<1>6. QED
  BY <1>4, <1>5 DEF Contents

(* The abstract view of a thread depends on its own call only. *)
LEMMA PendingShape ==
  /\ DOMAIN Pending = Threads
  /\ \A t \in Threads :
       Pending[t] = [kind |-> op[t].kind, datum |-> op[t].datum, late |-> op[t].late,
                     stage |-> IF InCall(t) /\ pc[t] # "enter" THEN "slept" ELSE "new"]
BY DEF Pending

LEMMA ContentsShapeNext ==
  IInv' => /\ Contents' \in Seq(Data)
           /\ Len(Contents') = n'
           /\ \A i \in 1 .. n' : Contents'[i] = buf'[Slot(i - 1)']
<1> DEFINE Shape == /\ Contents \in Seq(Data)
                    /\ Len(Contents) = n
                    /\ \A i \in 1 .. n : Contents[i] = buf[Slot(i - 1)]
<1>1. IInv => Shape
  BY ContentsShape
<1>2. IInv' => Shape'
  <2> HIDE DEF Shape
  <2>1. QED
    BY <1>1, PTL
<1>3. QED
  BY <1>2

(* A thread without a call is seen without a call, and only such a thread. *)
LEMMA PendingNone ==
  ASSUME IInv, NEW t \in Threads
  PROVE  /\ op[t] = NoCall => Pending[t] = Fifo!NoCall
         /\ op[t] # NoCall => /\ op[t] \in Calls
                              /\ op[t].kind \in PutKinds \cup GetKinds
                              /\ Pending[t] # Fifo!NoCall
<1>1. CASE op[t] = NoCall
  <2>1. op[t].kind = "none" /\ op[t].datum = NoDatum /\ op[t].late = FALSE
    BY <1>1 DEF NoCall
  <2>2. InCall(t) = FALSE
    BY <2>1 DEF InCall
  <2>3. QED
    BY <1>1, <2>1, <2>2, PendingShape DEF Fifo!NoCall
<1>2. CASE op[t] # NoCall
  <2>1. op[t] \in Calls /\ op[t].kind \in PutKinds \cup GetKinds
    BY <1>2 DEF IInv, TypeOK, Calls
  <2>2. Pending[t].kind # "none"
    BY <2>1, PendingShape
  <2>3. QED
    BY <1>2, <2>1, <2>2 DEF Fifo!NoCall
<1>3. QED
  BY <1>1, <1>2

LEMMA FifoInit == Init => Fifo!Init
<1> SUFFICES ASSUME Init PROVE Fifo!Init
  OBVIOUS
<1>1. IInv
  BY InvInit
<1>2. Contents = << >>
  <2>1. Contents \in Seq(Data) /\ Len(Contents) = 0
    BY <1>1, ContentsShape DEF Init
  <2>2. QED
    BY <2>1, EmptySeq
<1>3. Pending = [t \in Threads |-> Fifo!NoCall]
  <2>1. \A t \in Threads : Pending[t] = Fifo!NoCall
    BY <1>1, PendingNone DEF Init
  <2>2. QED
    BY <2>1 DEF Pending
<1>4. QED
  BY <1>2, <1>3 DEF Init, Fifo!Init

------------------------------------------------------------------------------
(* Steps that change no call, and move threads only between places that    *)
(* look the same from outside.                                             *)
LEMMA PendingKept ==
  ASSUME IInv, op' = op,
         \A u \in Threads : op[u] # NoCall => (pc'[u] = "enter" <=> pc[u] = "enter")
  PROVE  Pending' = Pending
<1>1. \A u \in Threads : (InCall(u) /\ pc[u] # "enter")' <=> (InCall(u) /\ pc[u] # "enter")
  BY DEF InCall, NoCall
<1>2. \A u \in Threads : Pending'[u] = Pending[u]
  BY <1>1, Zenon DEF Pending
<1>3. QED
  BY <1>2 DEF Pending

(* Steps that change the call of one thread. *)
LEMMA PendingExcept ==
  ASSUME NEW t \in Threads, NEW c, Pending'[t] = c,
         \A u \in Threads \ {t} : Pending'[u] = Pending[u]
  PROVE  Pending' = [Pending EXCEPT ![t] = c]
<1>1. Pending = [u \in Threads |-> Pending[u]]
  BY DEF Pending
<1>2. Pending' = [u \in Threads |-> Pending'[u]]
  BY DEF Pending
<1>3. QED
  BY <1>1, <1>2

LEMMA ContentsKept ==
  ASSUME UNCHANGED <<n, head, buf>>
  PROVE  Contents' = Contents
BY DEF Contents, Slot

(* A return ends the call of one thread and of no other. *)
LEMMA FifoReturn ==
  ASSUME IInv, NEW t \in Threads, NEW r, NEW p,
         pc[t] \in {"enter", "woken", "expired"},
         \/ p = pc
         \/ \E u \in Threads : pc[u] = "waiting" /\ p = [pc EXCEPT ![u] = "woken"],
         Return(t, r, p), terminate' = terminate
  PROVE  Fifo!Return(t, r)
<1>1. /\ pc \in [Threads -> PCs] /\ op \in [Threads -> Calls \cup {NoCall}]
      /\ op' = [op EXCEPT ![t] = NoCall] /\ pc' = [p EXCEPT ![t] = "idle"]
  BY DEF IInv, TypeOK, Return
<1>2. Pending'[t] = Fifo!NoCall
  <2>1. op'[t] = NoCall /\ op'[t].kind = "none" /\ op'[t].datum = NoDatum
        /\ op'[t].late = FALSE
    BY <1>1 DEF NoCall
  <2>2. InCall(t)' = FALSE
    BY <2>1 DEF InCall
  <2>3. QED
    BY <2>1, <2>2 DEF Pending, Fifo!NoCall
<1>3. ASSUME NEW u \in Threads, u # t PROVE Pending'[u] = Pending[u]
  <2>1. op'[u] = op[u] /\ (pc'[u] = "enter" <=> pc[u] = "enter")
    BY <1>1, <1>3
  <2>2. InCall(u)' <=> InCall(u)
    BY <2>1 DEF InCall
  <2>3. (InCall(u) /\ pc[u] # "enter")' <=> (InCall(u) /\ pc[u] # "enter")
    BY <2>1, <2>2
  <2>4. QED
    BY <2>1, <2>3, Zenon DEF Pending
<1>4. Pending' = [Pending EXCEPT ![t] = Fifo!NoCall]
  BY <1>2, <1>3, PendingExcept
<1>5. result' = [result EXCEPT ![t] = r]
  BY DEF Return
<1>6. QED
  BY <1>4, <1>5 DEF Fifo!Return

LEMMA FifoCall ==
  ASSUME IInv, NEW t \in Threads, NEW k, NEW d, Call(t, k, d),
         \/ k \in PutKinds /\ d \in Data
         \/ k \in GetKinds /\ d = NoDatum
  PROVE  Fifo!Call(t)
<1>1. /\ pc[t] = "idle" /\ op[t] = NoCall
      /\ pc' = [pc EXCEPT ![t] = "enter"]
      /\ op' = [op EXCEPT ![t] = [kind |-> k, datum |-> d, late |-> terminate]]
      /\ pc \in [Threads -> PCs] /\ op \in [Threads -> Calls \cup {NoCall}]
  BY DEF Call, IInv, TypeOK, CallShape
<1>2. Pending[t] = Fifo!NoCall
  BY <1>1, PendingNone
<1>3. Pending'[t] = [kind |-> k, datum |-> d, late |-> terminate, stage |-> "new"]
  <2>1. op'[t].kind = k /\ op'[t].datum = d /\ op'[t].late = terminate /\ pc'[t] = "enter"
    BY <1>1
  <2>2. (InCall(t) /\ pc[t] # "enter")' = FALSE
    BY <2>1
  <2>3. QED
    BY <2>1, <2>2, Zenon DEF Pending
<1>4. ASSUME NEW u \in Threads, u # t PROVE Pending'[u] = Pending[u]
  <2>1. op'[u] = op[u] /\ pc'[u] = pc[u]
    BY <1>1, <1>4
  <2>2. QED
    BY <2>1, Zenon DEF Pending, InCall
<1>5. Pending' = [Pending EXCEPT ![t] =
                    [kind |-> k, datum |-> d, late |-> terminate, stage |-> "new"]]
  BY <1>3, <1>4, PendingExcept
<1>6. Contents' = Contents /\ terminate' = terminate /\ result' = [result EXCEPT ![t] = "none"]
  BY ContentsKept DEF Call, ring
<1>7. /\ k \in Fifo!Kinds /\ d \in Data \cup {NoDatum}
      /\ (k \in Fifo!GetKinds) <=> (d = NoDatum)
  BY DataAssumption
<1>8. QED
  BY <1>2, <1>5, <1>6, <1>7 DEF Fifo!Call

------------------------------------------------------------------------------
(* buf[tail] = datum is an append. *)
LEMMA ContentsPut ==
  ASSUME IInv, IInv', NEW d \in Data, n # Capacity,
         buf' = [buf EXCEPT ![tail] = d], n' = n + 1, head' = head
  PROVE  Contents' = Append(Contents, d)
<1>1. /\ n \in 0 .. Capacity - 1 /\ head \in Slots /\ tail = Slot(n) /\ tail \in Slots
      /\ buf \in [Slots -> Data \cup {NoDatum}]
  BY CapacityAssumption DEF IInv, TypeOK, RingShape
<1>2. /\ Contents' \in Seq(Data) /\ Len(Contents') = n + 1
      /\ \A i \in 1 .. n + 1 : Contents'[i] = buf'[Slot(i - 1)']
  BY ContentsShapeNext
<1>3. /\ Contents \in Seq(Data) /\ Len(Contents) = n
      /\ \A i \in 1 .. n : Contents[i] = buf[Slot(i - 1)]
  BY ContentsShape
<1>4. /\ Append(Contents, d) \in Seq(Data) /\ Len(Append(Contents, d)) = n + 1
      /\ \A i \in 1 .. n : Append(Contents, d)[i] = Contents[i]
      /\ Append(Contents, d)[n + 1] = d
  BY <1>3, AppendProperties
<1>5. \A i \in 1 .. n : Slot(i - 1)' = Slot(i - 1) /\ Slot(i - 1) # tail
  BY <1>1, CapacityAssumption DEF Slot, Slots
<1>6. ASSUME NEW i \in 1 .. n PROVE Contents'[i] = Contents[i]
  <2>1. Contents'[i] = buf'[Slot(i - 1)']
    BY <1>1, <1>2
  <2>2. Slot(i - 1)' = Slot(i - 1) /\ Slot(i - 1) # tail
    BY <1>5
  <2>3. Slot(i - 1) \in Slots
    BY <1>1, CapacityAssumption DEF Slot, Slots
  <2>4. buf'[Slot(i - 1)] = buf[Slot(i - 1)]
    BY <1>1, <2>2, <2>3
  <2>5. Contents[i] = buf[Slot(i - 1)]
    BY <1>3
  <2>6. QED
    BY <2>1, <2>2, <2>4, <2>5
<1>7. Contents'[n + 1] = d
  BY <1>1, <1>2 DEF Slot
<1>8. \A i \in 1 .. n + 1 : Contents'[i] = Append(Contents, d)[i]
  BY <1>1, <1>4, <1>6, <1>7
<1>9. QED
  BY <1>2, <1>4, <1>8, SeqEqual

(* datum = buf[head] takes the first element. *)
LEMMA ContentsGet ==
  ASSUME IInv, IInv', n # 0, n' = n - 1, head' = Succ(head), buf' = buf
  PROVE  /\ Contents # << >>
         /\ Head(Contents) = buf[head]
         /\ Contents' = Tail(Contents)
<1>1. n \in 1 .. Capacity /\ head \in Slots
  BY CapacityAssumption DEF IInv, TypeOK
<1>2. /\ Contents' \in Seq(Data) /\ Len(Contents') = n - 1
      /\ \A i \in 1 .. n - 1 : Contents'[i] = buf'[Slot(i - 1)']
  BY ContentsShapeNext
<1>3. /\ Contents \in Seq(Data) /\ Len(Contents) = n
      /\ \A i \in 1 .. n : Contents[i] = buf[Slot(i - 1)]
  BY ContentsShape
<1>4. Contents # << >>
  BY <1>1, <1>3, EmptySeq
<1>5. /\ Tail(Contents) \in Seq(Data) /\ Len(Tail(Contents)) = n - 1
      /\ \A i \in 1 .. n - 1 : Tail(Contents)[i] = Contents[i + 1]
  BY <1>3, <1>4, HeadTailProperties
<1>6. \A i \in 1 .. n - 1 : Slot(i - 1)' = Slot(i)
  BY <1>1, CapacityAssumption DEF Slot, Slots, Succ
<1>7. ASSUME NEW i \in 1 .. n - 1 PROVE Contents'[i] = Tail(Contents)[i]
  <2>1. i + 1 \in 1 .. n /\ (i + 1) - 1 = i
    BY <1>1
  <2>2. Contents[i + 1] = buf[Slot(i)]
    BY <1>3, <2>1
  <2>3. QED
    BY <1>2, <1>5, <1>6, <2>2
<1>8. Contents' = Tail(Contents)
  BY <1>2, <1>5, <1>7, SeqEqual
<1>9. Head(Contents) = buf[head]
  <2>1. Contents[1] = buf[Slot(0)] /\ Slot(0) = head
    BY <1>1, <1>3, CapacityAssumption DEF Slot, Slots
  <2>2. QED
    BY <2>1
<1>10. QED
  BY <1>4, <1>8, <1>9

------------------------------------------------------------------------------
(* Each step of the ring is a step of the FIFO or a stutter. *)

LEMMA FifoPut ==
  ASSUME IInv, IInv', NEW t \in Threads, PutStore(t)
  PROVE  Fifo!Put(t)
<1>1. /\ op[t].kind \in PutKinds /\ op[t].datum \in Data /\ op[t].late = FALSE
      /\ pc[t] \in {"enter", "woken"} /\ n # Capacity /\ terminate' = terminate
  <2>1. op[t].kind \in PutKinds /\ op[t] \in Calls
    BY DEF PutStore, IInv, TypeOK, NoCall
  <2>2. ~op[t].late /\ op[t].late \in BOOLEAN
    BY <2>1 DEF PutStore, IInv, CallShape, Calls
  <2>3. QED
    BY <2>1, <2>2 DEF PutStore, IInv, CallShape, Awake
<1>2. PICK p \in SignalGetters(pc) : Return(t, "ok", p)
  BY DEF PutStore
<1>3. \/ p = pc
      \/ \E u \in Threads : pc[u] = "waiting" /\ p = [pc EXCEPT ![u] = "woken"]
  BY SignalGettersShape DEF Sleepers
<1>4. Fifo!Return(t, "ok")
  BY <1>1, <1>2, <1>3, FifoReturn
<1>5. Contents' = Append(Contents, op[t].datum)
  BY <1>1, ContentsPut DEF PutStore
<1>6. Len(Contents) < Capacity
  BY <1>1, ContentsShape, CapacityAssumption DEF IInv, TypeOK
<1>7. Pending[t].kind = op[t].kind /\ Pending[t].late = FALSE /\ Pending[t].datum = op[t].datum
  BY <1>1, PendingShape
<1>8. QED
  BY <1>1, <1>4, <1>5, <1>6, <1>7 DEF Fifo!Put

LEMMA FifoGet ==
  ASSUME IInv, IInv', NEW t \in Threads, GetTake(t)
  PROVE  Fifo!Get(t)
<1>1. /\ op[t].kind \in GetKinds /\ pc[t] \in {"enter", "woken"}
      /\ n # 0 /\ terminate' = terminate
  BY DEF GetTake, Awake
<1>2. PICK p \in SignalPutters(pc) : Return(t, buf[head], p)
  BY DEF GetTake
<1>3. \/ p = pc
      \/ \E u \in Threads : pc[u] = "waiting" /\ p = [pc EXCEPT ![u] = "woken"]
  BY SignalPuttersShape DEF Sleepers
<1>4. Fifo!Return(t, buf[head])
  BY <1>1, <1>2, <1>3, FifoReturn
<1>5. Contents # << >> /\ Head(Contents) = buf[head] /\ Contents' = Tail(Contents)
  BY <1>1, ContentsGet DEF GetTake
<1>6. Pending[t].kind = op[t].kind
  BY PendingShape
<1>7. QED
  BY <1>1, <1>4, <1>5, <1>6 DEF Fifo!Get

LEMMA FifoRefuse ==
  ASSUME IInv, NEW t \in Threads, PutShut(t) \/ GetShut(t) \/ TryRefused(t) \/ GiveUp(t)
  PROVE  Fifo!Refuse(t)
<1>1. /\ pc[t] \in {"enter", "woken", "expired"} /\ Return(t, "failed", pc)
      /\ UNCHANGED <<n, head, tail, buf, terminate>>
  BY DEF PutShut, GetShut, TryRefused, GiveUp, Awake, ring
<1>2. Fifo!Return(t, "failed") /\ Contents' = Contents
  BY <1>1, FifoReturn, ContentsKept
<1>3. op[t] # NoCall /\ op[t].kind # "none"
  BY <1>1 DEF IInv, TypeOK, CallShape, Calls
<1>4. Pending[t] # Fifo!NoCall /\ Pending[t].kind = op[t].kind
  BY <1>3, PendingNone, PendingShape
<1>5. n = 0 => Contents = << >>
  BY ContentsShape, EmptySeq
<1>6. Fifo!MayRefuse(t)
  <2>1. CASE PutShut(t)
    BY <1>4, <2>1 DEF PutShut, Fifo!MayRefuse
  <2>2. CASE GetShut(t)
    BY <1>4, <1>5, <2>2 DEF GetShut, Fifo!MayRefuse
  <2>3. CASE TryRefused(t)
    BY <1>4, <1>5, <2>3, ContentsShape DEF TryRefused, Fifo!MayRefuse
  <2>4. CASE GiveUp(t)
    <3>1. op[t].kind \in TimedKinds /\ pc[t] # "enter" /\ InCall(t)
      BY <1>3, <2>4 DEF GiveUp, IInv, CallShape, InCall
    <3>2. Pending[t].stage = "slept"
      <4>1. (InCall(t) /\ pc[t] # "enter") = TRUE
        BY <3>1
      <4>2. Pending[t] = [kind |-> op[t].kind, datum |-> op[t].datum, late |-> op[t].late,
                          stage |-> "slept"]
        BY <4>1, Zenon DEF Pending
      <4>3. QED
        BY <4>2
    <3>3. QED
      BY <1>4, <3>1, <3>2 DEF Fifo!MayRefuse
  <2>5. QED
    BY <2>1, <2>2, <2>3, <2>4
<1>7. QED
  BY <1>2, <1>4, <1>6 DEF Fifo!Refuse

LEMMA FifoBlock ==
  ASSUME IInv, NEW t \in Threads, PutFull(t) \/ GetEmpty(t)
  PROVE  Fifo!Block(t)
<1>1. /\ pc' = [pc EXCEPT ![t] = "deciding"] /\ pc \in [Threads -> PCs]
      /\ UNCHANGED <<n, head, tail, buf, terminate, op, result>>
  BY DEF PutFull, GetEmpty, IInv, TypeOK, ring
<1>2. op[t].kind # "none"
  BY DEF PutFull, GetEmpty
<1>3. Contents' = Contents
  BY <1>1, ContentsKept
<1>4. Pending'[t] = [Pending[t] EXCEPT !.stage = "slept"]
  <2>1. InCall(t)' /\ pc'[t] # "enter" /\ op'[t] = op[t]
    BY <1>1, <1>2 DEF InCall
  <2>2. (InCall(t) /\ pc[t] # "enter")' = TRUE
    BY <2>1
  <2>3. Pending'[t] = [kind |-> op[t].kind, datum |-> op[t].datum, late |-> op[t].late,
                       stage |-> "slept"]
    BY <2>1, <2>2, Zenon DEF Pending
  <2>4. QED
    BY <2>3, PendingShape
<1>5. \A u \in Threads \ {t} : Pending'[u] = Pending[u]
  <2> TAKE u \in Threads \ {t}
  <2>1. op'[u] = op[u] /\ pc'[u] = pc[u]
    BY <1>1
  <2>2. QED
    BY <2>1, Zenon DEF Pending, InCall
<1>6. Pending' = [Pending EXCEPT ![t] = [Pending[t] EXCEPT !.stage = "slept"]]
  BY <1>4, <1>5, PendingExcept
<1>7. Pending' = [Pending EXCEPT ![t].stage = "slept"]
  BY <1>6
<1>8. Pending[t].kind = op[t].kind
  BY PendingShape
<1>9. \/ op[t].kind \in BlockingPuts /\ Len(Contents) = Capacity
      \/ op[t].kind \in BlockingGets /\ Contents = << >>
  BY ContentsShape, EmptySeq DEF PutFull, GetEmpty
<1>10. QED
  BY <1>1, <1>3, <1>7, <1>8, <1>9 DEF Fifo!Block

(* terminate = true closes the queue. *)
LEMMA FifoClose ==
  ASSUME IInv, NEW t \in Threads, ShutdownSet(t)
  PROVE  Fifo!Close(t)
<1>1. op[t] = NoCall
  BY DEF ShutdownSet, IInv, CallShape
<1>2. Pending[t] = Fifo!NoCall
  BY <1>1, PendingNone
<1>3. Contents' = Contents
  BY ContentsKept DEF ShutdownSet, ring
<1>4. Pending' = Pending
  BY <1>1, PendingKept DEF ShutdownSet, IInv, TypeOK
<1>5. QED
  BY <1>2, <1>3, <1>4, Zenon DEF Fifo!Close, ShutdownSet

(* The steps between a call and its effect are not seen. *)
LEMMA FifoStutter ==
  ASSUME IInv, NEW t \in Threads,
         \/ PutSleep(t) \/ GetSleep(t) \/ SpuriousWake(t) \/ Expire(t)
         \/ ShutdownPeekGet(t) \/ ShutdownPeekPut(t) \/ ShutdownSignal(t)
  PROVE  UNCHANGED Fifo!vars
<1>1. UNCHANGED <<n, head, tail, buf, terminate, op, result>>
  BY DEF PutSleep, GetSleep, SpuriousWake, Expire, ShutdownPeekGet, ShutdownPeekPut,
         ShutdownSignal, ring
<1>2. \A u \in Threads : op[u] # NoCall => (pc'[u] = "enter" <=> pc[u] = "enter")
  <2>1. CASE ShutdownSignal(t)
    <3>1. PICK p \in SignalOne(BlockingGets, [pc EXCEPT ![t] = "peek_get"]) :
                 pc' \in SignalOne(BlockingPuts, p)
      BY <2>1 DEF ShutdownSignal
    <3>2. \/ p = [pc EXCEPT ![t] = "peek_get"]
          \/ \E u \in Threads : /\ pc[u] = "waiting"
                                /\ p = [[pc EXCEPT ![t] = "peek_get"] EXCEPT ![u] = "woken"]
      BY <3>1 DEF SignalOne, Sleepers
    <3>3. \/ pc' = p
          \/ \E u \in Threads : pc[u] = "waiting" /\ pc' = [p EXCEPT ![u] = "woken"]
      BY <3>1, SignalOneShape DEF Sleepers
    <3>4. QED
      BY <2>1, <3>2, <3>3 DEF ShutdownSignal, IInv, TypeOK
  <2>2. CASE ~ShutdownSignal(t)
    BY <2>2 DEF PutSleep, GetSleep, SpuriousWake, Expire, ShutdownPeekGet, ShutdownPeekPut,
                IInv, TypeOK
  <2>3. QED
    BY <2>1, <2>2
<1>3. Contents' = Contents /\ Pending' = Pending
  BY <1>1, <1>2, ContentsKept, PendingKept
<1>4. QED
  BY <1>1, <1>3 DEF Fifo!vars

LEMMA FifoStep == IInv /\ IInv' /\ [Next]_vars => [Fifo!Next]_Fifo!vars
<1> SUFFICES ASSUME IInv, IInv', [Next]_vars PROVE [Fifo!Next]_Fifo!vars
  OBVIOUS
<1>1. ASSUME NEW t \in Threads,
             \/ \E k \in PutKinds \cap CallKinds, d \in Data : Call(t, k, d)
             \/ \E k \in GetKinds \cap CallKinds : Call(t, k, NoDatum)
      PROVE  Fifo!Next
  <2>1. Fifo!Call(t)
    BY <1>1, FifoCall
  <2>2. QED
    BY <2>1, Zenon DEF Fifo!Next
<1>2. ASSUME NEW t \in Threads, Step(t) \/ SpuriousWake(t) \/ Expire(t) \/ ShutdownSet(t)
      PROVE  [Fifo!Next]_Fifo!vars
  <2>1. CASE PutStore(t)
    BY <2>1, FifoPut, Zenon DEF Fifo!Next
  <2>2. CASE GetTake(t)
    BY <2>2, FifoGet, Zenon DEF Fifo!Next
  <2>3. CASE PutShut(t) \/ GetShut(t) \/ TryRefused(t) \/ GiveUp(t)
    BY <2>3, FifoRefuse, Zenon DEF Fifo!Next
  <2>4. CASE PutFull(t) \/ GetEmpty(t)
    BY <2>4, FifoBlock, Zenon DEF Fifo!Next
  <2>5. CASE ShutdownSet(t)
    BY <2>5, FifoClose, Zenon DEF Fifo!Next
  <2>6. CASE \/ PutSleep(t) \/ GetSleep(t) \/ SpuriousWake(t) \/ Expire(t)
             \/ ShutdownPeekGet(t) \/ ShutdownPeekPut(t) \/ ShutdownSignal(t)
    BY <2>6, FifoStutter, Zenon
  <2>7. QED
    BY <1>2, <2>1, <2>2, <2>3, <2>4, <2>5, <2>6, Zenon DEF Step
<1>3. CASE UNCHANGED vars
  <2>1. UNCHANGED <<n, head, tail, buf, terminate, pc, op, result>>
    BY <1>3 DEF vars
  <2>2. Contents' = Contents /\ Pending' = Pending
    BY <2>1, ContentsKept, PendingKept
  <2>3. QED
    BY <2>1, <2>2 DEF Fifo!vars
<1>4. QED
  BY <1>1, <1>2, <1>3, Zenon DEF Next

(* Every history of sync_queue_t is one of the bounded FIFO: elements leave *)
(* in the order they came, none lost or doubled, and a call is refused only *)
(* for a reason it may be refused for.                                      *)
THEOREM RefinementCorrect == Spec => RefinesFifo
BY FifoInit, FifoStep, InvCorrect, PTL DEF Spec, RefinesFifo, Fifo!Spec
==============================================================================
