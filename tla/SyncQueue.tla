------------------------------ MODULE SyncQueue ------------------------------
(***************************************************************************)
(* sync_queue_t of src/queue.h (the pthread version): a ring of capacity   *)
(* slots guarded by one mutex, two condition variables (maybe_get and      *)
(* maybe_put) and a shutdown flag.  It carries the messages of shared      *)
(* queues, shared bags and mailboxes, and the shade queue of the collector.*)
(*                                                                         *)
(* A thread's pc follows the places where a call can be preempted with an  *)
(* effect another thread sees:                                             *)
(*   idle     no call                                                      *)
(*   enter    called, before pthread_mutex_lock                            *)
(*   deciding holds the mutex, found the queue full (empty) and not shut   *)
(*            down, about to increment n_more_* and sleep                  *)
(*   waiting  inside pthread_cond_(timed)wait, mutex released              *)
(*   woken    left the wait set, must take the mutex again                 *)
(*   expired  left the wait set by timeout, must take the mutex again      *)
(*   peek_get, peek_put, signal  the loop of shutdown()                    *)
(*                                                                         *)
(* The rest of a call runs under the mutex and is one step: what other     *)
(* threads read without the mutex (n, terminate, n_more_get, n_more_put)   *)
(* changes at most once in it.  terminate is the exception, written with   *)
(* no lock at all, hence the state "deciding" between the test of          *)
(* terminate and the increment of n_more_*.                                *)
(***************************************************************************)
EXTENDS Integers, FiniteSets

CONSTANTS Threads,    (* the threads that share the queue *)
          Data,       (* the elements *)
          Capacity,   (* the number of slots *)
          NoDatum,    (* what a slot holds before its first use *)
          CallKinds   (* the calls that the users of this queue make *)

(* make-shared-queue takes any fixnum; the queue is usable from 1 on. *)
ASSUME CapacityAssumption == Capacity \in Nat \ {0}
ASSUME ThreadsAssumption  == IsFiniteSet(Threads)
ASSUME DataAssumption     == /\ NoDatum \notin Data
                             /\ \A d \in Data : d \notin {"none", "ok", "failed"}

PutKinds == {"put", "timed_put", "lock_try_put", "try_put"}
GetKinds == {"get", "timed_get", "lock_try_get", "try_get"}

BlockingPuts == {"put", "timed_put"}
BlockingGets == {"get", "timed_get"}
TimedKinds   == {"timed_put", "timed_get"}

ASSUME CallKindsAssumption == CallKinds \subseteq PutKinds \cup GetKinds

NoCall == [kind |-> "none", datum |-> NoDatum, late |-> FALSE]

Free == "free"
ASSUME LockAssumption == Free \notin Threads

VARIABLES n, head, tail, buf,      (* the ring *)
          n_more_get, n_more_put,  (* how many threads say they sleep *)
          terminate,               (* shutdown() was called *)
          lock,                    (* the owner of the mutex, or Free *)
          pc, op, result           (* per thread: where it is, its call, its result *)

ring == <<n, head, tail, buf>>
vars == <<n, head, tail, buf, n_more_get, n_more_put, terminate, lock, pc, op, result>>

Slots == 0 .. Capacity - 1

(* Operators named X_Y are X with the mistake Y in it: they stand in no     *)
(* specification and serve to see that the properties notice the mistake.   *)

(* head and tail advance by one and wrap at capacity. *)
Succ_NoWrap(i) == i + 1
Succ(i) == IF i + 1 = Capacity THEN 0 ELSE i + 1

Init ==
  /\ n = 0 /\ head = 0 /\ tail = 0
  /\ buf = [i \in Slots |-> NoDatum]
  /\ n_more_get = 0 /\ n_more_put = 0
  /\ terminate = FALSE
  /\ lock = Free
  /\ pc = [t \in Threads |-> "idle"]
  /\ op = [t \in Threads |-> NoCall]
  /\ result = [t \in Threads |-> "none"]

------------------------------------------------------------------------------
(* The threads asleep on maybe_put (K = BlockingPuts) or maybe_get. *)
Sleepers(K) == {t \in Threads : pc[t] = "waiting" /\ op[t].kind \in K}

(* pthread_cond_signal: one thread asleep on the condition is woken, if any. *)
SignalOne(K, p) ==
  IF Sleepers(K) = {} THEN {p}
  ELSE {[p EXCEPT ![u] = "woken"] : u \in Sleepers(K)}

(* The signal after a put: to a getter, when one says it sleeps. *)
SignalGetters(p) == IF n_more_get # 0 THEN SignalOne(BlockingGets, p) ELSE {p}

(* The signal after a get: to a putter, when one says it sleeps. *)
SignalPutters_UnlessLast(p) == IF n_more_put > 1 THEN SignalOne(BlockingPuts, p) ELSE {p}
SignalPutters(p) == IF n_more_put # 0 THEN SignalOne(BlockingPuts, p) ELSE {p}

(* A call of kind k is made; "late" records that shutdown came before it. *)
Call(t, k, d) ==
  /\ pc[t] = "idle"
  /\ pc' = [pc EXCEPT ![t] = "enter"]
  /\ op' = [op EXCEPT ![t] = [kind |-> k, datum |-> d, late |-> terminate]]
  /\ result' = [result EXCEPT ![t] = "none"]
  /\ UNCHANGED <<ring, n_more_get, n_more_put, terminate, lock>>

(* The call returns r; p is pc with the threads it signalled woken. *)
Return(t, r, p) ==
  /\ pc' = [p EXCEPT ![t] = "idle"]
  /\ op' = [op EXCEPT ![t] = NoCall]
  /\ result' = [result EXCEPT ![t] = r]

(* Taking the mutex: from the start of the call, or on the way out of      *)
(* pthread_cond_wait, where the n_more_* that announced the sleep is       *)
(* decremented.                                                            *)
Awake(t) ==
  /\ pc[t] \in {"enter", "woken"}
  /\ lock = Free

LeavePut_NotOnTimeout(t) ==
  n_more_put' = IF pc[t] = "woken" THEN n_more_put - 1 ELSE n_more_put
LeavePut(t) == n_more_put' = IF pc[t] = "enter" THEN n_more_put ELSE n_more_put - 1
LeaveGet_NotOnTimeout(t) ==
  n_more_get' = IF pc[t] = "woken" THEN n_more_get - 1 ELSE n_more_get
LeaveGet(t) == n_more_get' = IF pc[t] = "enter" THEN n_more_get ELSE n_more_get - 1

------------------------------------------------------------------------------
(* put, timed put, wait_lock_try_put, try_put *)

(* buf[tail++] = datum; n++; and a signal when someone says it sleeps. *)
PutStore(t) ==
  /\ op[t].kind \in PutKinds
  /\ Awake(t)
  /\ ~terminate
  /\ n # Capacity
  /\ LeavePut(t)
  /\ buf' = [buf EXCEPT ![tail] = op[t].datum]
  /\ tail' = Succ(tail)
  /\ n' = n + 1
  /\ \E p \in SignalGetters(pc) : Return(t, "ok", p)
  /\ UNCHANGED <<head, n_more_get, terminate, lock>>

PutShut(t) ==
  /\ op[t].kind \in BlockingPuts
  /\ Awake(t)
  /\ terminate
  /\ LeavePut(t)
  /\ Return(t, "failed", pc)
  /\ UNCHANGED <<ring, n_more_get, terminate, lock>>

PutFull(t) ==
  /\ op[t].kind \in BlockingPuts
  /\ Awake(t)
  /\ ~terminate
  /\ n = Capacity
  /\ LeavePut(t)
  /\ lock' = t
  /\ pc' = [pc EXCEPT ![t] = "deciding"]
  /\ UNCHANGED <<ring, n_more_get, terminate, op, result>>

PutSleep(t) ==
  /\ op[t].kind \in BlockingPuts
  /\ pc[t] = "deciding"
  /\ n_more_put' = n_more_put + 1
  /\ pc' = [pc EXCEPT ![t] = "waiting"]
  /\ lock' = Free
  /\ UNCHANGED <<ring, n_more_get, terminate, op, result>>

------------------------------------------------------------------------------
(* get, timed get, wait_lock_try_get, try_get *)

(* *datum = buf[head++]; n--; only try_get refuses what is left after shutdown. *)
GetTake(t) ==
  /\ op[t].kind \in GetKinds
  /\ Awake(t)
  /\ n # 0
  /\ op[t].kind = "try_get" => ~terminate
  /\ LeaveGet(t)
  /\ head' = Succ(head)
  /\ n' = n - 1
  /\ \E p \in SignalPutters(pc) : Return(t, buf[head], p)
  /\ UNCHANGED <<tail, buf, n_more_put, terminate, lock>>

GetShut_WithItemsLeft(t) ==
  /\ op[t].kind \in BlockingGets
  /\ Awake(t)
  /\ terminate
  /\ LeaveGet(t)
  /\ Return(t, "failed", pc)
  /\ UNCHANGED <<ring, n_more_put, terminate, lock>>

GetShut(t) ==
  /\ op[t].kind \in BlockingGets
  /\ Awake(t)
  /\ n = 0
  /\ terminate
  /\ LeaveGet(t)
  /\ Return(t, "failed", pc)
  /\ UNCHANGED <<ring, n_more_put, terminate, lock>>

GetEmpty(t) ==
  /\ op[t].kind \in BlockingGets
  /\ Awake(t)
  /\ n = 0
  /\ ~terminate
  /\ LeaveGet(t)
  /\ lock' = t
  /\ pc' = [pc EXCEPT ![t] = "deciding"]
  /\ UNCHANGED <<ring, n_more_put, terminate, op, result>>

GetSleep(t) ==
  /\ op[t].kind \in BlockingGets
  /\ pc[t] = "deciding"
  /\ n_more_get' = n_more_get + 1
  /\ pc' = [pc EXCEPT ![t] = "waiting"]
  /\ lock' = Free
  /\ UNCHANGED <<ring, n_more_put, terminate, op, result>>

------------------------------------------------------------------------------
(* wait_lock_try_put and wait_lock_try_get fail under the mutex.  try_put   *)
(* and try_get fail also when the mutex is taken, which is possible as long *)
(* as another thread is inside a call.                                      *)
TryRefused(t) ==
  /\ pc[t] = "enter"
  /\ \/ op[t].kind = "lock_try_put" /\ lock = Free /\ (n = Capacity \/ terminate)
     \/ op[t].kind = "lock_try_get" /\ lock = Free /\ n = 0
     \/ op[t].kind = "try_put" /\ (n = Capacity \/ terminate)
     \/ op[t].kind = "try_get" /\ (n = 0 \/ terminate)
     \/ op[t].kind \in {"try_put", "try_get"} /\ \E u \in Threads \ {t} : pc[u] # "idle"
  /\ Return(t, "failed", pc)
  /\ UNCHANGED <<ring, n_more_get, n_more_put, terminate, lock>>

(* A condition variable may wake a thread nobody signalled (and a timed     *)
(* wait may be interrupted); the loop starts over, with a new deadline.     *)
SpuriousWake(t) ==
  /\ pc[t] = "waiting"
  /\ pc' = [pc EXCEPT ![t] = "woken"]
  /\ UNCHANGED <<ring, n_more_get, n_more_put, terminate, lock, op, result>>

Expire(t) ==
  /\ pc[t] = "waiting"
  /\ op[t].kind \in TimedKinds
  /\ pc' = [pc EXCEPT ![t] = "expired"]
  /\ UNCHANGED <<ring, n_more_get, n_more_put, terminate, lock, op, result>>

(* ETIMEDOUT: the call fails without another look at the queue. *)
GiveUp(t) ==
  /\ pc[t] = "expired"
  /\ lock = Free
  /\ IF op[t].kind \in BlockingPuts
     THEN LeavePut(t) /\ UNCHANGED n_more_get
     ELSE LeaveGet(t) /\ UNCHANGED n_more_put
  /\ Return(t, "failed", pc)
  /\ UNCHANGED <<ring, terminate, lock>>

------------------------------------------------------------------------------
(* shutdown(): terminate = true, then signal until nobody says it sleeps.   *)
(* Neither the flag nor the two counters are accessed under the mutex.      *)
ShutdownSet(t) ==
  /\ pc[t] = "idle"
  /\ terminate' = TRUE
  /\ pc' = [pc EXCEPT ![t] = "peek_get"]
  /\ UNCHANGED <<ring, n_more_get, n_more_put, lock, op, result>>

ShutdownPeekGet(t) ==
  /\ pc[t] = "peek_get"
  /\ pc' = [pc EXCEPT ![t] = IF n_more_get = 0 THEN "peek_put" ELSE "signal"]
  /\ UNCHANGED <<ring, n_more_get, n_more_put, terminate, lock, op, result>>

ShutdownPeekPut(t) ==
  /\ pc[t] = "peek_put"
  /\ pc' = [pc EXCEPT ![t] = IF n_more_put = 0 THEN "idle" ELSE "signal"]
  /\ UNCHANGED <<ring, n_more_get, n_more_put, terminate, lock, op, result>>

ShutdownSignal_GettersOnly(t) ==
  /\ pc[t] = "signal"
  /\ lock = Free
  /\ pc' \in SignalOne(BlockingGets, [pc EXCEPT ![t] = "peek_get"])
  /\ UNCHANGED <<ring, n_more_get, n_more_put, terminate, lock, op, result>>

ShutdownSignal(t) ==
  /\ pc[t] = "signal"
  /\ lock = Free
  /\ \E p \in SignalOne(BlockingGets, [pc EXCEPT ![t] = "peek_get"]) :
        pc' \in SignalOne(BlockingPuts, p)
  /\ UNCHANGED <<ring, n_more_get, n_more_put, terminate, lock, op, result>>

------------------------------------------------------------------------------
(* What a thread does once it has made a call. *)
Step(t) ==
  \/ PutStore(t) \/ PutShut(t) \/ PutFull(t) \/ PutSleep(t)
  \/ GetTake(t) \/ GetShut(t) \/ GetEmpty(t) \/ GetSleep(t)
  \/ TryRefused(t) \/ GiveUp(t)
  \/ ShutdownPeekGet(t) \/ ShutdownPeekPut(t) \/ ShutdownSignal(t)

Next ==
  \E t \in Threads :
    \/ \E k \in PutKinds \cap CallKinds, d \in Data : Call(t, k, d)
    \/ \E k \in GetKinds \cap CallKinds : Call(t, k, NoDatum)
    \/ ShutdownSet(t)
    \/ Step(t) \/ SpuriousWake(t) \/ Expire(t)

Spec == Init /\ [][Next]_vars

(* Threads inside a call are scheduled; nobody is forced to make a call. *)
FairSpec == Spec /\ \A t \in Threads : WF_vars(Step(t))

------------------------------------------------------------------------------
(* Type invariant. *)
PCs == {"idle", "enter", "deciding", "waiting", "woken", "expired",
        "peek_get", "peek_put", "signal"}

Calls == [kind : PutKinds \cup GetKinds, datum : Data \cup {NoDatum}, late : BOOLEAN]

TypeOK ==
  /\ n \in 0 .. Capacity
  /\ head \in Slots /\ tail \in Slots
  /\ buf \in [Slots -> Data \cup {NoDatum}]
  /\ n_more_get \in Int /\ n_more_put \in Int
  /\ terminate \in BOOLEAN
  /\ lock \in Threads \cup {Free}
  /\ pc \in [Threads -> PCs]
  /\ op \in [Threads -> Calls \cup {NoCall}]
  /\ result \in [Threads -> Data \cup {NoDatum, "none", "ok", "failed"}]

(* The threads that incremented n_more_* and have not decremented it. *)
Counted(K) ==
  {t \in Threads : pc[t] \in {"waiting", "woken", "expired"} /\ op[t].kind \in K}

(* n_more_get and n_more_put count exactly the threads between the        *)
(* increment before pthread_cond_wait and the decrement after it, on every *)
(* path out of the wait: the test that decides whether to signal, and the  *)
(* exit of shutdown()'s loop, rest on it.                                  *)
CountersMatch ==
  /\ n_more_get = Cardinality(Counted(BlockingGets))
  /\ n_more_put = Cardinality(Counted(BlockingPuts))

Woken(K) == {t \in Threads : pc[t] = "woken" /\ op[t].kind \in K}

(* One signal per element is enough: while a getter sleeps, every element  *)
(* in the ring is owed to a getter already on its way, and while a putter  *)
(* sleeps on a queue that is not shut down, every free slot is.            *)
GettersOwed ==
  Sleepers(BlockingGets) # {} => n <= Cardinality(Woken(BlockingGets))

PuttersOwed ==
  Sleepers(BlockingPuts) # {} /\ ~terminate
    => Capacity - n <= Cardinality(Woken(BlockingPuts))

NoLostWakeup == GettersOwed /\ PuttersOwed

------------------------------------------------------------------------------
(* Refinement: the ring read from head is the abstract queue. *)
Slot(i) == IF head + i < Capacity THEN head + i ELSE head + i - Capacity

Contents == [i \in 1 .. n |-> buf[Slot(i - 1)]]

(* The inductive invariant behind the theorems of SyncQueueProofs: a call   *)
(* in progress has the kind, datum and place that go together; the thread   *)
(* about to sleep owns the mutex and still sees the queue full (empty); the *)
(* ring holds data from head to tail.                                       *)
CallShape ==
  \A t \in Threads :
    /\ (pc[t] \in {"idle", "peek_get", "peek_put", "signal"}) <=> (op[t] = NoCall)
    /\ pc[t] \in {"deciding", "waiting", "woken", "expired"}
         => op[t].kind \in BlockingPuts \cup BlockingGets
    /\ pc[t] = "expired" => op[t].kind \in TimedKinds
    /\ op[t].kind \in PutKinds => op[t].datum \in Data
    /\ op[t].kind \in GetKinds => op[t].datum = NoDatum
    /\ op[t].late => terminate

Deciding ==
  \A t \in Threads :
    pc[t] = "deciding" =>
      /\ lock = t
      /\ op[t].kind \in BlockingPuts => n = Capacity
      /\ op[t].kind \in BlockingGets => n = 0

RingShape ==
  /\ tail = Slot(n)
  /\ \A i \in 0 .. n - 1 : buf[Slot(i)] \in Data

IInv == TypeOK /\ CallShape /\ Deciding /\ RingShape /\ CountersMatch

InCall(t) == op[t].kind # "none"

Pending ==
  [t \in Threads |-> [kind |-> op[t].kind, datum |-> op[t].datum, late |-> op[t].late,
                      stage |-> IF InCall(t) /\ pc[t] # "enter" THEN "slept" ELSE "new"]]

Fifo == INSTANCE BoundedFifo
          WITH items <- Contents, closed <- terminate, pend <- Pending

(* Every call of the ring, the mutex and the condition variables takes     *)
(* effect at one instant, as the bounded FIFO promises: elements leave in  *)
(* the order they came, none is lost or doubled, a put made after shutdown *)
(* is never accepted and a call fails only for a reason it may fail for.   *)
RefinesFifo == Fifo!Spec

------------------------------------------------------------------------------
(* Liveness. *)

(* shutdown() returns: its loop cannot signal for ever. *)
ShutdownReturns ==
  \A t \in Threads : (pc[t] \in {"peek_get", "peek_put", "signal"}) ~> (pc[t] = "idle")

(* Whoever sleeps while shutdown() is still going round its loop is let go. *)
ShuttingDown == \E s \in Threads : pc[s] \in {"peek_get", "signal"}

ShutdownReleasesSleepers ==
  \A t \in Threads : (pc[t] = "waiting" /\ ShuttingDown) ~> (pc[t] = "idle")

(* After shutdown every call in progress returns: what the mailbox examples *)
(* say of a send or recv on a mailbox that is shut down.                    *)
ShutdownReleasesEveryone ==
  \A t \in Threads : (terminate /\ InCall(t)) ~> ~InCall(t)
==============================================================================
