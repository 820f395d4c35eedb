----------------------------- MODULE BoundedFifo -----------------------------
(***************************************************************************)
(* What sync_queue_t (src/queue.h) promises its users, without a lock, a   *)
(* ring of slots or a condition variable: every call takes effect at one   *)
(* instant between its invocation and its return.                          *)
(*                                                                         *)
(* A call is pending from Call to its result.  A pending call remembers    *)
(* whether the queue was already closed when it was made (late) and        *)
(* whether it ever had to wait (stage "slept").                            *)
(***************************************************************************)
EXTENDS Naturals, Sequences

CONSTANTS Threads,   (* the threads that share the queue *)
          Data,      (* the elements *)
          Capacity,  (* how many elements the queue holds *)
          NoDatum    (* the datum of a call that carries none *)

PutKinds == {"put", "timed_put", "lock_try_put", "try_put"}
GetKinds == {"get", "timed_get", "lock_try_get", "try_get"}
Kinds    == PutKinds \cup GetKinds

(* The calls that may sleep, and among them those that carry a deadline. *)
BlockingKinds == {"put", "timed_put", "get", "timed_get"}
TimedKinds    == {"timed_put", "timed_get"}

NoCall == [kind |-> "none", datum |-> NoDatum, late |-> FALSE, stage |-> "new"]

VARIABLES items,   (* the elements held, oldest first *)
          closed,  (* shutdown has been called *)
          pend,    (* the pending call of each thread *)
          result   (* the result of each thread's last call *)

vars == <<items, closed, pend, result>>

Init ==
  /\ items = <<>>
  /\ closed = FALSE
  /\ pend = [t \in Threads |-> NoCall]
  /\ result = [t \in Threads |-> "none"]

Call(t) ==
  /\ pend[t] = NoCall
  /\ \E k \in Kinds, d \in Data \cup {NoDatum} :
        /\ (k \in GetKinds) <=> (d = NoDatum)
        /\ pend' = [pend EXCEPT ![t] =
                      [kind |-> k, datum |-> d, late |-> closed, stage |-> "new"]]
  /\ result' = [result EXCEPT ![t] = "none"]
  /\ UNCHANGED <<items, closed>>

Return(t, r) ==
  /\ pend' = [pend EXCEPT ![t] = NoCall]
  /\ result' = [result EXCEPT ![t] = r]
  /\ UNCHANGED closed

(* A call made before the close is accepted as long as there is room. *)
Put(t) ==
  /\ pend[t].kind \in PutKinds
  /\ ~pend[t].late
  /\ Len(items) < Capacity
  /\ items' = Append(items, pend[t].datum)
  /\ Return(t, "ok")

(* Elements leave in the order in which they came, also after the close. *)
Get(t) ==
  /\ pend[t].kind \in GetKinds
  /\ items # <<>>
  /\ items' = Tail(items)
  /\ Return(t, Head(items))

(* A blocking call sleeps only on a full (an empty) queue. *)
Block(t) ==
  /\ \/ pend[t].kind \in PutKinds \cap BlockingKinds /\ Len(items) = Capacity
     \/ pend[t].kind \in GetKinds \cap BlockingKinds /\ items = <<>>
  /\ pend' = [pend EXCEPT ![t].stage = "slept"]
  /\ UNCHANGED <<items, closed, result>>

(* A put is refused by a close, a get by a close that left nothing to get; *)
(* a timed call also after it slept; a try also when it would have slept.  *)
MayRefuse(t) ==
  \/ pend[t].kind \in {"put", "timed_put", "lock_try_put"} /\ closed
  \/ pend[t].kind \in {"get", "timed_get"} /\ closed /\ items = <<>>
  \/ pend[t].kind \in TimedKinds /\ pend[t].stage = "slept"
  \/ pend[t].kind = "lock_try_put" /\ Len(items) = Capacity
  \/ pend[t].kind = "lock_try_get" /\ items = <<>>
  \/ pend[t].kind \in {"try_put", "try_get"}

Refuse(t) ==
  /\ pend[t] # NoCall
  /\ MayRefuse(t)
  /\ UNCHANGED items
  /\ Return(t, "failed")

Close(t) ==
  /\ pend[t] = NoCall
  /\ closed' = TRUE
  /\ UNCHANGED <<items, pend, result>>

Next ==
  \E t \in Threads : Call(t) \/ Put(t) \/ Get(t) \/ Block(t) \/ Refuse(t) \/ Close(t)

Spec == Init /\ [][Next]_vars
==============================================================================
