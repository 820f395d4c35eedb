------------------------------ MODULE SharedBag ------------------------------
(***************************************************************************)
(* Shared queues and shared bags (subr_thread.cpp, bag.cpp): a slot is a   *)
(* ring of message bytes and a queue of the identifiers of its messages.   *)
(* A shared queue is one slot; a bag has several, which are given to keys  *)
(* as they are looked up, and taken from keys whose ring is empty.         *)
(*                                                                         *)
(* A message is its bytes, and in a bag its first byte is the key it was   *)
(* put under.  The queue takes and yields at one instant, as BoundedFifo   *)
(* says and SyncQueue is proved to do; the ring is locked by each call.    *)
(***************************************************************************)
EXTENDS FifoBuffer, FiniteSets

CONSTANTS
  Threads,
  Keys,                 \* strings
  NoKey,                \* a slot that is given to no key
  Messages,             \* sequences of bytes, none empty
  Quick,                \* a value that travels in the queue itself
  SlotCount,            \* bound: a bag has at most so many slots
  Depth,                \* of the queues
  BufSize, TagCount,    \* of a new ring
  MaxLost               \* bound: puts that fail

ASSUME SharedBagAssumption ==
  /\ SlotCount \in Nat \ {0} /\ Depth \in Nat \ {0}
  /\ BufSize \in Nat \ {0, 1} /\ TagCount \in Nat \ {0}
  /\ Messages \subseteq Seq(Int) \ {<<>>}

(* An identifier is a number; neither it nor a message nor a key is taken  *)
(* for a value that travels in the queue itself, or for nothing.           *)
ASSUME ValuesAssumption ==
  /\ Quick \notin Nat
  /\ NoKey \notin Keys /\ NoKey \notin Messages /\ NoKey # Quick

Slots == 1..SlotCount

VARIABLES
  shape,                \* "queue" or "bag"; "undefined" after undefined behaviour
  capacity,             \* sharedbag_rec_t::capacity; 1 for a queue
  key,                  \* sharedbag_slot_t::key
  buf,                  \* sharedbag_slot_t::buf
  queue,                \* sharedbag_slot_t::queue, what it holds
  terminate,            \* sync_queue_t::terminate of the queue
  th,                   \* the call each thread is in
  lost                  \* identifiers of messages whose put failed

Used == 1..capacity     \* of the slots
Defined == shape # "undefined"

vars == <<shape, capacity, key, buf, queue, terminate, th, lost>>

NoCall == [at |-> "idle", slot |-> 0, key |-> NoKey, datum |-> NoKey, id |-> 0]

Init ==
  /\ shape \in {"queue", "bag"}
  /\ capacity \in (IF shape = "bag" THEN Slots ELSE {1})
  /\ key = [s \in Slots |-> NoKey]
  /\ buf = [s \in Slots |-> New(BufSize, TagCount)]
  /\ queue = [s \in Slots |-> <<>>]
  /\ terminate = FALSE
  /\ th = [t \in Threads |-> NoCall]
  /\ lost = [s \in Slots |-> {}]

Goes(t, call) == th' = [th EXCEPT ![t] = call]

(***************************************************************************)
(* lookup_sharedbag, under the lock of the bag: the slot of the key, or    *)
(* the last free one, or the last whose ring is empty; all that are empty  *)
(* lose their keys.  The bag is doubled otherwise, and the new slots are   *)
(* written to through pointers that were never set.                        *)
(***************************************************************************)
Lookup_EmptyFirst(k, s) ==
  LET empty == {e \in Used : Empty(buf[e])}
  IN  CASE k \in {key[e] : e \in Used} -> key[s] = k /\ UNCHANGED key
        [] OTHER -> empty # {} /\ s = Max(empty) /\ key' = [key EXCEPT ![s] = k]

Lookup(k, s) ==
  LET free  == {e \in Used : key[e] = NoKey}
      empty == {e \in Used : Empty(buf[e])}
  IN  \/ key[s] = k /\ UNCHANGED key
      \/ /\ k \notin {key[e] : e \in Used}
         /\ s \in (IF free # {} THEN free ELSE empty)
         /\ \A e \in (IF free # {} THEN free ELSE empty) : e <= s
         /\ key' = [e \in Slots |-> CASE e = s -> k
                                      [] e # s /\ free = {} /\ e \in empty -> NoKey
                                      [] OTHER -> key[e]]

NoSlot(k) ==
  /\ k \notin {key[e] : e \in Used}
  /\ \A e \in Used : key[e] # NoKey /\ ~Empty(buf[e])

LookupGrows(t) ==
  /\ shape = "bag" /\ th[t].at = "idle"
  /\ \E k \in Keys : NoSlot(k)
  /\ shape' = "undefined"
  /\ UNCHANGED <<capacity, key, buf, queue, terminate, th, lost>>

(***************************************************************************)
(* shared-queue-push! and shared-bag-put!: the bytes go into the ring, and *)
(* then their identifier into the queue, at once, after a wait or never.   *)
(***************************************************************************)
BeginPush(t) ==
  /\ shape = "queue" /\ th[t].at = "idle"
  /\ \/ \E m \in Messages : Goes(t, [NoCall EXCEPT !.slot = 1, !.datum = m, !.at = "store"])
     \/ Goes(t, [NoCall EXCEPT !.slot = 1, !.datum = Quick, !.id = Quick, !.at = "put"])
  /\ UNCHANGED <<shape, capacity, key, buf, queue, terminate, lost>>

BeginPut(t) ==
  /\ shape = "bag" /\ th[t].at = "idle"
  /\ \E s \in Used, m \in {n \in Messages : Head(n) \in Keys} :
       /\ ~NoSlot(Head(m)) /\ Lookup(Head(m), s)
       /\ Goes(t, [NoCall EXCEPT !.slot = s, !.datum = m, !.at = "store"])
  /\ UNCHANGED <<shape, capacity, buf, queue, terminate, lost>>

StoreBytes(t) ==
  /\ Defined /\ th[t].at = "store"
  /\ \E m \in Moves :
       LET s     == th[t].slot
           datum == th[t].datum
           put   == Put(buf[s], datum, m)
       IN  /\ shape' = IF Wild(buf[s], Len(datum), m) THEN "undefined" ELSE shape
           /\ buf' = [buf EXCEPT ![s] = put.ring]
           /\ Goes(t, [th[t] EXCEPT !.at = "put", !.id = put.id])
  /\ UNCHANGED <<capacity, key, queue, terminate, lost>>

Enqueue(t) ==
  LET s == th[t].slot
  IN  /\ Defined /\ th[t].at \in {"put", "wait to put"}
      /\ ~terminate /\ Len(queue[s]) < Depth
      /\ queue' = [queue EXCEPT ![s] = Append(@, th[t].id)]
      /\ Goes(t, NoCall)
      /\ UNCHANGED <<shape, capacity, key, buf, terminate, lost>>

WaitToPut(t) ==
  /\ Defined /\ th[t].at = "put"
  /\ ~terminate /\ Len(queue[th[t].slot]) = Depth
  /\ Goes(t, [th[t] EXCEPT !.at = "wait to put"])
  /\ UNCHANGED <<shape, capacity, key, buf, queue, terminate, lost>>

Failures == Cardinality(UNION {{s} \X lost[s] : s \in Slots})

(* Shut down, or timed out: the bytes stay in the ring.  A call without a  *)
(* timeout is one that takes this step only when the queue is shut down.   *)
FailToPut(t) ==
  LET s == th[t].slot
  IN  /\ Defined
      /\ \/ th[t].at = "put" /\ terminate
         \/ th[t].at = "wait to put"
      /\ th[t].id = Quick \/ Failures < MaxLost
      /\ lost' = [lost EXCEPT ![s] = IF th[t].id = Quick THEN @ ELSE @ \cup {th[t].id}]
      /\ Goes(t, NoCall)
      /\ UNCHANGED <<shape, capacity, key, buf, queue, terminate>>

(***************************************************************************)
(* shared-queue-pop! and shared-bag-get!: an identifier out of the queue,  *)
(* then the bytes out of the ring.                                         *)
(***************************************************************************)
BeginPop(t) ==
  /\ shape = "queue" /\ th[t].at = "idle"
  /\ Goes(t, [NoCall EXCEPT !.slot = 1, !.at = "get"])
  /\ UNCHANGED <<shape, capacity, key, buf, queue, terminate, lost>>

BeginGet(t) ==
  /\ shape = "bag" /\ th[t].at = "idle"
  /\ \E k \in Keys, s \in Used :
       /\ ~NoSlot(k) /\ Lookup(k, s)
       /\ Goes(t, [NoCall EXCEPT !.slot = s, !.key = k, !.at = "get"])
  /\ UNCHANGED <<shape, capacity, buf, queue, terminate, lost>>

Dequeue(t) ==
  LET s == th[t].slot
  IN  /\ Defined /\ th[t].at \in {"get", "wait to get"}
      /\ queue[s] # <<>>
      /\ queue' = [queue EXCEPT ![s] = Tail(@)]
      /\ Goes(t, [th[t] EXCEPT !.at = "received", !.id = Head(queue[s])])
      /\ UNCHANGED <<shape, capacity, key, buf, terminate, lost>>

WaitToGet(t) ==
  /\ Defined /\ th[t].at = "get"
  /\ ~terminate /\ queue[th[t].slot] = <<>>
  /\ Goes(t, [th[t] EXCEPT !.at = "wait to get"])
  /\ UNCHANGED <<shape, capacity, key, buf, queue, terminate, lost>>

(* A timeout of 0 does not wait.                                           *)
FailToGet(t) ==
  /\ Defined
  /\ \/ th[t].at = "get" /\ queue[th[t].slot] = <<>>
     \/ th[t].at = "wait to get"
  /\ Goes(t, NoCall)
  /\ UNCHANGED <<shape, capacity, key, buf, queue, terminate, lost>>

FetchBytes_Peeks(t) ==
  /\ Defined /\ th[t].at = "received"
  /\ Goes(t, NoCall)
  /\ UNCHANGED <<shape, capacity, key, buf, queue, terminate, lost>>

FetchBytes(t) ==
  LET s == th[t].slot
  IN  /\ Defined /\ th[t].at = "received"
      /\ buf' = IF th[t].id = Quick THEN buf ELSE [buf EXCEPT ![s] = Remove(@, th[t].id)]
      /\ Goes(t, NoCall)
      /\ UNCHANGED <<shape, capacity, key, queue, terminate, lost>>

Shutdown ==
  /\ shape = "queue" /\ \E t \in Threads : th[t].at = "idle"
  /\ terminate' = TRUE
  /\ UNCHANGED <<shape, capacity, key, buf, queue, th, lost>>

Next ==
  \/ \E t \in Threads :
       \/ LookupGrows(t)
       \/ BeginPush(t) \/ BeginPut(t) \/ StoreBytes(t) \/ Enqueue(t) \/ WaitToPut(t) \/ FailToPut(t)
       \/ BeginPop(t) \/ BeginGet(t) \/ Dequeue(t) \/ WaitToGet(t) \/ FailToGet(t) \/ FetchBytes(t)
  \/ Shutdown

Spec == Init /\ [][Next]_vars

(***************************************************************************)
(* Properties.                                                             *)
(***************************************************************************)
Ids(s) == DOMAIN buf[s].tags

(* The type invariant: the state of lookups, rings, queues and calls       *)
(* (subr_thread.cpp, bag.cpp, fifo_buffer_t).  head, tail and the tags are *)
(* pointers into the ring as long as realloc moves it by no more than an   *)
(* int (queue.h:975); the program does anything once it moved further.     *)
TypeOK ==
  /\ shape \in {"queue", "bag", "undefined"} /\ terminate \in BOOLEAN
  /\ capacity \in Slots /\ key \in [Slots -> Keys \cup {NoKey}]
  /\ Defined => \A s \in Slots :
       /\ buf[s].head \in 0..buf[s].size /\ buf[s].tail \in 0..(buf[s].size - 1)
       /\ \A id \in Live(buf[s]) : buf[s].tags[id].buf \in 0..(buf[s].size - 1)
       /\ queue[s] \in Seq(Ids(s) \cup {Quick}) /\ Len(queue[s]) <= Depth
       /\ lost[s] \subseteq Ids(s)
  /\ Defined => \A t \in Threads : th[t].at = "idle" \/ th[t].slot \in Slots

(* A message is in the ring from StoreBytes to FetchBytes, and nothing     *)
(* else is, but for the messages whose put failed (subr_thread.cpp:195):   *)
(* each has an identifier of its own, in the queue or in one pair of hands.*)
(* This and what follows says nothing of a program that has stored beyond  *)
(* a ring (queue.h:975) or written to slots never set (bag.cpp:44).        *)
Elements(q) == {q[i] : i \in DOMAIN q}

Holds(call, s, id) ==
  call.at \in {"put", "wait to put", "received"} /\ call.slot = s /\ call.id = id

HoldersOf(s, id) == {t \in Threads : Holds(th[t], s, id)}

Accounted ==
  Defined => \A s \in Slots : \A id \in Ids(s) :
    Cardinality({i \in DOMAIN queue[s] : queue[s][i] = id}) + Cardinality(HoldersOf(s, id))
      + (IF id \in lost[s] THEN 1 ELSE 0)
    = (IF id \in Live(buf[s]) THEN 1 ELSE 0)

(* From head to tail the ring is covered by the messages it holds and by   *)
(* what removed messages left to the ones in front of them, so that it is  *)
(* empty again when all are gone.  It is no longer so once a message ended *)
(* exactly at bottom: Fixup does not wrap it (queue.h:1021), head stays at *)
(* bottom for good and the ring only grows.                                *)
Tiled ==
  Defined => \A s \in Slots :
    LET b    == buf[s]
        bufs == {b.tags[id].buf : id \in Live(b)}
        ends == {End(b, id) : id \in Live(b)}
    IN  EndsAtBottom(b) \/ (/\ bufs \cup {b.tail} = ends \cup {b.head}
                            /\ Cardinality(bufs \cup {b.tail}) = Cardinality(Live(b)) + 1)

(* What is got under a key was put under it, as long as the program uses   *)
(* no more keys than the bag has slots.  Otherwise a slot changes its key  *)
(* while a thread that looked it up before waits in its queue, or is about *)
(* to put a message into it (bag.cpp:44).                                  *)
EnoughSlots == IsFiniteSet(Keys) /\ Cardinality(Keys) <= capacity

RightKey ==
  EnoughSlots =>
    \A t \in Threads :
      shape = "bag" /\ th[t].at = "received" => Head(Content(buf[th[t].slot], th[t].id)) = th[t].key

(***************************************************************************)
(* The ring is read through the tags: a message arrives as it was sent,    *)
(* once and in order, whatever was put, removed and moved around it, as    *)
(* long as all that the program did is defined.                            *)
(***************************************************************************)
Datum(s, id) == IF id = Quick THEN Quick ELSE Content(buf[s], id)

Box == INSTANCE Mailbox WITH
  Boxes    <- Slots,
  Messages <- Messages \cup {Quick},
  Nothing  <- NoKey,
  box      <- [s \in Slots |-> [i \in DOMAIN queue[s] |-> Datum(s, queue[s][i])]],
  sending  <- [t \in Threads |-> th[t].datum],
  hand     <- [t \in Threads |-> IF th[t].at = "received" THEN Datum(th[t].slot, th[t].id) ELSE NoKey],
  closed   <- terminate,
  broken   <- ~Defined

RefinesMailbox == Box!Spec

(***************************************************************************)
(* The invariant that the proofs use.                                      *)
(***************************************************************************)
Putting == {"put", "wait to put"}
Getting == {"get", "wait to get"}

Call == [at : {"idle", "store", "received"} \cup Putting \cup Getting, slot : Slots \cup {0},
         key : Keys \cup {NoKey}, datum : Messages \cup {Quick, NoKey}, id : Nat \cup {Quick}]

(* The message a thread holds is in the ring of its slot, unless it needs  *)
(* no ring or its bytes are still to be stored.                            *)
Kept(s, id) == id = Quick \/ id \in Live(buf[s]) \ lost[s]

CallOK(call) ==
  /\ IF call.at = "idle" THEN call = NoCall ELSE call.slot \in Slots
  /\ call.at = "store" => call.datum \in Messages
  /\ call.at \in Putting => Kept(call.slot, call.id) /\ call.datum = Datum(call.slot, call.id)
  /\ call.at \in Getting \cup {"received"} => call.datum = NoKey
  /\ call.at = "received" => Kept(call.slot, call.id)

CallsShape == th \in [Threads -> Call] /\ \A t \in Threads : CallOK(th[t])

QueuesShape ==
  /\ queue \in [Slots -> Seq(Nat \cup {Quick})]
  /\ \A s \in Slots :
       /\ Len(queue[s]) <= Depth
       /\ \A i \in DOMAIN queue[s] : Kept(s, queue[s][i])
       /\ \A i, j \in DOMAIN queue[s] : queue[s][i] = queue[s][j] /\ i # j => queue[s][i] = Quick

(* No message has two places, and none has no place.                       *)
OnePlace ==
  \A s \in Slots : \A id \in Live(buf[s]) :
    /\ \A t \in HoldersOf(s, id) : HoldersOf(s, id) = {t} /\ id \notin Elements(queue[s])
    /\ id \in lost[s] \cup Elements(queue[s]) \/ HoldersOf(s, id) # {}

RingsShape ==
  /\ DOMAIN buf = Slots /\ lost \in [Slots -> SUBSET Nat]
  /\ \A s \in Slots :
       /\ RingOK(buf[s]) /\ RingTiled(buf[s]) /\ lost[s] \subseteq Live(buf[s])
       /\ \A id \in Live(buf[s]) : Content(buf[s], id) \in Messages

KeysShape ==
  /\ shape \in {"queue", "bag", "undefined"} /\ terminate \in BOOLEAN
  /\ capacity \in Slots /\ key \in [Slots -> Keys \cup {NoKey}]

(* A slot of a bag with enough slots keeps its key.                        *)
RightSlot(call) ==
  /\ call.at # "idle" => key[call.slot] # NoKey
  /\ call.at = "store" => Head(call.datum) = key[call.slot]
  /\ call.at \in Getting \cup {"received"} => call.key = key[call.slot]

KeysStay ==
  /\ \A e, f \in Used : key[e] = key[f] /\ e # f => key[e] = NoKey
  /\ \A t \in Threads : RightSlot(th[t])
  /\ \A s \in Slots : \A id \in Live(buf[s]) :
       key[s] # NoKey /\ Head(Content(buf[s], id)) = key[s]

SlotsKeepKeys ==
  shape = "bag" =>
    /\ \A s \in Slots : Quick \notin Elements(queue[s])
    /\ \A t \in Threads : th[t].id # Quick
    /\ EnoughSlots => KeysStay

Sound ==
  /\ KeysShape /\ RingsShape /\ QueuesShape /\ CallsShape /\ OnePlace
  /\ SlotsKeepKeys

IInv == KeysShape /\ (Defined => Sound)
==============================================================================
