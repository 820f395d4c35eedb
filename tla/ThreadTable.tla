---------------------------- MODULE ThreadTable ------------------------------
(***************************************************************************)
(* The thread table of src/interpreter.cpp: a row for every virtual        *)
(* machine (VM), spawn(), update() and the end of a thread.                *)
(*                                                                         *)
(* All of it happens under m_lock, except that VMs are deleted without it; *)
(* a step is one critical section.  The thread of a row waits on the       *)
(* condition variable of its row until its children are gone.              *)
(*                                                                         *)
(* VMs are known by their addresses, and an address may come back: a row   *)
(* keeps the address of its VM after delete, and rows that were never used *)
(* hold whatever was in memory.                                            *)
(***************************************************************************)
EXTENDS Integers, FiniteSets

CONSTANTS Capacity,      (* m_capacity: the number of rows *)
          Addresses,     (* where a VM can be *)
          NoVM           (* an address where none is *)

ASSUME CapacityAssumption == Capacity \in Nat \ {0}
ASSUME AddressAssumption == NoVM \notin Addresses

Rows == 0 .. Capacity - 1
Root == 0
None == -1               (* VM_PARENT_NONE *)

VARIABLES
  allocated,             (* the addresses of the VMs that exist *)
  m_child,               (* the counter in the heap of the VM at an address *)
  m_live,
  state, vm, parent,     (* the fields of the rows *)
  pc, self,              (* of the thread of a row: where it is, and its VM *)
  woken                  (* a signal has reached its wait *)

memory == <<allocated, m_child>>
table  == <<state, vm, parent>>

vars == <<memory, m_live, table, pc, self, woken>>

Init ==
  \E a \in Addresses :
    /\ allocated = {a} /\ m_child = [b \in Addresses |-> 0] /\ m_live = 1
    /\ vm \in {f \in [Rows -> Addresses \cup {NoVM}] : f[Root] = a}
    /\ self = [t \in Rows |-> IF t = Root THEN a ELSE NoVM]
    /\ state = [t \in Rows |-> IF t = Root THEN "active" ELSE "free"]
    /\ parent = [t \in Rows |-> None]
    /\ pc = [t \in Rows |-> IF t = Root THEN "run" ELSE "none"]
    /\ woken = [t \in Rows |-> FALSE]

------------------------------------------------------------------------------
(* update(): the first row with the address of the VM.  Operators named X_Y *)
(* are X with the mistake Y in it and stand in no specification.            *)
First(a) == CHOOSE t \in Rows : vm[t] = a /\ \A u \in Rows : vm[u] = a => t <= u

Update(t, s) ==
  /\ state' = [state EXCEPT ![First(self[t])] = s]
  /\ UNCHANGED <<vm, parent>>

(* subr_spawn and the calls that may block tell the table before and after. *)
Block(t) ==
  /\ pc[t] = "run"
  /\ Update(t, "block")
  /\ pc' = [pc EXCEPT ![t] = "call"]
  /\ UNCHANGED <<memory, m_live, self, woken>>

Unblock_Silent(t) ==
  /\ pc[t] \in {"call", "spawned"}
  /\ pc' = [pc EXCEPT ![t] = "run"]
  /\ UNCHANGED <<memory, m_live, table, self, woken>>

Unblock(t) ==
  /\ pc[t] \in {"call", "spawned"}
  /\ Update(t, "active")
  /\ pc' = [pc EXCEPT ![t] = "run"]
  /\ UNCHANGED <<memory, m_live, self, woken>>

(* spawn() when it finds a free row; when it does not, it tries again or    *)
(* times out, which leaves the table alone.                                 *)
FirstFree(c) == state[c] = "free" /\ \A u \in Rows : u < c => state[u] # "free"

Spawn(t, c, a) ==
  /\ pc[t] = "call"
  /\ FirstFree(c) /\ a \in Addresses \ allocated
  /\ allocated' = allocated \cup {a}
  /\ m_child' = [b \in Addresses |-> IF b = a THEN 0
                                     ELSE IF b = self[t] THEN m_child[b] + 1 ELSE m_child[b]]
  /\ m_live' = m_live + 1
  /\ state' = [state EXCEPT ![c] = "active"]
  /\ vm' = [vm EXCEPT ![c] = a]
  /\ parent' = [parent EXCEPT ![c] = t]
  /\ self' = [self EXCEPT ![c] = a]
  /\ pc' = [pc EXCEPT ![c] = "run", ![t] = "spawned"]
  /\ UNCHANGED woken

------------------------------------------------------------------------------
(* The end of mutator_thread: run() has returned and the collector of its   *)
(* heap is gone.                                                            *)
End(t) ==
  /\ t # Root /\ pc[t] = "run"
  /\ pc' = [pc EXCEPT ![t] = "ended"]
  /\ UNCHANGED <<memory, m_live, table, self, woken>>

HasChildren_ActiveOnly(t) == \E c \in Rows : state[c] = "active" /\ parent[c] = t
HasChildren(t) == \E c \in Rows : state[c] # "free" /\ parent[c] = t

(* wait_again: wait for a child, or go on to delete the VM. *)
AwaitChildren(t) ==
  /\ IF HasChildren(t)
     THEN state' = [state EXCEPT ![t] = "sync"] /\ pc' = [pc EXCEPT ![t] = "wait"]
     ELSE UNCHANGED state /\ pc' = [pc EXCEPT ![t] = "delete"]
  /\ UNCHANGED <<vm, parent>>

(* The parent is found through its row. *)
Leave_NoCount(t) ==
  /\ pc[t] = "ended"
  /\ AwaitChildren(t)
  /\ UNCHANGED <<memory, m_live, self, woken>>

Leave(t) ==
  /\ pc[t] = "ended"
  /\ m_child' = [m_child EXCEPT ![vm[parent[t]]] = @ - 1]
  /\ AwaitChildren(t)
  /\ UNCHANGED <<allocated, m_live, self, woken>>

WakeUp(t) ==
  /\ pc[t] = "wait" /\ woken[t]
  /\ AwaitChildren(t)
  /\ woken' = [woken EXCEPT ![t] = FALSE]
  /\ UNCHANGED <<memory, m_live, self>>

Delete(t) ==
  /\ pc[t] = "delete"
  /\ allocated' = allocated \ {self[t]}
  /\ pc' = [pc EXCEPT ![t] = "deleted"]
  /\ UNCHANGED <<m_child, m_live, table, self, woken>>

(* The row is free, and the parent is told if it waits. *)
Free_NoSignal(t) ==
  /\ pc[t] = "deleted"
  /\ state' = [state EXCEPT ![t] = "free"]
  /\ m_live' = m_live - 1
  /\ pc' = [pc EXCEPT ![t] = "none"]
  /\ self' = [self EXCEPT ![t] = NoVM]
  /\ UNCHANGED <<memory, vm, parent, woken>>

Free_NotLive(t) ==
  /\ pc[t] = "deleted"
  /\ state' = [state EXCEPT ![t] = "free"]
  /\ pc' = [pc EXCEPT ![t] = "none"]
  /\ self' = [self EXCEPT ![t] = NoVM]
  /\ woken' = [woken EXCEPT ![parent[t]] = @ \/ pc[parent[t]] = "wait"]
  /\ UNCHANGED <<memory, m_live, vm, parent>>

Free(t) ==
  /\ pc[t] = "deleted"
  /\ state' = [state EXCEPT ![t] = "free"]
  /\ m_live' = m_live - 1
  /\ pc' = [pc EXCEPT ![t] = "none"]
  /\ self' = [self EXCEPT ![t] = NoVM]
  /\ woken' = [woken EXCEPT ![parent[t]] = @ \/ pc[parent[t]] = "wait"]
  /\ UNCHANGED <<memory, vm, parent>>

(* A wait may end without a signal. *)
SpuriousWake(t) ==
  /\ pc[t] = "wait" /\ ~woken[t]
  /\ woken' = [woken EXCEPT ![t] = TRUE]
  /\ UNCHANGED <<memory, m_live, table, pc, self>>

Teardown(t) == Leave(t) \/ WakeUp(t) \/ Delete(t) \/ Free(t)

Next ==
  \E t \in Rows :
    \/ Block(t) \/ Unblock(t) \/ End(t)
    \/ \E c \in Rows, a \in Addresses : Spawn(t, c, a)
    \/ Teardown(t) \/ SpuriousWake(t)

Spec == Init /\ [][Next]_vars

(* A thread that is on its way out is scheduled.  Nobody has to end. *)
FairSpec == Spec /\ \A t \in Rows : WF_vars(Teardown(t))

------------------------------------------------------------------------------
States == {"free", "active", "block", "sync"}
Running == {"run", "call", "spawned"}
PCs == Running \cup {"none", "ended", "wait", "delete", "deleted"}

TableType ==
  /\ allocated \in SUBSET Addresses
  /\ m_child \in [Addresses -> Int]
  /\ m_live \in Int
  /\ state \in [Rows -> States]
  /\ vm \in [Rows -> Addresses \cup {NoVM}]
  /\ parent \in [Rows -> Rows \cup {None}]

ThreadType ==
  /\ pc \in [Rows -> PCs]
  /\ self \in [Rows -> Addresses \cup {NoVM}]
  /\ woken \in [Rows -> BOOLEAN]

TypeOK == TableType /\ ThreadType /\ m_live \in 1 .. Capacity

(* The threads whose VM exists. *)
Alive(t) == pc[t] \notin {"none", "deleted"}

(* A child refers to objects of its parent (its code, its arguments, its    *)
(* environment), and its end counts down in the heap of its parent: as long *)
(* as the child has not freed its row, the VM of its parent exists and is   *)
(* the one the row of the parent names, also when addresses come back and   *)
(* update() hits the wrong row.                                             *)
Usable(p) ==
  /\ p \in Rows /\ Alive(p) /\ pc[p] # "delete"
  /\ vm[p] = self[p] /\ self[p] \in allocated

ParentOutlives == \A t \in Rows \ {Root} : pc[t] # "none" => Usable(parent[t])

(* m_child, which decides whether a store is remembered and whether the     *)
(* sweep protects the symbols, counts the children up to their end.         *)
Counted(t) == {c \in Rows \ {Root} : pc[c] \in Running \cup {"ended"} /\ parent[c] = t}

ChildrenCounted == \A t \in Rows : Alive(t) => m_child[self[t]] = Cardinality(Counted(t))

(* m_live is what live_thread_count() > 1 tests before every store and      *)
(* every snapshot of the roots: it counts the threads that exist.           *)
LiveCounted == m_live = Cardinality({t \in Rows : pc[t] # "none"})

(* What ThreadTableProofs needs besides to prove these: a thread owns its   *)
(* row and its VM, whatever other rows hold.                                *)
RootStays == pc[Root] \in Running /\ parent[Root] = None

OwnRow == \A t \in Rows : pc[t] # "none" => state[t] # "free"

OwnVM ==
  /\ \A t \in Rows : Alive(t) => self[t] \in allocated /\ vm[t] = self[t]
  /\ \A t, u \in Rows : Alive(t) /\ Alive(u) /\ t # u => self[t] # self[u]

IInv == TableType /\ ThreadType /\ RootStays /\ OwnRow /\ OwnVM /\ ParentOutlives

(* The table is a tree of threads. *)
Tree == INSTANCE ThreadTree WITH
  Names <- Rows,
  running <- {t \in Rows : pc[t] \in Running},
  up <- [t \in Rows |-> IF Alive(t) THEN parent[t] ELSE None]

RefinesTree == Tree!Spec

------------------------------------------------------------------------------
(* What the rows say of their threads.  snapshot() takes roots for children *)
(* that are active or blocked, and spawn() a row that is free.  This holds  *)
(* as long as no row keeps the address of a VM that is created meanwhile:   *)
(* otherwise update() may change the row of another thread, even a free one. *)
Unshared == \A t, u \in Rows : vm[t] = vm[u] => t = u \/ vm[t] = NoVM

Told(place) ==
  CASE place = "none"                -> {"free"}
    [] place \in {"run", "ended"}    -> {"active"}
    [] place \in {"call", "spawned"} -> {"block"}
    [] place = "wait"                -> {"sync"}
    [] OTHER                         -> {"active", "sync"}

StateTold == \A t \in Rows : state[t] \in Told(pc[t])

RowsTellState == []Unshared => []StateTold

Closed(S, t) == \A c \in Rows : pc[c] # "none" /\ parent[c] \in S \cup {t} => c \in S
Descendants(t) == {c \in Rows : \A S \in SUBSET Rows : Closed(S, t) => c \in S}

(* A thread that has ended goes away when its descendants have ended: every *)
(* wait for a child is answered, as long as no address is shared.           *)
EndedGoes ==
  []Unshared =>
    \A t \in Rows :
      (pc[t] \in {"ended", "wait"})
        ~> (pc[t] = "none" \/ \E c \in Descendants(t) : pc[c] \in Running)
==============================================================================
