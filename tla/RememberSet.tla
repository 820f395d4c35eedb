---------------------------- MODULE RememberSet -------------------------------
(***************************************************************************)
(* What keeps the objects of a heap alive for the threads that its owner   *)
(* has spawned: the arguments in the thread table and the remember set     *)
(* (remember, snapshot, spawn and mutator_thread of interpreter.cpp), with *)
(* the collector of that heap.  Thread 0 owns the heap; the others read    *)
(* its objects but never write them.  Marking and sweeping are what        *)
(* Collector is about: here marking is one step at the start of a cycle    *)
(* and one at its end.                                                     *)
(*                                                                         *)
(* The code keeps less than the threads can reach.  "forgotten" records    *)
(* what it gives up, in each of the four ways it has to do so.             *)
(***************************************************************************)
EXTENDS Naturals, FiniteSets

CONSTANTS Cells,         (* objects of the heap *)
          Env,           (* the one that is a global variable *)
          Threads,       (* rows of the table but the first *)
          Nil,           (* no reference *)
          MaxHeld,       (* bound: references each thread holds *)
          MaxEntries     (* bound: entries of the remember set *)

ASSUME EnvAssumption == Env \in Cells /\ Nil \notin Cells
ASSUME ThreadsAssumption == 0 \notin Threads /\ IsFiniteSet(Threads)
Owner == 0
Rows == Threads \cup {Owner}

ASSUME BoundsAssumption == MaxHeld \in Nat /\ MaxEntries \in Nat

VARIABLES
  used, ref,             (* cells that exist; their one field *)
  held,                  (* what each thread refers to *)
  state, parent, param,  (* the rows; "ended" is still ACTIVE in the table *)
  m_child,               (* of the heap of thread 0 *)
  m_remember_set,        (* the threads (bits) of each cell in the set *)
  store,                 (* the write that thread 0 is about to do *)
  marking, marks,        (* a concurrent cycle: no, on its way, or asked again *)
  forgotten              (* history: cells given up though a thread may use them *)

heap == <<used, ref>>
table == <<state, parent, param, m_child>>
cycle == <<marking, marks>>
vars == <<heap, held, table, m_remember_set, store, cycle, forgotten>>

Init ==
  /\ used = {Env} /\ ref = [o \in Cells |-> Nil]
  /\ held = [t \in Rows |-> {}]
  /\ state = [t \in Rows |-> IF t = Owner THEN "active" ELSE "free"]
  /\ parent = [t \in Threads |-> Owner] /\ param = [t \in Threads |-> {}]
  /\ m_child = 0
  /\ m_remember_set = [o \in Cells |-> {}]
  /\ store = <<>>
  /\ marking = "no" /\ marks = {}
  /\ forgotten = {}

------------------------------------------------------------------------------
(* What the cells of S lead to. *)
Closed(field, T) == \A o \in T : field[o] \in T \cup {Nil}
ReachIn(field, S) ==
  {o \in Cells : \A T \in SUBSET Cells : S \ {Nil} \subseteq T /\ Closed(field, T) => o \in T}

Reach(S) == ReachIn(ref, S)

Children(t) == {c \in Threads : state[c] # "free" /\ parent[c] = t}
Active(t) == state[t] \in {"active", "ended"}
Remembered == {o \in Cells : m_remember_set[o] # {}}
Alone == \A t \in Threads : state[t] = "free"

Running(t) == state[t] = "active" /\ (t = Owner => store = <<>>)

(* The program. *)
Take(t, o) ==
  /\ Cardinality(held[t] \cup {o}) <= MaxHeld
  /\ held' = [held EXCEPT ![t] = @ \cup {o}]

New ==
  /\ Running(Owner)
  /\ \E o \in Cells \ used :
       /\ \A t \in Rows : o \notin held[t]
       /\ Take(Owner, o)
       /\ used' = used \cup {o} /\ ref' = [ref EXCEPT ![o] = Nil]
       /\ forgotten' = forgotten \ {o}
  /\ UNCHANGED <<table, m_remember_set, store, cycle>>

Load(t) ==
  /\ Running(t)
  /\ \E o \in (held[t] \cup {Env}) \cap used : ref[o] # Nil /\ Take(t, ref[o])
  /\ UNCHANGED <<heap, table, m_remember_set, store, cycle, forgotten>>

Drop(t) ==
  /\ Running(t)
  /\ \E o \in held[t] : held' = [held EXCEPT ![t] = @ \ {o}]
  /\ UNCHANGED <<heap, table, m_remember_set, store, cycle, forgotten>>

------------------------------------------------------------------------------
(* remember(lhs, rhs), where lhs is about to be overwritten by rhs: nothing *)
(* to do when lhs is no object or is there behind rhs, otherwise rhs goes   *)
(* into the set, and lhs does not.  The bits are those of the threads that  *)
(* run or block.                                                            *)
Entry(obj) == [m_remember_set EXCEPT ![obj] = @ \cup {t \in Threads : Active(t)}]

Remember(lhs, rhs) ==
  m_remember_set' = IF Nil \in {lhs, rhs} \/ lhs \in Reach({rhs}) THEN m_remember_set
                    ELSE Entry(rhs)

(* set!, set-cdr! and the other writes of thread 0: remember, then store.   *)
(* A global variable asks for a second thread only, an object for a child   *)
(* of this heap.  Inputs left out: a write of what is there already, which  *)
(* remember() ignores.                                                      *)
Barred(o) == IF o = Env THEN ~Alone ELSE m_child > 0

(* What is overwritten the threads may lose, unless it is still there       *)
(* behind the new value after the write, or was itself a new value once     *)
(* while all who run now did.                                               *)
EnteredForAll(o) == {t \in Threads : state[t] = "active"} \subseteq m_remember_set[o]

CutOff(o, v) ==
  IF \/ Alone \/ ref[o] \in {Nil} \cup ReachIn([ref EXCEPT ![o] = v], {v})
     \/ EnteredForAll(ref[o])
  THEN {} ELSE Reach({ref[o]})

BeginWrite ==
  /\ Running(Owner)
  /\ \E o \in held[Owner] \cup {Env} :
     \E v \in (held[Owner] \cup {ref[Env], Nil}) \ {ref[o]} :
       /\ store' = <<o, v>>
       /\ IF Barred(o) THEN Remember(ref[o], v) ELSE UNCHANGED m_remember_set
       /\ forgotten' = forgotten \cup CutOff(o, v)
  /\ Cardinality(Remembered') <= MaxEntries
  /\ UNCHANGED <<heap, held, table, cycle>>

EndWrite ==
  /\ store # <<>>
  /\ ref' = [ref EXCEPT ![store[1]] = store[2]]
  /\ marks' = IF marking # "no" THEN marks \cup ({store[2]} \ {Nil}) ELSE marks
  /\ store' = <<>>
  /\ UNCHANGED <<used, held, table, m_remember_set, marking, forgotten>>

------------------------------------------------------------------------------
(* spawn: the arguments are in the row of the child, in the heap of the     *)
(* parent.  m_child of other heaps is not looked at here.                   *)
Spawn(t) ==
  /\ Running(t)
  /\ \E c \in Threads, S \in SUBSET held[t] :
       /\ state[c] = "free"
       /\ state' = [state EXCEPT ![c] = "active"]
       /\ parent' = [parent EXCEPT ![c] = t]
       /\ param' = [param EXCEPT ![c] = S]
       /\ Cardinality(S) <= MaxHeld /\ held' = [held EXCEPT ![c] = S]
  /\ m_child' = IF t = Owner THEN m_child + 1 ELSE m_child
  /\ UNCHANGED <<heap, m_remember_set, store, cycle, forgotten>>

(* clear(): the bit of a thread that ends.  What it kept, its own children  *)
(* may lose: another thread that has the same bit ends without regard for   *)
(* them.  They lose the arguments it was given as well.                     *)
Cleared(c) == [o \in Cells |-> m_remember_set[o] \ {c}]

CountOff_Any(c) == m_child' = m_child - 1
CountOff(c) == m_child' = IF parent[c] = Owner THEN m_child - 1 ELSE m_child

GivenUp(c) ==
  IF Children(c) = {} THEN {}
  ELSE Reach(param[c] \cup {o \in Cells : c \in m_remember_set[o]})

End(c) ==
  /\ Running(c)
  /\ held' = [held EXCEPT ![c] = {}]
  /\ m_remember_set' = Cleared(c)
  /\ CountOff(c)
  /\ state' = [state EXCEPT ![c] = IF Children(c) = {} THEN "ended" ELSE "sync"]
  /\ forgotten' = forgotten \cup GivenUp(c)
  /\ UNCHANGED <<heap, parent, param, store, cycle>>

Free(c) ==
  /\ state[c] \in {"ended", "sync"} /\ Children(c) = {}
  /\ state' = [state EXCEPT ![c] = "free"]
  /\ param' = [param EXCEPT ![c] = {}] /\ parent' = [parent EXCEPT ![c] = Owner]
  /\ UNCHANGED <<heap, held, m_child, m_remember_set, store, cycle, forgotten>>

------------------------------------------------------------------------------
(* snapshot(): the arguments of children that run or block, and if thread 0 *)
(* has a child at all the remember set, without what is marked already.     *)
(* When the roots are asked for again nothing is dropped.                   *)
Locals == held[Owner] \cup {Env}

Arguments_None == {}
Arguments == UNION {param[c] : c \in {d \in Children(Owner) : Active(d)}}

Kept == IF marking = "retry" THEN Remembered ELSE Remembered \ marks

Roots == IF Children(Owner) = {} THEN Locals ELSE Locals \cup Arguments \cup Kept

Snapshot ==
  IF Children(Owner) = {} THEN UNCHANGED <<m_remember_set, forgotten>>
  ELSE /\ m_remember_set' = [o \in Cells |-> IF o \in Kept THEN m_remember_set[o] ELSE {}]
       /\ forgotten' = forgotten \cup Reach(forgotten \cup (Remembered \ Kept))

(* A synchronized cycle, or the end of a concurrent one. *)
Collect ==
  /\ Running(Owner)
  /\ Snapshot
  /\ LET alive == Reach(marks \cup Roots)
     IN /\ used' = used \cap alive
        /\ ref' = [o \in Cells |-> IF o \in alive THEN ref[o] ELSE Nil]
  /\ marking' = "no" /\ marks' = {}
  /\ UNCHANGED <<held, table, store>>

(* Serial marking takes too long: the machine runs again, and will be asked *)
(* for its roots a second time.                                             *)
FallBack ==
  /\ Running(Owner) /\ marking = "yes"
  /\ Snapshot
  /\ marking' = "retry" /\ marks' = Reach(marks \cup Roots)
  /\ UNCHANGED <<heap, held, table, store>>

BeginMark ==
  /\ Running(Owner) /\ marking = "no"
  /\ marking' = "yes" /\ marks' = Reach(Locals)
  /\ UNCHANGED <<heap, held, table, m_remember_set, store, forgotten>>

Next ==
  \/ New \/ BeginWrite \/ EndWrite \/ Collect \/ BeginMark \/ FallBack
  \/ \E t \in Rows : Load(t) \/ Drop(t) \/ Spawn(t)
  \/ \E c \in Threads : End(c) \/ Free(c)

Spec == Init /\ [][Next]_vars

------------------------------------------------------------------------------
TypeOK ==
  /\ used \in SUBSET Cells /\ ref \in [Cells -> Cells \cup {Nil}]
  /\ held \in [Rows -> SUBSET Cells]
  /\ state \in [Rows -> {"free", "active", "ended", "sync"}]
  /\ parent \in [Threads -> Rows] /\ param \in [Threads -> SUBSET Cells]
  /\ m_child \in Nat
  /\ m_remember_set \in [Cells -> SUBSET Threads]
  /\ store \in {<<>>} \cup (Cells \X (Cells \cup {Nil}))
  /\ marking \in {"no", "yes", "retry"} /\ marks \in SUBSET Cells
  /\ forgotten \in SUBSET Cells

(* What a thread refers to exists, unless the table or the remember set has *)
(* given it up in one of the four ways recorded: the bit of an ended parent *)
(* cleared, its arguments no longer kept, an entry dropped because it was   *)
(* marked, an object overwritten that is neither behind the new value nor   *)
(* in the set from an earlier write that made it the new value.             *)
HeldKept == \A t \in Rows : held[t] \ used \subseteq forgotten

------------------------------------------------------------------------------
(* The invariant that the proofs use. *)

(* A thread is kept alive by its line: itself, who spawned it, and so on.   *)
Line(T) == \A c \in T : parent[c] \in T \cup {Owner}

(* What the cells that the threads of T refer to are found from: the        *)
(* environment, the arguments that are kept, the entries with a bit of one  *)
(* of them, and what was given up.                                          *)
Given(T) == UNION {param[c] : c \in {d \in T : parent[d] = Owner /\ Active(d)}}
Entered(T) == {o \in Cells : m_remember_set[o] \cap T # {}}
Seeds(T) == {Env} \cup forgotten \cup Given(T) \cup Entered(T)

LineKept == \A T \in SUBSET Threads : Line(T) => \A t \in T : held[t] \subseteq Reach(Seeds(T))

(* What a write is about to overwrite will still be found, or is given up.  *)
WriteKept ==
  store # <<>> =>
    /\ store[1] \in used /\ store[2] \in used \cup {Nil}
    /\ \A T \in SUBSET Threads :
         Line(T) /\ (\E t \in T : state[t] = "active") =>
           ref[store[1]] \in {Nil} \cup Seeds(T)
                             \cup ReachIn([ref EXCEPT ![store[1]] = store[2]], {store[2]})

HeapShape ==
  /\ Env \in used /\ held[Owner] \subseteq used
  /\ \A o \in Cells : IF o \in used THEN ref[o] \in used \cup {Nil} ELSE ref[o] = Nil

(* Rows whose parent is free have none, and no row is its own ancestor.     *)
TableShape ==
  /\ state[Owner] = "active"
  /\ \A t \in Threads : state[t] # "active" => held[t] = {}
  /\ \A c \in Threads : state[c] = "free" => parent[c] = Owner /\ param[c] = {}
  /\ \A c \in Threads : parent[c] # Owner => state[parent[c]] # "free"
  /\ \A N \in SUBSET Threads : N # {} => \E c \in N : parent[c] \notin N
  /\ m_child = Cardinality({c \in Threads : parent[c] = Owner /\ state[c] = "active"})

IInv == TypeOK /\ HeldKept /\ LineKept /\ WriteKept /\ HeapShape /\ TableShape
==============================================================================
