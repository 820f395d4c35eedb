----------------------------- MODULE Collector ------------------------------
(***************************************************************************)
(* The concurrent mark-sweep collector of src/object_heap.cpp: one virtual *)
(* machine (the mutator) and the collector thread of its heap.             *)
(*                                                                         *)
(* They share m_collector_lock and two condition variables, the flags of   *)
(* the handshake (m_stop_the_world, m_mutator_stopped, m_collector_kicked, *)
(* m_collector_terminating), the barriers, the mark bits and the shade     *)
(* queue.  The queue is the sync_queue_t of SyncQueue; as that module      *)
(* implements BoundedFifo, here it is a sequence of bounded length.        *)
(*                                                                         *)
(* The collector holds m_collector_lock except inside m_collector_wake     *)
(* .wait(), so the mutator can take the lock when cpc is a waiting place   *)
(* (or the thread is gone), and every critical section of the mutator is   *)
(* one step.                                                               *)
(***************************************************************************)
EXTENDS Naturals, Sequences, FiniteSets

CONSTANTS N,              (* cells are the addresses 1 .. N, one to a slab *)
          Env,            (* the cell that stands for m_inherents and environments *)
          Names,          (* the cells of the slabs that hold symbols; they have no field *)
          ShadeCapacity,  (* SHADE_QUEUE_SIZE *)
          MaxStack,       (* bound: how many cells the stack holds *)
          MaxRetries,     (* bound: how often a cycle falls back to concurrent marking *)
          Modes,          (* the kinds of cycle: "concurrent", "synchronized" *)
          Spurious,       (* condition variables may wake a waiter nobody signalled *)
          MayExit         (* the machine is a thread that may end *)

ASSUME NAssumption == N \in Nat \ {0} /\ Env \in 1 .. N /\ Names \subseteq 1 .. N \ {Env}
ASSUME BoundsAssumption ==
  /\ ShadeCapacity \in Nat \ {0}
  /\ MaxStack \in Nat /\ MaxRetries \in Nat
  /\ Modes \subseteq {"concurrent", "synchronized"}
  /\ Spurious \in BOOLEAN /\ MayExit \in BOOLEAN

Nil == 0
Cells == 1 .. N

VARIABLES
  live, field, interned,                   (* the heap, as in GcHeap *)
  stack, reg,                              (* the roots of the machine *)
  mark, mark_stack, cur,                   (* mark bits, grey cells, the cell being traced *)
  shade_queue,                             (* m_shade_queue *)
  write_barrier, read_barrier, alloc_barrier,
  wavefront,                               (* m_sweep_wavefront: the next slab to sweep *)
  kicked, ready, terminating,
  stop_the_world, mutator_stopped,
  root_snapshot,
  cpc, phase, retries,                     (* where the collector is *)
  mpc, store, todo,                        (* where the mutator is; pending store and roots *)
  cwake, mwake                             (* a signal has reached the waiting thread *)

heap     == <<live, field, interned>>
machine  == <<stack, reg>>
marking  == <<mark, mark_stack, cur>>
barriers == <<write_barrier, read_barrier, alloc_barrier, wavefront>>
request  == <<kicked, ready, terminating>>
world    == <<stop_the_world, mutator_stopped, root_snapshot>>
cycle    == <<cpc, phase, retries>>
mutator  == <<mpc, store, todo>>
wakes    == <<cwake, mwake>>

memory   == <<heap, machine>>

vars == <<heap, machine, marking, shade_queue, barriers, request, world, cycle, mutator,
          wakes>>

NoStore == <<Nil, Nil>>
Done    == N + 1        (* the wavefront when no sweep is going on *)

Init ==
  /\ live = {Env} /\ field = [c \in Cells |-> Nil] /\ interned = {}
  /\ stack = {} /\ reg = Nil
  /\ mark = {} /\ mark_stack = {} /\ cur = Nil
  /\ shade_queue = <<>>
  /\ write_barrier = FALSE /\ read_barrier = FALSE /\ alloc_barrier = FALSE
  /\ wavefront = Done
  /\ kicked = FALSE /\ ready = FALSE /\ terminating = FALSE
  /\ stop_the_world = FALSE /\ mutator_stopped = FALSE /\ root_snapshot = "none"
  /\ cpc = "start" /\ phase = "none" /\ retries = 0
  /\ mpc = "run" /\ store = NoStore /\ todo = {}
  /\ cwake = FALSE /\ mwake = FALSE

------------------------------------------------------------------------------
(* The lock and the condition variables.  Operators named X_Y are X with the *)
(* mistake Y in it: they stand in no specification and serve to see that the *)
(* properties notice the mistake.                                            *)
CollectorWaits == {"idle_wait", "stw_wait", "resume_wait"}
MutatorWaits   == {"store_wait", "root_wait", "stopped", "exit_wait"}

LockFree == cpc \in CollectorWaits \cup {"gone"}

(* A signal reaches a thread inside the wait and nobody else. *)
SignalCollector == cwake' = (cwake \/ cpc \in CollectorWaits)
SignalMutator   == mwake' = (mwake \/ mpc \in MutatorWaits)

(* The grey set after shade(c): a cell already marked is left alone. *)
Shaded(c) == IF c = Nil \/ c \in mark THEN mark_stack ELSE mark_stack \cup {c}

------------------------------------------------------------------------------
(* The mutator between two polls: allocation, reads and writes.             *)

(* During the sweep a cell in a slab still to be swept is born marked. *)
BornMark_Always(c) == IF alloc_barrier THEN mark \cup {c} ELSE mark
BornMark(c) == IF alloc_barrier /\ c >= wavefront THEN mark \cup {c} ELSE mark

(* The allocators with their slab cache; the values come from the stack. *)
Alloc(c, v) ==
  /\ mpc = "run"
  /\ c \notin live
  /\ Cardinality(stack) < MaxStack
  /\ live' = live \cup {c}
  /\ field' = [field EXCEPT ![c] = v]
  /\ stack' = stack \cup {c}
  /\ mark' = BornMark(c)
  /\ UNCHANGED <<reg, mark_stack, cur, shade_queue, barriers, request, world, cycle, mutator,
                 wakes>>

AllocCell(c, v) == c \notin Names /\ Alloc(c, v) /\ UNCHANGED interned

(* make_symbol, of a new name and of one the table holds: under the lock of *)
(* the table.  While the table waits for its sweep, a name that was looked  *)
(* up is marked; the flag is read before the mark is set.                   *)
InternNew(c) == c \in Names /\ Alloc(c, Nil) /\ interned' = interned \cup {c}

Found(c) ==
  /\ Cardinality(stack \cup {c}) <= MaxStack
  /\ stack' = stack \cup {c}

Intern(c) ==
  /\ mpc = "run" /\ c \in interned /\ ~read_barrier
  /\ Found(c)
  /\ UNCHANGED <<heap, reg, marking, shade_queue, barriers, request, world, cycle, mutator,
                 wakes>>

InternBarrier(c) ==
  /\ mpc = "run" /\ c \in interned /\ read_barrier
  /\ Cardinality(stack \cup {c}) <= MaxStack
  /\ mpc' = "lookup" /\ store' = <<c, Nil>>
  /\ UNCHANGED <<memory, marking, shade_queue, barriers, request, world, cycle, todo, wakes>>

InternMark ==
  /\ mpc = "lookup"
  /\ Found(store[1])
  /\ mark' = mark \cup {store[1]}
  /\ mpc' = "run" /\ store' = NoStore
  /\ UNCHANGED <<heap, reg, mark_stack, cur, shade_queue, barriers, request, world, cycle,
                 todo, wakes>>

Read ==
  /\ mpc = "run"
  /\ stack' \in {stack \cup {field[c]} : c \in {d \in stack : field[d] # Nil}}
                \cup {stack \cup {c} : c \in {Env, reg} \ {Nil}}
  /\ Cardinality(stack') <= MaxStack
  /\ UNCHANGED <<heap, reg, marking, shade_queue, barriers, request, world, cycle, mutator,
                 wakes>>

Drop(c) ==
  /\ mpc = "run" /\ c \in stack
  /\ stack' = stack \ {c}
  /\ UNCHANGED <<heap, reg, marking, shade_queue, barriers, request, world, cycle, mutator,
                 wakes>>

(* The m_current_* registers are assigned without a barrier. *)
SetReg(v) ==
  /\ mpc = "run"
  /\ reg' = v
  /\ UNCHANGED <<heap, stack, marking, shade_queue, barriers, request, world, cycle, mutator,
                 wakes>>

(* set-car!, SET_GLOC, ...: write_barrier(v), then the store.  The barrier   *)
(* does nothing for a cell that is marked already, or outside of marking.   *)
Write_NoBarrier(c, v) ==
  /\ mpc = "run" /\ c \in stack \ Names
  /\ field' = [field EXCEPT ![c] = v]
  /\ UNCHANGED <<live, interned, machine, marking, shade_queue, barriers, request, world,
                 cycle, mutator, wakes>>

Write(c, v) ==
  /\ mpc = "run" /\ c \in stack \ Names
  /\ IF write_barrier /\ v \notin mark \cup {Nil}
     THEN mpc' = "barrier" /\ store' = <<c, v>> /\ UNCHANGED field
     ELSE field' = [field EXCEPT ![c] = v] /\ UNCHANGED <<mpc, store>>
  /\ UNCHANGED <<live, interned, machine, marking, shade_queue, barriers, request, world,
                 cycle, todo, wakes>>

Room_OffByOne == Len(shade_queue) <= ShadeCapacity
Room == Len(shade_queue) < ShadeCapacity

BarrierPut ==
  /\ mpc = "barrier" /\ Room
  /\ shade_queue' = Append(shade_queue, store[2])
  /\ mpc' = "store"
  /\ UNCHANGED <<memory, marking, barriers, request, world, cycle, store, todo, wakes>>

(* The queue was full: stop trying if the collector has marked the cell     *)
(* meanwhile, let a collector that waits for the world to stop drain the    *)
(* queue, otherwise yield and try again.                                    *)
BarrierFull ==
  /\ mpc = "barrier" /\ ~Room
  /\ mpc' = "full"
  /\ UNCHANGED <<memory, marking, shade_queue, barriers, request, world, cycle, store,
                 todo, wakes>>

BarrierTest ==
  /\ mpc = "full"
  /\ mpc' = IF store[2] \in mark THEN "store" ELSE "unmarked"
  /\ UNCHANGED <<memory, marking, shade_queue, barriers, request, world, cycle, store,
                 todo, wakes>>

BarrierYield ==
  /\ mpc = "unmarked" /\ ~stop_the_world
  /\ mpc' = "barrier"
  /\ UNCHANGED <<memory, marking, shade_queue, barriers, request, world, cycle, store,
                 todo, wakes>>

BarrierKick ==
  /\ mpc = "unmarked" /\ stop_the_world
  /\ LockFree
  /\ SignalCollector
  /\ mpc' = "store_wait"
  /\ UNCHANGED <<memory, marking, shade_queue, barriers, request, world, cycle, store,
                 todo, mwake>>

BarrierRetry ==
  /\ mpc = "store_wait" /\ mwake /\ LockFree
  /\ mpc' = "barrier" /\ mwake' = FALSE
  /\ UNCHANGED <<memory, marking, shade_queue, barriers, request, world, cycle, store,
                 todo, cwake>>

StoreDone ==
  /\ mpc = "store"
  /\ field' = [field EXCEPT ![store[1]] = store[2]]
  /\ mpc' = "run" /\ store' = NoStore
  /\ UNCHANGED <<live, interned, machine, marking, shade_queue, barriers, request, world,
                 cycle, todo, wakes>>

(* collect() *)
Kick ==
  /\ mpc = "run" /\ ~kicked /\ LockFree /\ ready
  /\ kicked' = TRUE
  /\ SignalCollector
  /\ UNCHANGED <<memory, marking, shade_queue, barriers, ready, terminating, world,
                 cycle, mutator, mwake>>

------------------------------------------------------------------------------
(* VM::stop(): the roots the collector asked for, then the handshake.       *)

RootsFor(snapshot) ==
  (IF snapshot \in {"globals", "everything", "retry"} THEN {reg} \ {Nil} ELSE {})
    \cup (IF snapshot \in {"locals", "everything", "retry"} THEN stack ELSE {})

Poll ==
  /\ mpc = "run" /\ stop_the_world
  /\ mpc' = "roots" /\ todo' = RootsFor(root_snapshot)
  /\ UNCHANGED <<memory, marking, shade_queue, barriers, request, world, cycle, store, wakes>>

(* enqueue_root; when the queue is full, one round with the collector and a *)
(* put that waits for room.                                                 *)
RootPut ==
  /\ mpc \in {"roots", "root_put"} /\ Room
  /\ \E c \in todo : shade_queue' = Append(shade_queue, c) /\ todo' = todo \ {c}
  /\ mpc' = "roots"
  /\ UNCHANGED <<memory, marking, barriers, request, world, cycle, store, wakes>>

RootFull ==
  /\ mpc = "roots" /\ todo # {} /\ ~Room
  /\ mpc' = "root_full"
  /\ UNCHANGED <<memory, marking, shade_queue, barriers, request, world, cycle, store,
                 todo, wakes>>

RootKick ==
  /\ mpc = "root_full" /\ LockFree
  /\ SignalCollector
  /\ mpc' = "root_wait"
  /\ UNCHANGED <<memory, marking, shade_queue, barriers, request, world, cycle, store,
                 todo, mwake>>

RootWake ==
  /\ mpc = "root_wait" /\ mwake /\ LockFree
  /\ mpc' = "root_put" /\ mwake' = FALSE
  /\ UNCHANGED <<memory, marking, shade_queue, barriers, request, world, cycle, store,
                 todo, cwake>>

(* while (m_stop_the_world) { stopped = true; signal; wait; stopped = false; } *)
(* signal;  the loop of VM::stop() and of the end of a thread.                 *)
Handshake(wait, out) ==
  /\ LockFree
  /\ SignalCollector
  /\ mutator_stopped' = stop_the_world
  /\ mpc' = IF stop_the_world THEN wait ELSE out
  /\ UNCHANGED <<memory, marking, shade_queue, barriers, request, stop_the_world,
                 root_snapshot, cycle, store, todo>>

StopEnter == mpc = "roots" /\ todo = {} /\ Handshake("stopped", "run") /\ UNCHANGED mwake

StopWake == mpc = "stopped" /\ mwake /\ Handshake("stopped", "run") /\ mwake' = FALSE

(* The end of a thread: ask the collector to end, and stop for it as often  *)
(* as it asks, without roots, until it is gone.                             *)
Terminate ==
  /\ MayExit /\ mpc = "run" /\ LockFree
  /\ terminating' = TRUE
  /\ SignalCollector
  /\ mpc' = "exiting"
  /\ UNCHANGED <<memory, marking, shade_queue, barriers, kicked, ready, world, cycle,
                 store, todo, mwake>>

ExitStop_NoHandshake ==
  /\ mpc = "exiting" /\ terminating /\ LockFree
  /\ SignalCollector
  /\ UNCHANGED <<memory, marking, shade_queue, barriers, request, world, cycle, mutator,
                 mwake>>

ExitStop ==
  /\ mpc = "exiting" /\ terminating
  /\ Handshake("exit_wait", "exiting")
  /\ UNCHANGED mwake

ExitWake == mpc = "exit_wait" /\ mwake /\ Handshake("exit_wait", "exiting") /\ mwake' = FALSE

Exit ==
  /\ mpc = "exiting" /\ ~terminating /\ LockFree
  /\ mpc' = "gone"
  /\ UNCHANGED <<memory, marking, shade_queue, barriers, request, world, cycle, store,
                 todo, wakes>>

------------------------------------------------------------------------------
(* The collector thread. *)

Start ==
  /\ cpc = "start"
  /\ ready' = TRUE /\ cpc' = "top"
  /\ UNCHANGED <<memory, marking, shade_queue, barriers, kicked, terminating, world,
                 phase, retries, mutator, wakes>>

(* The top of the loop of collector_thread: end, wait for a kick, or begin  *)
(* a cycle: synchronized when the pool is nearly used up.                   *)
Quit ==
  /\ cpc = "top" /\ terminating
  /\ terminating' = FALSE /\ cpc' = "gone"
  /\ UNCHANGED <<memory, marking, shade_queue, barriers, kicked, ready, world, phase,
                 retries, mutator, wakes>>

Rest ==
  /\ cpc = "top" /\ ~terminating /\ ~kicked
  /\ cpc' = "idle_wait"
  /\ UNCHANGED <<memory, marking, shade_queue, barriers, request, world, phase, retries,
                 mutator, wakes>>

Awaken ==
  /\ cpc = "idle_wait" /\ cwake
  /\ cpc' = "top" /\ cwake' = FALSE
  /\ UNCHANGED <<memory, marking, shade_queue, barriers, request, world, phase, retries,
                 mutator, mwake>>

(* m_stop_the_world = true, and into the loop that waits for the mutator. *)
StopTheWorld(ph, snapshot) ==
  /\ phase' = ph
  /\ root_snapshot' = snapshot
  /\ stop_the_world' = TRUE
  /\ cpc' = "stw_wait"
  /\ UNCHANGED mutator_stopped

BeginConcurrent ==
  /\ cpc = "top" /\ ~terminating /\ kicked /\ "concurrent" \in Modes
  /\ StopTheWorld("globals", "globals")
  /\ retries' = 0
  /\ UNCHANGED <<memory, marking, shade_queue, barriers, request, mutator, wakes>>

BeginSynchronized ==
  /\ cpc = "top" /\ ~terminating /\ kicked /\ "synchronized" \in Modes
  /\ StopTheWorld("synchronized", "everything")
  /\ mark_stack' = Shaded(Env)
  /\ retries' = 0
  /\ UNCHANGED <<memory, mark, cur, shade_queue, barriers, request, mutator, wakes>>

(* Woken while it waits for the world to stop: either it has, or the        *)
(* mutator needs room in the queue.                                         *)
StopWait_Once ==
  /\ cpc = "stw_wait" /\ cwake
  /\ cpc' = "halted"
  /\ cwake' = FALSE
  /\ UNCHANGED <<memory, marking, shade_queue, barriers, request, world, phase, retries,
                 mutator, mwake>>

StopWait ==
  /\ cpc = "stw_wait" /\ cwake
  /\ cpc' = IF mutator_stopped THEN "halted" ELSE "drain"
  /\ cwake' = FALSE
  /\ UNCHANGED <<memory, marking, shade_queue, barriers, request, world, phase, retries,
                 mutator, mwake>>

(* dequeue_root() *)
Dequeue(place) ==
  /\ cpc = place /\ shade_queue # <<>>
  /\ mark_stack' = Shaded(Head(shade_queue))
  /\ shade_queue' = Tail(shade_queue)

Drain ==
  /\ Dequeue("drain")
  /\ UNCHANGED <<memory, mark, cur, barriers, request, world, cycle, mutator, wakes>>

Drained_NoSignal ==
  /\ cpc = "drain" /\ shade_queue = <<>>
  /\ cpc' = "stw_wait"
  /\ UNCHANGED <<memory, marking, shade_queue, barriers, request, world, phase, retries,
                 mutator, wakes>>

Drained ==
  /\ cpc = "drain" /\ shade_queue = <<>>
  /\ SignalMutator
  /\ cpc' = "stw_wait"
  /\ UNCHANGED <<memory, marking, shade_queue, barriers, request, world, phase, retries,
                 mutator, cwake>>

StartTheWorld_NoSignal(ph) ==
  /\ stop_the_world' = FALSE
  /\ phase' = ph
  /\ cpc' = "resume_wait"
  /\ UNCHANGED <<mutator_stopped, wakes>>

(* m_stop_the_world = false, and into the loop that waits for the mutator   *)
(* to run again; ph is what the collector does then.                        *)
StartTheWorld(ph) ==
  /\ stop_the_world' = FALSE
  /\ SignalMutator
  /\ phase' = ph
  /\ cpc' = "resume_wait"
  /\ UNCHANGED <<mutator_stopped, cwake>>

HaltedGlobals ==
  /\ cpc = "halted" /\ phase = "globals"
  /\ write_barrier' = TRUE
  /\ StartTheWorld("mark globals")
  /\ UNCHANGED <<memory, marking, shade_queue, read_barrier, alloc_barrier, wavefront,
                 request, root_snapshot, retries, mutator>>

HaltedLocals ==
  /\ cpc = "halted" /\ phase = "locals"
  /\ root_snapshot' = "everything"
  /\ StartTheWorld("mark locals")
  /\ UNCHANGED <<memory, marking, shade_queue, barriers, request, retries, mutator>>

HaltedFinal ==
  /\ cpc = "halted" /\ phase \in {"final", "synchronized"}
  /\ write_barrier' = FALSE
  /\ cpc' = "final_drain"
  /\ UNCHANGED <<memory, marking, shade_queue, read_barrier, alloc_barrier, wavefront,
                 request, world, phase, retries, mutator, wakes>>

FinalDrain ==
  /\ Dequeue("final_drain")
  /\ UNCHANGED <<memory, mark, cur, barriers, request, world, cycle, mutator, wakes>>

FinalDrained ==
  /\ cpc = "final_drain" /\ shade_queue = <<>>
  /\ cpc' = "serial"
  /\ UNCHANGED <<memory, marking, shade_queue, barriers, request, world, phase, retries,
                 mutator, wakes>>

(* serial_marking(): pop, mark, shade the referent. *)
Trace(c) ==
  /\ c \in mark_stack
  /\ mark' = mark \cup {c}
  /\ mark_stack' = (mark_stack \ {c}) \cup ({field[c]} \ (mark' \cup {Nil}))

SerialTrace ==
  /\ cpc = "serial"
  /\ \E c \in mark_stack : Trace(c)
  /\ UNCHANGED <<memory, cur, shade_queue, barriers, request, world, cycle, mutator, wakes>>

(* ... which gives up after 5 ms: the mutator runs again, with the barrier, *)
(* and the cycle goes back to concurrent marking.                           *)
SerialTimeout ==
  /\ cpc = "serial" /\ phase = "final" /\ retries < MaxRetries
  /\ \E c \in mark_stack : Trace(c)
  /\ write_barrier' = TRUE
  /\ root_snapshot' = "retry"
  /\ StartTheWorld("mark locals")
  /\ retries' = retries + 1
  /\ UNCHANGED <<memory, cur, shade_queue, read_barrier, alloc_barrier, wavefront,
                 request, mutator>>

(* Marking is over: the concurrent sweep runs beside the mutator. *)
BeginSweep ==
  /\ cpc = "serial" /\ phase = "final" /\ mark_stack = {}
  /\ wavefront' = 1
  /\ alloc_barrier' = TRUE /\ read_barrier' = TRUE
  /\ StartTheWorld("sweep")
  /\ UNCHANGED <<memory, marking, shade_queue, write_barrier, request, root_snapshot,
                 retries, mutator>>

BeginStoppedSweep ==
  /\ cpc = "serial" /\ phase = "synchronized" /\ mark_stack = {}
  /\ wavefront' = 1
  /\ cpc' = "table"
  /\ UNCHANGED <<memory, marking, shade_queue, write_barrier, read_barrier,
                 alloc_barrier, request, world, phase, retries, mutator, wakes>>

(* Woken while it waits for the mutator to run again. *)
ResumeWait ==
  /\ cpc = "resume_wait" /\ cwake
  /\ cwake' = FALSE
  /\ cpc' = IF mutator_stopped THEN "resume_wait"
            ELSE CASE phase \in {"mark globals", "mark locals"} -> "mark"
                   [] phase = "sweep" -> "table"
                   [] OTHER -> "finish"
  /\ UNCHANGED <<memory, marking, shade_queue, barriers, request, world, phase, retries,
                 mutator, mwake>>

------------------------------------------------------------------------------
(* concurrent_marking(): one cell from the queue, one from the stack, until *)
(* both are empty.                                                          *)
MarkQueue ==
  /\ \/ Dequeue("mark")
     \/ cpc = "mark" /\ shade_queue = <<>> /\ UNCHANGED <<mark_stack, shade_queue>>
  /\ cpc' = "pop"
  /\ UNCHANGED <<memory, mark, cur, barriers, request, world, phase, retries, mutator, wakes>>

(* trace(): test_and_mark, and only then the cell's references. *)
MarkPop ==
  /\ cpc = "pop"
  /\ \E c \in mark_stack :
       /\ mark_stack' = mark_stack \ {c}
       /\ mark' = mark \cup {c}
       /\ cur' = IF c \in mark THEN Nil ELSE c
       /\ cpc' = IF c \in mark THEN "mark" ELSE "scan"
  /\ UNCHANGED <<memory, shade_queue, barriers, request, world, phase, retries, mutator,
                 wakes>>

MarkScan ==
  /\ cpc = "scan"
  /\ mark_stack' = Shaded(field[cur])
  /\ cur' = Nil
  /\ cpc' = "mark"
  /\ UNCHANGED <<memory, mark, shade_queue, barriers, request, world, phase, retries,
                 mutator, wakes>>

MarkMore ==
  /\ cpc = "pop" /\ mark_stack = {} /\ shade_queue # <<>>
  /\ cpc' = "mark"
  /\ UNCHANGED <<memory, marking, shade_queue, barriers, request, world, phase, retries,
                 mutator, wakes>>

MarkedOut == cpc = "pop" /\ mark_stack = {} /\ shade_queue = <<>>

(* Phase 1+: what the heap itself refers to. *)
MarkedGlobals ==
  /\ MarkedOut /\ phase = "mark globals"
  /\ mark_stack' = Shaded(Env)
  /\ phase' = "mark inherents" /\ cpc' = "mark"
  /\ UNCHANGED <<memory, mark, cur, shade_queue, barriers, request, world, retries,
                 mutator, wakes>>

MarkedInherents ==
  /\ MarkedOut /\ phase = "mark inherents"
  /\ StopTheWorld("locals", "locals")
  /\ UNCHANGED <<memory, marking, shade_queue, barriers, request, retries, mutator, wakes>>

MarkedLocals ==
  /\ MarkedOut /\ phase = "mark locals"
  /\ StopTheWorld("final", root_snapshot)
  /\ UNCHANGED <<memory, marking, shade_queue, barriers, request, retries, mutator, wakes>>

------------------------------------------------------------------------------
(* The sweep. *)

(* m_symbol.sweep(): under the lock of the table, names nobody refers to    *)
(* leave it; some time later the read barrier is no longer needed.          *)
SweepTable ==
  /\ cpc = "table" /\ mpc # "lookup"
  /\ interned' = interned \cap mark
  /\ cpc' = IF phase = "sweep" THEN "swept_table" ELSE "sweep"
  /\ UNCHANGED <<live, field, machine, marking, shade_queue, barriers, request, world, phase,
                 retries, mutator, wakes>>

ReadBarrierOff ==
  /\ cpc = "swept_table"
  /\ read_barrier' = FALSE
  /\ cpc' = "sweep"
  /\ UNCHANGED <<memory, marking, shade_queue, write_barrier, alloc_barrier, wavefront,
                 request, world, phase, retries, mutator, wakes>>

(* object_slab_cache_t::sweep() of a slab that stays with its cache: it is  *)
(* off the lists of the cache meanwhile, so nothing is allocated in it.     *)
SweepSlab_Skip ==
  /\ cpc = "sweep" /\ wavefront <= N
  /\ mark' = mark \ {wavefront}
  /\ wavefront' = wavefront + 1
  /\ UNCHANGED <<memory, mark_stack, cur, shade_queue, write_barrier, read_barrier,
                 alloc_barrier, request, world, cycle, mutator, wakes>>

SweepSlab ==
  /\ cpc = "sweep" /\ wavefront <= N
  /\ live' = IF wavefront \in mark THEN live ELSE live \ {wavefront}
  /\ field' = IF wavefront \in mark THEN field ELSE [field EXCEPT ![wavefront] = Nil]
  /\ mark' = mark \ {wavefront}
  /\ wavefront' = wavefront + 1
  /\ UNCHANGED <<interned, machine, mark_stack, cur, shade_queue, write_barrier, read_barrier,
                 alloc_barrier, request, world, cycle, mutator, wakes>>

(* All slabs are swept: of a concurrent cycle, and of one that stopped the world. *)
Swept ==
  /\ cpc = "sweep" /\ wavefront = Done /\ phase = "sweep"
  /\ alloc_barrier' = FALSE
  /\ cpc' = "finish"
  /\ UNCHANGED <<memory, marking, shade_queue, write_barrier, read_barrier, wavefront,
                 request, world, phase, retries, mutator, wakes>>

SweptStopped ==
  /\ cpc = "sweep" /\ wavefront = Done /\ phase = "synchronized"
  /\ StartTheWorld("synchronized")
  /\ UNCHANGED <<memory, marking, shade_queue, barriers, request, root_snapshot, retries,
                 mutator>>

Finish ==
  /\ cpc = "finish"
  /\ kicked' = FALSE /\ cpc' = "top" /\ phase' = "none"
  /\ UNCHANGED <<memory, marking, shade_queue, barriers, ready, terminating, world,
                 retries, mutator, wakes>>

(* A condition variable may wake a waiter that nobody signalled. *)
SpuriousWake ==
  /\ Spurious
  /\ \/ cpc \in CollectorWaits /\ ~cwake /\ cwake' = TRUE /\ UNCHANGED mwake
     \/ mpc \in MutatorWaits /\ ~mwake /\ mwake' = TRUE /\ UNCHANGED cwake
  /\ UNCHANGED <<memory, marking, shade_queue, barriers, request, world, cycle, mutator>>

------------------------------------------------------------------------------
(* What the program decides to do ... *)
Program ==
  \/ \E c \in Cells, v \in stack \cup {Nil} : AllocCell(c, v) \/ Write(c, v) \/ SetReg(v)
  \/ \E c \in Cells : InternNew(c) \/ Intern(c) \/ InternBarrier(c) \/ Drop(c)
  \/ Read \/ Kick \/ Terminate

(* ... and what the code that it has called goes on to do. *)
MutatorStep ==
  \/ InternMark
  \/ BarrierPut \/ BarrierFull \/ BarrierTest \/ BarrierYield \/ BarrierKick
  \/ BarrierRetry \/ StoreDone
  \/ RootPut \/ RootFull \/ RootKick \/ RootWake
  \/ StopEnter \/ StopWake \/ ExitStop \/ ExitWake \/ Exit

CollectorStep ==
  \/ Start \/ Quit \/ Rest \/ Awaken \/ BeginConcurrent \/ BeginSynchronized
  \/ StopWait \/ Drain \/ Drained \/ HaltedGlobals \/ HaltedLocals \/ HaltedFinal
  \/ FinalDrain \/ FinalDrained \/ SerialTrace \/ SerialTimeout
  \/ BeginSweep \/ BeginStoppedSweep \/ ResumeWait
  \/ MarkQueue \/ MarkPop \/ MarkScan \/ MarkMore
  \/ MarkedGlobals \/ MarkedInherents \/ MarkedLocals
  \/ SweepTable \/ ReadBarrierOff \/ SweepSlab \/ Swept \/ SweptStopped \/ Finish

Next == Program \/ Poll \/ MutatorStep \/ CollectorStep \/ SpuriousWake

Spec == Init /\ [][Next]_vars

(* Both threads are scheduled; the mutator gets m_collector_lock if it is    *)
(* free again and again, and polls m_stop_the_world again and again however *)
(* busy it is (vm1.cpp polls at every apply).                               *)
FairSpec == Spec /\ WF_vars(CollectorStep) /\ SF_vars(MutatorStep) /\ SF_vars(Poll)

------------------------------------------------------------------------------
MemoryType ==
  /\ live \in SUBSET Cells
  /\ field \in [Cells -> Cells \cup {Nil}]
  /\ interned \in SUBSET Cells
  /\ stack \in SUBSET Cells
  /\ reg \in Cells \cup {Nil}

MarkingType ==
  /\ mark \in SUBSET Cells
  /\ mark_stack \in SUBSET Cells
  /\ cur \in Cells \cup {Nil}
  /\ cpc = "scan" => cur # Nil
  /\ shade_queue \in Seq(Cells)
  /\ Len(shade_queue) <= ShadeCapacity

FlagType ==
  /\ write_barrier \in BOOLEAN /\ read_barrier \in BOOLEAN /\ alloc_barrier \in BOOLEAN
  /\ kicked \in BOOLEAN /\ ready \in BOOLEAN /\ terminating \in BOOLEAN
  /\ stop_the_world \in BOOLEAN /\ mutator_stopped \in BOOLEAN
  /\ cwake \in BOOLEAN /\ mwake \in BOOLEAN

CollectorType ==
  /\ root_snapshot \in {"none", "globals", "locals", "everything", "retry"}
  /\ cpc \in CollectorWaits \cup {"start", "top", "halted", "drain", "final_drain", "serial",
                                  "mark", "pop", "scan", "table", "swept_table", "sweep",
                                  "finish", "gone"}
  /\ phase \in {"none", "globals", "locals", "final", "synchronized", "sweep",
                "mark globals", "mark inherents", "mark locals"}

CounterType == wavefront \in 1 .. Done /\ retries \in 0 .. MaxRetries

MutatorType ==
  /\ mpc \in MutatorWaits \cup {"run", "lookup", "barrier", "full", "unmarked", "store",
                                "roots", "root_full", "root_put", "exiting", "gone"}
  /\ store \in (Cells \cup {Nil}) \X (Cells \cup {Nil})
  /\ mpc = "lookup" => store[1] # Nil
  /\ mpc \in {"barrier", "full", "unmarked", "store_wait", "store"}
       => store[1] # Nil /\ store[2] # Nil
  /\ todo \in SUBSET Cells

TypeOK == MemoryType /\ MarkingType /\ FlagType /\ CollectorType /\ CounterType /\ MutatorType

------------------------------------------------------------------------------
(* A thread that ends lets go of its stack and its registers. *)
Ended == mpc \in {"exiting", "exit_wait", "gone"}

Heap == INSTANCE GcHeap WITH stack <- IF Ended THEN {} ELSE stack,
                             reg   <- IF Ended THEN Nil ELSE reg

(* With all its concurrency the collector does to the heap what GcHeap      *)
(* says: it frees a cell, or forgets a name, only when the machine cannot   *)
(* reach it, whatever the machine reads, writes, allocates and interns      *)
(* while the collector marks and sweeps.                                    *)
RefinesHeap == Heap!Spec

(* Every reachable cell that the sweep has still to visit is marked: what   *)
(* marking must have achieved when the sweep begins, and what the machine   *)
(* must not undo while the sweep goes on.                                   *)
UnsweptMarked == \A c \in (wavefront .. N) \ mark : c \notin Heap!Reachable

(* A cycle begins with no mark left by the one before on a cell that refers *)
(* to others: it would pass for traced, and what it refers to would be      *)
(* lost.  Behind the wavefront of the sweep no such cell is marked.  (A     *)
(* name can keep a mark: one that was looked up just before the read        *)
(* barrier went off is marked after its slab has been swept.)               *)
MarksCleared ==
  /\ phase \in {"none", "sweep"} => \A c \in mark \ Names : c >= wavefront
  /\ cpc = "finish" => mark \subseteq Names

(* The collector trusts the world to stand still where it says so: no lost, *)
(* early or spurious wakeup lets the machine run there.                     *)
WorldStopped ==
  cpc \in {"halted", "final_drain", "serial"}
      \/ (phase = "synchronized" /\ cpc \in {"table", "sweep"})
    => mutator_stopped /\ mpc \in {"stopped", "exit_wait"}

------------------------------------------------------------------------------
(* What CollectorProofs needs besides to prove MarksCleared and WorldStopped: *)
(* which phase the collector can be in at each place, that the machine stops  *)
(* only inside its two waits, and what the mark bits hold while they are      *)
(* swept and until the next cycle.                                            *)
PhaseShape ==
  /\ cpc \in {"start", "top", "idle_wait", "gone"} => phase = "none"
  /\ cpc \in {"stw_wait", "drain", "halted"}
       => phase \in {"globals", "locals", "final", "synchronized"}
  /\ cpc \in {"final_drain", "serial"} => phase \in {"final", "synchronized"}
  /\ cpc \in {"mark", "pop", "scan"}
       => phase \in {"mark globals", "mark inherents", "mark locals"}
  /\ cpc = "resume_wait" => phase \in {"mark globals", "mark locals", "sweep", "synchronized"}
  /\ cpc \in {"table", "sweep", "finish"} => phase \in {"sweep", "synchronized"}
  /\ cpc = "swept_table" => phase = "sweep"

StopShape == mutator_stopped => mpc \in {"stopped", "exit_wait"}

AfterMarking ==
  \/ phase \in {"none", "sweep"}
  \/ phase = "synchronized" /\ cpc \in {"table", "sweep", "resume_wait", "finish"}

SweepShape ==
  /\ AfterMarking => \A c \in mark \ Names : c >= wavefront
  /\ cpc = "finish" \/ phase = "none" \/ (phase = "synchronized" /\ cpc = "resume_wait")
       => wavefront = Done
  /\ alloc_barrier => phase = "sweep" /\ cpc # "finish"

NamesShape == interned \subseteq Names /\ (mpc = "lookup" => store[1] \in Names)

IInv == TypeOK /\ PhaseShape /\ StopShape /\ WorldStopped /\ SweepShape /\ NamesShape

------------------------------------------------------------------------------
(* What is needed besides to prove UnsweptMarked and RefinesHeap. *)

(* The handshake: the machine answers the stop it was asked for and no other. *)
RootPlaces == {"roots", "root_full", "root_wait", "root_put"}

HandshakeShape ==
  /\ mpc \in {"stopped", "exit_wait"} => mutator_stopped /\ (stop_the_world \/ cpc = "resume_wait")
  /\ mpc \in RootPlaces => cpc \in {"stw_wait", "drain"}
  /\ stop_the_world <=>
       \/ cpc \in {"stw_wait", "drain", "halted", "final_drain", "serial"}
       \/ phase = "synchronized" /\ cpc \in {"table", "sweep"}
  /\ phase \in {"mark locals", "final"} => root_snapshot \in {"everything", "retry"}
  /\ phase = "synchronized" => root_snapshot = "everything"

(* Which barrier is on when, and what a pending store is about. *)
BarrierPlaces == {"barrier", "full", "unmarked", "store_wait", "store"}

BarrierShape ==
  /\ write_barrier <=>
       \/ phase \in {"mark globals", "mark inherents", "locals", "mark locals"}
       \/ phase = "final" /\ cpc \in {"stw_wait", "drain", "halted"}
  /\ alloc_barrier <=> phase = "sweep" /\ cpc # "finish"
  /\ read_barrier <=> phase = "sweep" /\ cpc \in {"resume_wait", "table", "swept_table"}
  /\ mpc \in BarrierPlaces => write_barrier

StoreShape ==
  /\ mpc \in BarrierPlaces => store[1] \in stack \ Names /\ store[2] \in stack
  /\ mpc = "lookup" => store[1] \in interned
  /\ \A c \in Names : field[c] = Nil

(* Where the sweep stands, and that marking begins with names marked only. *)
TableWaits == cpc = "table" \/ (cpc = "resume_wait" /\ phase = "sweep")

WaveShape ==
  /\ wavefront # Done => phase = "sweep" \/ cpc \in {"table", "sweep"}
  /\ TableWaits \/ cpc = "swept_table" => wavefront = 1
  /\ cpc # "scan" => cur = Nil
  /\ cpc = "scan" => cur \in mark
  /\ cpc = "serial" => shade_queue = <<>>
  /\ phase = "globals" \/ (phase = "synchronized" /\ cpc \in {"stw_wait", "drain", "halted"})
       => mark \subseteq Names

(* The cells that marking has seen: marked, or grey and so still to be marked. *)
Queued == {shade_queue[i] : i \in DOMAIN shade_queue}
Seen   == mark \cup mark_stack \cup Queued

(* The tri-colour invariant: a traced cell refers to no cell unseen, and what *)
(* the machine is about to store is seen.                                     *)
TriColour   == ~AfterMarking => \A c \in mark \ {cur} : field[c] \in Seen \cup {Nil}
PendingSeen == mpc = "store" => store[2] \in Seen

(* The roots become seen: those of the heap once, those of the machine each *)
(* time it stops.                                                           *)
RootsSeen ==
  /\ phase \in {"mark inherents", "locals", "mark locals", "final", "synchronized"}
        /\ ~AfterMarking
       => Env \in Seen
  /\ mpc \in RootPlaces => RootsFor(root_snapshot) \subseteq todo \cup Seen
  /\ mpc = "stopped" /\ stop_the_world /\ ~AfterMarking => RootsFor(root_snapshot) \subseteq Seen

(* What marking achieves and the machine keeps while the sweep goes on: the *)
(* cells that are marked, or behind the wavefront, refer to each other only *)
(* and hold every root.  Once the table is swept they hold the names too.   *)
Passed == mark \cup 1 .. wavefront - 1

SweepClosed ==
  /\ \A c \in Passed : field[c] \in Passed \cup {Nil}
  /\ Env \in Passed
  /\ ~Ended => stack \cup ({reg} \ {Nil}) \subseteq Passed
  /\ ~TableWaits => interned \subseteq Passed

(* Nothing is grey once marking is over, no root is left to be put once the *)
(* machine has stopped.                                                     *)
GreyShape ==
  /\ AfterMarking => mark_stack = {} /\ shade_queue = <<>>
  /\ mpc \notin RootPlaces => todo = {}

(* What is seen is allocated, and so is every root and every name; what a   *)
(* cell refers to that the sweep cannot free any more is allocated too; a   *)
(* free cell refers to nothing.                                             *)
SeenLive == Seen \cup todo \subseteq live

HeapLive ==
  /\ interned \cup {Env} \subseteq live
  /\ ~Ended => stack \cup ({reg} \ {Nil}) \subseteq live
  /\ \A c \in live \cap Passed : field[c] \in live \cup {Nil}
  /\ \A c \in Cells \ live : field[c] = Nil

SafetyInv ==
  /\ HandshakeShape /\ BarrierShape /\ StoreShape /\ WaveShape
  /\ TriColour /\ PendingSeen /\ RootsSeen /\ SweepClosed
  /\ GreyShape /\ SeenLive /\ HeapLive

------------------------------------------------------------------------------
(* A collection that was asked for ends. *)
CycleEnds == kicked ~> (~kicked \/ cpc = "gone")

(* The machine always gets on: out of the barrier with a full queue, out of *)
(* the roots, out of the stopped world.                                     *)
MachineResumes ==
  (mpc \notin {"run", "exiting", "exit_wait", "gone"}) ~> (mpc = "run")

(* The end of a thread does not wait for ever for its collector. *)
TeardownEnds == (mpc = "exiting") ~> (mpc = "gone")

(* What is out of reach when a cycle begins is free before the next. *)
Garbage(c) == c \in live \ (Heap!Reachable \cup interned)

GarbageGoes ==
  \A c \in Cells : (cpc = "top" /\ kicked /\ Garbage(c)) ~> (c \notin live \/ cpc = "gone")
==============================================================================
