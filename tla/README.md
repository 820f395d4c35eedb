# A TLA+ model of the Ypsilon Scheme system

Ypsilon is a Scheme implementation in C++ with a concurrent garbage collector
and parallel virtual machines.  This directory holds TLA+ modules for the parts
of it where threads meet and for its exact arithmetic, TLC configurations that
check them on small instances, and theorems about them that TLAPS checks for
every instance.  The code is under `src/src/`; the build that is modelled is the
default one on a 64-bit POSIX system (`CONCURRENT_COLLECT`, `USE_PARALLEL_VM`,
`LOCKFREE_ALLOC`, `THREAD_LOCAL_SLAB_CACHE` on, `USE_SPINLOCK`, `USE_DIGIT64`,
`HPDEBUG` off).

`PROJECT.json` lists components, runs, mutants, findings, hazards and theorems,
and maps every definition to the lines it models.

## The system

Each virtual machine (VM) runs Scheme code in a thread of its own, over a heap
of its own, with a collector thread of its own.  `spawn` starts a child VM, which
may read the objects of its ancestors but modifies only its own.  VMs talk over
shared queues and shared bags, through which objects travel in serialized form.

| component | source | state | operations | what makes it correct | module |
|---|---|---|---|---|---|
| `sync_queue_t` | `queue.h` | ring, `n`, `n_more_get/put`, `terminate`, a mutex, two condition variables | `put`, `get`, timed and try forms, `shutdown` | FIFO, no lost wakeup, shutdown releases everybody | `SyncQueue`, `BoundedFifo` |
| `fifo_buffer_t` | `queue.h` | byte ring, tags | `put`, `size`, `get`, `empty` | each datum comes back once, unchanged; empty again when all are taken | `FifoBuffer` |
| collector | `object_heap.cpp` | handshake flags, barriers, mark stack, shade queue | `concurrent_collect`, `synchronized_collect`, `collect`, `write_barrier`, `enqueue_root` | nothing reachable is freed, garbage is, both threads get on | `Collector`, `GcHeap` |
| slab caches, page pool | `object_slab.cpp`, `object_heap.cpp` | vacant and occupied rings, free lists, mark bitmaps, page map | allocate, sweep, return a slab, the page loop | lists and counters agree; a cycle reclaims what it condemned, nothing else | `SlabSweep`, `SweptHeap` |
| intern tables | `object_set.cpp` | open hash table | `get` with read barrier, `put`, `sweep`, `protect` | a name found is never freed | `Collector` (as a set) |
| thread table | `interpreter.cpp` | rows with state and parent, `m_live`, `m_child` | `spawn`, `update`, end of a thread | a parent outlives its children | `ThreadTable`, `ThreadTree` |
| remember set | `interpreter.cpp`, `object_heap.cpp` | per object a bit for each thread; arguments in the rows | `remember`, `snapshot`, `clear` | what a child can reach is kept | `RememberSet` |
| shared queue, shared bag | `subr_thread.cpp`, `bag.cpp` | a queue and a byte ring, per key for a bag | push, pop, put, get, shutdown, lookup | every message delivered once, whole, in order, to its key | `SharedBag`, `Mailbox` |
| VM safepoint | `vm0.cpp`, `vm1.cpp` | registers, stack | `stop` | all roots are handed over | `Collector` |
| exact numbers | `arith.cpp`, `subr_base_arith.cpp`, `subr_r5rs_arith.cpp`, `subr_bitwise.cpp` | none | the four operations, division, powers, roots, bits, comparison, printing, reading | the result is the number it should be, in the one form the code relies on | `Bignum`, `Fractions`, `Numbers`, `Procedures`, `Calculator` |
| fixnums, bytevectors | `subr_fixnum.cpp`, `subr_bvector.cpp` | octets | fixnum arithmetic; integers in octets, fills, copies | right or refused; what is stored is read back | `Fixnums`, `Bytevectors`, `Calculator` |
| compactor, hash tables, serializer, ports, reader, text, bytecode machine, FFI, OS | see "Not modelled" | | | | |

How they interact: the VM calls the allocator and the barriers directly; VM and
collector share `m_collector_lock`, two condition variables, the flags and the
shade queue (a `sync_queue_t`); collector and allocator share the slab lists
(under the lock of the cache), the wavefront and the bitmaps; parent and child
heaps meet in the primordial symbol table, the thread table and the remember
set; a slot of a bag is a `sync_queue_t` of identifiers beside a `fifo_buffer_t`.

Hard behaviours: a shutdown without the mutex; a write barrier against concurrent
marking; a bounded shade queue between two threads that wait for each other; a
handshake whose condition variables are signalled for several reasons; the retry
after 5 ms of serial marking; allocation and symbol lookup while the sweep goes
on, partly with no lock at all; a page that changes hands while the collector
looks at it; the end of a thread in the middle of a cycle; grandchildren that
outlive their parent's activity, and addresses that come back; a ring that wraps,
grows and gives up space in any order; a slot that changes its key; carries and
corrected quotient digits.  `PROJECT.json` has the list of hazards with their
lines and properties; five have none:

- a timed wait starts its whole timeout again at every turn (`queue.h:700`): the
  models have no clock;
- `weak-mapping-key` has no barrier (`subr_others.cpp:505`) and `trace` walks weak
  hash tables without their lock (`object_heap.cpp:1087`): cells of `Collector`
  have one strong field;
- a bag that grows follows pointers it did not set (`bag.cpp:56`): undefined
  behaviour, of which `SharedBag` says nothing more;
- `bn_div` shifts its denominator in place and back (`arith.cpp:498`), which
  another thread may see: `Calculator` has one thread.

## Modules

### SyncQueue, BoundedFifo

`SyncQueue` is `sync_queue_t`.  Its variables have the names of the fields, plus
`lock`, and for each thread `pc`, `op` (its call) and `result`.  The mutex
makes what a call does under it one step, with one exception: `terminate` is
written by `shutdown()` without the mutex, so the test of `terminate` and the
increment of `n_more_*` are separate (`PutFull`/`PutSleep`, `GetEmpty`/
`GetSleep`, with the mutex held in between).  Waking and taking the mutex again
are separate steps too (`"woken"`, `"expired"`); `SpuriousWake` can wake any
sleeper and `Expire` can end any timed wait at any moment: there is no clock.
`pthread_cond_signal` wakes one sleeper, any.  `shutdown()` is the flag, one
read of each counter, and the two signals under the mutex, in a loop; the order
in which the code reads the two counters of the sum is up to the compiler, the
model reads `n_more_get` first.  `try_put` and `try_get` may also fail when
another thread is inside a call, as `pthread_mutex_trylock` does; a thread that
sleeps there does not hold the mutex, so the model lets a few more tries fail
than the code.

`BoundedFifo` is what the queue promises: a sequence, a flag, and for each
pending call when it may take effect or be refused.  `RefinesFifo` maps the ring
read from `head` to the sequence; each call takes effect at one instant.

Left out: `clear` (no caller), `destroy`, the Windows version, element copying.

### Collector, GcHeap

`GcHeap` is what a heap promises its VM: cells, one reference field each, roots,
a table of names that does not keep its names alive.  Cells out of reach may
disappear (`Reclaim`), names with them (`Unintern`), and when the thread ends it
has no roots any more (`End`).  There is no collector in it.  `NoDangling` says
that whatever can be reached, and every name in the table, is a cell that was
not freed.

`Collector` is the collector thread and one VM.  The collector holds
`m_collector_lock` except inside `m_collector_wake.wait()`, so no variable is
needed for the lock: it is free when `cpc` is a waiting place.  `cpc` and
`phase` say where `concurrent_collect`, `synchronized_collect` and
`collector_thread` are:

| `cpc` | code |
|---|---|
| `top`, `idle_wait` | the loop of `collector_thread` |
| `stw_wait`, `drain` | `while (!m_mutator_stopped) { wait; dequeue_root; signal; }` |
| `halted` | after that loop |
| `resume_wait` | `while (m_mutator_stopped) wait` |
| `mark`, `pop`, `scan` | `concurrent_marking`, `trace` |
| `final_drain`, `serial` | `dequeue_root`, `serial_marking` with the world stopped |
| `table`, `swept_table`, `sweep`, `finish` | the sweep of the names, the barrier off, the slabs, the end |

`mpc` does the same for the VM: running, inside `write_barrier` (`barrier`,
`full`, `unmarked`, `store_wait`, `store`), inside `VM::stop` (`roots`,
`root_full`, `root_wait`, `root_put`, `stopped`), inside a symbol lookup
(`lookup`) and ending (`exiting`, `exit_wait`, `gone`).  `cwake` and `mwake`
say that a signal, or nothing at all (`SpuriousWake`), has reached a waiting
thread; a signal that finds nobody waiting is lost, as in pthreads.

Where the model is coarser than the code:

- A cell has one field and there is one cell in a slab; `trace` of a cell with
  more references is the same step repeated.  Several objects in a slab, the
  page map and the return of slabs are `SlabSweep`.
- The shade queue is a bounded sequence.  That is what `RefinementCorrect`
  proves of `sync_queue_t`.  `try_get` may fail when the VM holds the mutex of
  the queue; the loop of `concurrent_marking` comes back for `count()`, so the
  model lets it succeed.
- The mark stack is a set.  A cell can be on it after it was marked, as in the
  code.
- `collect()` is called when enough bytes have been allocated or by the program:
  `Kick` may happen at any time.  Which kind of cycle runs depends on the use of
  the pool: both may (`Modes`).
- The roots are the stack and one register, and `Env` stands for the
  environments and inherents that `concurrent_collect` shades itself.  A VM that
  has ended has no roots; its last `stop` hands none over.
- Children are in `RememberSet`.  Weak mappings, the frames that `save_stack`
  moves to the heap and the vector for more than eight arguments are not there.
- In a synchronized cycle the code does not assign `m_write_barrier`; it is
  false already and the model assigns false again.

### SlabSweep, SweptHeap

`SweptHeap` is what allocation and sweep promise together: a cycle condemns some
of the objects that exist; those and no others are reclaimed, and all of them
are before the next cycle condemns anything.

`SlabSweep` is one slab cache, the page map, and the page loop of
`concurrent_collect` beside a VM that allocates.  Marking is one step with the
world stopped (`Collector` is about how it gets there); from then on the
collector walks the pages.  `cpc` is its place:

| `cpc` | code |
|---|---|
| `idle` | between two cycles |
| `look` | reads the usage count and the tag of a page, with no lock |
| `skip` | the page is no slab: takes `m_lock`, compares the count, and goes on to the next slab |
| `sweep`, `detached` | `object_slab_cache_t::sweep` before and after it takes the slab out of its ring |
| `returned` | the empty slab went back to the pool, the wavefront is still in front of it |
| `attach` | swept, the wavefront behind it, about to go into its ring again |

`mpc` is `new_collectible_object`: `unload` (the slab it has just filled goes to
the other ring), `init` (a page taken from the pool becomes a slab), `born` (the
first object of that slab is about to be marked if the wavefront has not passed).  The path that takes
an object from the first vacant slab without the lock, behind the wavefront, is a
step of its own.  `doomed` is a history variable: what was unmarked when the
cycle began and is not yet reclaimed.

Left out: slabs of private objects (`new_object`), which are pages that come and
go (`Privates`), runs of several pages, and objects of other sizes; a heap has a
cache for each size, and they meet only in the page map.

### ThreadTable, ThreadTree

`ThreadTree` is what the thread table promises: threads form a tree, and the heap
of a thread is deleted only when the thread has ended and no heap of a child is
left, because a child reads its parent's objects.

`ThreadTable` is the table with `spawn`, `update` and the end of
`mutator_thread`.  A step is one critical section under `m_lock`; `delete vm`,
which happens without it, is a step of its own.  `state`, `vm` and `parent` are
the fields of the rows; `pc` says where the thread of a row is:

| `pc` | code |
|---|---|
| `run` | Scheme code |
| `call` | `subr_spawn`, or a call that may block, after `update(vm, VM_STATE_BLOCK)` |
| `spawned` | `spawn` has returned |
| `ended` | `run(false)` has returned and the collector of the heap is gone |
| `wait` | `notify.wait`, in state SYNC |
| `delete`, `deleted` | the lock is given up; the VM is deleted |
| `none` | the row is free |

A VM is known to `update` by its address.  `allocated` is the set of addresses
in use, and `new VM` may return any other one: rows keep the address of a VM that
was deleted, and rows that were never used hold whatever the memory held.
`Unshared` says that no two rows hold the same address.
A spawn that finds no free row leaves the table alone, so it is not a step; it
ends in `Unblock` when it times out.  The thread ends in `End` after the
handshake with its collector, which is in `Collector`.

**Addresses that come back.**  `RowsTellState` and `EndedGoes` have `[]Unshared`
as their hypothesis, and TLC violates both without it (`EndedGoes` with four rows
and three addresses).  A VM that is created at the address of one that was
deleted has two rows with it, and `update` (`interpreter.cpp:252`) changes the
first: if that is the old one it goes from FREE to BLOCK or ACTIVE, though no
thread belongs to it, the row is lost to `spawn`, and the thread in the parent's
row waits for it when it ends (`interpreter.cpp:226`), for ever, since `update`
never writes FREE.  Meanwhile the row of the new VM keeps the state it had.  No
comment, document or test speaks of it, so it is not listed as a finding.
`ParentOutlives`, `ChildrenCounted`, `LiveCounted` and `RefinesTree` hold
nevertheless, as the theorems show: an extra row can make a thread wait too long,
never too short.

Left out: `display_status`, names, `destroy`, uuids, signals that interrupt `run`.

### RememberSet

What keeps the objects of one heap alive for the threads its owner has spawned,
directly or not.  Thread 0 owns the heap; `held` is what each thread refers to in
it; `param` are the arguments in the row of a child and `m_remember_set` the
entries with the bits of the threads that were active when they were made.  A
write of the owner is two steps, `remember` with the barrier and then the store
(`BeginWrite`, `EndWrite`), since a child may load the old value in between.
`Remember` is `remember(lhs, rhs)`: unless the old value is behind the new one it
enters the new one.  A write to the global variable calls it as soon as there is
a second thread (`vm1.cpp:1267`), a write to another object when the heap has a
child (`Barred`).  A cycle marks in one step when it begins, asks for roots (`Snapshot`) when it
ends, and may fall back and ask again.

The code keeps less than the threads can reach.  `forgotten` is a history
variable of the cells given up, and `HeldKept` says that a thread never loses
anything else.  There are four ways:

1. a thread that ends takes its bit out of the entries (`interpreter.cpp:217`)
   though its own children, for which it waits, rely on them;
2. its arguments are no longer kept once it is in state SYNC
   (`interpreter.cpp:328`), and its children may use those too;
3. a snapshot drops an entry that is marked already (`interpreter.cpp:522`),
   also when it was marked before it was entered: it survives this cycle and not
   the next;
4. a write does not enter what it overwrites (`interpreter.cpp:411`).  An
   overwritten object is given up (`CutOff`) unless it can still be found behind
   the new value once that is stored, or is in the set from an earlier write, by
   which it was the new value, with a bit for every thread that runs
   (`EnteredForAll`).  This holds whether `remember` skipped it, because it was
   behind the new value by way of the very cell that is written
   (`interpreter.cpp:408`), entered the new value instead, or was not called at
   all, because `m_child` is zero while grandchildren still run
   (`interpreter.cpp:216`).

TLC violates `HeldKept` without any one of them.  The fourth is finding 4; no
document or comment says otherwise of the other three.  So what the table and the
set do keep for a thread are the arguments of its ancestors while these run, and
the objects that writes have put somewhere and that have not been marked since.

Left out: the table of the remember set (open addressing), symbols of the
primordial heap, heaps of children as owners of their own (the same code; the
model is of one owner), and fields beyond one.

### FifoBuffer, SharedBag, Mailbox

`FifoBuffer` is `fifo_buffer_t` as a pure structure: a record of size, head,
tail, tags and bytes, and an operator for each member function.  A pointer is its
distance from `top`.  When a ring grows, `realloc` moves it by some `m` of
`Moves`, and `expand_buf` lets `head`, `tail` and the tags follow by
`int offset = p - top` (`queue.h:975`).  Where `m` is no int they end up
`AsInt(m) - m` away from where they belong (`Displaced`), and the put that made
the ring grow writes there.  The same holds of a new size that is no int.  `Wild`
says that a put does either; what the program does from there is undefined.

`Mailbox` is what a slot promises: each message delivered once, as it was sent, in
the order the box took them in, as long as the program has not run into undefined
behaviour (`broken`).

`SharedBag` composes rings and queues: a slot is a ring of message bytes and a
queue of their identifiers.  The queue takes and yields at one instant, as
`BoundedFifo` says and `SyncQueue` is proved to do; each call of the ring holds
the lock of the ring.  `th` has the call of each thread: `store` (a message to be
serialized into the ring), `put`, `wait to put`, `get`, `wait to get`,
`received`.  A put that fails, by a timeout or a shutdown, leaves its bytes in
the ring for good (`subr_thread.cpp:195`); `lost` records them and `Accounted`
says that there are no others.  `lookup_sharedbag` gives a slot to a key, takes
one from a key whose ring is empty (`bag.cpp:44`), and grows the bag when there
is none; what happens then is undefined (`bag.cpp:56`).  After that, as after a
wild put, `Defined` is false: the model stops, and the properties, which are about
a program with defined behaviour, say nothing more of it.

Two exceptions are in the properties because TLC violates them otherwise: a
message that ends exactly at `bottom` is not wrapped (`queue.h:1021`), so its
ring never looks empty again and only grows (`EndsAtBottom` in `Tiled`; nothing
is lost or garbled); and with more keys than slots a thread that waits in a
queue may receive what was sent under another key (`EnoughSlots` in `RightKey`;
the bag is made with 32 slots, `MAX_VIRTUAL_MACHINE`).

Left out: the serializer (a message is its bytes), the deadlines of timed calls
(a wait may give up at any time; a call without a timeout is one that never
does), the states ACTIVE and BLOCK around a wait, which are `ThreadTable`'s.
`empty()` reads head and tail without the lock of the ring, and is one step.

### Digits, ExactIntegers, Bignum, Fractions, Numbers, Procedures, Fixnums, Bytevectors, Calculator

`Digits` has the digit loops of `arith.cpp` on sequences of digits: sum,
difference, product, division by a digit, shift and comparison.  `Bignum` has
the long division, which estimates a digit and corrects it, and the square root.
`ExactIntegers` has the integers built on them: fixnums that promote and come
back, the four operations, quotients in their kinds, roots, comparison and the
bits of two's complement.  `Fractions` has the exact reals: fractions, reduced by
Euclid's loop on words or by the binary algorithm on bignums, their arithmetic,
rounding, comparison and the integer division of R6RS.  None of the four has a
RECURSIVE operator (a loop of the code is a function of the number of turns):
they are what the proofs are about.  `Numbers` has the rest of the exact numbers:
rectangular complex numbers, powers, exact roots, bit operations, words, printing
and reading.  `Procedures` are the Scheme procedures over
argument lists with what they refuse, `Fixnums` those of
`(rnrs arithmetic fixnums)`, `Bytevectors` integers in octets.  A digit and a
machine word have `DigitBits` bits, a fixnum one less, and an octet a quarter.

`Calculator` is a program that holds one object `x` and calls procedures on it
and on operands; what a call leaves in `x` the next call takes.  `z` is what `x`
ought to be, computed beside it with the integers of TLA+.

Left out: flonums and whatever returns one, number syntax but integers, text and
IEEE numbers in bytevectors, exponents that are no integers.

Some answers of the code are not what the names of the procedures promise.  The
model follows the code, and the program of `Calculator` does not go on from
there, or the property names the exception: a fraction whose denominator is the
magnitude of the least fixnum (`arith.cpp:1251`), the quotient of that and -1
(`3275`), the root of `k*k - 1` for `k` above 2^26, which `exact-integer-sqrt` of a
fixnum below 2^53 takes from a double that is rounded up to `k` (`3923`:
4503599761588224 gives 67108865 and leaves -1), a fixnum that is shifted right by
two words or more, for which C++ defines nothing (`2752`; the model shifts by the
remainder, as the processors do), `=` of bignums, which looks at magnitudes only (`2141`), the bit count
of 0 (`2574`), fixnum products that wrap around to a fixnum
(`subr_fixnum.cpp:361`) and the arguments that `fx-`, `fxif`, `fxcopy-bit` and
`fxbit-field` never look at, `bytevector-s64-set!` in big-endian order, which
writes half of the octets (`subr_bvector.cpp:757`), and the values beyond a byte
that `c_n8_set` takes (`1395`).  No document says otherwise of any of them, so
they are no findings.

### Proof modules and instances

| module | about | theorems |
|---|---|---|
| `SyncQueueProofs` | `SyncQueue` | types, counters, no lost wakeup, implements `BoundedFifo` |
| `CollectorProofs` | `Collector` | types, stopped world, clean marks; nothing reachable is freed, implements `GcHeap` |
| `SlabSweepProofs` | `SlabSweep` | types, rings, counter, implements `SweptHeap` |
| `ThreadTableProofs` | `ThreadTable` | types, counters, states, implements `ThreadTree` |
| `RememberSetProofs` | `RememberSet` | types, what is held is kept |
| `SharedBagProofs` | `FifoBuffer`, `SharedBag` | types, places, tiling, keys, implements `Mailbox` |
| `ArithmeticProofs` | `Digits`, `ExactIntegers` | the digit loops and the sums, differences and products of integers are exact |
| `DivisionProofs` | `Bignum`, `ExactIntegers`, `Fractions` | long division, quotient, remainder, modulo, square roots, shifts, complement, bit length and comparison are exact; so are fractions: lowest terms, one form, arithmetic, order, floor and ceiling, integer division |

The `MC` modules are the instances for TLC: they hold only the constants that a
`.cfg` file cannot write.

## Runs

| run | instance | checks |
|---|---|---|
| `sync_queue` | 3 threads, 1 datum, 1 slot, every kind of call but `try_put` | `TypeOK`, `CountersMatch`, `NoLostWakeup`, `RefinesFifo`, `ShutdownReturns`, `ShutdownReleasesSleepers`; no deadlock |
| `sync_queue_lost_wakeup` | 2 threads, 1 slot | `ShutdownReleasesEveryone`, violated: finding 1 |
| `collector_heap` | 3 cells (one of them a name), stack of 2, shade queue of 1, one retry, both kinds of cycle, the thread may end | `UnsweptMarked`, `RefinesHeap` |
| `collector_liveness` | 2 cells, stack of 2, queue of 1, one retry, both kinds of cycle, spurious wakeups, the thread may end | `TypeOK`, `WorldStopped`, `MarksCleared`, `CycleEnds`, `MachineResumes`, `TeardownEnds`, `GarbageGoes` |
| `thread_table` | 3 rows, 4 addresses that come back | `TypeOK`, `ParentOutlives`, `ChildrenCounted`, `LiveCounted`, `RefinesTree`, `RowsTellState`, `EndedGoes`; no deadlock |
| `slab_sweep` | 3 pages, 2 objects in a slab, one of them with a field, one empty slab kept, 2 roots, private pages | `TypeOK`, `RingsMatch`, `EmptiesCounted`, `RefinesSweep`, `SweepEnds` |
| `slab_stale_mark` | 2 pages, no empty slab kept | `RefsCollectible`, violated: finding 2 |
| `remember_set` | 3 cells, the owner and 2 threads that hold one reference each, one entry in the remember set | `TypeOK`, `HeldKept` |
| `remember_overwritten` | 2 cells, the owner and 1 thread | `OverwrittenKept`, violated: finding 4 |
| `numbers` | digits of 4 bits; 21 integers, 5 fractions, 2 complex numbers as operands | `ResultsExact`, `OrderRight`, `BitsCounted`, `FixnumsRight`, `WordsHold`, `ReadsBackElsewhere`; no deadlock |
| `numbers_readback` | the same | `ReadsBack`, violated: finding 3 |
| `shared_bag` | 2 threads, 2 keys, a message of one byte and one of two, 2 slots, queues of one, rings of 3 to 5 bytes, which `realloc` leaves or moves by 5 or 6 bytes, ints from -6 to 5, one lost message; a queue, a bag of one slot, a bag of two | `TypeOK`, `Accounted`, `Tiled`, `RightKey`, `RefinesMailbox` |

TLC explores these instances completely.  Deadlock is not checked where the
system may stop: a thread that has ended and a collector that is gone
(`collector_heap`, `collector_liveness`), a full heap nobody works on
(`slab_sweep`, `slab_stale_mark`, `remember_set`, `remember_overwritten`), and a
bag after undefined behaviour (`shared_bag`).

### Bounds, and why they are enough

- `sync_queue`: three threads on one slot give a getter and a putter asleep with
  a third thread between them, and two sleepers on one condition.  `try_put`
  differs from `try_get` as `put` does from `get`.  A ring of one slot wraps at
  every element; longer rings and swapped data are covered by the theorems,
  which hold for every capacity and any data.
- `collector_*`: three cells are the fewest with a reachable cell hidden behind
  another one while a name comes and goes.  A shade queue of one is full at the
  second root or barrier, which is the interesting case for 4096 as well: nothing
  else in the code depends on its size.  One retry (`MaxRetries`) goes through
  the fallback once and then to the end; the code has no bound, and with none a
  cycle might fall back for ever.  `MaxStack` bounds the stack: two cells on it
  are needed to make one refer to the other.  `Spurious` is false where the state
  space is about the heap, true where it is about the handshake.
- `thread_table`: a root, a child and a grandchild, and one more address than
  rows, so that a new VM can be fresh when all rows have been used.  A thread
  that waits in SYNC for a child while a sibling comes and goes needs a fourth
  row: the theorems hold for any number.
- `slab_sweep`: three pages are a slab before, at and behind the wavefront, or
  two slabs and a page that changes hands.  `CacheLimit` is one; the code
  computes the limit from memory not yet set (`object_heap.cpp:265`), so it may
  be anything, which is what the theorems say.  `MaxCount` bounds the counter of
  empty slabs when a cycle begins: it drifts upwards, since a slab that becomes
  the first of its ring stays counted.
- `remember_set`: two threads are a child and a grandchild, or two children; `Env`
  and two cells are a list that a write can cut in the middle, and an old and a
  new value beside the variable they go through.  `MaxHeld` bounds the
  references of a thread, `MaxEntries` the entries of the remember set: one entry,
  with the bits of one thread or of both, is enough for each of the four ways; the
  theorems hold for any number of either.
- `remember_overwritten`: one child and two cells are enough for a counterexample
  of ten states.
- `numbers`: digits of four bits put the boundaries between fixnums, bignums of
  one digit, of two and of three within 260.  Powers go from -3 to 3 (-2 to 2
  for complex numbers, whose cubes are beyond the integers of TLC), shifts from
  -9 to 6 across more than two digits to the right, beyond which a fixnum is not
  shifted, and more than one to the left; an int has `IntBits` = 5 bits, which hold
  them.  A double has `DoubleBits` = 1 bit, so that the fixnums on either side of
  the limit below which the root is taken from a double are among the operands;
  where a double misses the root is proved (`RootMissed`).  Radices are 2, 3 and 5.  Argument lists have
  up to three elements (`Pairs` are the first and the last), enough for a loop
  that carries its result along.  Octets have one bit; four of them are 64 bits,
  two are 16 or 32, one is 8.
- `shared_bag`: a ring that would grow beyond 5 bytes has a size that is no int,
  so that all that is defined is explored; a move by 5 is an int and one by 6 is
  not.  `MaxLost` bounds the puts that fail.  Two keys on a bag of one slot are one key more
  than slots, on a bag of two as many.

### Fairness

In `SyncQueue` every thread inside a call is scheduled (weak fairness of `Step`);
nobody has to make a call, and no spurious wakeup and no timeout is forced.  In
`Collector` the collector thread is scheduled (weak fairness); the VM gets a
mutex that becomes free again and again (strong fairness of `MutatorStep`: the
collector waits on its condition variable in between), and polls
`m_stop_the_world` again and again however busy it is (strong fairness of `Poll`:
`vm1.cpp` polls at every application).  In `ThreadTable` a thread that has ended
is scheduled (weak fairness of `Teardown`: the locks are held for a moment,
nobody else competes for the row); nobody has to end.  In `SlabSweep` the
collector is scheduled, and the VM as long as it is inside
`new_collectible_object`; strong fairness of `SkipPages` says that the VM does
not for ever move a page exactly between the two reads of the usage count.
What the program decides to do has no fairness.  The other specifications have
none, and are checked for safety only.

## Findings

1. `sync_queue_lost_wakeup`: `shutdown()` (`queue.h:886`) sets `terminate` and
   reads `n_more_get + n_more_put` without the mutex.  A `get` that has just
   tested `terminate` under the mutex increments `n_more_get` after that, waits,
   and is never woken.  The examples in `sitelib/ypsilon/concurrent.scm` (lines
   259 and 261) show the error that a send or a recv on a mailbox that is shut
   down should end with.  What does hold is weaker: `ShutdownReleasesSleepers`,
   whoever sleeps while `shutdown()` still loops is let go.
2. `slab_stale_mark`: the page loop reads the usage count and the tag of a page
   without the lock (`object_heap.cpp:923`) and takes an unchanged count under
   the lock (`object_heap.cpp:954`) for an unchanged page.  A page that the VM
   releases and takes again for a slab in between is skipped; its first object
   was marked, since it lies ahead of the wavefront, and keeps the mark.  The
   next cycle takes it for traced and frees what it refers to, and a later one
   returns that page: `consistency_check()` (`object_heap.cpp:1517`) calls such a
   reference an error.
3. `numbers_readback`: `parse_negate` stores a digit in a signed word before it
   changes its sign (`arith.cpp:5196`), so -18446744073709551615 is read as 1.
   `test/r4rstest.scm:935` wants a negative integer that fills a word to be read
   as a negative number, and line 892 an integer of more than a word to be printed
   as it was read.  `ReadsBackElsewhere` shows that no other integer is affected.
4. `remember_overwritten`: `remember(lhs, rhs)` (`interpreter.cpp:402`) is called
   with the value that a write overwrites and the one it stores.  Its tests spare
   the old value the set when it is behind the new one, "eliminate if rhs ==
   (x . lhs)" (`interpreter.cpp:408`), but line 411 enters the new value, and
   `core-hashtable-delete!`, which stores nothing, has `scm_undef` entered in place
   of the entry it removes (`subr_hash.cpp:403`).  A child that has read the old
   value refers to a freed object after the next cycle.  `overwritten` is a history
   variable of what such a write overwrote.

## What is proved

Each theorem holds for every value of the constants that the `ASSUME`s of its
module allow, and TLC evaluates those in the runs.  In words: a positive capacity
and any finite set of threads (`SyncQueue`); a heap of any positive size, any
shade queue, any number of retries (`Collector`); any number of pages, slabs of
more than one object, any limit (`SlabSweep`); any number of rows and addresses
(`ThreadTable`); any set of cells, any finite set of threads (`RememberSet`); any
rings of more than one byte, moves of `realloc` and width of an int, positive numbers of tags, slots and places, any
threads and any set of messages that are not empty (`SharedBag`).
Each inductive invariant (`IInv`, for the collector also `SafetyInv`) was checked
with TLC before it was proved.

**The blocking queue.**  `TypeOK`, `CountersMatch` and `NoLostWakeup` are
invariants.  `IInv` adds the shape of a call in progress (`CallShape`), what a
thread that is about to sleep still sees (`Deciding`: without it the increment
could not be tied to a full or empty ring) and the ring (`RingShape`).
`NoLostWakeup` is inductive together with `IInv`: each step that adds an element
adds, or finds, a woken getter to take it.  `RefinementCorrect` is
`Spec => RefinesFifo`, one step of the proof for each action; the lemmas are
about the ring read from `head` when an element is appended at `tail` or taken at
`head`.

**The collector's handshake and marks** (`CollectorProofs`).  `TypeOK`,
`WorldStopped` and `MarksCleared` are invariants.  `IInv` adds which phases go
with which place (`PhaseShape`), that `m_mutator_stopped` implies that the VM is
inside one of its two waits (`StopShape`), where marks can be during and after a
sweep (`SweepShape`), and that the names are cells without fields
(`NamesShape`).  `MarksCleared` speaks of cells that have fields: a name that was
looked up just before the read barrier goes off may be marked after its slab was
swept.  It then survives the next cycle, which is harmless, as a name refers to
nothing.

**The collector frees nothing that is reachable** (the second half of
`CollectorProofs`).
`UnsweptMarked`, `Heap!NoDangling` and `RefinesHeap`, with concurrent and serial
marking, the fallback between them, spurious wakeups and the end of the thread.
`SafetyInv` has four groups of conjuncts.  The shapes say that the VM answers the
stop it was asked for and no other (`HandshakeShape`), which barrier is on in
which phase (`BarrierShape`), what a pending store is about (`StoreShape`) and
where the wavefront is (`WaveShape`).  `TriColour` says that a traced cell refers
to no unseen cell, where *seen* is marked, on the mark stack or in the shade
queue, but for the cell that is being scanned; `PendingSeen`, that what the VM is
about to store has been shaded; `RootsSeen`, that the roots are seen once the VM
stops and until it runs again.  With an empty stack and queue (`GreyShape`) these
give `SweepClosed`: the cells that are marked or behind the wavefront refer to
each other only, and hold every root; from the moment the table is swept they
hold the names too.  `SeenLive` and `HeapLive` carry that over to the cells that
exist.  A cell reachable from the roots is then in every closed set that holds
them (reachability is defined by closed sets, so no induction over paths is
needed), and each of the two freeing steps frees only cells out of reach.

**Slabs and the sweep.**  `TypeOK`, `RingsMatch`, `EmptiesCounted`, and
`Spec => RefinesSweep`.  `IInv` says that the collector and the VM each work on a
page of their own (`AllocShape`, `SweepShape`), that the wavefront is the page
being swept or the one behind it (`WaveShape`), that pages which are no slabs
hold no objects and lie below the watermark (`PoolShape`), and that what was
condemned lies where the sweep still comes by, while ahead of the wavefront
everything unmarked is condemned but for the object just being born
(`DoomedShape`): this is why an object created during the sweep is not reclaimed
although it may never be marked.  It needs `Slots > 1`: with one object in a slab
the slab is full before its object is marked.  The lemmas treat the ring as a set
with a first element.

**The thread table.**  `TypeOK`, `ParentOutlives`, `ChildrenCounted`,
`LiveCounted` and `Spec => RefinesTree`, whether addresses come back or not.
`IInv` says that a thread owns its row (`OwnRow`: it is not free, whatever
`update` did) and its VM (`OwnVM`: two threads have two addresses, each in its
own row), and that the root stays.  `update` can hit a wrong row, but it writes
only states other than FREE, and that is all the argument needs.  The counters
are tied to cardinalities of sets of rows, one lemma for a child that comes and
one for a child that leaves.  `RowsTellCorrect` is `Spec => RowsTellState`: while
no two rows share an address the first row with a VM's address is its own, so
`update` hits the right one, and each row tells the state of its thread.

**The remember set.**  `TypeOK` and `HeldKept`, for any number of generations.
A thread is kept alive by its line: itself, who spawned it, and so on.
`LineKept` says that for every set of threads closed under parents, what they
refer to is found from the environment, the arguments still kept, the entries
with a bit of one of them, and what was given up (`Seeds`).  `WriteKept` says that
the old value of a store that is about to happen is a seed of every line with a
thread that runs, or will be behind the new value after the store.  `TableShape` has that no row is its own ancestor and that
`m_child` counts.  `HeldKept` follows because the roots of a cycle hold the seeds
of every line.

The first attempt at this proof failed for a reason: `GivenUp` recorded only the
entries that disappear with the bit of a thread that ends, and `LineKept` was not
preserved when an entry has the bits of a parent and of an unrelated thread.
With three threads the parent ends, its child relies on the entry, the other
thread ends too and the entry is gone.  Two threads, all that TLC had seen, do
not show it.  `GivenUp` now records every entry that has the bit; it is still the
first of the four ways above.

**Shared queues and bags.**  `TypeOK`, `Accounted`, `Tiled`, `RightKey` and
`Spec => RefinesMailbox`.  The ring is seen from its head: positions are counted
from there, so that wrapping disappears.  `RingOK` says that the stretches of
live messages are disjoint and end before the tail; `RingTiled`, that they leave
no gap, or that some message ended exactly at `bottom`, which stays true for
good.  One lemma for each operation (a message appended, a message taken at the
head or behind another, the ring moved to a larger one) says that both are
preserved and that every other message has the bytes it had.  `OnePlace` says
that each live message is in exactly one of the queue, the hands of one thread
and the lost ones.  `SlotsKeepKeys` says that with as many slots as keys the
occupied slots have different keys: by counting, a key that has none finds a slot
that was never given away, so no slot changes its key and what is in it was put
under it.  The refinement reads each identifier in the queue through the ring.
All but the keys is said of defined behaviour only: `IInv` is
`KeysShape /\ (Defined => Sound)`, a step that stays defined grows a ring only by
an offset that is an int, which displaces nothing (`NotDisplaced`), and nothing
becomes defined again (`Frozen`).  In the refinement a wild put maps to the step by
which `Mailbox` breaks.

**Exact integers** (`ArithmeticProofs`), for digits of any width above one bit
and operands of any length.  `AddExact`, `SubExact`, `MulExact` and `NegateExact`
say that the arithmetic of two canonical integers, of whatever mix of fixnums and
bignums, gives the canonical integer that stands for the right number, and
`OneForm` that this is one object.  They rest on the exactness of each digit loop
(`AddDigitsExact`, `SubDigitsExact`, `MulAddDigitExact`, `MulDigitsExact`,
`DivDigitExact`, `CmpExact`).  The library's induction theorems take an operator
as a parameter and cannot be instantiated, so the induction over digits is done
on sets: `Ascent` and `Descent` say that a set of indices that holds the first
(last) and with each the next is all of them, and follow from a least
counterexample.  What a sequence stands for is a recursive function
(`ValuesFrom`), equal to any function that satisfies its equations
(`ValuesAre`); the loop with its carry is one lemma (`CarryExact`) that sums,
differences, products and negation share.

**Division, roots and bits** (`DivisionProofs`).  The loops of `Bignum` are
recursive functions of the number of turns.  `LoopExists` gives each of them its
course as a function that satisfies its equations, and the invariant of the loop
is carried along the course by `Ascent`.
- `DivExact` is the long division.  With the top bit of the denominator set, the
  estimate from two digits is not below the digit; each turn of the inner loop
  lowers it by one as long as its multiple does not fit (`LowerStep`).  A turn of
  the outer loop (`DivTurnStep`) leaves the digits below its window untouched,
  the ones above used up, and remainder and quotient so far making up the
  numerator; the rest is less than twice the denominator, which `FirstOff` takes
  off once at most.  Shifting back is exact: the remainder is a multiple of the
  power of two that both were shifted by.
- `QuotientExact`, `RemainderExact` and `ModuloExact` lift it to integers, with
  every mix of fixnum and bignum and of signs.  The quotient of the least fixnum
  and -1 is the exception the statement names: the code leaves it as it is.
- `SqrtExact` and `ExactSqrtExact` say that the descent by Newton's steps ends
  at the root of the greatest square not above: no step falls below it, a step
  that does not fall has reached it, and every other takes one off at least
  (`FallStep`).  A fixnum that a double holds has the root the double gives:
  `DoubleRootExact` says that it is rounded up for `k*k - 1` and no other number,
  and only where the double next below `k` is too far (`HalvesExact`).
  `ExactSqrtExact` names that exception, and `RootMissed` says that every `k` above
  `2^h` meets it, where a double has `2h + 1` bits and `k*k - 1` fits.
- `LognotExact`, `LogashExact` (exact to the left, the floor to the right, for a
  shift that is an int, to the left also with a word's bits added, and of a fixnum
  by less than two words to the right) and
  `BitLengthExact` are about two's complement, `CompareExact` and `EqualExact`
  about order; the latter names what it mistakes for equal, two bignums that
  differ only in sign.

**Fractions** (`DivisionProofs`).  `StandsFor(x, n, d)` says that `x` is `n` over
`d` in the form the code relies on: an integer in canonical form, or a fraction
with a denominator above 1 whose parts have no divisor in common but 1.
- A greatest common divisor is found without primes.  Two numbers *span* what
  can be made of them (`Combination`, `Spans`); a turn of either algorithm leaves
  what is spanned as it was, and in the end one number spans it alone
  (`GcdExact`, `BinaryGcdExact`).  `SpansAlone` concludes that it divides both and
  that the quotients make 1, so that they have no divisor in common.  For the
  binary algorithm the common powers of two go first (`WithoutTwosExact`); then
  one of the two is always odd, which is why halving the other loses nothing
  (`SpanHalf`), and every turn takes a bit off (`BinaryTurnExact`), which is why
  it ends.
- `ReduceExact` joins the four forms of `reduce()`, by the sizes of numerator and
  denominator.  It names the one exception: two fixnums whose denominator is as
  large as the least fixnum.  `LeastDenominator` is what the code returns then, a
  fraction with a negative denominator (`arith.cpp:1251`).
- `AddRealExact`, `SubRealExact`, `NegateRealExact`, `MulRealExact`,
  `DivRealExact` and `ReciprocalExact` are the arithmetic; sums, differences and
  products never meet the exception, since their denominators are positive.
  `OneFraction` says that canonical reals that stand for one number are one
  object, `CompareRealExact` that they are ordered as their numbers are.
- `FloorExact` and `CeilingExact` are rounding, by a quotient that is cut off and
  corrected for its sign.  `IntegerDivExact` is the `div` of R6RS for every mix of
  fixnum and bignum and of signs.  It has no exception: that of
  `LeastDenominator` needs two fixnums, which the code divides as words here.

The theorems on division, on roots and on fractions ask for digits of more than
two bits.  The code has 32 or 64; with two bits 1 is no fixnum, and the code puts
it there.

### Only model-checked

- Everything that needs fairness: `ShutdownReturns`, `ShutdownReleasesSleepers`,
  `CycleEnds`, `MachineResumes`, `TeardownEnds`, `GarbageGoes`, `EndedGoes`,
  `SweepEnds`.  Liveness is out of the prover's reach.
- The six properties of `Calculator`.  Its modules reach RECURSIVE operators (the
  fractions it computes with beside the program, powers, the printing loop), for
  which the prover has no support.  What the program computes with digits,
  integers and fractions is proved apart from it, in `ArithmeticProofs` and
  `DivisionProofs`; complex numbers, powers, the bit operations on two integers,
  rounding to the nearest, words and text are not.

All other properties of the runs that pass are theorems.

## Mutants

Operators with a suffix, like `Write_NoBarrier`, are an operator of the model
with a plausible mistake.  They are used in no specification; replacing the
operator by its mutant violates the property that `PROJECT.json` names with it.

## Not modelled

- The bytecode machine, beyond its polls and barriers: sequential code of a
  hundred opcodes.
- Ports, reader, printer, text encodings: I/O, text formats and conversions over
  generated tables.
- Hash tables, the compactor, the serializer: see the plan.
- Foreign functions and native code, wrappers of system calls, the Scheme side.

`PROJECT.json` says for each component what is modelled of it.

## Plan

Done: `SyncQueue`, `BoundedFifo`; `Collector`, `GcHeap`; `SlabSweep`,
`SweptHeap`; `ThreadTable`, `ThreadTree`; `RememberSet`; `FifoBuffer`,
`SharedBag`, `Mailbox`; the arithmetic modules; the proofs above.

To do, in this order:

1. Powers, complex numbers and the bit operations on two integers in the form of
   `Digits`, and what they compute as theorems.
2. Weak mappings and `protect` in the sweep phases of `Collector`.
3. Open addressing (`object_set_t`, `remember_set_t`, hash tables) against a set.
4. The compactor's forwarding pointers, and the serializer as a round trip over
   small objects.
5. Deadlines of timed calls on top of `SyncQueue`.
