----------------------------- MODULE SlabSweep --------------------------------
(***************************************************************************)
(* A slab cache, the page pool and the concurrent sweep: object_slab.cpp,  *)
(* and of object_heap.cpp allocate, deallocate, extend_pool and the page   *)
(* loop of concurrent_collect.  A page is free, a slab of the cache, or    *)
(* holds something the collector does not look at ("private").             *)
(*                                                                         *)
(* The sweep and the machine that allocates meet in m_lock of the cache,   *)
(* in m_lock of the heap (the page map) and, with no lock at all, in the   *)
(* wavefront, the mark bits and the page map as the collector reads it.    *)
(* Marking is one step with the world stopped: what Collector is about.    *)
(***************************************************************************)
EXTENDS Integers, FiniteSets, Sequences, SequencesExt

CONSTANTS Capacity,      (* pages in m_pool *)
          Slots,         (* objects in a slab *)
          CacheLimit,    (* m_cache_limit *)
          MaxRoots,      (* bound: references the machine holds *)
          MaxCount,      (* bound: m_cache_count when a cycle begins *)
          Privates,      (* the machine takes pages for other things *)
          Linked         (* the objects that have a field *)

ASSUME CapacityAssumption == Capacity \in Nat \ {0}
ASSUME SlotsAssumption == Slots \in Nat /\ Slots > 1
ASSUME LimitAssumption == CacheLimit \in Nat /\ MaxRoots \in Nat /\ MaxCount \in Nat

Pages == 0 .. Capacity - 1
Objects == 0 .. Capacity * Slots - 1

ASSUME SwitchAssumption == Privates \in BOOLEAN /\ Linked \subseteq Objects

None == -1

PageOf(o) == o \div Slots
ObjectsOf(p) == {o \in Objects : PageOf(o) = p}

VARIABLES
  m_pool,                (* the tag of each page *)
  m_pool_watermark,      (* pages in use so far; extend_pool moves it *)
  used, marks,           (* objects that exist; their bits in the bitmaps *)
  ref,                   (* the field of an object *)
  m_vacant,              (* the ring of slabs with room, from the first *)
  m_occupied,            (* the full ones *)
  m_cache_count,
  m_sweep_wavefront,     (* a page *)
  m_alloc_barrier,
  cpc, page, memo,       (* the collector: place, page (i), m_pool_usage as read *)
  mpc, taken,            (* the machine: place, page it works on *)
  roots,
  doomed                 (* history: unmarked at the end of marking, not yet freed *)

pool == <<m_pool, m_pool_watermark>>
objects == <<used, marks, ref>>
lists == <<m_vacant, m_occupied, m_cache_count>>
sweepers == <<m_sweep_wavefront, m_alloc_barrier, cpc, page, memo>>
machine == <<mpc, taken, roots>>

vars == <<pool, objects, lists, sweepers, machine, doomed>>

Init ==
  /\ m_pool = [p \in Pages |-> "free"] /\ m_pool_watermark = 1
  /\ used = {} /\ marks = {} /\ ref = [o \in Objects |-> None]
  /\ m_vacant = <<>> /\ m_occupied = {} /\ m_cache_count = 0
  /\ m_sweep_wavefront = Capacity /\ m_alloc_barrier = FALSE
  /\ cpc = "idle" /\ page = 0 /\ memo = 0
  /\ mpc = "run" /\ taken = None /\ roots = {}
  /\ doomed = {}

------------------------------------------------------------------------------
(* The pool.  m_pool_usage is the number of pages that are not free;        *)
(* m_pool_memo is below every free page, so the scan finds the first.       *)
m_pool_usage == Cardinality({p \in Pages : m_pool[p] # "free"})

FreePages == {p \in 0 .. m_pool_watermark - 1 : m_pool[p] = "free"}

Allocate(p, tag) ==
  /\ p \in FreePages /\ \A q \in FreePages : p <= q
  /\ m_pool' = [m_pool EXCEPT ![p] = tag]

Deallocate(p) == m_pool' = [m_pool EXCEPT ![p] = "free"]

(* allocate() found nothing: the pool grows, and the caller tries again.    *)
(* A full pool is fatal.                                                    *)
ExtendPool ==
  /\ mpc = "run"
  /\ FreePages = {} /\ m_pool_watermark < Capacity
  /\ m_pool_watermark' = m_pool_watermark + 1
  /\ UNCHANGED <<m_pool, objects, lists, sweepers, machine, doomed>>

(* Pages for objects that are not collected. *)
TakePrivate ==
  /\ Privates /\ mpc = "run"
  /\ \E p \in Pages : Allocate(p, "private")
  /\ UNCHANGED <<m_pool_watermark, objects, lists, sweepers, machine, doomed>>

DropPrivate ==
  /\ mpc = "run"
  /\ \E p \in Pages : m_pool[p] = "private" /\ Deallocate(p)
  /\ UNCHANGED <<m_pool_watermark, objects, lists, sweepers, machine, doomed>>

------------------------------------------------------------------------------
(* new_collectible_object.                                                  *)
Room(p) == ObjectsOf(p) \ used
Empty(p) == ObjectsOf(p) \cap used = {}
First == Head(m_vacant)

(* unload_filled() for the first of the ring, which is full: the next one   *)
(* becomes the first, and the first is never counted.                       *)
UnloadFilled ==
  /\ m_vacant' = Tail(m_vacant)
  /\ m_occupied' = m_occupied \cup {First}
  /\ m_cache_count' = IF Tail(m_vacant) # <<>> /\ Empty(Head(Tail(m_vacant)))
                      THEN m_cache_count - 1 ELSE m_cache_count

Hold(o) == Cardinality(roots) < MaxRoots /\ roots' = roots \cup {o}

Create(o) ==
  /\ used' = used \cup {o}
  /\ ref' = [ref EXCEPT ![o] = None]
  /\ Hold(o)

Ahead(p) == p >= m_sweep_wavefront

(* Behind the wavefront the object is taken without the lock; the lock is   *)
(* taken afterwards when the slab is full.                                  *)
AllocFast ==
  /\ mpc = "run" /\ m_alloc_barrier
  /\ m_vacant # <<>> /\ ~Ahead(First)
  /\ \E o \in Room(First) :
       /\ Create(o)
       /\ IF Room(First) = {o} THEN mpc' = "unload" /\ taken' = First
                               ELSE UNCHANGED <<mpc, taken>>
  /\ UNCHANGED <<pool, marks, lists, sweepers, doomed>>

Unload ==
  /\ mpc = "unload"
  /\ UnloadFilled
  /\ mpc' = "run" /\ taken' = None
  /\ UNCHANGED <<pool, objects, sweepers, roots, doomed>>

BornMark_Never(o) == UNCHANGED marks
BornMark(o) == marks' = IF Ahead(PageOf(o)) THEN marks \cup {o} ELSE marks

AllocLocked ==
  /\ mpc = "run"
  /\ m_vacant # <<>> /\ (m_alloc_barrier => Ahead(First))
  /\ \E o \in Room(First) :
       /\ Create(o) /\ BornMark(o)
       /\ IF Room(First) = {o} THEN UnloadFilled ELSE UNCHANGED lists
  /\ UNCHANGED <<pool, sweepers, mpc, taken, doomed>>

(* A new slab: the page, then its traits, then the mark; the lock of the    *)
(* cache is held from the first to the last.                                *)
TakeSlab ==
  /\ mpc = "run" /\ m_vacant = <<>> /\ Cardinality(roots) < MaxRoots
  /\ \E p \in Pages : Allocate(p, "slab") /\ taken' = p
  /\ mpc' = "init"
  /\ UNCHANGED <<m_pool_watermark, objects, lists, sweepers, roots, doomed>>

InitSlab ==
  /\ mpc = "init"
  /\ marks' = marks \ ObjectsOf(taken)
  /\ Create(taken * Slots)
  /\ m_vacant' = <<taken>>
  /\ mpc' = "born"
  /\ UNCHANGED <<pool, m_occupied, m_cache_count, sweepers, taken, doomed>>

MarkBorn ==
  /\ mpc = "born"
  /\ BornMark(taken * Slots)
  /\ mpc' = "run" /\ taken' = None
  /\ UNCHANGED <<pool, used, ref, lists, sweepers, roots, doomed>>

CacheLocked == mpc \in {"init", "born"}

(* The program. *)
Store ==
  /\ mpc = "run"
  /\ \E o \in roots \cap Linked, v \in roots : ref' = [ref EXCEPT ![o] = v]
  /\ UNCHANGED <<pool, used, marks, lists, sweepers, machine, doomed>>

Load ==
  /\ mpc = "run"
  /\ \E o \in roots : ref[o] # None /\ Hold(ref[o])
  /\ UNCHANGED <<pool, objects, lists, sweepers, mpc, taken, doomed>>

Drop ==
  /\ mpc = "run"
  /\ \E o \in roots : roots' = roots \ {o}
  /\ UNCHANGED <<pool, objects, lists, sweepers, mpc, taken, doomed>>

------------------------------------------------------------------------------
(* The collector.  Marking, with the world stopped, does not look into an   *)
(* object that has its mark already.                                        *)
Unmarked(S) == {o \in S : o # None} \ marks
TracedTo(S) == \A o \in S : Unmarked({ref[o]}) \subseteq S

Traced ==
  {o \in Objects : \A S \in SUBSET Objects : Unmarked(roots) \subseteq S /\ TracedTo(S) => o \in S}

BeginSweep ==
  /\ cpc = "idle" /\ mpc = "run" /\ m_cache_count <= MaxCount
  /\ marks' = marks \cup Traced
  /\ doomed' = used \ marks'
  /\ m_sweep_wavefront' = 0 /\ m_alloc_barrier' = TRUE
  /\ cpc' = "look" /\ page' = 0
  /\ UNCHANGED <<pool, used, ref, lists, memo, machine>>

(* The loop over the pages.  It ends at the capacity, or at the watermark,  *)
(* and only there is the barrier taken away.                                *)
EndLoop == cpc' = "idle" /\ page' = 0

Advance_Stay(p) ==
  m_sweep_wavefront' = p /\ cpc' = "look" /\ UNCHANGED <<page, m_alloc_barrier>>

Advance(p) ==
  /\ m_sweep_wavefront' = p
  /\ IF p = Capacity THEN EndLoop ELSE page' = p /\ cpc' = "look"
  /\ UNCHANGED m_alloc_barrier

HasCache(p) == ~(mpc = "init" /\ taken = p)

(* m_pool_usage and the tag are read with no lock; a slab without a cache   *)
(* is looked at again.                                                      *)
Look ==
  /\ cpc = "look"
  /\ IF m_pool[page] = "slab"
     THEN HasCache(page) /\ cpc' = "sweep" /\ UNCHANGED memo
     ELSE cpc' = "skip" /\ memo' = m_pool_usage
  /\ UNCHANGED <<pool, objects, lists, m_sweep_wavefront, m_alloc_barrier, page, machine, doomed>>

SlabsFrom(p) == {q \in p .. m_pool_watermark - 1 : m_pool[q] = "slab"}

(* Under the lock of the heap: look again if a page came or went, else go   *)
(* on to the next slab.                                                     *)
SkipPages ==
  /\ cpc = "skip" /\ memo = m_pool_usage
  /\ IF SlabsFrom(page + 1) # {}
     THEN \E q \in SlabsFrom(page + 1) :
            (\A r \in SlabsFrom(page + 1) : q <= r) /\ Advance(q)
     ELSE /\ m_sweep_wavefront' = Capacity /\ m_alloc_barrier' = FALSE
          /\ EndLoop
  /\ memo' = 0
  /\ UNCHANGED <<pool, objects, lists, machine, doomed>>

LookAgain ==
  /\ cpc = "skip" /\ memo # m_pool_usage
  /\ cpc' = "look" /\ memo' = 0
  /\ UNCHANGED <<pool, objects, lists, m_sweep_wavefront, m_alloc_barrier, page, machine, doomed>>

(* sweep(): an empty slab stays in the cache ...                            *)
KeepEmpty ==
  /\ cpc = "sweep" /\ ~CacheLocked
  /\ Empty(page) /\ m_cache_count < CacheLimit
  /\ Advance(page + 1)
  /\ UNCHANGED <<pool, objects, lists, memo, machine, doomed>>

(* ... any other leaves its ring ...                                        *)
Unlink_FirstOnly ==
  /\ m_vacant' = IF m_vacant # <<>> /\ First = page THEN Tail(m_vacant) ELSE m_vacant
  /\ m_occupied' = m_occupied \ {page}
  /\ UNCHANGED m_cache_count

Unlink ==
  /\ \/ page \notin ToSet(m_vacant) /\ UNCHANGED m_vacant
     \/ \E i \in DOMAIN m_vacant : m_vacant[i] = page /\ m_vacant' = RemoveAt(m_vacant, i)
  /\ m_occupied' = m_occupied \ {page}
  /\ m_cache_count' = IF Empty(page) /\ page # First
                      THEN m_cache_count - 1 ELSE m_cache_count

Detach ==
  /\ cpc = "sweep" /\ ~CacheLocked
  /\ ~(Empty(page) /\ m_cache_count < CacheLimit)
  /\ Unlink
  /\ cpc' = "detached"
  /\ UNCHANGED <<pool, objects, m_sweep_wavefront, m_alloc_barrier, page, memo, machine, doomed>>

(* ... goes back to the pool when it is empty and there are enough, with    *)
(* the wavefront still in front of it ...                                   *)
Enough == m_cache_count > CacheLimit

ReturnSlab ==
  /\ cpc = "detached" /\ Empty(page) /\ Enough
  /\ Deallocate(page)
  /\ cpc' = "returned"
  /\ UNCHANGED <<m_pool_watermark, objects, lists, m_sweep_wavefront,
                 m_alloc_barrier, page, memo, machine, doomed>>

PassReturned ==
  /\ cpc = "returned"
  /\ Advance(page + 1)
  /\ UNCHANGED <<pool, objects, lists, memo, machine, doomed>>

(* ... or loses its unmarked objects, and all marks ...                     *)
SweepSlab ==
  /\ cpc = "detached" /\ ~(Empty(page) /\ Enough)
  /\ used' = used \ (ObjectsOf(page) \ marks)
  /\ doomed' = doomed \cap used'
  /\ ref' = [o \in Objects |-> IF o \in used' THEN ref[o] ELSE None]
  /\ marks' = marks \ ObjectsOf(page)
  /\ m_sweep_wavefront' = page + 1 /\ cpc' = "attach"
  /\ UNCHANGED <<pool, lists, m_alloc_barrier, page, memo, machine>>

(* ... and is put behind the first of its ring.                             *)
Link ==
  IF Room(page) = {}
  THEN m_occupied' = m_occupied \cup {page} /\ UNCHANGED <<m_vacant, m_cache_count>>
  ELSE /\ UNCHANGED m_occupied
       /\ m_vacant' = IF m_vacant = <<>> THEN <<page>> ELSE <<First, page>> \o Tail(m_vacant)
       /\ m_cache_count' = IF m_vacant # <<>> /\ Empty(page)
                           THEN m_cache_count + 1 ELSE m_cache_count

Attach ==
  /\ cpc = "attach" /\ ~CacheLocked
  /\ Link
  /\ IF page + 1 = Capacity THEN EndLoop ELSE page' = page + 1 /\ cpc' = "look"
  /\ UNCHANGED <<pool, objects, m_sweep_wavefront, m_alloc_barrier, memo, machine, doomed>>

------------------------------------------------------------------------------
Machine ==
  \/ ExtendPool \/ TakePrivate \/ DropPrivate
  \/ AllocFast \/ Unload \/ AllocLocked \/ TakeSlab \/ InitSlab \/ MarkBorn
  \/ Store \/ Load \/ Drop

Sweep ==
  \/ Look \/ SkipPages \/ LookAgain
  \/ KeepEmpty \/ Detach \/ ReturnSlab \/ PassReturned \/ SweepSlab \/ Attach

Next == Machine \/ BeginSweep \/ Sweep

Spec == Init /\ [][Next]_vars

(* The collector is scheduled, and the machine as long as it is inside      *)
(* new_collectible_object.  Strong fairness of SkipPages: the machine does  *)
(* not for ever move pages exactly between the two reads of m_pool_usage.   *)
FairSpec ==
  /\ Spec
  /\ WF_vars(Sweep) /\ SF_vars(SkipPages)
  /\ WF_vars(Unload \/ InitSlab \/ MarkBorn)

------------------------------------------------------------------------------
TypeOK ==
  /\ m_pool \in [Pages -> {"free", "slab", "private"}]
  /\ m_pool_watermark \in 1 .. Capacity
  /\ used \in SUBSET Objects /\ marks \in SUBSET Objects
  /\ ref \in [Objects -> Objects \cup {None}]
  /\ m_vacant \in Seq(Pages) /\ m_occupied \in SUBSET Pages
  /\ m_cache_count \in Nat
  /\ m_sweep_wavefront \in 0 .. Capacity /\ m_alloc_barrier \in BOOLEAN
  /\ cpc \in {"idle", "look", "skip", "sweep", "detached", "returned", "attach"}
  /\ page \in 0 .. Capacity /\ memo \in 0 .. Capacity
  /\ mpc \in {"run", "unload", "init", "born"} /\ taken \in Pages \cup {None}
  /\ roots \in SUBSET Objects /\ doomed \in SUBSET Objects

(* Every slab is in the ring that its free list calls for, once, except the *)
(* one that the collector sweeps, the one that the machine has just filled  *)
(* and the one that it has not set up: no room is lost, no slab is handed   *)
(* out while it is swept, and no page returned to the pool stays in a ring. *)
Away ==
  {page : x \in {y \in {0} : cpc \in {"detached", "attach"}}}
    \cup {taken : x \in {y \in {0} : mpc = "init"}}

SlabPages == {p \in Pages : m_pool[p] = "slab"}

RingsMatch ==
  /\ ToSet(m_vacant) \cap m_occupied = {} /\ IsInjective(m_vacant)
  /\ ToSet(m_vacant) \cup m_occupied = SlabPages \ Away
  /\ \A p \in ToSet(m_vacant) : Room(p) # {} \/ (mpc = "unload" /\ p = First)
  /\ \A p \in m_occupied : Room(p) = {}

(* The empty slabs behind the first of the ring are all counted, so empty   *)
(* slabs beyond the limit are given back.                                   *)
EmptiesCounted ==
  m_vacant # <<>> =>
    m_cache_count >= Cardinality({p \in ToSet(Tail(m_vacant)) : Empty(p)})

(***************************************************************************)
(* The invariant that the proofs use.  Collector and machine each work on a *)
(* page of their own; the wavefront is the page of the sweep or behind it;  *)
(* pages that are not slabs hold no objects; and what is condemned lies     *)
(* where the sweep still has to come by.                                    *)
(***************************************************************************)
AtPage == {"look", "skip", "sweep", "detached", "returned"}

WaveShape ==
  /\ cpc \in AtPage => m_sweep_wavefront = page
  /\ cpc = "attach" => m_sweep_wavefront = page + 1
  /\ IF cpc = "idle" THEN m_sweep_wavefront = Capacity ELSE page \in Pages /\ m_alloc_barrier

AllocShape ==
  /\ IF mpc = "run" THEN taken = None ELSE taken \in SlabPages
  /\ mpc = "unload" => m_vacant # <<>> /\ taken = First /\ Room(taken) = {} /\ ~Ahead(taken)
  /\ mpc = "init" => m_vacant = <<>> /\ Empty(taken)
  /\ mpc = "born" => m_vacant = <<taken>> /\ ObjectsOf(taken) \cap used = {taken * Slots}

SweepShape ==
  cpc \in {"sweep", "detached", "attach"} => page \in SlabPages /\ ~(mpc = "init" /\ page = taken)

PoolShape ==
  /\ \A p \in Pages \ SlabPages : Empty(p)
  /\ \A p \in Pages : p >= m_pool_watermark => m_pool[p] = "free"

DoomedShape ==
  /\ doomed \subseteq used \ marks
  /\ cpc = "idle" => doomed = {}
  /\ mpc = "born" => doomed \cap ObjectsOf(taken) = {}
  /\ \A o \in doomed : PageOf(o) >= page /\ (PageOf(o) = page => cpc \in {"look", "sweep", "detached"})
  /\ cpc # "idle" => \A o \in used \ marks :
       Ahead(PageOf(o)) => o \in doomed \/ (mpc = "born" /\ PageOf(o) = taken)

IInv ==
  /\ TypeOK /\ WaveShape /\ AllocShape /\ SweepShape /\ PoolShape
  /\ RingsMatch /\ EmptiesCounted /\ DoomedShape

(* The sweep reclaims what was unmarked when it began, all of it before the *)
(* next begins, and nothing that the machine has created since.             *)
Promise == INSTANCE SweptHeap WITH live <- used

RefinesSweep == Promise!Spec

(* What consistency_check() tests at the end of a cycle: an object refers   *)
(* to objects in slabs.                                                     *)
RefsCollectible ==
  cpc = "idle" /\ mpc = "run" =>
    \A o \in used : ref[o] # None => m_pool[PageOf(ref[o])] = "slab"

(* The loop over the pages ends although the machine takes and gives pages. *)
SweepEnds == (cpc = "look") ~> (cpc = "idle")
==============================================================================
