--------------------------- MODULE CollectorProofs ---------------------------
(***************************************************************************)
(* Theorems about Collector, for every number of cells, every capacity of  *)
(* the shade queue and every bound: the types, that the world stands still *)
(* while the collector trusts it to (WorldStopped), and that no cycle      *)
(* begins with a stale mark (MarksCleared).                                *)
(*                                                                         *)
(* The inductive invariant is IInv of Collector.  There is one lemma for   *)
(* each of its conjuncts.  In such a lemma the steps that leave alone what *)
(* the conjunct is about come first, a few actions at a time; then comes   *)
(* one step for each action that does not.                                 *)
(***************************************************************************)
EXTENDS Collector, SequenceTheorems, TLAPS

------------------------------------------------------------------------------
(* Types. *)

(* The shade queue is a queue of cells, and so is what Dequeue leaves of it. *)
LEMMA DequeueType ==
  ASSUME TypeOK, NEW p, Dequeue(p)
  PROVE  /\ mark_stack' \in SUBSET Cells
         /\ shade_queue' \in Seq(Cells)
         /\ Len(shade_queue') <= ShadeCapacity
<1>1. shade_queue \in Seq(Cells) /\ shade_queue # <<>> /\ Len(shade_queue) <= ShadeCapacity
  BY DEF TypeOK, MarkingType, Dequeue
<1>2. /\ Head(shade_queue) \in Cells
      /\ Tail(shade_queue) \in Seq(Cells)
      /\ Len(Tail(shade_queue)) = Len(shade_queue) - 1
  BY <1>1, HeadTailProperties
<1>3. Len(shade_queue) \in Nat
  BY <1>1, LenProperties
<1> QED
  BY <1>1, <1>2, <1>3, BoundsAssumption DEF TypeOK, MarkingType, Dequeue, Shaded

(* So does a step of trace(). *)
LEMMA TraceType ==
  ASSUME MemoryType, MarkingType, NEW c \in mark_stack, Trace(c), cpc' # "scan",
         UNCHANGED <<cur, shade_queue>>
  PROVE  MarkingType'
<1>1. c \in Cells /\ field[c] \in Cells \cup {Nil}
  BY DEF MemoryType, MarkingType
<1>2. mark' \in SUBSET Cells
  BY <1>1 DEF Trace, MarkingType
<1>3. mark_stack' \in SUBSET Cells
  BY <1>1 DEF Trace, MarkingType
<1> QED BY <1>2, <1>3 DEF MarkingType

(* The heap and the machine: fields and roots are cells. *)
LEMMA MemoryNext ==
  ASSUME TypeOK, Next
  PROVE  MemoryType'
<1> USE DEF memory, heap, machine
<1>1. ASSUME NEW c \in Cells, NEW v \in stack \cup {Nil}, InternBarrier(c)
      PROVE  UNCHANGED <<live, field, interned, stack, reg>>
  BY <1>1 DEF InternBarrier
<1>2. ASSUME Kick \/ Terminate \/ Poll \/ BarrierPut \/ BarrierFull \/ BarrierTest \/
       BarrierYield \/ BarrierKick \/ BarrierRetry \/ RootPut \/ RootFull \/ RootKick
      PROVE  UNCHANGED <<live, field, interned, stack, reg>>
  BY <1>2 DEF Kick, Terminate, Poll, BarrierPut, BarrierFull, BarrierTest, BarrierYield,
         BarrierKick, BarrierRetry, RootPut, RootFull, RootKick
<1>3. ASSUME RootWake \/ StopEnter \/ StopWake \/ ExitStop \/ ExitWake \/ Exit \/ Start
       \/ Quit \/ Rest \/ Awaken \/ BeginConcurrent \/ BeginSynchronized
      PROVE  UNCHANGED <<live, field, interned, stack, reg>>
  BY <1>3 DEF RootWake, StopEnter, Handshake, StopWake, ExitStop, ExitWake, Exit, Start,
         Quit, Rest, Awaken, BeginConcurrent, StopTheWorld, BeginSynchronized
<1>4. ASSUME StopWait \/ Drain \/ Drained \/ HaltedGlobals \/ HaltedLocals \/
       HaltedFinal \/ FinalDrain \/ FinalDrained \/ SerialTrace \/ SerialTimeout \/
       BeginSweep \/ BeginStoppedSweep
      PROVE  UNCHANGED <<live, field, interned, stack, reg>>
  BY <1>4 DEF StopWait, Drain, Dequeue, Drained, HaltedGlobals, StartTheWorld,
         HaltedLocals, HaltedFinal, FinalDrain, FinalDrained, SerialTrace, Trace,
         SerialTimeout, BeginSweep, BeginStoppedSweep
<1>5. ASSUME ResumeWait \/ MarkQueue \/ MarkPop \/ MarkScan \/ MarkMore \/ MarkedGlobals
       \/ MarkedInherents \/ MarkedLocals \/ ReadBarrierOff \/ Swept \/ SweptStopped \/
       Finish
      PROVE  UNCHANGED <<live, field, interned, stack, reg>>
  BY <1>5 DEF ResumeWait, MarkQueue, Dequeue, MarkPop, MarkScan, MarkMore,
         MarkedGlobals, MarkedOut, MarkedInherents, StopTheWorld, MarkedLocals,
         ReadBarrierOff, Swept, SweptStopped, StartTheWorld, Finish
<1>6. ASSUME SpuriousWake
      PROVE  UNCHANGED <<live, field, interned, stack, reg>>
  BY <1>6 DEF SpuriousWake
<1> USE DEF TypeOK, MemoryType, MutatorType, Cells, Nil
<1>7. ASSUME UNCHANGED <<live, field, interned, stack, reg>> PROVE MemoryType'
  BY <1>7
<1>8. ASSUME NEW c \in Cells, NEW v \in stack \cup {Nil}, AllocCell(c, v) PROVE MemoryType'
  BY <1>8 DEF AllocCell, Alloc, BornMark
<1>9. ASSUME NEW c \in Cells, NEW v \in stack \cup {Nil}, Write(c, v) PROVE MemoryType'
  BY <1>9 DEF Write
<1>10. ASSUME NEW v \in stack \cup {Nil}, SetReg(v) PROVE MemoryType'
  BY <1>10 DEF SetReg
<1>11. ASSUME NEW c \in Cells, InternNew(c) PROVE MemoryType'
  BY <1>11 DEF InternNew, Alloc, BornMark
<1>12. ASSUME NEW c \in Cells, Intern(c) PROVE MemoryType'
  BY <1>12 DEF Intern, Found
<1>13. ASSUME NEW c \in Cells, Drop(c) PROVE MemoryType'
  BY <1>13 DEF Drop
<1>14. ASSUME Read PROVE MemoryType'
  <2>1. PICK s \in {stack \cup {field[c]} : c \in {d \in stack : field[d] # Nil}}
                  \cup {stack \cup {c} : c \in {Env, reg} \ {Nil}} : stack' = s
    BY <1>14 DEF Read
  <2>2. CASE s \in {stack \cup {c} : c \in {Env, reg} \ {Nil}}
    <3>1. PICK c \in {Env, reg} \ {Nil} : s = stack \cup {c}
      BY <2>2
    <3>2. c \in Cells
      BY <3>1, NAssumption
    <3>3. s \in SUBSET Cells
      BY <3>1, <3>2
    <3> QED BY <1>14, <2>1, <3>3 DEF Read
  <2>3. CASE s \in {stack \cup {field[c]} : c \in {d \in stack : field[d] # Nil}}
    <3>1. PICK c \in {d \in stack : field[d] # Nil} : s = stack \cup {field[c]}
      BY <2>3
    <3>2. field[c] \in Cells
      BY <3>1
    <3>3. s \in SUBSET Cells
      BY <3>1, <3>2
    <3> QED BY <1>14, <2>1, <3>3 DEF Read
  <2> QED BY <2>1, <2>2, <2>3
<1>15. ASSUME InternMark PROVE MemoryType'
  BY <1>15 DEF InternMark, Found
<1>16. ASSUME StoreDone PROVE MemoryType'
  BY <1>16 DEF StoreDone
<1>17. ASSUME SweepTable PROVE MemoryType'
  BY <1>17 DEF SweepTable
<1>18. ASSUME SweepSlab PROVE MemoryType'
  BY <1>18 DEF SweepSlab
<1> QED BY <1>1, <1>2, <1>3, <1>4, <1>5, <1>6, <1>7, <1>8, <1>9, <1>10, <1>11, <1>12,
       <1>13, <1>14, <1>15, <1>16, <1>17, <1>18, Zenon
     DEF Next, Program, MutatorStep, CollectorStep

(* Marks, grey cells and the shade queue. *)
LEMMA MarkingNext ==
  ASSUME TypeOK, Next
  PROVE  MarkingType'
<1> USE DEF marking, cycle
<1>1. ASSUME NEW c \in Cells, NEW v \in stack \cup {Nil}, Write(c, v) \/ SetReg(v) \/
       Intern(c) \/ InternBarrier(c) \/ Drop(c)
      PROVE  UNCHANGED <<mark, mark_stack, cur, cpc, shade_queue>>
  BY <1>1 DEF Write, SetReg, Intern, Found, InternBarrier, Drop
<1>2. ASSUME Read \/ Kick \/ Terminate \/ Poll \/ BarrierFull \/ BarrierTest \/
       BarrierYield \/ BarrierKick \/ BarrierRetry \/ StoreDone \/ RootFull \/ RootKick
      PROVE  UNCHANGED <<mark, mark_stack, cur, cpc, shade_queue>>
  BY <1>2 DEF Read, Kick, Terminate, Poll, BarrierFull, BarrierTest, BarrierYield,
         BarrierKick, BarrierRetry, StoreDone, RootFull, RootKick
<1>3. ASSUME RootWake \/ StopEnter \/ StopWake \/ ExitStop \/ ExitWake \/ Exit \/
       SpuriousWake
      PROVE  UNCHANGED <<mark, mark_stack, cur, cpc, shade_queue>>
  BY <1>3 DEF RootWake, StopEnter, Handshake, StopWake, ExitStop, ExitWake, Exit,
         SpuriousWake
<1> USE NAssumption, BoundsAssumption DEF TypeOK, MemoryType, MarkingType, MutatorType,
       Cells, Nil, NoStore, CollectorWaits
<1>4. ASSUME UNCHANGED <<mark, mark_stack, cur, cpc, shade_queue>> PROVE MarkingType'
  BY <1>4
<1>5. ASSUME NEW c \in Cells, NEW v \in stack \cup {Nil}, AllocCell(c, v) PROVE MarkingType'
  BY <1>5 DEF AllocCell, Alloc, BornMark
<1>6. ASSUME NEW c \in Cells, InternNew(c) PROVE MarkingType'
  BY <1>6 DEF InternNew, Alloc, BornMark
<1>7. ASSUME InternMark PROVE MarkingType'
  BY <1>7 DEF InternMark, Found
<1>8. ASSUME BarrierPut PROVE MarkingType'
  BY <1>8 DEF BarrierPut, Room
<1>9. ASSUME RootPut PROVE MarkingType'
  BY <1>9 DEF RootPut, Room
<1>10. ASSUME Start PROVE MarkingType'
  BY <1>10 DEF Start
<1>11. ASSUME Quit PROVE MarkingType'
  BY <1>11 DEF Quit
<1>12. ASSUME Rest PROVE MarkingType'
  BY <1>12 DEF Rest
<1>13. ASSUME Awaken PROVE MarkingType'
  BY <1>13 DEF Awaken
<1>14. ASSUME BeginConcurrent PROVE MarkingType'
  BY <1>14 DEF BeginConcurrent, StopTheWorld
<1>15. ASSUME BeginSynchronized PROVE MarkingType'
  BY <1>15 DEF BeginSynchronized, StopTheWorld, Shaded
<1>16. ASSUME StopWait PROVE MarkingType'
  BY <1>16 DEF StopWait
<1>17. ASSUME Drain PROVE MarkingType'
  <2>1. Dequeue("drain") /\ UNCHANGED <<mark, cur, cpc>>
    BY <1>17 DEF Drain, marking, cycle
  <2> QED BY <2>1, DequeueType
<1>18. ASSUME Drained PROVE MarkingType'
  BY <1>18 DEF Drained
<1>19. ASSUME HaltedGlobals PROVE MarkingType'
  BY <1>19 DEF HaltedGlobals, StartTheWorld
<1>20. ASSUME HaltedLocals PROVE MarkingType'
  BY <1>20 DEF HaltedLocals, StartTheWorld
<1>21. ASSUME HaltedFinal PROVE MarkingType'
  BY <1>21 DEF HaltedFinal
<1>22. ASSUME FinalDrain PROVE MarkingType'
  <2>1. Dequeue("final_drain") /\ UNCHANGED <<mark, cur, cpc>>
    BY <1>22 DEF FinalDrain, marking, cycle
  <2> QED BY <2>1, DequeueType
<1>23. ASSUME FinalDrained PROVE MarkingType'
  BY <1>23 DEF FinalDrained
<1>24. ASSUME SerialTrace PROVE MarkingType'
  <2>1. cpc' # "scan" /\ UNCHANGED <<cur, shade_queue>>
    BY <1>24 DEF SerialTrace, cycle
  <2>2. PICK c \in mark_stack : Trace(c)
    BY <1>24 DEF SerialTrace
  <2> QED BY <2>1, <2>2, TraceType
<1>25. ASSUME SerialTimeout PROVE MarkingType'
  <2>1. cpc' # "scan" /\ UNCHANGED <<cur, shade_queue>>
    BY <1>25 DEF SerialTimeout, StartTheWorld
  <2>2. PICK c \in mark_stack : Trace(c)
    BY <1>25 DEF SerialTimeout
  <2> QED BY <2>1, <2>2, TraceType
<1>26. ASSUME BeginSweep PROVE MarkingType'
  BY <1>26 DEF BeginSweep, StartTheWorld
<1>27. ASSUME BeginStoppedSweep PROVE MarkingType'
  BY <1>27 DEF BeginStoppedSweep
<1>28. ASSUME ResumeWait PROVE MarkingType'
  BY <1>28 DEF ResumeWait
<1>29. ASSUME MarkQueue PROVE MarkingType'
  <2>1. Dequeue("mark") \/ UNCHANGED <<mark_stack, shade_queue>>
    BY <1>29 DEF MarkQueue
  <2>2. cpc' = "pop" /\ UNCHANGED <<mark, cur>>
    BY <1>29 DEF MarkQueue
  <2> QED BY <2>1, <2>2, DequeueType
<1>30. ASSUME MarkPop PROVE MarkingType'
  BY <1>30 DEF MarkPop
<1>31. ASSUME MarkScan PROVE MarkingType'
  BY <1>31 DEF MarkScan, Shaded
<1>32. ASSUME MarkMore PROVE MarkingType'
  BY <1>32 DEF MarkMore
<1>33. ASSUME MarkedGlobals PROVE MarkingType'
  BY <1>33 DEF MarkedGlobals, Shaded, MarkedOut
<1>34. ASSUME MarkedInherents PROVE MarkingType'
  BY <1>34 DEF MarkedInherents, MarkedOut, StopTheWorld
<1>35. ASSUME MarkedLocals PROVE MarkingType'
  BY <1>35 DEF MarkedLocals, MarkedOut, StopTheWorld
<1>36. ASSUME SweepTable PROVE MarkingType'
  BY <1>36 DEF SweepTable
<1>37. ASSUME ReadBarrierOff PROVE MarkingType'
  BY <1>37 DEF ReadBarrierOff
<1>38. ASSUME SweepSlab PROVE MarkingType'
  BY <1>38 DEF SweepSlab
<1>39. ASSUME Swept PROVE MarkingType'
  BY <1>39 DEF Swept
<1>40. ASSUME SweptStopped PROVE MarkingType'
  BY <1>40 DEF SweptStopped, StartTheWorld
<1>41. ASSUME Finish PROVE MarkingType'
  BY <1>41 DEF Finish
<1> QED BY <1>1, <1>2, <1>3, <1>4, <1>5, <1>6, <1>7, <1>8, <1>9, <1>10, <1>11, <1>12,
       <1>13, <1>14, <1>15, <1>16, <1>17, <1>18, <1>19, <1>20, <1>21, <1>22, <1>23,
       <1>24, <1>25, <1>26, <1>27, <1>28, <1>29, <1>30, <1>31, <1>32, <1>33, <1>34,
       <1>35, <1>36, <1>37, <1>38, <1>39, <1>40, <1>41, Zenon
     DEF Next, Program, MutatorStep, CollectorStep

(* The flags of the handshake, the barriers and the pending signals. *)
LEMMA FlagNext ==
  ASSUME TypeOK, Next
  PROVE  FlagType'
<1> USE DEF barriers, request, world, wakes
<1>1. ASSUME NEW c \in Cells, NEW v \in stack \cup {Nil}, AllocCell(c, v) \/ Write(c, v)
       \/ SetReg(v) \/ InternNew(c) \/ Intern(c) \/ InternBarrier(c) \/ Drop(c)
      PROVE  UNCHANGED <<write_barrier, read_barrier, alloc_barrier, kicked, ready,
                         terminating, stop_the_world, mutator_stopped, cwake, mwake>>
  BY <1>1 DEF AllocCell, Alloc, Write, SetReg, InternNew, Intern, Found, InternBarrier,
         Drop
<1>2. ASSUME Read \/ Poll \/ InternMark \/ BarrierPut \/ BarrierFull \/ BarrierTest \/
       BarrierYield \/ StoreDone \/ RootPut \/ RootFull \/ Exit \/ Rest
      PROVE  UNCHANGED <<write_barrier, read_barrier, alloc_barrier, kicked, ready,
                         terminating, stop_the_world, mutator_stopped, cwake, mwake>>
  BY <1>2 DEF Read, Poll, InternMark, Found, BarrierPut, BarrierFull, BarrierTest,
         BarrierYield, StoreDone, RootPut, RootFull, Exit, Rest
<1>3. ASSUME Drain \/ FinalDrain \/ FinalDrained \/ SerialTrace \/ BeginStoppedSweep \/
       MarkQueue \/ MarkPop \/ MarkScan \/ MarkMore \/ MarkedGlobals \/ SweepTable \/
       SweepSlab
      PROVE  UNCHANGED <<write_barrier, read_barrier, alloc_barrier, kicked, ready,
                         terminating, stop_the_world, mutator_stopped, cwake, mwake>>
  BY <1>3 DEF Drain, Dequeue, FinalDrain, FinalDrained, SerialTrace, Trace,
         BeginStoppedSweep, MarkQueue, MarkPop, MarkScan, MarkMore, MarkedGlobals,
         MarkedOut, SweepTable, SweepSlab
<1> USE DEF TypeOK, FlagType, SignalCollector, SignalMutator
<1>4. ASSUME UNCHANGED <<write_barrier, read_barrier, alloc_barrier, kicked, ready,
                         terminating, stop_the_world, mutator_stopped, cwake, mwake>>
      PROVE  FlagType'
  BY <1>4
<1>5. ASSUME Kick PROVE FlagType'
  BY <1>5 DEF Kick
<1>6. ASSUME Terminate PROVE FlagType'
  BY <1>6 DEF Terminate
<1>7. ASSUME BarrierKick PROVE FlagType'
  BY <1>7 DEF BarrierKick
<1>8. ASSUME BarrierRetry PROVE FlagType'
  BY <1>8 DEF BarrierRetry
<1>9. ASSUME RootKick PROVE FlagType'
  BY <1>9 DEF RootKick
<1>10. ASSUME RootWake PROVE FlagType'
  BY <1>10 DEF RootWake
<1>11. ASSUME StopEnter PROVE FlagType'
  BY <1>11 DEF StopEnter, Handshake
<1>12. ASSUME StopWake PROVE FlagType'
  BY <1>12 DEF StopWake, Handshake
<1>13. ASSUME ExitStop PROVE FlagType'
  BY <1>13 DEF ExitStop, Handshake
<1>14. ASSUME ExitWake PROVE FlagType'
  BY <1>14 DEF ExitWake, Handshake
<1>15. ASSUME Start PROVE FlagType'
  BY <1>15 DEF Start
<1>16. ASSUME Quit PROVE FlagType'
  BY <1>16 DEF Quit
<1>17. ASSUME Awaken PROVE FlagType'
  BY <1>17 DEF Awaken
<1>18. ASSUME BeginConcurrent PROVE FlagType'
  BY <1>18 DEF BeginConcurrent, StopTheWorld
<1>19. ASSUME BeginSynchronized PROVE FlagType'
  BY <1>19 DEF BeginSynchronized, StopTheWorld, Shaded
<1>20. ASSUME StopWait PROVE FlagType'
  BY <1>20 DEF StopWait
<1>21. ASSUME Drained PROVE FlagType'
  BY <1>21 DEF Drained
<1>22. ASSUME HaltedGlobals PROVE FlagType'
  BY <1>22 DEF HaltedGlobals, StartTheWorld
<1>23. ASSUME HaltedLocals PROVE FlagType'
  BY <1>23 DEF HaltedLocals, StartTheWorld
<1>24. ASSUME HaltedFinal PROVE FlagType'
  BY <1>24 DEF HaltedFinal
<1>25. ASSUME SerialTimeout PROVE FlagType'
  BY <1>25 DEF SerialTimeout, Trace, StartTheWorld
<1>26. ASSUME BeginSweep PROVE FlagType'
  BY <1>26 DEF BeginSweep, StartTheWorld
<1>27. ASSUME ResumeWait PROVE FlagType'
  BY <1>27 DEF ResumeWait
<1>28. ASSUME MarkedInherents PROVE FlagType'
  BY <1>28 DEF MarkedInherents, MarkedOut, StopTheWorld
<1>29. ASSUME MarkedLocals PROVE FlagType'
  BY <1>29 DEF MarkedLocals, MarkedOut, StopTheWorld
<1>30. ASSUME ReadBarrierOff PROVE FlagType'
  BY <1>30 DEF ReadBarrierOff
<1>31. ASSUME Swept PROVE FlagType'
  BY <1>31 DEF Swept
<1>32. ASSUME SweptStopped PROVE FlagType'
  BY <1>32 DEF SweptStopped, StartTheWorld
<1>33. ASSUME Finish PROVE FlagType'
  BY <1>33 DEF Finish
<1>34. ASSUME SpuriousWake PROVE FlagType'
  BY <1>34 DEF SpuriousWake
<1> QED BY <1>1, <1>2, <1>3, <1>4, <1>5, <1>6, <1>7, <1>8, <1>9, <1>10, <1>11, <1>12,
       <1>13, <1>14, <1>15, <1>16, <1>17, <1>18, <1>19, <1>20, <1>21, <1>22, <1>23,
       <1>24, <1>25, <1>26, <1>27, <1>28, <1>29, <1>30, <1>31, <1>32, <1>33, <1>34,
       Zenon
     DEF Next, Program, MutatorStep, CollectorStep

(* The places and the phases of the collector. *)
LEMMA CollectorNext ==
  ASSUME TypeOK, Next
  PROVE  CollectorType'
<1> USE DEF cycle, world
<1>1. ASSUME NEW c \in Cells, NEW v \in stack \cup {Nil}, AllocCell(c, v) \/ Write(c, v)
       \/ SetReg(v) \/ InternNew(c) \/ Intern(c) \/ InternBarrier(c) \/ Drop(c)
      PROVE  UNCHANGED <<root_snapshot, cpc, phase>>
  BY <1>1 DEF AllocCell, Alloc, Write, SetReg, InternNew, Intern, Found, InternBarrier,
         Drop
<1>2. ASSUME Read \/ Kick \/ Terminate \/ Poll \/ InternMark \/ BarrierPut \/
       BarrierFull \/ BarrierTest \/ BarrierYield \/ BarrierKick \/ BarrierRetry \/
       StoreDone
      PROVE  UNCHANGED <<root_snapshot, cpc, phase>>
  BY <1>2 DEF Read, Kick, Terminate, Poll, InternMark, Found, BarrierPut, BarrierFull,
         BarrierTest, BarrierYield, BarrierKick, BarrierRetry, StoreDone
<1>3. ASSUME RootPut \/ RootFull \/ RootKick \/ RootWake \/ StopEnter \/ StopWake \/
       ExitStop \/ ExitWake \/ Exit \/ Drain \/ FinalDrain \/ SerialTrace
      PROVE  UNCHANGED <<root_snapshot, cpc, phase>>
  BY <1>3 DEF RootPut, RootFull, RootKick, RootWake, StopEnter, Handshake, StopWake,
         ExitStop, ExitWake, Exit, Drain, Dequeue, FinalDrain, SerialTrace, Trace
<1>4. ASSUME SweepSlab \/ SpuriousWake
      PROVE  UNCHANGED <<root_snapshot, cpc, phase>>
  BY <1>4 DEF SweepSlab, SpuriousWake
<1> USE DEF TypeOK, CollectorType, CollectorWaits
<1>5. ASSUME UNCHANGED <<root_snapshot, cpc, phase>> PROVE CollectorType'
  BY <1>5
<1>6. ASSUME Start PROVE CollectorType'
  BY <1>6 DEF Start
<1>7. ASSUME Quit PROVE CollectorType'
  BY <1>7 DEF Quit
<1>8. ASSUME Rest PROVE CollectorType'
  BY <1>8 DEF Rest
<1>9. ASSUME Awaken PROVE CollectorType'
  BY <1>9 DEF Awaken
<1>10. ASSUME BeginConcurrent PROVE CollectorType'
  BY <1>10 DEF BeginConcurrent, StopTheWorld
<1>11. ASSUME BeginSynchronized PROVE CollectorType'
  BY <1>11 DEF BeginSynchronized, StopTheWorld, Shaded
<1>12. ASSUME StopWait PROVE CollectorType'
  BY <1>12 DEF StopWait
<1>13. ASSUME Drained PROVE CollectorType'
  BY <1>13 DEF Drained
<1>14. ASSUME HaltedGlobals PROVE CollectorType'
  BY <1>14 DEF HaltedGlobals, StartTheWorld
<1>15. ASSUME HaltedLocals PROVE CollectorType'
  BY <1>15 DEF HaltedLocals, StartTheWorld
<1>16. ASSUME HaltedFinal PROVE CollectorType'
  BY <1>16 DEF HaltedFinal
<1>17. ASSUME FinalDrained PROVE CollectorType'
  BY <1>17 DEF FinalDrained
<1>18. ASSUME SerialTimeout PROVE CollectorType'
  BY <1>18 DEF SerialTimeout, Trace, StartTheWorld
<1>19. ASSUME BeginSweep PROVE CollectorType'
  BY <1>19 DEF BeginSweep, StartTheWorld
<1>20. ASSUME BeginStoppedSweep PROVE CollectorType'
  BY <1>20 DEF BeginStoppedSweep
<1>21. ASSUME ResumeWait PROVE CollectorType'
  BY <1>21 DEF ResumeWait
<1>22. ASSUME MarkQueue PROVE CollectorType'
  BY <1>22 DEF MarkQueue, Dequeue, Shaded
<1>23. ASSUME MarkPop PROVE CollectorType'
  BY <1>23 DEF MarkPop
<1>24. ASSUME MarkScan PROVE CollectorType'
  BY <1>24 DEF MarkScan, Shaded
<1>25. ASSUME MarkMore PROVE CollectorType'
  BY <1>25 DEF MarkMore
<1>26. ASSUME MarkedGlobals PROVE CollectorType'
  BY <1>26 DEF MarkedGlobals, Shaded, MarkedOut
<1>27. ASSUME MarkedInherents PROVE CollectorType'
  BY <1>27 DEF MarkedInherents, MarkedOut, StopTheWorld
<1>28. ASSUME MarkedLocals PROVE CollectorType'
  BY <1>28 DEF MarkedLocals, MarkedOut, StopTheWorld
<1>29. ASSUME SweepTable PROVE CollectorType'
  BY <1>29 DEF SweepTable
<1>30. ASSUME ReadBarrierOff PROVE CollectorType'
  BY <1>30 DEF ReadBarrierOff
<1>31. ASSUME Swept PROVE CollectorType'
  BY <1>31 DEF Swept
<1>32. ASSUME SweptStopped PROVE CollectorType'
  BY <1>32 DEF SweptStopped, StartTheWorld
<1>33. ASSUME Finish PROVE CollectorType'
  BY <1>33 DEF Finish
<1> QED BY <1>1, <1>2, <1>3, <1>4, <1>5, <1>6, <1>7, <1>8, <1>9, <1>10, <1>11, <1>12,
       <1>13, <1>14, <1>15, <1>16, <1>17, <1>18, <1>19, <1>20, <1>21, <1>22, <1>23,
       <1>24, <1>25, <1>26, <1>27, <1>28, <1>29, <1>30, <1>31, <1>32, <1>33, Zenon
     DEF Next, Program, MutatorStep, CollectorStep

(* The wavefront passes the last cell by one, and retries are bounded. *)
LEMMA CounterNext ==
  ASSUME TypeOK, Next
  PROVE  CounterType'
<1> USE DEF cycle, barriers
<1>1. ASSUME NEW c \in Cells, NEW v \in stack \cup {Nil}, AllocCell(c, v) \/ Write(c, v)
       \/ SetReg(v) \/ InternNew(c) \/ Intern(c) \/ InternBarrier(c) \/ Drop(c)
      PROVE  UNCHANGED <<wavefront, retries>>
  BY <1>1 DEF AllocCell, Alloc, Write, SetReg, InternNew, Intern, Found, InternBarrier,
         Drop
<1>2. ASSUME Read \/ Kick \/ Terminate \/ Poll \/ InternMark \/ BarrierPut \/
       BarrierFull \/ BarrierTest \/ BarrierYield \/ BarrierKick \/ BarrierRetry \/
       StoreDone
      PROVE  UNCHANGED <<wavefront, retries>>
  BY <1>2 DEF Read, Kick, Terminate, Poll, InternMark, Found, BarrierPut, BarrierFull,
         BarrierTest, BarrierYield, BarrierKick, BarrierRetry, StoreDone
<1>3. ASSUME RootPut \/ RootFull \/ RootKick \/ RootWake \/ StopEnter \/ StopWake \/
       ExitStop \/ ExitWake \/ Exit \/ Start \/ Quit \/ Rest
      PROVE  UNCHANGED <<wavefront, retries>>
  BY <1>3 DEF RootPut, RootFull, RootKick, RootWake, StopEnter, Handshake, StopWake,
         ExitStop, ExitWake, Exit, Start, Quit, Rest
<1>4. ASSUME Awaken \/ StopWait \/ Drain \/ Drained \/ HaltedGlobals \/ HaltedLocals \/
       HaltedFinal \/ FinalDrain \/ FinalDrained \/ SerialTrace \/ ResumeWait \/
       MarkQueue
      PROVE  UNCHANGED <<wavefront, retries>>
  BY <1>4 DEF Awaken, StopWait, Drain, Dequeue, Drained, HaltedGlobals, StartTheWorld,
         HaltedLocals, HaltedFinal, FinalDrain, FinalDrained, SerialTrace, Trace,
         ResumeWait, MarkQueue
<1>5. ASSUME MarkPop \/ MarkScan \/ MarkMore \/ MarkedGlobals \/ MarkedInherents \/
       MarkedLocals \/ SweepTable \/ ReadBarrierOff \/ Swept \/ SweptStopped \/ Finish
       \/ SpuriousWake
      PROVE  UNCHANGED <<wavefront, retries>>
  BY <1>5 DEF MarkPop, MarkScan, MarkMore, MarkedGlobals, MarkedOut, MarkedInherents,
         StopTheWorld, MarkedLocals, SweepTable, ReadBarrierOff, Swept, SweptStopped,
         StartTheWorld, Finish, SpuriousWake
<1> USE NAssumption, BoundsAssumption DEF TypeOK, CounterType, Done
<1>6. ASSUME UNCHANGED <<wavefront, retries>> PROVE CounterType'
  BY <1>6
<1>7. ASSUME BeginConcurrent PROVE CounterType'
  BY <1>7 DEF BeginConcurrent, StopTheWorld
<1>8. ASSUME BeginSynchronized PROVE CounterType'
  BY <1>8 DEF BeginSynchronized, StopTheWorld, Shaded
<1>9. ASSUME SerialTimeout PROVE CounterType'
  <2>1. retries < MaxRetries /\ retries' = retries + 1 /\ UNCHANGED wavefront
    BY <1>9 DEF SerialTimeout
  <2> QED BY <2>1
<1>10. ASSUME BeginSweep PROVE CounterType'
  BY <1>10 DEF BeginSweep, StartTheWorld
<1>11. ASSUME BeginStoppedSweep PROVE CounterType'
  BY <1>11 DEF BeginStoppedSweep
<1>12. ASSUME SweepSlab PROVE CounterType'
  BY <1>12 DEF SweepSlab
<1> QED BY <1>1, <1>2, <1>3, <1>4, <1>5, <1>6, <1>7, <1>8, <1>9, <1>10, <1>11, <1>12,
       Zenon
     DEF Next, Program, MutatorStep, CollectorStep

(* The places of the mutator, its pending store and the roots it has yet to put. *)
LEMMA MutatorNext ==
  ASSUME TypeOK, Next
  PROVE  MutatorType'
<1> USE DEF mutator
<1>1. ASSUME NEW c \in Cells, NEW v \in stack \cup {Nil}, AllocCell(c, v) \/ SetReg(v)
       \/ InternNew(c) \/ Intern(c) \/ Drop(c)
      PROVE  UNCHANGED <<mpc, store, todo>>
  BY <1>1 DEF AllocCell, Alloc, SetReg, InternNew, Intern, Found, Drop
<1>2. ASSUME Read \/ Kick \/ Start \/ Quit \/ Rest \/ Awaken \/ BeginConcurrent \/
       BeginSynchronized \/ StopWait \/ Drain \/ Drained \/ HaltedGlobals
      PROVE  UNCHANGED <<mpc, store, todo>>
  BY <1>2 DEF Read, Kick, Start, Quit, Rest, Awaken, BeginConcurrent, StopTheWorld,
         BeginSynchronized, StopWait, Drain, Dequeue, Drained, HaltedGlobals,
         StartTheWorld
<1>3. ASSUME HaltedLocals \/ HaltedFinal \/ FinalDrain \/ FinalDrained \/ SerialTrace \/
       SerialTimeout \/ BeginSweep \/ BeginStoppedSweep \/ ResumeWait \/ MarkQueue \/
       MarkPop \/ MarkScan
      PROVE  UNCHANGED <<mpc, store, todo>>
  BY <1>3 DEF HaltedLocals, StartTheWorld, HaltedFinal, FinalDrain, Dequeue,
         FinalDrained, SerialTrace, Trace, SerialTimeout, BeginSweep, BeginStoppedSweep,
         ResumeWait, MarkQueue, MarkPop, MarkScan
<1>4. ASSUME MarkMore \/ MarkedGlobals \/ MarkedInherents \/ MarkedLocals \/ SweepTable
       \/ ReadBarrierOff \/ SweepSlab \/ Swept \/ SweptStopped \/ Finish \/ SpuriousWake
      PROVE  UNCHANGED <<mpc, store, todo>>
  BY <1>4 DEF MarkMore, MarkedGlobals, MarkedOut, MarkedInherents, StopTheWorld,
         MarkedLocals, SweepTable, ReadBarrierOff, SweepSlab, Swept, SweptStopped,
         StartTheWorld, Finish, SpuriousWake
<1> USE DEF TypeOK, MemoryType, MutatorType, Cells, Nil, NoStore, MutatorWaits
<1>5. ASSUME UNCHANGED <<mpc, store, todo>> PROVE MutatorType'
  BY <1>5
<1>6. ASSUME NEW c \in Cells, NEW v \in stack \cup {Nil}, Write(c, v) PROVE MutatorType'
  BY <1>6 DEF Write
<1>7. ASSUME NEW c \in Cells, InternBarrier(c) PROVE MutatorType'
  BY <1>7 DEF InternBarrier
<1>8. ASSUME Terminate PROVE MutatorType'
  BY <1>8 DEF Terminate
<1>9. ASSUME Poll PROVE MutatorType'
  BY <1>9 DEF Poll, RootsFor
<1>10. ASSUME InternMark PROVE MutatorType'
  BY <1>10 DEF InternMark, Found
<1>11. ASSUME BarrierPut PROVE MutatorType'
  BY <1>11 DEF BarrierPut, Room
<1>12. ASSUME BarrierFull PROVE MutatorType'
  BY <1>12 DEF BarrierFull, Room
<1>13. ASSUME BarrierTest PROVE MutatorType'
  BY <1>13 DEF BarrierTest
<1>14. ASSUME BarrierYield PROVE MutatorType'
  BY <1>14 DEF BarrierYield
<1>15. ASSUME BarrierKick PROVE MutatorType'
  BY <1>15 DEF BarrierKick
<1>16. ASSUME BarrierRetry PROVE MutatorType'
  BY <1>16 DEF BarrierRetry
<1>17. ASSUME StoreDone PROVE MutatorType'
  BY <1>17 DEF StoreDone
<1>18. ASSUME RootPut PROVE MutatorType'
  BY <1>18 DEF RootPut, Room
<1>19. ASSUME RootFull PROVE MutatorType'
  BY <1>19 DEF RootFull, Room
<1>20. ASSUME RootKick PROVE MutatorType'
  BY <1>20 DEF RootKick
<1>21. ASSUME RootWake PROVE MutatorType'
  BY <1>21 DEF RootWake
<1>22. ASSUME StopEnter PROVE MutatorType'
  BY <1>22 DEF StopEnter, Handshake
<1>23. ASSUME StopWake PROVE MutatorType'
  BY <1>23 DEF StopWake, Handshake
<1>24. ASSUME ExitStop PROVE MutatorType'
  BY <1>24 DEF ExitStop, Handshake
<1>25. ASSUME ExitWake PROVE MutatorType'
  BY <1>25 DEF ExitWake, Handshake
<1>26. ASSUME Exit PROVE MutatorType'
  BY <1>26 DEF Exit
<1> QED BY <1>1, <1>2, <1>3, <1>4, <1>5, <1>6, <1>7, <1>8, <1>9, <1>10, <1>11, <1>12,
       <1>13, <1>14, <1>15, <1>16, <1>17, <1>18, <1>19, <1>20, <1>21, <1>22, <1>23,
       <1>24, <1>25, <1>26, Zenon
     DEF Next, Program, MutatorStep, CollectorStep

------------------------------------------------------------------------------
(* The conjuncts that say how the two threads are related. *)

(* The phase changes only together with the place. *)
LEMMA PhaseNext ==
  ASSUME TypeOK, PhaseShape, Next
  PROVE  PhaseShape'
<1> USE DEF cycle
<1>1. ASSUME NEW c \in Cells, NEW v \in stack \cup {Nil}, AllocCell(c, v) \/ Write(c, v)
       \/ SetReg(v) \/ InternNew(c) \/ Intern(c) \/ InternBarrier(c) \/ Drop(c)
      PROVE  UNCHANGED <<cpc, phase>>
  BY <1>1 DEF AllocCell, Alloc, Write, SetReg, InternNew, Intern, Found, InternBarrier,
         Drop
<1>2. ASSUME Read \/ Kick \/ Terminate \/ Poll \/ InternMark \/ BarrierPut \/
       BarrierFull \/ BarrierTest \/ BarrierYield \/ BarrierKick \/ BarrierRetry \/
       StoreDone
      PROVE  UNCHANGED <<cpc, phase>>
  BY <1>2 DEF Read, Kick, Terminate, Poll, InternMark, Found, BarrierPut, BarrierFull,
         BarrierTest, BarrierYield, BarrierKick, BarrierRetry, StoreDone
<1>3. ASSUME RootPut \/ RootFull \/ RootKick \/ RootWake \/ StopEnter \/ StopWake \/
       ExitStop \/ ExitWake \/ Exit \/ Drain \/ FinalDrain \/ SerialTrace
      PROVE  UNCHANGED <<cpc, phase>>
  BY <1>3 DEF RootPut, RootFull, RootKick, RootWake, StopEnter, Handshake, StopWake,
         ExitStop, ExitWake, Exit, Drain, Dequeue, FinalDrain, SerialTrace, Trace
<1>4. ASSUME SweepSlab \/ SpuriousWake
      PROVE  UNCHANGED <<cpc, phase>>
  BY <1>4 DEF SweepSlab, SpuriousWake
<1> USE DEF PhaseShape, CollectorWaits
<1>5. ASSUME UNCHANGED <<cpc, phase>> PROVE PhaseShape'
  BY <1>5
<1>6. ASSUME Start PROVE PhaseShape'
  BY <1>6 DEF Start
<1>7. ASSUME Quit PROVE PhaseShape'
  BY <1>7 DEF Quit
<1>8. ASSUME Rest PROVE PhaseShape'
  BY <1>8 DEF Rest
<1>9. ASSUME Awaken PROVE PhaseShape'
  BY <1>9 DEF Awaken
<1>10. ASSUME BeginConcurrent PROVE PhaseShape'
  BY <1>10 DEF BeginConcurrent, StopTheWorld
<1>11. ASSUME BeginSynchronized PROVE PhaseShape'
  BY <1>11 DEF BeginSynchronized, StopTheWorld, Shaded
<1>12. ASSUME StopWait PROVE PhaseShape'
  BY <1>12 DEF StopWait
<1>13. ASSUME Drained PROVE PhaseShape'
  BY <1>13 DEF Drained
<1>14. ASSUME HaltedGlobals PROVE PhaseShape'
  BY <1>14 DEF HaltedGlobals, StartTheWorld
<1>15. ASSUME HaltedLocals PROVE PhaseShape'
  BY <1>15 DEF HaltedLocals, StartTheWorld
<1>16. ASSUME HaltedFinal PROVE PhaseShape'
  BY <1>16 DEF HaltedFinal
<1>17. ASSUME FinalDrained PROVE PhaseShape'
  BY <1>17 DEF FinalDrained
<1>18. ASSUME SerialTimeout PROVE PhaseShape'
  BY <1>18 DEF SerialTimeout, Trace, StartTheWorld
<1>19. ASSUME BeginSweep PROVE PhaseShape'
  BY <1>19 DEF BeginSweep, StartTheWorld
<1>20. ASSUME BeginStoppedSweep PROVE PhaseShape'
  BY <1>20 DEF BeginStoppedSweep
<1>21. ASSUME ResumeWait PROVE PhaseShape'
  BY <1>21 DEF ResumeWait
<1>22. ASSUME MarkQueue PROVE PhaseShape'
  BY <1>22 DEF MarkQueue, Dequeue, Shaded
<1>23. ASSUME MarkPop PROVE PhaseShape'
  BY <1>23 DEF MarkPop
<1>24. ASSUME MarkScan PROVE PhaseShape'
  BY <1>24 DEF MarkScan, Shaded
<1>25. ASSUME MarkMore PROVE PhaseShape'
  BY <1>25 DEF MarkMore
<1>26. ASSUME MarkedGlobals PROVE PhaseShape'
  BY <1>26 DEF MarkedGlobals, Shaded, MarkedOut
<1>27. ASSUME MarkedInherents PROVE PhaseShape'
  BY <1>27 DEF MarkedInherents, MarkedOut, StopTheWorld
<1>28. ASSUME MarkedLocals PROVE PhaseShape'
  BY <1>28 DEF MarkedLocals, MarkedOut, StopTheWorld
<1>29. ASSUME SweepTable PROVE PhaseShape'
  BY <1>29 DEF SweepTable
<1>30. ASSUME ReadBarrierOff PROVE PhaseShape'
  BY <1>30 DEF ReadBarrierOff
<1>31. ASSUME Swept PROVE PhaseShape'
  BY <1>31 DEF Swept
<1>32. ASSUME SweptStopped PROVE PhaseShape'
  BY <1>32 DEF SweptStopped, StartTheWorld
<1>33. ASSUME Finish PROVE PhaseShape'
  BY <1>33 DEF Finish
<1> QED BY <1>1, <1>2, <1>3, <1>4, <1>5, <1>6, <1>7, <1>8, <1>9, <1>10, <1>11, <1>12,
       <1>13, <1>14, <1>15, <1>16, <1>17, <1>18, <1>19, <1>20, <1>21, <1>22, <1>23,
       <1>24, <1>25, <1>26, <1>27, <1>28, <1>29, <1>30, <1>31, <1>32, <1>33, Zenon
     DEF Next, Program, MutatorStep, CollectorStep

(* Only the machine says that it has stopped, and where it does it is inside a wait. *)
LEMMA StopNext ==
  ASSUME TypeOK, StopShape, Next
  PROVE  StopShape'
<1> USE DEF mutator, world
<1>1. ASSUME NEW c \in Cells, NEW v \in stack \cup {Nil}, AllocCell(c, v) \/ SetReg(v)
       \/ InternNew(c) \/ Intern(c) \/ Drop(c)
      PROVE  UNCHANGED <<mutator_stopped, mpc>>
  BY <1>1 DEF AllocCell, Alloc, SetReg, InternNew, Intern, Found, Drop
<1>2. ASSUME Read \/ Kick \/ Start \/ Quit \/ Rest \/ Awaken \/ BeginConcurrent \/
       BeginSynchronized \/ StopWait \/ Drain \/ Drained \/ HaltedGlobals
      PROVE  UNCHANGED <<mutator_stopped, mpc>>
  BY <1>2 DEF Read, Kick, Start, Quit, Rest, Awaken, BeginConcurrent, StopTheWorld,
         BeginSynchronized, StopWait, Drain, Dequeue, Drained, HaltedGlobals,
         StartTheWorld
<1>3. ASSUME HaltedLocals \/ HaltedFinal \/ FinalDrain \/ FinalDrained \/ SerialTrace \/
       SerialTimeout \/ BeginSweep \/ BeginStoppedSweep \/ ResumeWait \/ MarkQueue \/
       MarkPop \/ MarkScan
      PROVE  UNCHANGED <<mutator_stopped, mpc>>
  BY <1>3 DEF HaltedLocals, StartTheWorld, HaltedFinal, FinalDrain, Dequeue,
         FinalDrained, SerialTrace, Trace, SerialTimeout, BeginSweep, BeginStoppedSweep,
         ResumeWait, MarkQueue, MarkPop, MarkScan
<1>4. ASSUME MarkMore \/ MarkedGlobals \/ MarkedInherents \/ MarkedLocals \/ SweepTable
       \/ ReadBarrierOff \/ SweepSlab \/ Swept \/ SweptStopped \/ Finish \/ SpuriousWake
      PROVE  UNCHANGED <<mutator_stopped, mpc>>
  BY <1>4 DEF MarkMore, MarkedGlobals, MarkedOut, MarkedInherents, StopTheWorld,
         MarkedLocals, SweepTable, ReadBarrierOff, SweepSlab, Swept, SweptStopped,
         StartTheWorld, Finish, SpuriousWake
<1> USE DEF TypeOK, FlagType, StopShape
<1>5. ASSUME UNCHANGED <<mutator_stopped, mpc>> PROVE StopShape'
  BY <1>5
<1>6. ASSUME NEW c \in Cells, NEW v \in stack \cup {Nil}, Write(c, v) PROVE StopShape'
  BY <1>6 DEF Write
<1>7. ASSUME NEW c \in Cells, InternBarrier(c) PROVE StopShape'
  BY <1>7 DEF InternBarrier
<1>8. ASSUME Terminate PROVE StopShape'
  BY <1>8 DEF Terminate
<1>9. ASSUME Poll PROVE StopShape'
  BY <1>9 DEF Poll, RootsFor
<1>10. ASSUME InternMark PROVE StopShape'
  BY <1>10 DEF InternMark, Found
<1>11. ASSUME BarrierPut PROVE StopShape'
  BY <1>11 DEF BarrierPut, Room
<1>12. ASSUME BarrierFull PROVE StopShape'
  BY <1>12 DEF BarrierFull, Room
<1>13. ASSUME BarrierTest PROVE StopShape'
  BY <1>13 DEF BarrierTest
<1>14. ASSUME BarrierYield PROVE StopShape'
  BY <1>14 DEF BarrierYield
<1>15. ASSUME BarrierKick PROVE StopShape'
  BY <1>15 DEF BarrierKick
<1>16. ASSUME BarrierRetry PROVE StopShape'
  BY <1>16 DEF BarrierRetry
<1>17. ASSUME StoreDone PROVE StopShape'
  BY <1>17 DEF StoreDone
<1>18. ASSUME RootPut PROVE StopShape'
  BY <1>18 DEF RootPut, Room
<1>19. ASSUME RootFull PROVE StopShape'
  BY <1>19 DEF RootFull, Room
<1>20. ASSUME RootKick PROVE StopShape'
  BY <1>20 DEF RootKick
<1>21. ASSUME RootWake PROVE StopShape'
  BY <1>21 DEF RootWake
<1>22. ASSUME StopEnter PROVE StopShape'
  BY <1>22 DEF StopEnter, Handshake
<1>23. ASSUME StopWake PROVE StopShape'
  BY <1>23 DEF StopWake, Handshake
<1>24. ASSUME ExitStop PROVE StopShape'
  BY <1>24 DEF ExitStop, Handshake
<1>25. ASSUME ExitWake PROVE StopShape'
  BY <1>25 DEF ExitWake, Handshake
<1>26. ASSUME Exit PROVE StopShape'
  BY <1>26 DEF Exit
<1> QED BY <1>1, <1>2, <1>3, <1>4, <1>5, <1>6, <1>7, <1>8, <1>9, <1>10, <1>11, <1>12,
       <1>13, <1>14, <1>15, <1>16, <1>17, <1>18, <1>19, <1>20, <1>21, <1>22, <1>23,
       <1>24, <1>25, <1>26, Zenon
     DEF Next, Program, MutatorStep, CollectorStep

(* Out of the wait the machine needs the lock, which the collector keeps all the while. *)
LEMMA WorldNext ==
  ASSUME TypeOK, PhaseShape, StopShape, WorldStopped, Next
  PROVE  WorldStopped'
<1> USE DEF mutator, world, cycle
<1>1. ASSUME NEW c \in Cells, NEW v \in stack \cup {Nil}, AllocCell(c, v) \/ SetReg(v)
       \/ InternNew(c) \/ Intern(c) \/ Drop(c)
      PROVE  UNCHANGED <<mutator_stopped, mpc, cpc, phase>>
  BY <1>1 DEF AllocCell, Alloc, SetReg, InternNew, Intern, Found, Drop
<1>2. ASSUME Read \/ Kick \/ Drain \/ FinalDrain \/ SerialTrace \/ SweepSlab \/
       SpuriousWake
      PROVE  UNCHANGED <<mutator_stopped, mpc, cpc, phase>>
  BY <1>2 DEF Read, Kick, Drain, Dequeue, FinalDrain, SerialTrace, Trace, SweepSlab,
         SpuriousWake
<1> USE DEF PhaseShape, StopShape, WorldStopped, LockFree, CollectorWaits
<1>3. ASSUME UNCHANGED <<mutator_stopped, mpc, cpc, phase>> PROVE WorldStopped'
  BY <1>3
<1>4. ASSUME NEW c \in Cells, NEW v \in stack \cup {Nil}, Write(c, v) PROVE WorldStopped'
  BY <1>4 DEF Write
<1>5. ASSUME NEW c \in Cells, InternBarrier(c) PROVE WorldStopped'
  BY <1>5 DEF InternBarrier
<1>6. ASSUME Terminate PROVE WorldStopped'
  BY <1>6 DEF Terminate
<1>7. ASSUME Poll PROVE WorldStopped'
  BY <1>7 DEF Poll, RootsFor
<1>8. ASSUME InternMark PROVE WorldStopped'
  BY <1>8 DEF InternMark, Found
<1>9. ASSUME BarrierPut PROVE WorldStopped'
  BY <1>9 DEF BarrierPut, Room
<1>10. ASSUME BarrierFull PROVE WorldStopped'
  BY <1>10 DEF BarrierFull, Room
<1>11. ASSUME BarrierTest PROVE WorldStopped'
  BY <1>11 DEF BarrierTest
<1>12. ASSUME BarrierYield PROVE WorldStopped'
  BY <1>12 DEF BarrierYield
<1>13. ASSUME BarrierKick PROVE WorldStopped'
  BY <1>13 DEF BarrierKick
<1>14. ASSUME BarrierRetry PROVE WorldStopped'
  BY <1>14 DEF BarrierRetry
<1>15. ASSUME StoreDone PROVE WorldStopped'
  BY <1>15 DEF StoreDone
<1>16. ASSUME RootPut PROVE WorldStopped'
  BY <1>16 DEF RootPut, Room
<1>17. ASSUME RootFull PROVE WorldStopped'
  BY <1>17 DEF RootFull, Room
<1>18. ASSUME RootKick PROVE WorldStopped'
  BY <1>18 DEF RootKick
<1>19. ASSUME RootWake PROVE WorldStopped'
  BY <1>19 DEF RootWake
<1>20. ASSUME StopEnter PROVE WorldStopped'
  BY <1>20 DEF StopEnter, Handshake
<1>21. ASSUME StopWake PROVE WorldStopped'
  BY <1>21 DEF StopWake, Handshake
<1>22. ASSUME ExitStop PROVE WorldStopped'
  BY <1>22 DEF ExitStop, Handshake
<1>23. ASSUME ExitWake PROVE WorldStopped'
  BY <1>23 DEF ExitWake, Handshake
<1>24. ASSUME Exit PROVE WorldStopped'
  BY <1>24 DEF Exit
<1>25. ASSUME Start PROVE WorldStopped'
  BY <1>25 DEF Start
<1>26. ASSUME Quit PROVE WorldStopped'
  BY <1>26 DEF Quit
<1>27. ASSUME Rest PROVE WorldStopped'
  BY <1>27 DEF Rest
<1>28. ASSUME Awaken PROVE WorldStopped'
  BY <1>28 DEF Awaken
<1>29. ASSUME BeginConcurrent PROVE WorldStopped'
  BY <1>29 DEF BeginConcurrent, StopTheWorld
<1>30. ASSUME BeginSynchronized PROVE WorldStopped'
  BY <1>30 DEF BeginSynchronized, StopTheWorld, Shaded
<1>31. ASSUME StopWait PROVE WorldStopped'
  BY <1>31 DEF StopWait
<1>32. ASSUME Drained PROVE WorldStopped'
  BY <1>32 DEF Drained
<1>33. ASSUME HaltedGlobals PROVE WorldStopped'
  BY <1>33 DEF HaltedGlobals, StartTheWorld
<1>34. ASSUME HaltedLocals PROVE WorldStopped'
  BY <1>34 DEF HaltedLocals, StartTheWorld
<1>35. ASSUME HaltedFinal PROVE WorldStopped'
  BY <1>35 DEF HaltedFinal
<1>36. ASSUME FinalDrained PROVE WorldStopped'
  BY <1>36 DEF FinalDrained
<1>37. ASSUME SerialTimeout PROVE WorldStopped'
  BY <1>37 DEF SerialTimeout, Trace, StartTheWorld
<1>38. ASSUME BeginSweep PROVE WorldStopped'
  BY <1>38 DEF BeginSweep, StartTheWorld
<1>39. ASSUME BeginStoppedSweep PROVE WorldStopped'
  BY <1>39 DEF BeginStoppedSweep
<1>40. ASSUME ResumeWait PROVE WorldStopped'
  BY <1>40 DEF ResumeWait
<1>41. ASSUME MarkQueue PROVE WorldStopped'
  BY <1>41 DEF MarkQueue, Dequeue, Shaded
<1>42. ASSUME MarkPop PROVE WorldStopped'
  BY <1>42 DEF MarkPop
<1>43. ASSUME MarkScan PROVE WorldStopped'
  BY <1>43 DEF MarkScan, Shaded
<1>44. ASSUME MarkMore PROVE WorldStopped'
  BY <1>44 DEF MarkMore
<1>45. ASSUME MarkedGlobals PROVE WorldStopped'
  BY <1>45 DEF MarkedGlobals, Shaded, MarkedOut
<1>46. ASSUME MarkedInherents PROVE WorldStopped'
  BY <1>46 DEF MarkedInherents, MarkedOut, StopTheWorld
<1>47. ASSUME MarkedLocals PROVE WorldStopped'
  BY <1>47 DEF MarkedLocals, MarkedOut, StopTheWorld
<1>48. ASSUME SweepTable PROVE WorldStopped'
  BY <1>48 DEF SweepTable
<1>49. ASSUME ReadBarrierOff PROVE WorldStopped'
  BY <1>49 DEF ReadBarrierOff
<1>50. ASSUME Swept PROVE WorldStopped'
  BY <1>50 DEF Swept
<1>51. ASSUME SweptStopped PROVE WorldStopped'
  BY <1>51 DEF SweptStopped, StartTheWorld
<1>52. ASSUME Finish PROVE WorldStopped'
  BY <1>52 DEF Finish
<1> QED BY <1>1, <1>2, <1>3, <1>4, <1>5, <1>6, <1>7, <1>8, <1>9, <1>10, <1>11, <1>12,
       <1>13, <1>14, <1>15, <1>16, <1>17, <1>18, <1>19, <1>20, <1>21, <1>22, <1>23,
       <1>24, <1>25, <1>26, <1>27, <1>28, <1>29, <1>30, <1>31, <1>32, <1>33, <1>34,
       <1>35, <1>36, <1>37, <1>38, <1>39, <1>40, <1>41, <1>42, <1>43, <1>44, <1>45,
       <1>46, <1>47, <1>48, <1>49, <1>50, <1>51, <1>52, Zenon
     DEF Next, Program, MutatorStep, CollectorStep

(* Only names are interned, and only names are looked up. *)
LEMMA NamesNext ==
  ASSUME TypeOK, NamesShape, Next
  PROVE  NamesShape'
<1> USE DEF mutator, heap, memory
<1>1. ASSUME NEW c \in Cells, NEW v \in stack \cup {Nil}, AllocCell(c, v) \/ SetReg(v)
       \/ Intern(c) \/ Drop(c)
      PROVE  UNCHANGED <<interned, mpc, store>>
  BY <1>1 DEF AllocCell, Alloc, SetReg, Intern, Found, Drop
<1>2. ASSUME Read \/ Kick \/ Start \/ Quit \/ Rest \/ Awaken \/ BeginConcurrent \/
       BeginSynchronized \/ StopWait \/ Drain \/ Drained \/ HaltedGlobals
      PROVE  UNCHANGED <<interned, mpc, store>>
  BY <1>2 DEF Read, Kick, Start, Quit, Rest, Awaken, BeginConcurrent, StopTheWorld,
         BeginSynchronized, StopWait, Drain, Dequeue, Drained, HaltedGlobals,
         StartTheWorld
<1>3. ASSUME HaltedLocals \/ HaltedFinal \/ FinalDrain \/ FinalDrained \/ SerialTrace \/
       SerialTimeout \/ BeginSweep \/ BeginStoppedSweep \/ ResumeWait \/ MarkQueue \/
       MarkPop \/ MarkScan
      PROVE  UNCHANGED <<interned, mpc, store>>
  BY <1>3 DEF HaltedLocals, StartTheWorld, HaltedFinal, FinalDrain, Dequeue,
         FinalDrained, SerialTrace, Trace, SerialTimeout, BeginSweep, BeginStoppedSweep,
         ResumeWait, MarkQueue, MarkPop, MarkScan
<1>4. ASSUME MarkMore \/ MarkedGlobals \/ MarkedInherents \/ MarkedLocals \/
       ReadBarrierOff \/ SweepSlab \/ Swept \/ SweptStopped \/ Finish \/ SpuriousWake
      PROVE  UNCHANGED <<interned, mpc, store>>
  BY <1>4 DEF MarkMore, MarkedGlobals, MarkedOut, MarkedInherents, StopTheWorld,
         MarkedLocals, ReadBarrierOff, SweepSlab, Swept, SweptStopped, StartTheWorld,
         Finish, SpuriousWake
<1> USE DEF NamesShape, NoStore
<1>5. ASSUME UNCHANGED <<interned, mpc, store>> PROVE NamesShape'
  BY <1>5
<1>6. ASSUME NEW c \in Cells, NEW v \in stack \cup {Nil}, Write(c, v) PROVE NamesShape'
  BY <1>6 DEF Write
<1>7. ASSUME NEW c \in Cells, InternNew(c) PROVE NamesShape'
  BY <1>7 DEF InternNew, Alloc, BornMark
<1>8. ASSUME NEW c \in Cells, InternBarrier(c) PROVE NamesShape'
  BY <1>8 DEF InternBarrier
<1>9. ASSUME Terminate PROVE NamesShape'
  BY <1>9 DEF Terminate
<1>10. ASSUME Poll PROVE NamesShape'
  BY <1>10 DEF Poll, RootsFor
<1>11. ASSUME InternMark PROVE NamesShape'
  BY <1>11 DEF InternMark, Found
<1>12. ASSUME BarrierPut PROVE NamesShape'
  BY <1>12 DEF BarrierPut, Room
<1>13. ASSUME BarrierFull PROVE NamesShape'
  BY <1>13 DEF BarrierFull, Room
<1>14. ASSUME BarrierTest PROVE NamesShape'
  BY <1>14 DEF BarrierTest
<1>15. ASSUME BarrierYield PROVE NamesShape'
  BY <1>15 DEF BarrierYield
<1>16. ASSUME BarrierKick PROVE NamesShape'
  BY <1>16 DEF BarrierKick
<1>17. ASSUME BarrierRetry PROVE NamesShape'
  BY <1>17 DEF BarrierRetry
<1>18. ASSUME StoreDone PROVE NamesShape'
  BY <1>18 DEF StoreDone
<1>19. ASSUME RootPut PROVE NamesShape'
  BY <1>19 DEF RootPut, Room
<1>20. ASSUME RootFull PROVE NamesShape'
  BY <1>20 DEF RootFull, Room
<1>21. ASSUME RootKick PROVE NamesShape'
  BY <1>21 DEF RootKick
<1>22. ASSUME RootWake PROVE NamesShape'
  BY <1>22 DEF RootWake
<1>23. ASSUME StopEnter PROVE NamesShape'
  BY <1>23 DEF StopEnter, Handshake
<1>24. ASSUME StopWake PROVE NamesShape'
  BY <1>24 DEF StopWake, Handshake
<1>25. ASSUME ExitStop PROVE NamesShape'
  BY <1>25 DEF ExitStop, Handshake
<1>26. ASSUME ExitWake PROVE NamesShape'
  BY <1>26 DEF ExitWake, Handshake
<1>27. ASSUME Exit PROVE NamesShape'
  BY <1>27 DEF Exit
<1>28. ASSUME SweepTable PROVE NamesShape'
  BY <1>28 DEF SweepTable
<1> QED BY <1>1, <1>2, <1>3, <1>4, <1>5, <1>6, <1>7, <1>8, <1>9, <1>10, <1>11, <1>12,
       <1>13, <1>14, <1>15, <1>16, <1>17, <1>18, <1>19, <1>20, <1>21, <1>22, <1>23,
       <1>24, <1>25, <1>26, <1>27, <1>28, Zenon
     DEF Next, Program, MutatorStep, CollectorStep

(* From the end of marking to the next cycle nothing is marked behind the wavefront: *)
(* a new cell is marked only in front of it, the sweep clears as it goes, and the    *)
(* barrier of the table marks names only.                                            *)
LEMMA SweepNext ==
  ASSUME TypeOK, PhaseShape, NamesShape, SweepShape, Next
  PROVE  SweepShape'
<1> USE DEF marking, barriers, cycle
<1>1. ASSUME NEW c \in Cells, NEW v \in stack \cup {Nil}, Write(c, v) \/ SetReg(v) \/
       Intern(c) \/ InternBarrier(c) \/ Drop(c)
      PROVE  UNCHANGED <<mark, cpc, phase, wavefront, alloc_barrier>>
  BY <1>1 DEF Write, SetReg, Intern, Found, InternBarrier, Drop
<1>2. ASSUME Read \/ Kick \/ Terminate \/ Poll \/ BarrierPut \/ BarrierFull \/
       BarrierTest \/ BarrierYield \/ BarrierKick \/ BarrierRetry \/ StoreDone \/
       RootPut
      PROVE  UNCHANGED <<mark, cpc, phase, wavefront, alloc_barrier>>
  BY <1>2 DEF Read, Kick, Terminate, Poll, BarrierPut, BarrierFull, BarrierTest,
         BarrierYield, BarrierKick, BarrierRetry, StoreDone, RootPut
<1>3. ASSUME RootFull \/ RootKick \/ RootWake \/ StopEnter \/ StopWake \/ ExitStop \/
       ExitWake \/ Exit \/ Drain \/ FinalDrain \/ SpuriousWake
      PROVE  UNCHANGED <<mark, cpc, phase, wavefront, alloc_barrier>>
  BY <1>3 DEF RootFull, RootKick, RootWake, StopEnter, Handshake, StopWake, ExitStop,
         ExitWake, Exit, Drain, Dequeue, FinalDrain, SpuriousWake
<1> USE NAssumption DEF TypeOK, MarkingType, CounterType, PhaseShape, NamesShape,
       SweepShape, AfterMarking, Cells, Nil, Done, CollectorWaits
<1>4. ASSUME UNCHANGED <<mark, cpc, phase, wavefront, alloc_barrier>> PROVE SweepShape'
  BY <1>4
<1>5. ASSUME NEW c \in Cells, NEW v \in stack \cup {Nil}, AllocCell(c, v) PROVE SweepShape'
  BY <1>5 DEF AllocCell, Alloc, BornMark
<1>6. ASSUME NEW c \in Cells, InternNew(c) PROVE SweepShape'
  BY <1>6 DEF InternNew, Alloc, BornMark
<1>7. ASSUME InternMark PROVE SweepShape'
  BY <1>7 DEF InternMark, Found
<1>8. ASSUME Start PROVE SweepShape'
  BY <1>8 DEF Start
<1>9. ASSUME Quit PROVE SweepShape'
  BY <1>9 DEF Quit
<1>10. ASSUME Rest PROVE SweepShape'
  BY <1>10 DEF Rest
<1>11. ASSUME Awaken PROVE SweepShape'
  BY <1>11 DEF Awaken
<1>12. ASSUME BeginConcurrent PROVE SweepShape'
  BY <1>12 DEF BeginConcurrent, StopTheWorld
<1>13. ASSUME BeginSynchronized PROVE SweepShape'
  BY <1>13 DEF BeginSynchronized, StopTheWorld, Shaded
<1>14. ASSUME StopWait PROVE SweepShape'
  BY <1>14 DEF StopWait
<1>15. ASSUME Drained PROVE SweepShape'
  BY <1>15 DEF Drained
<1>16. ASSUME HaltedGlobals PROVE SweepShape'
  BY <1>16 DEF HaltedGlobals, StartTheWorld
<1>17. ASSUME HaltedLocals PROVE SweepShape'
  BY <1>17 DEF HaltedLocals, StartTheWorld
<1>18. ASSUME HaltedFinal PROVE SweepShape'
  BY <1>18 DEF HaltedFinal
<1>19. ASSUME FinalDrained PROVE SweepShape'
  BY <1>19 DEF FinalDrained
<1>20. ASSUME SerialTrace PROVE SweepShape'
  BY <1>20 DEF SerialTrace, Trace
<1>21. ASSUME SerialTimeout PROVE SweepShape'
  BY <1>21 DEF SerialTimeout, Trace, StartTheWorld
<1>22. ASSUME BeginSweep PROVE SweepShape'
  BY <1>22 DEF BeginSweep, StartTheWorld
<1>23. ASSUME BeginStoppedSweep PROVE SweepShape'
  BY <1>23 DEF BeginStoppedSweep
<1>24. ASSUME ResumeWait PROVE SweepShape'
  BY <1>24 DEF ResumeWait
<1>25. ASSUME MarkQueue PROVE SweepShape'
  BY <1>25 DEF MarkQueue, Dequeue, Shaded
<1>26. ASSUME MarkPop PROVE SweepShape'
  BY <1>26 DEF MarkPop
<1>27. ASSUME MarkScan PROVE SweepShape'
  BY <1>27 DEF MarkScan, Shaded
<1>28. ASSUME MarkMore PROVE SweepShape'
  BY <1>28 DEF MarkMore
<1>29. ASSUME MarkedGlobals PROVE SweepShape'
  BY <1>29 DEF MarkedGlobals, Shaded, MarkedOut
<1>30. ASSUME MarkedInherents PROVE SweepShape'
  BY <1>30 DEF MarkedInherents, MarkedOut, StopTheWorld
<1>31. ASSUME MarkedLocals PROVE SweepShape'
  BY <1>31 DEF MarkedLocals, MarkedOut, StopTheWorld
<1>32. ASSUME SweepTable PROVE SweepShape'
  BY <1>32 DEF SweepTable
<1>33. ASSUME ReadBarrierOff PROVE SweepShape'
  BY <1>33 DEF ReadBarrierOff
<1>34. ASSUME SweepSlab PROVE SweepShape'
  BY <1>34 DEF SweepSlab
<1>35. ASSUME Swept PROVE SweepShape'
  BY <1>35 DEF Swept
<1>36. ASSUME SweptStopped PROVE SweepShape'
  BY <1>36 DEF SweptStopped, StartTheWorld
<1>37. ASSUME Finish PROVE SweepShape'
  BY <1>37 DEF Finish
<1> QED BY <1>1, <1>2, <1>3, <1>4, <1>5, <1>6, <1>7, <1>8, <1>9, <1>10, <1>11, <1>12,
       <1>13, <1>14, <1>15, <1>16, <1>17, <1>18, <1>19, <1>20, <1>21, <1>22, <1>23,
       <1>24, <1>25, <1>26, <1>27, <1>28, <1>29, <1>30, <1>31, <1>32, <1>33, <1>34,
       <1>35, <1>36, <1>37, Zenon
     DEF Next, Program, MutatorStep, CollectorStep

------------------------------------------------------------------------------
(* The theorems. *)

(* Nothing has begun: no mark is set, nobody has stopped. *)
LEMMA InitInv == Init => IInv
<1> SUFFICES ASSUME Init PROVE IInv
  OBVIOUS
<1> USE NAssumption, BoundsAssumption DEF Init, Cells, Nil, Done, NoStore
<1>1. MemoryType
  BY DEF MemoryType
<1>2. MarkingType
  BY EmptySeq DEF MarkingType
<1>3. FlagType
  BY DEF FlagType
<1>4. CollectorType /\ CounterType /\ MutatorType
  BY DEF CollectorType, CounterType, MutatorType, CollectorWaits, MutatorWaits
<1>5. PhaseShape /\ StopShape /\ WorldStopped
  BY DEF PhaseShape, StopShape, WorldStopped
<1>6. SweepShape /\ NamesShape
  BY DEF SweepShape, NamesShape
<1> QED
  BY <1>1, <1>2, <1>3, <1>4, <1>5, <1>6, Zenon DEF IInv, TypeOK

(* Every step of either thread keeps the invariant. *)
LEMMA NextInv == IInv /\ [Next]_vars => IInv'
<1> SUFFICES ASSUME IInv, [Next]_vars PROVE IInv'
  OBVIOUS
<1>1. ASSUME Next PROVE IInv'
  <2>1. TypeOK /\ PhaseShape /\ StopShape /\ WorldStopped /\ SweepShape /\ NamesShape
    BY DEF IInv
  <2>2. MemoryType' /\ MarkingType' /\ FlagType'
    BY <1>1, <2>1, MemoryNext, MarkingNext, FlagNext
  <2>3. CollectorType' /\ CounterType' /\ MutatorType'
    BY <1>1, <2>1, CollectorNext, CounterNext, MutatorNext
  <2>4. PhaseShape' /\ StopShape' /\ WorldStopped'
    BY <1>1, <2>1, PhaseNext, StopNext, WorldNext
  <2>5. SweepShape' /\ NamesShape'
    BY <1>1, <2>1, SweepNext, NamesNext
  <2> QED
    BY <2>2, <2>3, <2>4, <2>5, Zenon DEF IInv, TypeOK
<1>2. ASSUME UNCHANGED vars PROVE IInv'
  <2> USE <1>2 DEF IInv, vars, heap, machine, marking, barriers, request, world, cycle,
                   mutator, wakes
  <2>1. MemoryType' /\ MarkingType'
    BY DEF TypeOK, MemoryType, MarkingType
  <2>2. FlagType'
    BY DEF TypeOK, FlagType
  <2>3. CollectorType' /\ CounterType'
    BY DEF TypeOK, CollectorType, CounterType
  <2>4. MutatorType'
    BY DEF TypeOK, MutatorType
  <2>5. PhaseShape' /\ StopShape' /\ WorldStopped'
    BY DEF PhaseShape, StopShape, WorldStopped
  <2>6. SweepShape' /\ NamesShape'
    BY DEF SweepShape, NamesShape, AfterMarking
  <2> QED
    BY <2>1, <2>2, <2>3, <2>4, <2>5, <2>6 DEF TypeOK
<1> QED
  BY <1>1, <1>2

(* The inductive invariant holds in every reachable state. *)
THEOREM InvCorrect == Spec => []IInv
<1> QED
  BY InitInv, NextInv, PTL DEF Spec

(* Type correctness of the mutator and the collector; with it, the shade    *)
(* queue never exceeds its capacity.                                        *)
THEOREM TypeCorrect == Spec => []TypeOK
<1>1. IInv => TypeOK
  BY DEF IInv
<1> QED
  BY <1>1, InvCorrect, PTL

(* While the collector drains the queue for the last time, marks serially,  *)
(* or sweeps in a synchronized cycle, the machine is inside the wait of     *)
(* VM::stop() (or of the end of its thread), whatever wakes it.             *)
THEOREM WorldStoppedCorrect == Spec => []WorldStopped
<1>1. IInv => WorldStopped
  BY DEF IInv
<1> QED
  BY <1>1, InvCorrect, PTL

(* No cycle begins with a mark on a cell that refers to others, and while   *)
(* the sweep goes on no such mark is set behind its wavefront.              *)
THEOREM MarksClearedCorrect == Spec => []MarksCleared
<1>1. IInv => MarksCleared
  <2> SUFFICES ASSUME IInv PROVE MarksCleared
    OBVIOUS
  <2>1. ASSUME phase \in {"none", "sweep"} PROVE \A c \in mark \ Names : c >= wavefront
    BY <2>1 DEF IInv, SweepShape, AfterMarking
  <2>2. ASSUME cpc = "finish" PROVE mark \subseteq Names
    <3>1. wavefront = N + 1 /\ \A c \in mark \ Names : c >= wavefront
      BY <2>2 DEF IInv, PhaseShape, SweepShape, AfterMarking, Done
    <3>2. mark \subseteq 1 .. N
      BY DEF IInv, TypeOK, MarkingType, Cells
    <3> QED
      BY <3>1, <3>2, NAssumption
  <2> QED
    BY <2>1, <2>2 DEF MarksCleared
<1> QED
  BY <1>1, InvCorrect, PTL

------------------------------------------------------------------------------
(***************************************************************************)
(* The collector frees nothing that the machine can reach, for every       *)
(* number of cells, every capacity of the shade queue and every bound:     *)
(* what is reachable in front of the sweep is marked (UnsweptMarked),      *)
(* nothing dangles (NoDangling), and the two threads together do to the    *)
(* heap only what GcHeap says (RefinesHeap).                               *)
(*                                                                         *)
(* The inductive invariant is SafetyInv of Collector, beside IInv.  There  *)
(* is one lemma for each conjunct, laid out as those above.  The heart is  *)
(* in three of them: TriColourNext (the write barrier keeps marking from   *)
(* losing a cell), RootsNext (every root is seen before marking ends) and  *)
(* PassedNext (what marking achieved at BeginSweep the machine keeps while *)
(* the sweep goes on).                                                     *)
(***************************************************************************)

(* The handshake, the barriers and the wavefront. *)

(* A stop is answered once, with the roots that were asked for. *)
LEMMA HandshakeNext ==
  ASSUME TypeOK, PhaseShape, StopShape, WorldStopped, HandshakeShape, Next
  PROVE  HandshakeShape'
<1> USE DEF mutator, world, cycle
<1>1. ASSUME NEW c \in Cells, NEW v \in stack \cup {Nil}, AllocCell(c, v) \/ SetReg(v)
       \/ InternNew(c) \/ Intern(c) \/ Drop(c)
      PROVE  UNCHANGED <<mpc, cpc, phase, stop_the_world, mutator_stopped, root_snapshot>>
  BY <1>1 DEF AllocCell, Alloc, SetReg, InternNew, Intern, Found, Drop
<1>2. ASSUME Read \/ Kick \/ Drain \/ FinalDrain \/ SerialTrace \/ SweepSlab \/
       SpuriousWake
      PROVE  UNCHANGED <<mpc, cpc, phase, stop_the_world, mutator_stopped, root_snapshot>>
  BY <1>2 DEF Read, Kick, Drain, Dequeue, FinalDrain, SerialTrace, Trace, SweepSlab,
         SpuriousWake
<1> USE DEF HandshakeShape, RootPlaces, PhaseShape, StopShape, WorldStopped,
       CollectorWaits, LockFree
<1>3. ASSUME UNCHANGED <<mpc, cpc, phase, stop_the_world, mutator_stopped, root_snapshot>> PROVE HandshakeShape'
  BY <1>3
<1>4. ASSUME NEW c \in Cells, NEW v \in stack \cup {Nil}, Write(c, v) PROVE HandshakeShape'
  BY <1>4 DEF Write
<1>5. ASSUME NEW c \in Cells, InternBarrier(c) PROVE HandshakeShape'
  BY <1>5 DEF InternBarrier
<1>6. ASSUME Terminate PROVE HandshakeShape'
  BY <1>6 DEF Terminate
<1>7. ASSUME Poll PROVE HandshakeShape'
  BY <1>7 DEF Poll, RootsFor
<1>8. ASSUME InternMark PROVE HandshakeShape'
  BY <1>8 DEF InternMark, Found
<1>9. ASSUME BarrierPut PROVE HandshakeShape'
  BY <1>9 DEF BarrierPut, Room
<1>10. ASSUME BarrierFull PROVE HandshakeShape'
  BY <1>10 DEF BarrierFull, Room
<1>11. ASSUME BarrierTest PROVE HandshakeShape'
  BY <1>11 DEF BarrierTest
<1>12. ASSUME BarrierYield PROVE HandshakeShape'
  BY <1>12 DEF BarrierYield
<1>13. ASSUME BarrierKick PROVE HandshakeShape'
  BY <1>13 DEF BarrierKick
<1>14. ASSUME BarrierRetry PROVE HandshakeShape'
  BY <1>14 DEF BarrierRetry
<1>15. ASSUME StoreDone PROVE HandshakeShape'
  BY <1>15 DEF StoreDone
<1>16. ASSUME RootPut PROVE HandshakeShape'
  BY <1>16 DEF RootPut, Room
<1>17. ASSUME RootFull PROVE HandshakeShape'
  BY <1>17 DEF RootFull, Room
<1>18. ASSUME RootKick PROVE HandshakeShape'
  BY <1>18 DEF RootKick
<1>19. ASSUME RootWake PROVE HandshakeShape'
  BY <1>19 DEF RootWake
<1>20. ASSUME StopEnter PROVE HandshakeShape'
  BY <1>20 DEF StopEnter, Handshake
<1>21. ASSUME StopWake PROVE HandshakeShape'
  BY <1>21 DEF StopWake, Handshake
<1>22. ASSUME ExitStop PROVE HandshakeShape'
  BY <1>22 DEF ExitStop, Handshake
<1>23. ASSUME ExitWake PROVE HandshakeShape'
  BY <1>23 DEF ExitWake, Handshake
<1>24. ASSUME Exit PROVE HandshakeShape'
  BY <1>24 DEF Exit
<1>25. ASSUME Start PROVE HandshakeShape'
  BY <1>25 DEF Start
<1>26. ASSUME Quit PROVE HandshakeShape'
  BY <1>26 DEF Quit
<1>27. ASSUME Rest PROVE HandshakeShape'
  BY <1>27 DEF Rest
<1>28. ASSUME Awaken PROVE HandshakeShape'
  BY <1>28 DEF Awaken
<1>29. ASSUME BeginConcurrent PROVE HandshakeShape'
  BY <1>29 DEF BeginConcurrent, StopTheWorld
<1>30. ASSUME BeginSynchronized PROVE HandshakeShape'
  BY <1>30 DEF BeginSynchronized, StopTheWorld, Shaded
<1>31. ASSUME StopWait PROVE HandshakeShape'
  BY <1>31 DEF StopWait
<1>32. ASSUME Drained PROVE HandshakeShape'
  BY <1>32 DEF Drained
<1>33. ASSUME HaltedGlobals PROVE HandshakeShape'
  BY <1>33 DEF HaltedGlobals, StartTheWorld
<1>34. ASSUME HaltedLocals PROVE HandshakeShape'
  BY <1>34 DEF HaltedLocals, StartTheWorld
<1>35. ASSUME HaltedFinal PROVE HandshakeShape'
  BY <1>35 DEF HaltedFinal
<1>36. ASSUME FinalDrained PROVE HandshakeShape'
  BY <1>36 DEF FinalDrained
<1>37. ASSUME SerialTimeout PROVE HandshakeShape'
  BY <1>37 DEF SerialTimeout, Trace, StartTheWorld
<1>38. ASSUME BeginSweep PROVE HandshakeShape'
  BY <1>38 DEF BeginSweep, StartTheWorld
<1>39. ASSUME BeginStoppedSweep PROVE HandshakeShape'
  BY <1>39 DEF BeginStoppedSweep
<1>40. ASSUME ResumeWait PROVE HandshakeShape'
  BY <1>40 DEF ResumeWait
<1>41. ASSUME MarkQueue PROVE HandshakeShape'
  BY <1>41 DEF MarkQueue, Dequeue, Shaded
<1>42. ASSUME MarkPop PROVE HandshakeShape'
  BY <1>42 DEF MarkPop
<1>43. ASSUME MarkScan PROVE HandshakeShape'
  BY <1>43 DEF MarkScan, Shaded
<1>44. ASSUME MarkMore PROVE HandshakeShape'
  BY <1>44 DEF MarkMore
<1>45. ASSUME MarkedGlobals PROVE HandshakeShape'
  BY <1>45 DEF MarkedGlobals, Shaded, MarkedOut
<1>46. ASSUME MarkedInherents PROVE HandshakeShape'
  BY <1>46 DEF MarkedInherents, MarkedOut, StopTheWorld
<1>47. ASSUME MarkedLocals PROVE HandshakeShape'
  BY <1>47 DEF MarkedLocals, MarkedOut, StopTheWorld
<1>48. ASSUME SweepTable PROVE HandshakeShape'
  BY <1>48 DEF SweepTable
<1>49. ASSUME ReadBarrierOff PROVE HandshakeShape'
  BY <1>49 DEF ReadBarrierOff
<1>50. ASSUME Swept PROVE HandshakeShape'
  BY <1>50 DEF Swept
<1>51. ASSUME SweptStopped PROVE HandshakeShape'
  BY <1>51 DEF SweptStopped, StartTheWorld
<1>52. ASSUME Finish PROVE HandshakeShape'
  BY <1>52 DEF Finish
<1> QED BY <1>1, <1>2, <1>3, <1>4, <1>5, <1>6, <1>7, <1>8, <1>9, <1>10, <1>11, <1>12,
       <1>13, <1>14, <1>15, <1>16, <1>17, <1>18, <1>19, <1>20, <1>21, <1>22, <1>23,
       <1>24, <1>25, <1>26, <1>27, <1>28, <1>29, <1>30, <1>31, <1>32, <1>33, <1>34,
       <1>35, <1>36, <1>37, <1>38, <1>39, <1>40, <1>41, <1>42, <1>43, <1>44, <1>45,
       <1>46, <1>47, <1>48, <1>49, <1>50, <1>51, <1>52, Zenon
     DEF Next, Program, MutatorStep, CollectorStep

(* The write barrier is on from the first stop of a cycle to its last, and no store is     *)
(* pending when it goes off, for the machine has stopped.                                  *)
LEMMA BarrierNext ==
  ASSUME PhaseShape, StopShape, WorldStopped, SweepShape, BarrierShape, Next
  PROVE  BarrierShape'
<1> USE DEF mutator, barriers, cycle
<1>1. ASSUME NEW c \in Cells, NEW v \in stack \cup {Nil}, AllocCell(c, v) \/ SetReg(v)
       \/ InternNew(c) \/ Intern(c) \/ Drop(c)
      PROVE  UNCHANGED <<mpc, cpc, phase, write_barrier, alloc_barrier, read_barrier>>
  BY <1>1 DEF AllocCell, Alloc, SetReg, InternNew, Intern, Found, Drop
<1>2. ASSUME Read \/ Kick \/ Drain \/ FinalDrain \/ SerialTrace \/ SweepSlab \/
       SpuriousWake
      PROVE  UNCHANGED <<mpc, cpc, phase, write_barrier, alloc_barrier, read_barrier>>
  BY <1>2 DEF Read, Kick, Drain, Dequeue, FinalDrain, SerialTrace, Trace, SweepSlab,
         SpuriousWake
<1> USE DEF BarrierShape, BarrierPlaces, PhaseShape, StopShape, WorldStopped,
       SweepShape, CollectorWaits
<1>3. ASSUME UNCHANGED <<mpc, cpc, phase, write_barrier, alloc_barrier, read_barrier>> PROVE BarrierShape'
  BY <1>3
<1>4. ASSUME NEW c \in Cells, NEW v \in stack \cup {Nil}, Write(c, v) PROVE BarrierShape'
  BY <1>4 DEF Write
<1>5. ASSUME NEW c \in Cells, InternBarrier(c) PROVE BarrierShape'
  BY <1>5 DEF InternBarrier
<1>6. ASSUME Terminate PROVE BarrierShape'
  BY <1>6 DEF Terminate
<1>7. ASSUME Poll PROVE BarrierShape'
  BY <1>7 DEF Poll, RootsFor
<1>8. ASSUME InternMark PROVE BarrierShape'
  BY <1>8 DEF InternMark, Found
<1>9. ASSUME BarrierPut PROVE BarrierShape'
  BY <1>9 DEF BarrierPut, Room
<1>10. ASSUME BarrierFull PROVE BarrierShape'
  BY <1>10 DEF BarrierFull, Room
<1>11. ASSUME BarrierTest PROVE BarrierShape'
  BY <1>11 DEF BarrierTest
<1>12. ASSUME BarrierYield PROVE BarrierShape'
  BY <1>12 DEF BarrierYield
<1>13. ASSUME BarrierKick PROVE BarrierShape'
  BY <1>13 DEF BarrierKick
<1>14. ASSUME BarrierRetry PROVE BarrierShape'
  BY <1>14 DEF BarrierRetry
<1>15. ASSUME StoreDone PROVE BarrierShape'
  BY <1>15 DEF StoreDone
<1>16. ASSUME RootPut PROVE BarrierShape'
  BY <1>16 DEF RootPut, Room
<1>17. ASSUME RootFull PROVE BarrierShape'
  BY <1>17 DEF RootFull, Room
<1>18. ASSUME RootKick PROVE BarrierShape'
  BY <1>18 DEF RootKick
<1>19. ASSUME RootWake PROVE BarrierShape'
  BY <1>19 DEF RootWake
<1>20. ASSUME StopEnter PROVE BarrierShape'
  BY <1>20 DEF StopEnter, Handshake
<1>21. ASSUME StopWake PROVE BarrierShape'
  BY <1>21 DEF StopWake, Handshake
<1>22. ASSUME ExitStop PROVE BarrierShape'
  BY <1>22 DEF ExitStop, Handshake
<1>23. ASSUME ExitWake PROVE BarrierShape'
  BY <1>23 DEF ExitWake, Handshake
<1>24. ASSUME Exit PROVE BarrierShape'
  BY <1>24 DEF Exit
<1>25. ASSUME Start PROVE BarrierShape'
  BY <1>25 DEF Start
<1>26. ASSUME Quit PROVE BarrierShape'
  BY <1>26 DEF Quit
<1>27. ASSUME Rest PROVE BarrierShape'
  BY <1>27 DEF Rest
<1>28. ASSUME Awaken PROVE BarrierShape'
  BY <1>28 DEF Awaken
<1>29. ASSUME BeginConcurrent PROVE BarrierShape'
  BY <1>29 DEF BeginConcurrent, StopTheWorld
<1>30. ASSUME BeginSynchronized PROVE BarrierShape'
  BY <1>30 DEF BeginSynchronized, StopTheWorld, Shaded
<1>31. ASSUME StopWait PROVE BarrierShape'
  BY <1>31 DEF StopWait
<1>32. ASSUME Drained PROVE BarrierShape'
  BY <1>32 DEF Drained
<1>33. ASSUME HaltedGlobals PROVE BarrierShape'
  BY <1>33 DEF HaltedGlobals, StartTheWorld
<1>34. ASSUME HaltedLocals PROVE BarrierShape'
  BY <1>34 DEF HaltedLocals, StartTheWorld
<1>35. ASSUME HaltedFinal PROVE BarrierShape'
  BY <1>35 DEF HaltedFinal
<1>36. ASSUME FinalDrained PROVE BarrierShape'
  BY <1>36 DEF FinalDrained
<1>37. ASSUME SerialTimeout PROVE BarrierShape'
  BY <1>37 DEF SerialTimeout, Trace, StartTheWorld
<1>38. ASSUME BeginSweep PROVE BarrierShape'
  BY <1>38 DEF BeginSweep, StartTheWorld
<1>39. ASSUME BeginStoppedSweep PROVE BarrierShape'
  BY <1>39 DEF BeginStoppedSweep
<1>40. ASSUME ResumeWait PROVE BarrierShape'
  BY <1>40 DEF ResumeWait
<1>41. ASSUME MarkQueue PROVE BarrierShape'
  BY <1>41 DEF MarkQueue, Dequeue, Shaded
<1>42. ASSUME MarkPop PROVE BarrierShape'
  BY <1>42 DEF MarkPop
<1>43. ASSUME MarkScan PROVE BarrierShape'
  BY <1>43 DEF MarkScan, Shaded
<1>44. ASSUME MarkMore PROVE BarrierShape'
  BY <1>44 DEF MarkMore
<1>45. ASSUME MarkedGlobals PROVE BarrierShape'
  BY <1>45 DEF MarkedGlobals, Shaded, MarkedOut
<1>46. ASSUME MarkedInherents PROVE BarrierShape'
  BY <1>46 DEF MarkedInherents, MarkedOut, StopTheWorld
<1>47. ASSUME MarkedLocals PROVE BarrierShape'
  BY <1>47 DEF MarkedLocals, MarkedOut, StopTheWorld
<1>48. ASSUME SweepTable PROVE BarrierShape'
  BY <1>48 DEF SweepTable
<1>49. ASSUME ReadBarrierOff PROVE BarrierShape'
  BY <1>49 DEF ReadBarrierOff
<1>50. ASSUME Swept PROVE BarrierShape'
  BY <1>50 DEF Swept
<1>51. ASSUME SweptStopped PROVE BarrierShape'
  BY <1>51 DEF SweptStopped, StartTheWorld
<1>52. ASSUME Finish PROVE BarrierShape'
  BY <1>52 DEF Finish
<1> QED BY <1>1, <1>2, <1>3, <1>4, <1>5, <1>6, <1>7, <1>8, <1>9, <1>10, <1>11, <1>12,
       <1>13, <1>14, <1>15, <1>16, <1>17, <1>18, <1>19, <1>20, <1>21, <1>22, <1>23,
       <1>24, <1>25, <1>26, <1>27, <1>28, <1>29, <1>30, <1>31, <1>32, <1>33, <1>34,
       <1>35, <1>36, <1>37, <1>38, <1>39, <1>40, <1>41, <1>42, <1>43, <1>44, <1>45,
       <1>46, <1>47, <1>48, <1>49, <1>50, <1>51, <1>52, Zenon
     DEF Next, Program, MutatorStep, CollectorStep

(* Only what is on the stack is stored, only what is in the table is looked up: the table is *)
(* swept only when no name is being looked up.                                               *)
LEMMA StoreNext ==
  ASSUME TypeOK, NamesShape, StoreShape, Next
  PROVE  StoreShape'
<1> USE DEF mutator, machine, heap, memory
<1>1. ASSUME NEW c \in Cells, NEW v \in stack \cup {Nil}, SetReg(v)
      PROVE  UNCHANGED <<mpc, store, stack, interned, field>>
  BY <1>1 DEF SetReg
<1>2. ASSUME Kick \/ Start \/ Quit \/ Rest \/ Awaken \/ BeginConcurrent \/
       BeginSynchronized \/ StopWait \/ Drain \/ Drained \/ HaltedGlobals \/
       HaltedLocals
      PROVE  UNCHANGED <<mpc, store, stack, interned, field>>
  BY <1>2 DEF Kick, Start, Quit, Rest, Awaken, BeginConcurrent, StopTheWorld,
         BeginSynchronized, StopWait, Drain, Dequeue, Drained, HaltedGlobals,
         StartTheWorld, HaltedLocals
<1>3. ASSUME HaltedFinal \/ FinalDrain \/ FinalDrained \/ SerialTrace \/ SerialTimeout
       \/ BeginSweep \/ BeginStoppedSweep \/ ResumeWait \/ MarkQueue \/ MarkPop \/
       MarkScan \/ MarkMore
      PROVE  UNCHANGED <<mpc, store, stack, interned, field>>
  BY <1>3 DEF HaltedFinal, FinalDrain, Dequeue, FinalDrained, SerialTrace, Trace,
         SerialTimeout, StartTheWorld, BeginSweep, BeginStoppedSweep, ResumeWait,
         MarkQueue, MarkPop, MarkScan, MarkMore
<1>4. ASSUME MarkedGlobals \/ MarkedInherents \/ MarkedLocals \/ ReadBarrierOff \/ Swept
       \/ SweptStopped \/ Finish \/ SpuriousWake
      PROVE  UNCHANGED <<mpc, store, stack, interned, field>>
  BY <1>4 DEF MarkedGlobals, MarkedOut, MarkedInherents, StopTheWorld, MarkedLocals,
         ReadBarrierOff, Swept, SweptStopped, StartTheWorld, Finish, SpuriousWake
<1> USE NAssumption DEF TypeOK, MemoryType, MutatorType, StoreShape, NamesShape,
       BarrierPlaces, Cells, Nil, NoStore
<1>5. ASSUME UNCHANGED <<mpc, store, stack, interned, field>> PROVE StoreShape'
  BY <1>5
<1>6. ASSUME NEW c \in Cells, NEW v \in stack \cup {Nil}, AllocCell(c, v) PROVE StoreShape'
  BY <1>6 DEF AllocCell, Alloc, BornMark
<1>7. ASSUME NEW c \in Cells, NEW v \in stack \cup {Nil}, Write(c, v) PROVE StoreShape'
  BY <1>7 DEF Write
<1>8. ASSUME NEW c \in Cells, InternNew(c) PROVE StoreShape'
  BY <1>8 DEF InternNew, Alloc, BornMark
<1>9. ASSUME NEW c \in Cells, Intern(c) PROVE StoreShape'
  BY <1>9 DEF Intern, Found
<1>10. ASSUME NEW c \in Cells, InternBarrier(c) PROVE StoreShape'
  BY <1>10 DEF InternBarrier
<1>11. ASSUME NEW c \in Cells, Drop(c) PROVE StoreShape'
  BY <1>11 DEF Drop
<1>12. ASSUME Read PROVE StoreShape'
  BY <1>12 DEF Read
<1>13. ASSUME Terminate PROVE StoreShape'
  BY <1>13 DEF Terminate
<1>14. ASSUME Poll PROVE StoreShape'
  BY <1>14 DEF Poll, RootsFor
<1>15. ASSUME InternMark PROVE StoreShape'
  BY <1>15 DEF InternMark, Found
<1>16. ASSUME BarrierPut PROVE StoreShape'
  BY <1>16 DEF BarrierPut, Room
<1>17. ASSUME BarrierFull PROVE StoreShape'
  BY <1>17 DEF BarrierFull, Room
<1>18. ASSUME BarrierTest PROVE StoreShape'
  BY <1>18 DEF BarrierTest
<1>19. ASSUME BarrierYield PROVE StoreShape'
  BY <1>19 DEF BarrierYield
<1>20. ASSUME BarrierKick PROVE StoreShape'
  BY <1>20 DEF BarrierKick
<1>21. ASSUME BarrierRetry PROVE StoreShape'
  BY <1>21 DEF BarrierRetry
<1>22. ASSUME StoreDone PROVE StoreShape'
  BY <1>22 DEF StoreDone
<1>23. ASSUME RootPut PROVE StoreShape'
  BY <1>23 DEF RootPut, Room
<1>24. ASSUME RootFull PROVE StoreShape'
  BY <1>24 DEF RootFull, Room
<1>25. ASSUME RootKick PROVE StoreShape'
  BY <1>25 DEF RootKick
<1>26. ASSUME RootWake PROVE StoreShape'
  BY <1>26 DEF RootWake
<1>27. ASSUME StopEnter PROVE StoreShape'
  BY <1>27 DEF StopEnter, Handshake
<1>28. ASSUME StopWake PROVE StoreShape'
  BY <1>28 DEF StopWake, Handshake
<1>29. ASSUME ExitStop PROVE StoreShape'
  BY <1>29 DEF ExitStop, Handshake
<1>30. ASSUME ExitWake PROVE StoreShape'
  BY <1>30 DEF ExitWake, Handshake
<1>31. ASSUME Exit PROVE StoreShape'
  BY <1>31 DEF Exit
<1>32. ASSUME SweepTable PROVE StoreShape'
  BY <1>32 DEF SweepTable
<1>33. ASSUME SweepSlab PROVE StoreShape'
  BY <1>33 DEF SweepSlab
<1> QED BY <1>1, <1>2, <1>3, <1>4, <1>5, <1>6, <1>7, <1>8, <1>9, <1>10, <1>11, <1>12,
       <1>13, <1>14, <1>15, <1>16, <1>17, <1>18, <1>19, <1>20, <1>21, <1>22, <1>23,
       <1>24, <1>25, <1>26, <1>27, <1>28, <1>29, <1>30, <1>31, <1>32, <1>33, Zenon
     DEF Next, Program, MutatorStep, CollectorStep

(* A sweep begins at the first slab, and marking begins with no mark but on names. *)
LEMMA WaveNext ==
  ASSUME TypeOK, PhaseShape, WorldStopped, SweepShape, NamesShape, BarrierShape, WaveShape, Next
  PROVE  WaveShape'
<1> USE DEF marking, barriers, cycle
<1>1. ASSUME NEW c \in Cells, NEW v \in stack \cup {Nil}, Write(c, v) \/ SetReg(v) \/
       Intern(c) \/ InternBarrier(c) \/ Drop(c)
      PROVE  UNCHANGED <<mark, cur, shade_queue, cpc, phase, wavefront>>
  BY <1>1 DEF Write, SetReg, Intern, Found, InternBarrier, Drop
<1>2. ASSUME Read \/ Kick \/ Terminate \/ Poll \/ BarrierFull \/ BarrierTest \/
       BarrierYield \/ BarrierKick \/ BarrierRetry \/ StoreDone \/ RootFull \/ RootKick
      PROVE  UNCHANGED <<mark, cur, shade_queue, cpc, phase, wavefront>>
  BY <1>2 DEF Read, Kick, Terminate, Poll, BarrierFull, BarrierTest, BarrierYield,
         BarrierKick, BarrierRetry, StoreDone, RootFull, RootKick
<1>3. ASSUME RootWake \/ StopEnter \/ StopWake \/ ExitStop \/ ExitWake \/ Exit \/
       SpuriousWake
      PROVE  UNCHANGED <<mark, cur, shade_queue, cpc, phase, wavefront>>
  BY <1>3 DEF RootWake, StopEnter, Handshake, StopWake, ExitStop, ExitWake, Exit,
         SpuriousWake
<1> USE NAssumption DEF TypeOK, MarkingType, CounterType, WaveShape, TableWaits,
       BarrierShape, PhaseShape, WorldStopped, SweepShape, AfterMarking, NamesShape,
       CollectorWaits, Cells, Done
<1>4. ASSUME UNCHANGED <<mark, cur, shade_queue, cpc, phase, wavefront>> PROVE WaveShape'
  BY <1>4
<1>5. ASSUME NEW c \in Cells, NEW v \in stack \cup {Nil}, AllocCell(c, v) PROVE WaveShape'
  BY <1>5 DEF AllocCell, Alloc, BornMark
<1>6. ASSUME NEW c \in Cells, InternNew(c) PROVE WaveShape'
  BY <1>6 DEF InternNew, Alloc, BornMark
<1>7. ASSUME InternMark PROVE WaveShape'
  BY <1>7 DEF InternMark, Found
<1>8. ASSUME BarrierPut PROVE WaveShape'
  BY <1>8 DEF BarrierPut, Room
<1>9. ASSUME RootPut PROVE WaveShape'
  BY <1>9 DEF RootPut, Room
<1>10. ASSUME Start PROVE WaveShape'
  BY <1>10 DEF Start
<1>11. ASSUME Quit PROVE WaveShape'
  BY <1>11 DEF Quit
<1>12. ASSUME Rest PROVE WaveShape'
  BY <1>12 DEF Rest
<1>13. ASSUME Awaken PROVE WaveShape'
  BY <1>13 DEF Awaken
<1>14. ASSUME BeginConcurrent PROVE WaveShape'
  BY <1>14 DEF BeginConcurrent, StopTheWorld
<1>15. ASSUME BeginSynchronized PROVE WaveShape'
  BY <1>15 DEF BeginSynchronized, StopTheWorld, Shaded
<1>16. ASSUME StopWait PROVE WaveShape'
  BY <1>16 DEF StopWait
<1>17. ASSUME Drain PROVE WaveShape'
  BY <1>17 DEF Drain, Dequeue, Shaded
<1>18. ASSUME Drained PROVE WaveShape'
  BY <1>18 DEF Drained
<1>19. ASSUME HaltedGlobals PROVE WaveShape'
  BY <1>19 DEF HaltedGlobals, StartTheWorld
<1>20. ASSUME HaltedLocals PROVE WaveShape'
  BY <1>20 DEF HaltedLocals, StartTheWorld
<1>21. ASSUME HaltedFinal PROVE WaveShape'
  BY <1>21 DEF HaltedFinal
<1>22. ASSUME FinalDrain PROVE WaveShape'
  BY <1>22 DEF FinalDrain, Dequeue, Shaded
<1>23. ASSUME FinalDrained PROVE WaveShape'
  BY <1>23 DEF FinalDrained
<1>24. ASSUME SerialTrace PROVE WaveShape'
  BY <1>24 DEF SerialTrace, Trace
<1>25. ASSUME SerialTimeout PROVE WaveShape'
  BY <1>25 DEF SerialTimeout, Trace, StartTheWorld
<1>26. ASSUME BeginSweep PROVE WaveShape'
  BY <1>26 DEF BeginSweep, StartTheWorld
<1>27. ASSUME BeginStoppedSweep PROVE WaveShape'
  BY <1>27 DEF BeginStoppedSweep
<1>28. ASSUME ResumeWait PROVE WaveShape'
  BY <1>28 DEF ResumeWait
<1>29. ASSUME MarkQueue PROVE WaveShape'
  BY <1>29 DEF MarkQueue, Dequeue, Shaded
<1>30. ASSUME MarkPop PROVE WaveShape'
  BY <1>30 DEF MarkPop
<1>31. ASSUME MarkScan PROVE WaveShape'
  BY <1>31 DEF MarkScan, Shaded
<1>32. ASSUME MarkMore PROVE WaveShape'
  BY <1>32 DEF MarkMore
<1>33. ASSUME MarkedGlobals PROVE WaveShape'
  BY <1>33 DEF MarkedGlobals, Shaded, MarkedOut
<1>34. ASSUME MarkedInherents PROVE WaveShape'
  BY <1>34 DEF MarkedInherents, MarkedOut, StopTheWorld
<1>35. ASSUME MarkedLocals PROVE WaveShape'
  BY <1>35 DEF MarkedLocals, MarkedOut, StopTheWorld
<1>36. ASSUME SweepTable PROVE WaveShape'
  BY <1>36 DEF SweepTable
<1>37. ASSUME ReadBarrierOff PROVE WaveShape'
  BY <1>37 DEF ReadBarrierOff
<1>38. ASSUME SweepSlab PROVE WaveShape'
  BY <1>38 DEF SweepSlab
<1>39. ASSUME Swept PROVE WaveShape'
  BY <1>39 DEF Swept
<1>40. ASSUME SweptStopped PROVE WaveShape'
  BY <1>40 DEF SweptStopped, StartTheWorld
<1>41. ASSUME Finish PROVE WaveShape'
  BY <1>41 DEF Finish
<1> QED BY <1>1, <1>2, <1>3, <1>4, <1>5, <1>6, <1>7, <1>8, <1>9, <1>10, <1>11, <1>12,
       <1>13, <1>14, <1>15, <1>16, <1>17, <1>18, <1>19, <1>20, <1>21, <1>22, <1>23,
       <1>24, <1>25, <1>26, <1>27, <1>28, <1>29, <1>30, <1>31, <1>32, <1>33, <1>34,
       <1>35, <1>36, <1>37, <1>38, <1>39, <1>40, <1>41, Zenon
     DEF Next, Program, MutatorStep, CollectorStep

------------------------------------------------------------------------------
(* What marking has seen. *)

(* The elements of a sequence after a put ... *)
LEMMA ElementsAppend ==
  ASSUME NEW S, NEW s \in Seq(S), NEW e \in S
  PROVE  {Append(s, e)[i] : i \in DOMAIN Append(s, e)} = {s[i] : i \in DOMAIN s} \cup {e}
<1>1. /\ Len(Append(s, e)) = Len(s) + 1 /\ DOMAIN Append(s, e) = 1 .. Len(s) + 1
      /\ DOMAIN s = 1 .. Len(s) /\ Len(s) \in Nat
      /\ \A i \in 1 .. Len(s) : Append(s, e)[i] = s[i]
      /\ Append(s, e)[Len(s) + 1] = e
  BY AppendProperties, LenProperties
<1>2. 1 .. Len(s) + 1 = (1 .. Len(s)) \cup {Len(s) + 1}
  BY <1>1
<1> QED
  BY <1>1, <1>2

(* ... and those a get finds. *)
LEMMA ElementsHeadTail ==
  ASSUME NEW S, NEW s \in Seq(S), s # <<>>
  PROVE  {s[i] : i \in DOMAIN s} = {Head(s)} \cup {Tail(s)[i] : i \in DOMAIN Tail(s)}
<1>1. /\ Tail(s) \in Seq(S) /\ Len(Tail(s)) = Len(s) - 1 /\ Head(s) = s[1]
      /\ \A i \in 1 .. Len(s) - 1 : Tail(s)[i] = s[i + 1]
  BY HeadTailProperties
<1>2. /\ DOMAIN s = 1 .. Len(s) /\ Len(s) \in Nat /\ Len(s) # 0
      /\ DOMAIN Tail(s) = 1 .. Len(s) - 1
  BY <1>1, LenProperties, EmptySeq
<1>3. ASSUME NEW i \in 1 .. Len(s)
      PROVE  s[i] \in {Head(s)} \cup {Tail(s)[j] : j \in 1 .. Len(s) - 1}
  <2>1. CASE i = 1
    BY <1>1, <2>1
  <2>2. CASE i # 1
    <3>1. i - 1 \in 1 .. Len(s) - 1 /\ (i - 1) + 1 = i
      BY <1>2, <2>2
    <3> QED
      BY <1>1, <3>1
  <2> QED
    BY <2>1, <2>2
<1>4. ASSUME NEW i \in 1 .. Len(s) - 1 PROVE Tail(s)[i] \in {s[j] : j \in 1 .. Len(s)}
  <2>1. i + 1 \in 1 .. Len(s)
    BY <1>2
  <2> QED
    BY <1>1, <2>1
<1>5. Head(s) \in {s[j] : j \in 1 .. Len(s)}
  BY <1>1, <1>2
<1> QED
  BY <1>2, <1>3, <1>4, <1>5

(* A put adds its cell to what is seen. *)
LEMMA PutSeen ==
  ASSUME TypeOK, NEW c \in Cells, shade_queue' = Append(shade_queue, c)
  PROVE  Queued' = Queued \cup {c}
  BY ElementsAppend DEF TypeOK, MarkingType, Queued

(* A get moves its cell from the queue to the grey cells, unless it is marked. *)
LEMMA SeenSame ==
  ASSUME UNCHANGED <<mark, mark_stack, shade_queue>>
  PROVE  Seen' = Seen
BY DEF Seen, Queued

LEMMA DequeueSeen ==
  ASSUME TypeOK, NEW p, Dequeue(p), UNCHANGED mark
  PROVE  Seen' = Seen
<1>1. shade_queue \in Seq(Cells) /\ shade_queue # <<>> /\ Head(shade_queue) \in Cells
  BY HeadTailProperties DEF TypeOK, MarkingType, Dequeue
<1>2. Queued' = {Tail(shade_queue)[i] : i \in DOMAIN Tail(shade_queue)}
  BY Zenon DEF Queued, Dequeue
<1>3. Queued = {Head(shade_queue)} \cup Queued'
  BY <1>1, <1>2, ElementsHeadTail, Zenon DEF Queued
<1>4. mark_stack' \cup mark = mark_stack \cup mark \cup {Head(shade_queue)}
  BY <1>1, NAssumption DEF Dequeue, Shaded, Cells, Nil
<1> QED
  BY <1>3, <1>4 DEF Seen

(* What is shaded is seen. *)
LEMMA ShadedSeen ==
  ASSUME mark_stack' = Shaded(Env), UNCHANGED mark
  PROVE  Env \in Seen'
  BY NAssumption DEF Shaded, Seen, Nil

(* What trace() has marked refers only to what is seen then. *)
LEMMA TraceSeen ==
  ASSUME TypeOK, NEW c \in mark_stack, Trace(c), UNCHANGED <<field, shade_queue>>
  PROVE  Seen \subseteq Seen' /\ mark' = mark \cup {c} /\ field[c] \in Seen' \cup {Nil}
  BY DEF Trace, Seen, Queued

(* Until the sweep nothing is unmarked, and what is seen stays seen. *)
LEMMA SeenNext ==
  ASSUME TypeOK, PhaseShape, Next
  PROVE  cpc # "sweep" => mark \subseteq mark' /\ Seen \subseteq Seen'
<1> USE DEF marking
<1>1. ASSUME NEW c \in Cells, NEW v \in stack \cup {Nil}, Write(c, v) \/ SetReg(v) \/
       Intern(c) \/ InternBarrier(c) \/ Drop(c)
      PROVE  UNCHANGED <<mark, mark_stack, shade_queue>>
  BY <1>1 DEF Write, SetReg, Intern, Found, InternBarrier, Drop
<1>2. ASSUME Read \/ Kick \/ Terminate \/ Poll \/ BarrierFull \/ BarrierTest \/
       BarrierYield \/ BarrierKick \/ BarrierRetry \/ StoreDone \/ RootFull \/ RootKick
      PROVE  UNCHANGED <<mark, mark_stack, shade_queue>>
  BY <1>2 DEF Read, Kick, Terminate, Poll, BarrierFull, BarrierTest, BarrierYield,
         BarrierKick, BarrierRetry, StoreDone, RootFull, RootKick
<1>3. ASSUME RootWake \/ StopEnter \/ StopWake \/ ExitStop \/ ExitWake \/ Exit \/ Start
       \/ Quit \/ Rest \/ Awaken \/ BeginConcurrent \/ StopWait
      PROVE  UNCHANGED <<mark, mark_stack, shade_queue>>
  BY <1>3 DEF RootWake, StopEnter, Handshake, StopWake, ExitStop, ExitWake, Exit, Start,
         Quit, Rest, Awaken, BeginConcurrent, StopTheWorld, StopWait
<1>4. ASSUME Drained \/ HaltedGlobals \/ HaltedLocals \/ HaltedFinal \/ FinalDrained \/
       BeginSweep \/ BeginStoppedSweep \/ ResumeWait \/ MarkMore \/ MarkedInherents \/
       MarkedLocals \/ SweepTable
      PROVE  UNCHANGED <<mark, mark_stack, shade_queue>>
  BY <1>4 DEF Drained, HaltedGlobals, StartTheWorld, HaltedLocals, HaltedFinal,
         FinalDrained, BeginSweep, BeginStoppedSweep, ResumeWait, MarkMore,
         MarkedInherents, MarkedOut, StopTheWorld, MarkedLocals, SweepTable
<1>5. ASSUME ReadBarrierOff \/ Swept \/ SweptStopped \/ Finish \/ SpuriousWake
      PROVE  UNCHANGED <<mark, mark_stack, shade_queue>>
  BY <1>5 DEF ReadBarrierOff, Swept, SweptStopped, StartTheWorld, Finish, SpuriousWake
<1> USE DEF TypeOK, MemoryType, MarkingType, MutatorType, Seen
<1>6. ASSUME UNCHANGED <<mark, mark_stack, shade_queue>> PROVE cpc # "sweep" => mark \subseteq mark' /\ Seen \subseteq Seen'
  BY <1>6 DEF Queued
<1>7. ASSUME NEW c \in Cells, NEW v \in stack \cup {Nil}, AllocCell(c, v) PROVE cpc # "sweep" => mark \subseteq mark' /\ Seen \subseteq Seen'
  BY <1>7 DEF AllocCell, Alloc, BornMark, Queued
<1>8. ASSUME NEW c \in Cells, InternNew(c) PROVE cpc # "sweep" => mark \subseteq mark' /\ Seen \subseteq Seen'
  BY <1>8 DEF InternNew, Alloc, BornMark, Queued
<1>9. ASSUME InternMark PROVE cpc # "sweep" => mark \subseteq mark' /\ Seen \subseteq Seen'
  BY <1>9 DEF InternMark, Found, Queued
<1>10. ASSUME BarrierPut PROVE cpc # "sweep" => mark \subseteq mark' /\ Seen \subseteq Seen'
  BY <1>10, PutSeen DEF BarrierPut, Room, marking
<1>11. ASSUME RootPut PROVE cpc # "sweep" => mark \subseteq mark' /\ Seen \subseteq Seen'
  BY <1>11, PutSeen DEF RootPut, Room, marking
<1>12. ASSUME BeginSynchronized PROVE cpc # "sweep" => mark \subseteq mark' /\ Seen \subseteq Seen'
  BY <1>12 DEF BeginSynchronized, StopTheWorld, Shaded, Queued
<1>13. ASSUME Drain PROVE cpc # "sweep" => mark \subseteq mark' /\ Seen \subseteq Seen'
  BY <1>13, DequeueSeen DEF Drain, marking
<1>14. ASSUME FinalDrain PROVE cpc # "sweep" => mark \subseteq mark' /\ Seen \subseteq Seen'
  BY <1>14, DequeueSeen DEF FinalDrain, marking
<1>15. ASSUME SerialTrace PROVE cpc # "sweep" => mark \subseteq mark' /\ Seen \subseteq Seen'
  BY <1>15, TraceSeen DEF SerialTrace, Trace, memory, heap
<1>16. ASSUME SerialTimeout PROVE cpc # "sweep" => mark \subseteq mark' /\ Seen \subseteq Seen'
  BY <1>16, TraceSeen DEF SerialTimeout, Trace, memory, heap
<1>17. ASSUME MarkQueue PROVE cpc # "sweep" => mark \subseteq mark' /\ Seen \subseteq Seen'
  <2>1. CASE Dequeue("mark")
    BY <1>17, <2>1, DequeueSeen DEF MarkQueue, marking
  <2>2. CASE UNCHANGED <<mark_stack, shade_queue>>
    BY <1>17, <2>2 DEF MarkQueue, Queued
  <2> QED BY <1>17, <2>1, <2>2 DEF MarkQueue
<1>18. ASSUME MarkPop PROVE cpc # "sweep" => mark \subseteq mark' /\ Seen \subseteq Seen'
  BY <1>18 DEF MarkPop, Queued
<1>19. ASSUME MarkScan PROVE cpc # "sweep" => mark \subseteq mark' /\ Seen \subseteq Seen'
  BY <1>19 DEF MarkScan, Shaded, Queued
<1>20. ASSUME MarkedGlobals PROVE cpc # "sweep" => mark \subseteq mark' /\ Seen \subseteq Seen'
  BY <1>20 DEF MarkedGlobals, Shaded, MarkedOut, Queued
<1>21. ASSUME SweepSlab PROVE cpc # "sweep" => mark \subseteq mark' /\ Seen \subseteq Seen'
  BY <1>21 DEF SweepSlab
<1> QED BY <1>1, <1>2, <1>3, <1>4, <1>5, <1>6, <1>7, <1>8, <1>9, <1>10, <1>11, <1>12,
       <1>13, <1>14, <1>15, <1>16, <1>17, <1>18, <1>19, <1>20, <1>21, Zenon
     DEF Next, Program, MutatorStep, CollectorStep

------------------------------------------------------------------------------
(* Marking loses no cell. *)

(* A traced cell refers to seen cells only: what the machine stores in one is seen before,   *)
(* and a cell that is allocated meanwhile is not marked.                                     *)
LEMMA TriColourNext ==
  ASSUME TypeOK, PhaseShape, WorldStopped, SweepShape, NamesShape, BarrierShape, StoreShape,
         WaveShape, PendingSeen, SeenLive, TriColour, Next
  PROVE  TriColour'
<1>nil. Nil \notin mark
  BY NAssumption DEF TypeOK, MarkingType, Cells, Nil
<1>dead. mark \subseteq live
  BY DEF SeenLive, Seen
<1>seen. cpc # "sweep" => mark \subseteq mark' /\ Seen \subseteq Seen'
  BY SeenNext
<1> USE <1>seen
<1> USE DEF marking, cycle, heap, memory
<1>1. ASSUME NEW c \in Cells, NEW v \in stack \cup {Nil}, SetReg(v) \/ Intern(c) \/
       InternBarrier(c) \/ Drop(c)
      PROVE  UNCHANGED <<mark, cur, field, cpc, phase>>
  BY <1>1 DEF SetReg, Intern, Found, InternBarrier, Drop
<1>2. ASSUME Read \/ Kick \/ Terminate \/ Poll \/ BarrierPut \/ BarrierFull \/
       BarrierTest \/ BarrierYield \/ BarrierKick \/ BarrierRetry \/ RootPut \/ RootFull
      PROVE  UNCHANGED <<mark, cur, field, cpc, phase>>
  BY <1>2 DEF Read, Kick, Terminate, Poll, BarrierPut, BarrierFull, BarrierTest,
         BarrierYield, BarrierKick, BarrierRetry, RootPut, RootFull
<1>3. ASSUME RootKick \/ RootWake \/ StopEnter \/ StopWake \/ ExitStop \/ ExitWake \/
       Exit \/ Drain \/ FinalDrain \/ SpuriousWake
      PROVE  UNCHANGED <<mark, cur, field, cpc, phase>>
  BY <1>3 DEF RootKick, RootWake, StopEnter, Handshake, StopWake, ExitStop, ExitWake,
         Exit, Drain, Dequeue, FinalDrain, SpuriousWake
<1> USE NAssumption DEF TypeOK, MemoryType, MarkingType, MutatorType, PhaseShape,
       WorldStopped, SweepShape, BarrierShape, StoreShape, WaveShape, TriColour,
       AfterMarking, Cells, Nil, Done
<1>4. ASSUME UNCHANGED <<mark, cur, field, cpc, phase>> PROVE TriColour'
  BY <1>4
<1>5. ASSUME NEW c \in Cells, NEW v \in stack \cup {Nil}, AllocCell(c, v) PROVE TriColour'
  BY <1>dead, <1>5 DEF AllocCell, Alloc, BornMark
<1>6. ASSUME NEW c \in Cells, NEW v \in stack \cup {Nil}, Write(c, v) PROVE TriColour'
  <2>1. CASE write_barrier /\ v \notin mark \cup {Nil}
    BY <1>6, <2>1 DEF Write
  <2>2. CASE v \in mark \cup {Nil}
    <3>1. v \in Seen' \cup {Nil}
      BY <1>6, <2>2 DEF Write, Seen
    <3> QED BY <1>6, <2>2, <3>1 DEF Write
  <2>3. CASE ~write_barrier
    <3>1. AfterMarking \/ mark \subseteq Names
      BY <1>6, <2>3 DEF Write, CollectorType, CollectorWaits
    <3>2. CASE AfterMarking
      BY <1>6, <2>3, <3>2 DEF Write
    <3>3. CASE mark \subseteq Names
      <4>1. \A d \in mark : field'[d] = field[d]
        BY <1>6, <3>3 DEF Write
      <4>2. UNCHANGED <<mark, mark_stack, cur, cpc, phase, shade_queue>>
        BY <1>6, <2>3 DEF Write
      <4>3. Seen' = Seen
        BY <4>2, SeenSame
      <4> QED BY <4>1, <4>2, <4>3
    <3> QED BY <3>1, <3>2, <3>3, Zenon
  <2> QED BY <2>1, <2>2, <2>3, Zenon
<1>7. ASSUME NEW c \in Cells, InternNew(c) PROVE TriColour'
  BY <1>dead, <1>7 DEF InternNew, Alloc, BornMark
<1>8. ASSUME InternMark PROVE TriColour'
  BY <1>8 DEF InternMark, Found, NamesShape
<1>9. ASSUME StoreDone PROVE TriColour'
  BY <1>9 DEF StoreDone, PendingSeen, BarrierPlaces
<1>10. ASSUME Start PROVE TriColour'
  BY <1>10 DEF Start
<1>11. ASSUME Quit PROVE TriColour'
  BY <1>11 DEF Quit
<1>12. ASSUME Rest PROVE TriColour'
  BY <1>12 DEF Rest
<1>13. ASSUME Awaken PROVE TriColour'
  BY <1>13 DEF Awaken
<1>14. ASSUME BeginConcurrent PROVE TriColour'
  BY <1>14 DEF BeginConcurrent, StopTheWorld
<1>15. ASSUME BeginSynchronized PROVE TriColour'
  BY <1>15 DEF BeginSynchronized, StopTheWorld, Shaded
<1>16. ASSUME StopWait PROVE TriColour'
  BY <1>16 DEF StopWait
<1>17. ASSUME Drained PROVE TriColour'
  BY <1>17 DEF Drained
<1>18. ASSUME HaltedGlobals PROVE TriColour'
  BY <1>18 DEF HaltedGlobals, StartTheWorld
<1>19. ASSUME HaltedLocals PROVE TriColour'
  BY <1>19 DEF HaltedLocals, StartTheWorld
<1>20. ASSUME HaltedFinal PROVE TriColour'
  BY <1>20 DEF HaltedFinal
<1>21. ASSUME FinalDrained PROVE TriColour'
  BY <1>21 DEF FinalDrained
<1>22. ASSUME SerialTrace PROVE TriColour'
  BY <1>22, TraceSeen DEF SerialTrace, Trace, memory, heap
<1>23. ASSUME SerialTimeout PROVE TriColour'
  BY <1>23, TraceSeen DEF SerialTimeout, StartTheWorld, Trace, memory, heap
<1>24. ASSUME BeginSweep PROVE TriColour'
  BY <1>24 DEF BeginSweep, StartTheWorld
<1>25. ASSUME BeginStoppedSweep PROVE TriColour'
  BY <1>25 DEF BeginStoppedSweep
<1>26. ASSUME ResumeWait PROVE TriColour'
  BY <1>26 DEF ResumeWait
<1>27. ASSUME MarkQueue PROVE TriColour'
  BY <1>27 DEF MarkQueue, Dequeue, Shaded
<1>28. ASSUME MarkPop PROVE TriColour'
  <2>1. PICK c \in mark_stack : /\ mark' = mark \cup {c}
                                /\ cur' = IF c \in mark THEN Nil ELSE c
    BY <1>28 DEF MarkPop
  <2>2. cpc = "pop" /\ cur = Nil /\ UNCHANGED <<field, phase>>
    BY <1>28 DEF MarkPop
  <2>4. mark' \ {cur'} \subseteq mark \ {cur}
    BY <1>nil, <2>1, <2>2, Zenon
  <2> QED BY <2>2, <2>4
<1>29. ASSUME MarkScan PROVE TriColour'
  BY <1>29 DEF MarkScan, Shaded, Seen
<1>30. ASSUME MarkMore PROVE TriColour'
  BY <1>30 DEF MarkMore
<1>31. ASSUME MarkedGlobals PROVE TriColour'
  BY <1>31 DEF MarkedGlobals, Shaded, MarkedOut
<1>32. ASSUME MarkedInherents PROVE TriColour'
  BY <1>32 DEF MarkedInherents, MarkedOut, StopTheWorld
<1>33. ASSUME MarkedLocals PROVE TriColour'
  BY <1>33 DEF MarkedLocals, MarkedOut, StopTheWorld
<1>34. ASSUME SweepTable PROVE TriColour'
  BY <1>34 DEF SweepTable
<1>35. ASSUME ReadBarrierOff PROVE TriColour'
  BY <1>35 DEF ReadBarrierOff
<1>36. ASSUME SweepSlab PROVE TriColour'
  BY <1>36 DEF SweepSlab
<1>37. ASSUME Swept PROVE TriColour'
  BY <1>37 DEF Swept
<1>38. ASSUME SweptStopped PROVE TriColour'
  BY <1>38 DEF SweptStopped, StartTheWorld
<1>39. ASSUME Finish PROVE TriColour'
  BY <1>39 DEF Finish
<1> QED BY <1>1, <1>2, <1>3, <1>4, <1>5, <1>6, <1>7, <1>8, <1>9, <1>10, <1>11, <1>12,
       <1>13, <1>14, <1>15, <1>16, <1>17, <1>18, <1>19, <1>20, <1>21, <1>22, <1>23,
       <1>24, <1>25, <1>26, <1>27, <1>28, <1>29, <1>30, <1>31, <1>32, <1>33, <1>34,
       <1>35, <1>36, <1>37, <1>38, <1>39, Zenon
     DEF Next, Program, MutatorStep, CollectorStep

(* The write barrier sees to it that what is stored is seen. *)
LEMMA PendingNext ==
  ASSUME TypeOK, PhaseShape, BarrierShape, PendingSeen, Next
  PROVE  PendingSeen'
<1>seen. cpc # "sweep" => mark \subseteq mark' /\ Seen \subseteq Seen'
  BY SeenNext
<1> USE <1>seen
<1> USE DEF mutator
<1>1. ASSUME NEW c \in Cells, NEW v \in stack \cup {Nil}, AllocCell(c, v) \/ SetReg(v)
       \/ InternNew(c) \/ Intern(c) \/ Drop(c)
      PROVE  UNCHANGED <<mpc, store>>
  BY <1>1 DEF AllocCell, Alloc, SetReg, InternNew, Intern, Found, Drop
<1>2. ASSUME Read \/ Kick \/ Start \/ Quit \/ Rest \/ Awaken \/ BeginConcurrent \/
       BeginSynchronized \/ StopWait \/ Drain \/ Drained \/ HaltedGlobals
      PROVE  UNCHANGED <<mpc, store>>
  BY <1>2 DEF Read, Kick, Start, Quit, Rest, Awaken, BeginConcurrent, StopTheWorld,
         BeginSynchronized, StopWait, Drain, Dequeue, Drained, HaltedGlobals,
         StartTheWorld
<1>3. ASSUME HaltedLocals \/ HaltedFinal \/ FinalDrain \/ FinalDrained \/ SerialTrace \/
       SerialTimeout \/ BeginSweep \/ BeginStoppedSweep \/ ResumeWait \/ MarkQueue \/
       MarkPop \/ MarkScan
      PROVE  UNCHANGED <<mpc, store>>
  BY <1>3 DEF HaltedLocals, StartTheWorld, HaltedFinal, FinalDrain, Dequeue,
         FinalDrained, SerialTrace, Trace, SerialTimeout, BeginSweep, BeginStoppedSweep,
         ResumeWait, MarkQueue, MarkPop, MarkScan
<1>4. ASSUME MarkMore \/ MarkedGlobals \/ MarkedInherents \/ MarkedLocals \/ SweepTable
       \/ ReadBarrierOff \/ SweepSlab \/ Swept \/ SweptStopped \/ Finish \/ SpuriousWake
      PROVE  UNCHANGED <<mpc, store>>
  BY <1>4 DEF MarkMore, MarkedGlobals, MarkedOut, MarkedInherents, StopTheWorld,
         MarkedLocals, SweepTable, ReadBarrierOff, SweepSlab, Swept, SweptStopped,
         StartTheWorld, Finish, SpuriousWake
<1> USE DEF TypeOK, MutatorType, BarrierShape, PendingSeen, PhaseShape, NoStore
<1>5. ASSUME UNCHANGED <<mpc, store>> PROVE PendingSeen'
  BY <1>5 DEF BarrierPlaces
<1>6. ASSUME NEW c \in Cells, NEW v \in stack \cup {Nil}, Write(c, v) PROVE PendingSeen'
  BY <1>6 DEF Write
<1>7. ASSUME NEW c \in Cells, InternBarrier(c) PROVE PendingSeen'
  BY <1>7 DEF InternBarrier
<1>8. ASSUME Terminate PROVE PendingSeen'
  BY <1>8 DEF Terminate
<1>9. ASSUME Poll PROVE PendingSeen'
  BY <1>9 DEF Poll, RootsFor
<1>10. ASSUME InternMark PROVE PendingSeen'
  BY <1>10 DEF InternMark, Found
<1>11. ASSUME BarrierPut PROVE PendingSeen'
  BY <1>11, PutSeen DEF BarrierPut, Seen
<1>12. ASSUME BarrierFull PROVE PendingSeen'
  BY <1>12 DEF BarrierFull, Room
<1>13. ASSUME BarrierTest PROVE PendingSeen'
  BY <1>13 DEF BarrierTest, Seen, marking, cycle
<1>14. ASSUME BarrierYield PROVE PendingSeen'
  BY <1>14 DEF BarrierYield
<1>15. ASSUME BarrierKick PROVE PendingSeen'
  BY <1>15 DEF BarrierKick
<1>16. ASSUME BarrierRetry PROVE PendingSeen'
  BY <1>16 DEF BarrierRetry
<1>17. ASSUME StoreDone PROVE PendingSeen'
  BY <1>17 DEF StoreDone
<1>18. ASSUME RootPut PROVE PendingSeen'
  BY <1>18 DEF RootPut, Room
<1>19. ASSUME RootFull PROVE PendingSeen'
  BY <1>19 DEF RootFull, Room
<1>20. ASSUME RootKick PROVE PendingSeen'
  BY <1>20 DEF RootKick
<1>21. ASSUME RootWake PROVE PendingSeen'
  BY <1>21 DEF RootWake
<1>22. ASSUME StopEnter PROVE PendingSeen'
  BY <1>22 DEF StopEnter, Handshake
<1>23. ASSUME StopWake PROVE PendingSeen'
  BY <1>23 DEF StopWake, Handshake
<1>24. ASSUME ExitStop PROVE PendingSeen'
  BY <1>24 DEF ExitStop, Handshake
<1>25. ASSUME ExitWake PROVE PendingSeen'
  BY <1>25 DEF ExitWake, Handshake
<1>26. ASSUME Exit PROVE PendingSeen'
  BY <1>26 DEF Exit
<1> QED BY <1>1, <1>2, <1>3, <1>4, <1>5, <1>6, <1>7, <1>8, <1>9, <1>10, <1>11, <1>12,
       <1>13, <1>14, <1>15, <1>16, <1>17, <1>18, <1>19, <1>20, <1>21, <1>22, <1>23,
       <1>24, <1>25, <1>26, Zenon
     DEF Next, Program, MutatorStep, CollectorStep

(* Every root becomes seen: those of the machine while it is stopped, so that they are still *)
(* its roots when marking ends.                                                              *)
LEMMA RootsNext ==
  ASSUME TypeOK, PhaseShape, WorldStopped, HandshakeShape, RootsSeen, Next
  PROVE  RootsSeen'
<1>seen. cpc # "sweep" => mark \subseteq mark' /\ Seen \subseteq Seen'
  BY SeenNext
<1> USE <1>seen
<1>same. ASSUME UNCHANGED <<stack, reg, root_snapshot>>
        PROVE  RootsFor(root_snapshot)' = RootsFor(root_snapshot)
  BY <1>same DEF RootsFor
<1> USE <1>same
<1> USE DEF mutator, machine, memory, world, cycle
<1>1. ASSUME Kick \/ Drain \/ FinalDrain \/ SerialTrace \/ SweepSlab \/ SpuriousWake
      PROVE  UNCHANGED <<stack, reg, todo, mpc, cpc, phase, stop_the_world, root_snapshot>>
  BY <1>1 DEF Kick, Drain, Dequeue, FinalDrain, SerialTrace, Trace, SweepSlab,
         SpuriousWake
<1> USE NAssumption DEF TypeOK, MemoryType, MutatorType, PhaseShape, WorldStopped,
       HandshakeShape, RootPlaces, RootsSeen, AfterMarking, CollectorWaits
<1>2. ASSUME UNCHANGED <<stack, reg, todo, mpc, cpc, phase, stop_the_world, root_snapshot>> PROVE RootsSeen'
  BY <1>2 DEF RootsFor
<1>3. ASSUME NEW c \in Cells, NEW v \in stack \cup {Nil}, AllocCell(c, v) PROVE RootsSeen'
  BY <1>3 DEF AllocCell, Alloc, BornMark
<1>4. ASSUME NEW c \in Cells, NEW v \in stack \cup {Nil}, Write(c, v) PROVE RootsSeen'
  BY <1>4 DEF Write
<1>5. ASSUME NEW v \in stack \cup {Nil}, SetReg(v) PROVE RootsSeen'
  BY <1>5 DEF SetReg
<1>6. ASSUME NEW c \in Cells, InternNew(c) PROVE RootsSeen'
  BY <1>6 DEF InternNew, Alloc, BornMark
<1>7. ASSUME NEW c \in Cells, Intern(c) PROVE RootsSeen'
  BY <1>7 DEF Intern, Found
<1>8. ASSUME NEW c \in Cells, InternBarrier(c) PROVE RootsSeen'
  BY <1>8 DEF InternBarrier
<1>9. ASSUME NEW c \in Cells, Drop(c) PROVE RootsSeen'
  BY <1>9 DEF Drop
<1>10. ASSUME Read PROVE RootsSeen'
  BY <1>10 DEF Read
<1>11. ASSUME Terminate PROVE RootsSeen'
  BY <1>11 DEF Terminate
<1>12. ASSUME Poll PROVE RootsSeen'
  BY <1>12 DEF Poll, RootsFor
<1>13. ASSUME InternMark PROVE RootsSeen'
  BY <1>13 DEF InternMark, Found
<1>14. ASSUME BarrierPut PROVE RootsSeen'
  BY <1>14 DEF BarrierPut, Room
<1>15. ASSUME BarrierFull PROVE RootsSeen'
  BY <1>15 DEF BarrierFull, Room
<1>16. ASSUME BarrierTest PROVE RootsSeen'
  BY <1>16 DEF BarrierTest
<1>17. ASSUME BarrierYield PROVE RootsSeen'
  BY <1>17 DEF BarrierYield
<1>18. ASSUME BarrierKick PROVE RootsSeen'
  BY <1>18 DEF BarrierKick
<1>19. ASSUME BarrierRetry PROVE RootsSeen'
  BY <1>19 DEF BarrierRetry
<1>20. ASSUME StoreDone PROVE RootsSeen'
  BY <1>20 DEF StoreDone
<1>21. ASSUME RootPut PROVE RootsSeen'
  <2>1. PICK c \in todo : shade_queue' = Append(shade_queue, c) /\ todo' = todo \ {c}
    BY <1>21 DEF RootPut
  <2>2. c \in Cells /\ mpc \in RootPlaces /\ mpc' \in RootPlaces
    BY <1>21 DEF RootPut
  <2>3. Queued' = Queued \cup {c}
    BY <2>1, <2>2, PutSeen
  <2>4. Seen \subseteq Seen' /\ c \in Seen'
    BY <1>21, <2>3 DEF RootPut, Seen, marking
  <2> QED BY <1>21, <2>1, <2>2, <2>4 DEF RootPut
<1>22. ASSUME RootFull PROVE RootsSeen'
  BY <1>22 DEF RootFull, Room
<1>23. ASSUME RootKick PROVE RootsSeen'
  BY <1>23 DEF RootKick
<1>24. ASSUME RootWake PROVE RootsSeen'
  BY <1>24 DEF RootWake
<1>25. ASSUME StopEnter PROVE RootsSeen'
  BY <1>25 DEF StopEnter, Handshake
<1>26. ASSUME StopWake PROVE RootsSeen'
  BY <1>26 DEF StopWake, Handshake
<1>27. ASSUME ExitStop PROVE RootsSeen'
  BY <1>27 DEF ExitStop, Handshake
<1>28. ASSUME ExitWake PROVE RootsSeen'
  BY <1>28 DEF ExitWake, Handshake
<1>29. ASSUME Exit PROVE RootsSeen'
  BY <1>29 DEF Exit
<1>30. ASSUME Start PROVE RootsSeen'
  BY <1>30 DEF Start
<1>31. ASSUME Quit PROVE RootsSeen'
  BY <1>31 DEF Quit
<1>32. ASSUME Rest PROVE RootsSeen'
  BY <1>32 DEF Rest
<1>33. ASSUME Awaken PROVE RootsSeen'
  BY <1>33 DEF Awaken
<1>34. ASSUME BeginConcurrent PROVE RootsSeen'
  BY <1>34 DEF BeginConcurrent, StopTheWorld
<1>35. ASSUME BeginSynchronized PROVE RootsSeen'
  BY <1>35, ShadedSeen DEF BeginSynchronized, StopTheWorld
<1>36. ASSUME StopWait PROVE RootsSeen'
  BY <1>36 DEF StopWait
<1>37. ASSUME Drained PROVE RootsSeen'
  BY <1>37 DEF Drained
<1>38. ASSUME HaltedGlobals PROVE RootsSeen'
  BY <1>38 DEF HaltedGlobals, StartTheWorld
<1>39. ASSUME HaltedLocals PROVE RootsSeen'
  BY <1>39 DEF HaltedLocals, StartTheWorld
<1>40. ASSUME HaltedFinal PROVE RootsSeen'
  BY <1>40 DEF HaltedFinal
<1>41. ASSUME FinalDrained PROVE RootsSeen'
  BY <1>41 DEF FinalDrained
<1>42. ASSUME SerialTimeout PROVE RootsSeen'
  BY <1>42 DEF SerialTimeout, Trace, StartTheWorld
<1>43. ASSUME BeginSweep PROVE RootsSeen'
  BY <1>43 DEF BeginSweep, StartTheWorld
<1>44. ASSUME BeginStoppedSweep PROVE RootsSeen'
  BY <1>44 DEF BeginStoppedSweep
<1>45. ASSUME ResumeWait PROVE RootsSeen'
  BY <1>45 DEF ResumeWait
<1>46. ASSUME MarkQueue PROVE RootsSeen'
  BY <1>46 DEF MarkQueue, Dequeue, Shaded
<1>47. ASSUME MarkPop PROVE RootsSeen'
  BY <1>47 DEF MarkPop
<1>48. ASSUME MarkScan PROVE RootsSeen'
  BY <1>48 DEF MarkScan, Shaded
<1>49. ASSUME MarkMore PROVE RootsSeen'
  BY <1>49 DEF MarkMore
<1>50. ASSUME MarkedGlobals PROVE RootsSeen'
  <2>1. Env \in Seen'
    BY <1>50, ShadedSeen DEF MarkedGlobals
  <2>2. mpc \notin RootPlaces /\ ~stop_the_world /\ UNCHANGED <<mpc, stop_the_world>>
    BY <1>50 DEF MarkedGlobals, MarkedOut
  <2> QED BY <2>1, <2>2
<1>51. ASSUME MarkedInherents PROVE RootsSeen'
  BY <1>51 DEF MarkedInherents, MarkedOut, StopTheWorld
<1>52. ASSUME MarkedLocals PROVE RootsSeen'
  BY <1>52 DEF MarkedLocals, MarkedOut, StopTheWorld
<1>53. ASSUME SweepTable PROVE RootsSeen'
  BY <1>53 DEF SweepTable
<1>54. ASSUME ReadBarrierOff PROVE RootsSeen'
  BY <1>54 DEF ReadBarrierOff
<1>55. ASSUME Swept PROVE RootsSeen'
  BY <1>55 DEF Swept
<1>56. ASSUME SweptStopped PROVE RootsSeen'
  BY <1>56 DEF SweptStopped, StartTheWorld
<1>57. ASSUME Finish PROVE RootsSeen'
  BY <1>57 DEF Finish
<1> QED BY <1>1, <1>2, <1>3, <1>4, <1>5, <1>6, <1>7, <1>8, <1>9, <1>10, <1>11, <1>12,
       <1>13, <1>14, <1>15, <1>16, <1>17, <1>18, <1>19, <1>20, <1>21, <1>22, <1>23,
       <1>24, <1>25, <1>26, <1>27, <1>28, <1>29, <1>30, <1>31, <1>32, <1>33, <1>34,
       <1>35, <1>36, <1>37, <1>38, <1>39, <1>40, <1>41, <1>42, <1>43, <1>44, <1>45,
       <1>46, <1>47, <1>48, <1>49, <1>50, <1>51, <1>52, <1>53, <1>54, <1>55, <1>56,
       <1>57, Zenon
     DEF Next, Program, MutatorStep, CollectorStep

------------------------------------------------------------------------------
(* The sweep frees nothing in use. *)

(* Outside of the sweep every cell is behind the wavefront. *)
LEMMA AllPassed ==
  ASSUME MemoryType', MarkingType', wavefront' = Done
  PROVE  SweepClosed'
<1>1. 1 .. wavefront' - 1 = Cells
  BY NAssumption DEF Done, Cells
<1>2. Passed' = Cells
  BY <1>1 DEF Passed, MarkingType
<1>3. Env \in Cells
  BY NAssumption DEF Cells
<1> QED
  BY <1>2, <1>3 DEF SweepClosed, MemoryType

(* When marking is over, what is seen is marked: so are the roots. *)
LEMMA RootsMarked ==
  ASSUME TypeOK, PhaseShape, WorldStopped, HandshakeShape, WaveShape, RootsSeen,
         cpc = "serial", mark_stack = {}
  PROVE  Seen = mark /\ Env \in mark /\ (~Ended => stack \cup ({reg} \ {Nil}) \subseteq mark)
<1>1. Queued = {}
  BY DEF Queued, WaveShape
<1>2. Seen = mark
  BY <1>1 DEF Seen
<1>3. phase \in {"final", "synchronized"} /\ ~AfterMarking /\ stop_the_world
  BY DEF PhaseShape, AfterMarking, HandshakeShape
<1>4. Env \in mark
  BY <1>2, <1>3 DEF RootsSeen
<1>5. ASSUME ~Ended PROVE stack \cup ({reg} \ {Nil}) \subseteq mark
  <2>1. mpc = "stopped"
    BY <1>5 DEF WorldStopped, Ended
  <2>2. root_snapshot \in {"everything", "retry"}
    BY <1>3 DEF HandshakeShape
  <2>3. RootsFor(root_snapshot) \subseteq mark
    BY <1>2, <1>3, <2>1 DEF RootsSeen
  <2> QED
    BY <2>2, <2>3 DEF RootsFor
<1> QED
  BY <1>2, <1>4, <1>5

(* A cell allocated during the sweep is marked, or behind the wavefront. *)
LEMMA AllocPassed ==
  ASSUME TypeOK, PhaseShape, WorldStopped, SweepShape, BarrierShape, WaveShape, SweepClosed,
         wavefront # Done, NEW c \in Cells, NEW v \in stack \cup {Nil}, Alloc(c, v),
         interned' \subseteq interned \cup {c}
  PROVE  SweepClosed'
<1>1. /\ mpc = "run" /\ ~Ended /\ ~Ended' /\ TableWaits' = TableWaits
      /\ field' = [field EXCEPT ![c] = v] /\ stack' = stack \cup {c} /\ UNCHANGED reg
  BY DEF Alloc, Ended, TableWaits, mutator, cycle
<1>2. alloc_barrier
  <2>1. cpc # "finish"
    BY DEF SweepShape
  <2>2. phase = "sweep"
    BY <1>1 DEF WaveShape, PhaseShape, WorldStopped
  <2> QED
    BY <2>1, <2>2 DEF BarrierShape
<1>3. Passed' = Passed \cup {c}
  <2>1. /\ mark' = IF c >= wavefront THEN mark \cup {c} ELSE mark
        /\ UNCHANGED wavefront
    BY <1>2 DEF Alloc, BornMark, barriers
  <2>2. c \in Nat /\ c >= 1 /\ wavefront \in Nat
    BY NAssumption DEF Cells, TypeOK, CounterType, Done
  <2>3. c >= wavefront \/ c \in 1 .. wavefront - 1
    BY <2>2
  <2> QED
    BY <2>1, <2>3 DEF Passed
<1>4. v \in Passed \cup {Nil} /\ stack \cup ({reg} \ {Nil}) \subseteq Passed
  BY <1>1 DEF SweepClosed
<1>5. \A x \in Passed' : field'[x] \in Passed' \cup {Nil}
  <2> SUFFICES ASSUME NEW x \in Passed' PROVE field'[x] \in Passed' \cup {Nil}
    OBVIOUS
  <2>1. CASE x = c
    BY <1>1, <1>3, <1>4, <2>1 DEF TypeOK, MemoryType
  <2>2. CASE x # c
    <3>1. x \in Passed /\ field[x] \in Passed \cup {Nil}
      BY <1>3, <2>2 DEF SweepClosed
    <3>2. field'[x] = field[x]
      BY <1>1, <2>2
    <3> QED
      BY <1>3, <3>1, <3>2
  <2> QED
    BY <2>1, <2>2
<1> QED
  BY <1>1, <1>3, <1>4, <1>5 DEF SweepClosed

(* A store of what is passed leaves what is passed closed. *)
LEMMA StorePassed ==
  ASSUME TypeOK, SweepClosed, ~Ended, NEW c \in Cells, NEW v \in stack \cup {Nil},
         field' = [field EXCEPT ![c] = v] \/ UNCHANGED field,
         UNCHANGED <<mark, wavefront, stack, reg, interned, cpc, phase>>
  PROVE  SweepClosed'
<1>1. Passed' = Passed /\ TableWaits' = TableWaits
  BY DEF Passed, TableWaits
<1>2. v \in Passed \cup {Nil} /\ field \in [Cells -> Cells \cup {Nil}]
  BY DEF SweepClosed, TypeOK, MemoryType
<1>3. \A x \in Passed : field'[x] \in Passed \cup {Nil}
  <2> SUFFICES ASSUME NEW x \in Passed PROVE field'[x] \in Passed \cup {Nil}
    OBVIOUS
  <2>1. x \in Cells
    BY NAssumption DEF Passed, TypeOK, MarkingType, CounterType, Done, Cells
  <2>2. field'[x] = v \/ field'[x] = field[x]
    BY <1>2, <2>1
  <2> QED
    BY <1>2, <2>2 DEF SweepClosed
<1> QED
  BY <1>1, <1>3 DEF SweepClosed

(* So does a name that is looked up, and a cell that is read. *)
LEMMA PushPassed ==
  ASSUME SweepClosed, ~Ended, NEW c \in Cells,
         c \in Passed \cup {Nil} \/ (mark' = mark \cup {c} /\ field[c] = Nil),
         mark' \in {mark, mark \cup {c}},
         stack' = stack \cup {c}, UNCHANGED <<field, wavefront, reg, interned, cpc, phase>>
  PROVE  SweepClosed'
<1>1. Passed' = Passed \cup {c} /\ TableWaits' = TableWaits
  BY NAssumption DEF Passed, TableWaits, Cells, Nil
<1>2. c # Nil
  BY NAssumption DEF Cells, Nil
<1>3. \A x \in Passed' : field[x] \in Passed' \cup {Nil}
  BY <1>1, <1>2 DEF SweepClosed
<1> QED
  BY <1>1, <1>3 DEF SweepClosed

(* The slab the sweep visits joins them: what it frees refers to nothing. *)
LEMMA SlabPassed ==
  ASSUME TypeOK, SweepClosed, WaveShape, ~TableWaits, SweepSlab
  PROVE  SweepClosed'
<1>1. /\ wavefront \in 1 .. N /\ wavefront' = wavefront + 1 /\ mark' = mark \ {wavefront}
      /\ field' = IF wavefront \in mark THEN field ELSE [field EXCEPT ![wavefront] = Nil]
      /\ UNCHANGED <<stack, reg, interned, mpc, cpc, phase>>
  BY NAssumption DEF SweepSlab, TypeOK, CounterType, Done, machine, mutator, cycle
<1>2. Passed' = Passed \cup {wavefront}
  <2>1. 1 .. wavefront' - 1 = (1 .. wavefront - 1) \cup {wavefront}
    BY <1>1, NAssumption
  <2> QED
    BY <1>1, <2>1 DEF Passed
<1>3. \A x \in Passed' : field'[x] \in Passed' \cup {Nil}
  <2> SUFFICES ASSUME NEW x \in Passed' PROVE field'[x] \in Passed' \cup {Nil}
    OBVIOUS
  <2>1. CASE x = wavefront /\ wavefront \notin mark
    BY <1>1, <2>1 DEF TypeOK, MemoryType, Cells
  <2>2. CASE x \in Passed /\ ~(x = wavefront /\ wavefront \notin mark)
    <3>1. field'[x] = field[x]
      BY <1>1, <2>2 DEF TypeOK, MemoryType
    <3> QED
      BY <1>2, <2>2, <3>1 DEF SweepClosed
  <2>3. wavefront \in mark => wavefront \in Passed
    BY DEF Passed
  <2> QED
    BY <1>2, <2>1, <2>2, <2>3
<1> QED
  BY <1>1, <1>2, <1>3 DEF SweepClosed, Ended, TableWaits

(* What Read pushes: a register, the cell of the heap, or what a cell on the stack refers to. *)
LEMMA ReadCell ==
  ASSUME MemoryType, Read
  PROVE  \E c \in Cells : /\ stack' = stack \cup {c}
                          /\ c \in {Env, reg} \ {Nil} \/ (\E d \in stack : field[d] = c)
<1>1. PICK s \in {stack \cup {field[c]} : c \in {d \in stack : field[d] # Nil}}
                \cup {stack \cup {c} : c \in {Env, reg} \ {Nil}} : stack' = s
  BY DEF Read
<1>2. CASE s \in {stack \cup {c} : c \in {Env, reg} \ {Nil}}
  <2>1. PICK c \in {Env, reg} \ {Nil} : s = stack \cup {c}
    BY <1>2
  <2>2. c \in Cells
    BY <2>1, NAssumption DEF MemoryType, Cells
  <2> QED
    BY <1>1, <2>1, <2>2
<1>3. CASE s \in {stack \cup {field[c]} : c \in {d \in stack : field[d] # Nil}}
  <2>1. PICK d \in stack : field[d] # Nil /\ s = stack \cup {field[d]}
    BY <1>3
  <2>2. field[d] \in Cells
    BY <2>1 DEF MemoryType
  <2> QED
    BY <1>1, <2>1, <2>2
<1> QED
  BY <1>1, <1>2, <1>3

(* What marking has achieved when a sweep begins, and what the machine keeps while it goes   *)
(* on: a cell it allocates is marked or passed, a name it looks up is marked, and else it    *)
(* gets at passed cells from passed cells only.                                              *)
LEMMA PassedKept ==
  ASSUME TypeOK, PhaseShape, WorldStopped, SweepShape, NamesShape, HandshakeShape,
         BarrierShape, StoreShape, WaveShape, TriColour, RootsSeen, SweepClosed,
         wavefront' # Done, Next
  PROVE  SweepClosed'
<1>nil. Nil \notin mark
  BY NAssumption DEF TypeOK, MarkingType, Cells, Nil
<1> USE DEF memory, heap, machine, marking, barriers, cycle, mutator
<1>1. ASSUME Kick \/ Drain \/ FinalDrain \/ SpuriousWake
      PROVE  UNCHANGED <<mark, wavefront, field, stack, reg, interned, mpc, cpc, phase>>
  BY <1>1 DEF Kick, Drain, Dequeue, FinalDrain, SpuriousWake
<1> USE NAssumption DEF TypeOK, MemoryType, MarkingType, CounterType, MutatorType,
       PhaseShape, WorldStopped, SweepShape, BarrierShape, StoreShape, WaveShape,
       TableWaits, SweepClosed, Passed, AfterMarking, Ended, Cells, Nil, Done, NoStore,
       CollectorWaits
<1>2. ASSUME UNCHANGED <<mark, wavefront, field, stack, reg, interned, mpc, cpc, phase>> PROVE SweepClosed'
  BY <1>2
<1>3. ASSUME NEW c \in Cells, NEW v \in stack \cup {Nil}, AllocCell(c, v) PROVE SweepClosed'
  BY <1>3, AllocPassed DEF AllocCell, Alloc
<1>4. ASSUME NEW c \in Cells, NEW v \in stack \cup {Nil}, Write(c, v) PROVE SweepClosed'
  BY <1>4, StorePassed DEF Write
<1>5. ASSUME NEW v \in stack \cup {Nil}, SetReg(v) PROVE SweepClosed'
  BY <1>5 DEF SetReg
<1>6. ASSUME NEW c \in Cells, InternNew(c) PROVE SweepClosed'
  BY <1>6, AllocPassed DEF InternNew, Alloc
<1>7. ASSUME NEW c \in Cells, Intern(c) PROVE SweepClosed'
  <2>1. c \in Passed
    BY <1>7 DEF Intern
  <2>2. UNCHANGED <<mark, wavefront, field, reg, interned, mpc, cpc, phase>>
        /\ stack' = stack \cup {c}
    BY <1>7 DEF Intern, Found
  <2> QED BY <2>1, <2>2
<1>8. ASSUME NEW c \in Cells, InternBarrier(c) PROVE SweepClosed'
  BY <1>8 DEF InternBarrier
<1>9. ASSUME NEW c \in Cells, Drop(c) PROVE SweepClosed'
  BY <1>9 DEF Drop
<1>10. ASSUME Read PROVE SweepClosed'
  <2>1. PICK c \in Cells : /\ stack' = stack \cup {c}
                           /\ c \in {Env, reg} \ {Nil} \/ (\E d \in stack : field[d] = c)
    BY <1>10, ReadCell
  <2>2. ~Ended /\ stack \cup ({reg} \ {Nil}) \cup {Env} \subseteq Passed
    BY <1>10 DEF Read
  <2>3. CASE c \in {Env, reg} \ {Nil}
    BY <1>10, <2>1, <2>2, <2>3, PushPassed DEF Read
  <2>4. CASE \E d \in stack : field[d] = c
    <3>1. PICK d \in stack : field[d] = c
      BY <2>4
    <3>2. c \in Passed \cup {Nil}
      BY <2>2, <3>1
    <3> QED BY <1>10, <2>1, <2>2, <3>2, PushPassed DEF Read
  <2> QED BY <2>1, <2>3, <2>4
<1>11. ASSUME Terminate PROVE SweepClosed'
  BY <1>11 DEF Terminate
<1>12. ASSUME Poll PROVE SweepClosed'
  BY <1>12 DEF Poll, RootsFor
<1>13. ASSUME InternMark PROVE SweepClosed'
  BY <1>13, PushPassed DEF InternMark, Found, NamesShape
<1>14. ASSUME BarrierPut PROVE SweepClosed'
  BY <1>14 DEF BarrierPut, Room
<1>15. ASSUME BarrierFull PROVE SweepClosed'
  BY <1>15 DEF BarrierFull, Room
<1>16. ASSUME BarrierTest PROVE SweepClosed'
  BY <1>16 DEF BarrierTest
<1>17. ASSUME BarrierYield PROVE SweepClosed'
  BY <1>17 DEF BarrierYield
<1>18. ASSUME BarrierKick PROVE SweepClosed'
  BY <1>18 DEF BarrierKick
<1>19. ASSUME BarrierRetry PROVE SweepClosed'
  BY <1>19 DEF BarrierRetry
<1>20. ASSUME StoreDone PROVE SweepClosed'
  BY <1>20, StorePassed DEF StoreDone, BarrierPlaces
<1>21. ASSUME RootPut PROVE SweepClosed'
  BY <1>21 DEF RootPut, Room
<1>22. ASSUME RootFull PROVE SweepClosed'
  BY <1>22 DEF RootFull, Room
<1>23. ASSUME RootKick PROVE SweepClosed'
  BY <1>23 DEF RootKick
<1>24. ASSUME RootWake PROVE SweepClosed'
  BY <1>24 DEF RootWake
<1>25. ASSUME StopEnter PROVE SweepClosed'
  BY <1>25 DEF StopEnter, Handshake
<1>26. ASSUME StopWake PROVE SweepClosed'
  BY <1>26 DEF StopWake, Handshake
<1>27. ASSUME ExitStop PROVE SweepClosed'
  BY <1>27 DEF ExitStop, Handshake
<1>28. ASSUME ExitWake PROVE SweepClosed'
  BY <1>28 DEF ExitWake, Handshake
<1>29. ASSUME Exit PROVE SweepClosed'
  BY <1>29 DEF Exit
<1>30. ASSUME Start PROVE SweepClosed'
  BY <1>30 DEF Start
<1>31. ASSUME Quit PROVE SweepClosed'
  BY <1>31 DEF Quit
<1>32. ASSUME Rest PROVE SweepClosed'
  BY <1>32 DEF Rest
<1>33. ASSUME Awaken PROVE SweepClosed'
  BY <1>33 DEF Awaken
<1>34. ASSUME BeginConcurrent PROVE SweepClosed'
  BY <1>34 DEF BeginConcurrent, StopTheWorld
<1>35. ASSUME BeginSynchronized PROVE SweepClosed'
  BY <1>35 DEF BeginSynchronized, StopTheWorld, Shaded
<1>36. ASSUME StopWait PROVE SweepClosed'
  BY <1>36 DEF StopWait
<1>37. ASSUME Drained PROVE SweepClosed'
  BY <1>37 DEF Drained
<1>38. ASSUME HaltedGlobals PROVE SweepClosed'
  BY <1>38 DEF HaltedGlobals, StartTheWorld
<1>39. ASSUME HaltedLocals PROVE SweepClosed'
  BY <1>39 DEF HaltedLocals, StartTheWorld
<1>40. ASSUME HaltedFinal PROVE SweepClosed'
  BY <1>40 DEF HaltedFinal
<1>41. ASSUME FinalDrained PROVE SweepClosed'
  BY <1>41 DEF FinalDrained
<1>42. ASSUME SerialTrace PROVE SweepClosed'
  BY <1>42 DEF SerialTrace, Trace
<1>43. ASSUME SerialTimeout PROVE SweepClosed'
  BY <1>43 DEF SerialTimeout, Trace, StartTheWorld
<1>44. ASSUME BeginSweep PROVE SweepClosed'
  <2>1. Seen = mark /\ Env \in mark /\ (~Ended => stack \cup ({reg} \ {Nil}) \subseteq mark)
    BY <1>44, RootsMarked DEF BeginSweep
  <2>2. cpc = "serial" /\ cur = Nil /\ ~AfterMarking
    BY <1>44 DEF BeginSweep, WaveShape
  <2>3. \A c \in mark : field[c] \in mark \cup {Nil}
    BY <1>nil, <2>1, <2>2 DEF TriColour
  <2>4. Passed' = mark
    BY <1>44 DEF BeginSweep, marking
  <2>5. UNCHANGED <<field, stack, reg, mpc>> /\ TableWaits'
    BY <1>44 DEF BeginSweep, StartTheWorld, mutator
  <2> QED BY <2>1, <2>3, <2>4, <2>5 DEF SweepClosed, Ended
<1>45. ASSUME BeginStoppedSweep PROVE SweepClosed'
  <2>1. Seen = mark /\ Env \in mark /\ (~Ended => stack \cup ({reg} \ {Nil}) \subseteq mark)
    BY <1>45, RootsMarked DEF BeginStoppedSweep
  <2>2. cpc = "serial" /\ cur = Nil /\ ~AfterMarking
    BY <1>45 DEF BeginStoppedSweep, WaveShape
  <2>3. \A c \in mark : field[c] \in mark \cup {Nil}
    BY <1>nil, <2>1, <2>2 DEF TriColour
  <2>4. Passed' = mark
    BY <1>45 DEF BeginStoppedSweep, marking
  <2>5. UNCHANGED <<field, stack, reg, mpc>> /\ TableWaits'
    BY <1>45 DEF BeginStoppedSweep, StartTheWorld, mutator
  <2> QED BY <2>1, <2>3, <2>4, <2>5 DEF SweepClosed, Ended
<1>46. ASSUME ResumeWait PROVE SweepClosed'
  BY <1>46 DEF ResumeWait
<1>47. ASSUME MarkQueue PROVE SweepClosed'
  BY <1>47 DEF MarkQueue, Dequeue, Shaded
<1>48. ASSUME MarkPop PROVE SweepClosed'
  BY <1>48 DEF MarkPop
<1>49. ASSUME MarkScan PROVE SweepClosed'
  BY <1>49 DEF MarkScan, Shaded
<1>50. ASSUME MarkMore PROVE SweepClosed'
  BY <1>50 DEF MarkMore
<1>51. ASSUME MarkedGlobals PROVE SweepClosed'
  BY <1>51 DEF MarkedGlobals, Shaded, MarkedOut
<1>52. ASSUME MarkedInherents PROVE SweepClosed'
  BY <1>52 DEF MarkedInherents, MarkedOut, StopTheWorld
<1>53. ASSUME MarkedLocals PROVE SweepClosed'
  BY <1>53 DEF MarkedLocals, MarkedOut, StopTheWorld
<1>54. ASSUME SweepTable PROVE SweepClosed'
  BY <1>54 DEF SweepTable
<1>55. ASSUME ReadBarrierOff PROVE SweepClosed'
  BY <1>55 DEF ReadBarrierOff
<1>56. ASSUME SweepSlab PROVE SweepClosed'
  BY <1>56, SlabPassed DEF SweepSlab
<1>57. ASSUME Swept PROVE SweepClosed'
  BY <1>57 DEF Swept
<1>58. ASSUME SweptStopped PROVE SweepClosed'
  BY <1>58 DEF SweptStopped, StartTheWorld
<1>59. ASSUME Finish PROVE SweepClosed'
  BY <1>59 DEF Finish
<1> QED BY <1>1, <1>2, <1>3, <1>4, <1>5, <1>6, <1>7, <1>8, <1>9, <1>10, <1>11, <1>12,
       <1>13, <1>14, <1>15, <1>16, <1>17, <1>18, <1>19, <1>20, <1>21, <1>22, <1>23,
       <1>24, <1>25, <1>26, <1>27, <1>28, <1>29, <1>30, <1>31, <1>32, <1>33, <1>34,
       <1>35, <1>36, <1>37, <1>38, <1>39, <1>40, <1>41, <1>42, <1>43, <1>44, <1>45,
       <1>46, <1>47, <1>48, <1>49, <1>50, <1>51, <1>52, <1>53, <1>54, <1>55, <1>56,
       <1>57, <1>58, <1>59, Zenon
     DEF Next, Program, MutatorStep, CollectorStep

(* So, in the sweep and outside of it, what is passed is closed and holds the roots. *)
LEMMA PassedNext ==
  ASSUME TypeOK, PhaseShape, WorldStopped, SweepShape, NamesShape, HandshakeShape,
         BarrierShape, StoreShape, WaveShape, TriColour, RootsSeen, SweepClosed, Next
  PROVE  SweepClosed'
  BY PassedKept, AllPassed, MemoryNext, MarkingNext

------------------------------------------------------------------------------
(* What is in use is allocated. *)

(* Nothing is put outside of marking. *)
LEMMA GreyNext ==
  ASSUME TypeOK, PhaseShape, HandshakeShape, BarrierShape, WaveShape, GreyShape, Next
  PROVE  GreyShape'
<1> USE DEF marking, cycle, mutator
<1>1. ASSUME NEW c \in Cells, NEW v \in stack \cup {Nil}, AllocCell(c, v) \/ SetReg(v)
       \/ InternNew(c) \/ Intern(c) \/ Drop(c)
      PROVE  UNCHANGED <<mark_stack, shade_queue, todo, mpc, cpc, phase>>
  BY <1>1 DEF AllocCell, Alloc, SetReg, InternNew, Intern, Found, Drop
<1>2. ASSUME Read \/ Kick \/ SweepSlab \/ SpuriousWake
      PROVE  UNCHANGED <<mark_stack, shade_queue, todo, mpc, cpc, phase>>
  BY <1>2 DEF Read, Kick, SweepSlab, SpuriousWake
<1> USE DEF GreyShape, PhaseShape, HandshakeShape, BarrierShape, WaveShape,
       BarrierPlaces, RootPlaces, AfterMarking, CollectorWaits
<1>3. ASSUME UNCHANGED <<mark_stack, shade_queue, todo, mpc, cpc, phase>> PROVE GreyShape'
  BY <1>3
<1>4. ASSUME NEW c \in Cells, NEW v \in stack \cup {Nil}, Write(c, v) PROVE GreyShape'
  BY <1>4 DEF Write
<1>5. ASSUME NEW c \in Cells, InternBarrier(c) PROVE GreyShape'
  BY <1>5 DEF InternBarrier
<1>6. ASSUME Terminate PROVE GreyShape'
  BY <1>6 DEF Terminate
<1>7. ASSUME Poll PROVE GreyShape'
  BY <1>7 DEF Poll, RootsFor
<1>8. ASSUME InternMark PROVE GreyShape'
  BY <1>8 DEF InternMark, Found
<1>9. ASSUME BarrierPut PROVE GreyShape'
  BY <1>9 DEF BarrierPut, Room
<1>10. ASSUME BarrierFull PROVE GreyShape'
  BY <1>10 DEF BarrierFull, Room
<1>11. ASSUME BarrierTest PROVE GreyShape'
  BY <1>11 DEF BarrierTest
<1>12. ASSUME BarrierYield PROVE GreyShape'
  BY <1>12 DEF BarrierYield
<1>13. ASSUME BarrierKick PROVE GreyShape'
  BY <1>13 DEF BarrierKick
<1>14. ASSUME BarrierRetry PROVE GreyShape'
  BY <1>14 DEF BarrierRetry
<1>15. ASSUME StoreDone PROVE GreyShape'
  BY <1>15 DEF StoreDone
<1>16. ASSUME RootPut PROVE GreyShape'
  BY <1>16 DEF RootPut, Room
<1>17. ASSUME RootFull PROVE GreyShape'
  BY <1>17 DEF RootFull, Room
<1>18. ASSUME RootKick PROVE GreyShape'
  BY <1>18 DEF RootKick
<1>19. ASSUME RootWake PROVE GreyShape'
  BY <1>19 DEF RootWake
<1>20. ASSUME StopEnter PROVE GreyShape'
  BY <1>20 DEF StopEnter, Handshake
<1>21. ASSUME StopWake PROVE GreyShape'
  BY <1>21 DEF StopWake, Handshake
<1>22. ASSUME ExitStop PROVE GreyShape'
  BY <1>22 DEF ExitStop, Handshake
<1>23. ASSUME ExitWake PROVE GreyShape'
  BY <1>23 DEF ExitWake, Handshake
<1>24. ASSUME Exit PROVE GreyShape'
  BY <1>24 DEF Exit
<1>25. ASSUME Start PROVE GreyShape'
  BY <1>25 DEF Start
<1>26. ASSUME Quit PROVE GreyShape'
  BY <1>26 DEF Quit
<1>27. ASSUME Rest PROVE GreyShape'
  BY <1>27 DEF Rest
<1>28. ASSUME Awaken PROVE GreyShape'
  BY <1>28 DEF Awaken
<1>29. ASSUME BeginConcurrent PROVE GreyShape'
  BY <1>29 DEF BeginConcurrent, StopTheWorld
<1>30. ASSUME BeginSynchronized PROVE GreyShape'
  BY <1>30 DEF BeginSynchronized, StopTheWorld, Shaded
<1>31. ASSUME StopWait PROVE GreyShape'
  BY <1>31 DEF StopWait
<1>32. ASSUME Drain PROVE GreyShape'
  BY <1>32 DEF Drain, Dequeue, Shaded
<1>33. ASSUME Drained PROVE GreyShape'
  BY <1>33 DEF Drained
<1>34. ASSUME HaltedGlobals PROVE GreyShape'
  BY <1>34 DEF HaltedGlobals, StartTheWorld
<1>35. ASSUME HaltedLocals PROVE GreyShape'
  BY <1>35 DEF HaltedLocals, StartTheWorld
<1>36. ASSUME HaltedFinal PROVE GreyShape'
  BY <1>36 DEF HaltedFinal
<1>37. ASSUME FinalDrain PROVE GreyShape'
  BY <1>37 DEF FinalDrain, Dequeue, Shaded
<1>38. ASSUME FinalDrained PROVE GreyShape'
  BY <1>38 DEF FinalDrained
<1>39. ASSUME SerialTrace PROVE GreyShape'
  BY <1>39 DEF SerialTrace, Trace
<1>40. ASSUME SerialTimeout PROVE GreyShape'
  BY <1>40 DEF SerialTimeout, Trace, StartTheWorld
<1>41. ASSUME BeginSweep PROVE GreyShape'
  BY <1>41 DEF BeginSweep, StartTheWorld
<1>42. ASSUME BeginStoppedSweep PROVE GreyShape'
  BY <1>42 DEF BeginStoppedSweep
<1>43. ASSUME ResumeWait PROVE GreyShape'
  BY <1>43 DEF ResumeWait
<1>44. ASSUME MarkQueue PROVE GreyShape'
  BY <1>44 DEF MarkQueue, Dequeue, Shaded
<1>45. ASSUME MarkPop PROVE GreyShape'
  BY <1>45 DEF MarkPop
<1>46. ASSUME MarkScan PROVE GreyShape'
  BY <1>46 DEF MarkScan, Shaded
<1>47. ASSUME MarkMore PROVE GreyShape'
  BY <1>47 DEF MarkMore
<1>48. ASSUME MarkedGlobals PROVE GreyShape'
  BY <1>48 DEF MarkedGlobals, Shaded, MarkedOut
<1>49. ASSUME MarkedInherents PROVE GreyShape'
  BY <1>49 DEF MarkedInherents, MarkedOut, StopTheWorld
<1>50. ASSUME MarkedLocals PROVE GreyShape'
  BY <1>50 DEF MarkedLocals, MarkedOut, StopTheWorld
<1>51. ASSUME SweepTable PROVE GreyShape'
  BY <1>51 DEF SweepTable
<1>52. ASSUME ReadBarrierOff PROVE GreyShape'
  BY <1>52 DEF ReadBarrierOff
<1>53. ASSUME Swept PROVE GreyShape'
  BY <1>53 DEF Swept
<1>54. ASSUME SweptStopped PROVE GreyShape'
  BY <1>54 DEF SweptStopped, StartTheWorld
<1>55. ASSUME Finish PROVE GreyShape'
  BY <1>55 DEF Finish
<1> QED BY <1>1, <1>2, <1>3, <1>4, <1>5, <1>6, <1>7, <1>8, <1>9, <1>10, <1>11, <1>12,
       <1>13, <1>14, <1>15, <1>16, <1>17, <1>18, <1>19, <1>20, <1>21, <1>22, <1>23,
       <1>24, <1>25, <1>26, <1>27, <1>28, <1>29, <1>30, <1>31, <1>32, <1>33, <1>34,
       <1>35, <1>36, <1>37, <1>38, <1>39, <1>40, <1>41, <1>42, <1>43, <1>44, <1>45,
       <1>46, <1>47, <1>48, <1>49, <1>50, <1>51, <1>52, <1>53, <1>54, <1>55, Zenon
     DEF Next, Program, MutatorStep, CollectorStep

(* While the collector marks, no allocated cell refers to a free one. *)
LEMMA LiveField ==
  ASSUME TypeOK, PhaseShape, WaveShape, HeapLive,
         cpc \in {"serial", "scan"}
  PROVE  \A c \in live : field[c] \in live \cup {Nil}
<1>1. wavefront = Done
  BY DEF WaveShape, PhaseShape
<1>2. Cells \subseteq Passed
  BY <1>1, NAssumption DEF Passed, Done, Cells
<1> QED
  BY <1>2 DEF HeapLive, TypeOK, MemoryType

(* What becomes seen is a root, what the machine stores or what an allocated cell refers to;  *)
(* the sweep frees no marked cell, and nothing else is seen then.                             *)
LEMMA SeenLiveNext ==
  ASSUME TypeOK, PhaseShape, HandshakeShape, StoreShape, WaveShape, GreyShape, HeapLive,
         SeenLive, Next
  PROVE  SeenLive'
<1>field. cpc \in {"serial", "scan"} => \A c \in live : field[c] \in live \cup {Nil}
  BY LiveField
<1>queue. ASSUME MarkQueue PROVE Seen' = Seen
  BY <1>queue, DequeueSeen DEF MarkQueue, Seen, Queued
<1> USE <1>field
<1> USE DEF memory, heap, marking, mutator
<1>1. ASSUME NEW c \in Cells, NEW v \in stack \cup {Nil}, Write(c, v) \/ SetReg(v) \/
       Intern(c) \/ InternBarrier(c) \/ Drop(c)
      PROVE  UNCHANGED <<live, mark, mark_stack, shade_queue, todo>>
  BY <1>1 DEF Write, SetReg, Intern, Found, InternBarrier, Drop
<1>2. ASSUME Read \/ Kick \/ Terminate \/ BarrierFull \/ BarrierTest \/ BarrierYield \/
       BarrierKick \/ BarrierRetry \/ StoreDone \/ RootFull \/ RootKick \/ RootWake
      PROVE  UNCHANGED <<live, mark, mark_stack, shade_queue, todo>>
  BY <1>2 DEF Read, Kick, Terminate, BarrierFull, BarrierTest, BarrierYield,
         BarrierKick, BarrierRetry, StoreDone, RootFull, RootKick, RootWake
<1>3. ASSUME StopEnter \/ StopWake \/ ExitStop \/ ExitWake \/ Exit \/ Start \/ Quit \/
       Rest \/ Awaken \/ BeginConcurrent \/ StopWait \/ Drained
      PROVE  UNCHANGED <<live, mark, mark_stack, shade_queue, todo>>
  BY <1>3 DEF StopEnter, Handshake, StopWake, ExitStop, ExitWake, Exit, Start, Quit,
         Rest, Awaken, BeginConcurrent, StopTheWorld, StopWait, Drained
<1>4. ASSUME HaltedGlobals \/ HaltedLocals \/ HaltedFinal \/ FinalDrained \/ BeginSweep
       \/ BeginStoppedSweep \/ ResumeWait \/ MarkMore \/ MarkedInherents \/ MarkedLocals
       \/ SweepTable \/ ReadBarrierOff
      PROVE  UNCHANGED <<live, mark, mark_stack, shade_queue, todo>>
  BY <1>4 DEF HaltedGlobals, StartTheWorld, HaltedLocals, HaltedFinal, FinalDrained,
         BeginSweep, BeginStoppedSweep, ResumeWait, MarkMore, MarkedInherents,
         MarkedOut, StopTheWorld, MarkedLocals, SweepTable, ReadBarrierOff
<1>5. ASSUME Swept \/ SweptStopped \/ Finish \/ SpuriousWake
      PROVE  UNCHANGED <<live, mark, mark_stack, shade_queue, todo>>
  BY <1>5 DEF Swept, SweptStopped, StartTheWorld, Finish, SpuriousWake
<1> USE NAssumption DEF TypeOK, MemoryType, MarkingType, MutatorType, Seen
<1>6. ASSUME UNCHANGED <<live, mark, mark_stack, shade_queue, todo>> PROVE SeenLive'
  BY <1>6 DEF SeenLive, Queued
<1>7. ASSUME NEW c \in Cells, NEW v \in stack \cup {Nil}, AllocCell(c, v) PROVE SeenLive'
  BY <1>7 DEF AllocCell, Alloc, BornMark, Queued, SeenLive
<1>8. ASSUME NEW c \in Cells, InternNew(c) PROVE SeenLive'
  BY <1>8 DEF InternNew, Alloc, BornMark, Queued, SeenLive
<1>9. ASSUME Poll PROVE SeenLive'
  <2>1. Seen' \cup todo' \subseteq Seen \cup todo \cup (stack \cup ({reg} \ {Nil})) /\ UNCHANGED live
    BY <1>9 DEF Poll, RootsFor, Queued
  <2>2. (stack \cup ({reg} \ {Nil})) \subseteq live
    BY <1>9 DEF Poll, HeapLive, Ended
  <2> QED BY <2>1, <2>2 DEF SeenLive
<1>10. ASSUME InternMark PROVE SeenLive'
  <2>1. Seen' \cup todo' \subseteq Seen \cup todo \cup {store[1]} /\ UNCHANGED live
    BY <1>10 DEF InternMark, Found, Queued
  <2>2. {store[1]} \subseteq live
    BY <1>10 DEF InternMark, HeapLive, StoreShape
  <2> QED BY <2>1, <2>2 DEF SeenLive
<1>11. ASSUME BarrierPut PROVE SeenLive'
  <2>1. Seen' \cup todo' \subseteq Seen \cup todo \cup {store[2]} /\ UNCHANGED live
    BY <1>11, PutSeen DEF BarrierPut, Room
  <2>2. {store[2]} \subseteq live
    BY <1>11 DEF BarrierPut, HeapLive, StoreShape, BarrierPlaces, Ended
  <2> QED BY <2>1, <2>2 DEF SeenLive
<1>12. ASSUME RootPut PROVE SeenLive'
  <2>1. PICK c \in todo : shade_queue' = Append(shade_queue, c) /\ todo' = todo \ {c}
    BY <1>12 DEF RootPut
  <2>2. Queued' = Queued \cup {c}
    BY <2>1, PutSeen
  <2> QED BY <1>12, <2>1, <2>2 DEF RootPut, SeenLive
<1>13. ASSUME BeginSynchronized PROVE SeenLive'
  <2>1. Seen' \cup todo' \subseteq Seen \cup todo \cup {Env} /\ UNCHANGED live
    BY <1>13 DEF BeginSynchronized, StopTheWorld, Shaded, Queued
  <2>2. {Env} \subseteq live
    BY <1>13 DEF BeginSynchronized, HeapLive
  <2> QED BY <2>1, <2>2 DEF SeenLive
<1>14. ASSUME Drain PROVE SeenLive'
  <2>1. Seen' \cup todo' \subseteq Seen \cup todo \cup {} /\ UNCHANGED live
    BY <1>14, DequeueSeen DEF Drain, Dequeue, Shaded
  <2>2. {} \subseteq live
    BY <1>14 DEF Drain
  <2> QED BY <2>1, <2>2 DEF SeenLive
<1>15. ASSUME FinalDrain PROVE SeenLive'
  <2>1. Seen' \cup todo' \subseteq Seen \cup todo \cup {} /\ UNCHANGED live
    BY <1>15, DequeueSeen DEF FinalDrain, Dequeue, Shaded
  <2>2. {} \subseteq live
    BY <1>15 DEF FinalDrain
  <2> QED BY <2>1, <2>2 DEF SeenLive
<1>16. ASSUME SerialTrace PROVE SeenLive'
  <2>1. PICK c \in mark_stack : Trace(c)
    BY <1>16 DEF SerialTrace
  <2>2. Seen' \cup todo' \subseteq Seen \cup todo \cup ({field[c]} \ {Nil}) /\ UNCHANGED live
    BY <1>16, <2>1 DEF SerialTrace, Trace, Queued
  <2>3. c \in live
    BY <2>1 DEF SeenLive
  <2>4. {field[c]} \ {Nil} \subseteq live
    BY <1>16, <2>3 DEF SerialTrace
  <2> QED BY <2>2, <2>4 DEF SeenLive
<1>17. ASSUME SerialTimeout PROVE SeenLive'
  <2>1. PICK c \in mark_stack : Trace(c)
    BY <1>17 DEF SerialTimeout
  <2>2. Seen' \cup todo' \subseteq Seen \cup todo \cup ({field[c]} \ {Nil}) /\ UNCHANGED live
    <3>1. UNCHANGED <<shade_queue, todo, live>>
      BY <1>17 DEF SerialTimeout, StartTheWorld
    <3>2. mark' \cup mark_stack' \subseteq mark \cup mark_stack \cup ({field[c]} \ {Nil})
      BY <2>1 DEF Trace
    <3> QED BY <3>1, <3>2 DEF Queued
  <2>3. c \in live
    BY <2>1 DEF SeenLive
  <2>4. {field[c]} \ {Nil} \subseteq live
    BY <1>17, <2>3 DEF SerialTimeout
  <2> QED BY <2>2, <2>4 DEF SeenLive
<1>18. ASSUME MarkQueue PROVE SeenLive'
  <2>1. Seen' \cup todo' \subseteq Seen \cup todo \cup {} /\ UNCHANGED live
    BY <1>18, <1>queue DEF MarkQueue, Dequeue, Shaded
  <2>2. {} \subseteq live
    BY <1>18 DEF MarkQueue
  <2> QED BY <2>1, <2>2 DEF SeenLive
<1>19. ASSUME MarkPop PROVE SeenLive'
  <2>1. Seen' \cup todo' \subseteq Seen \cup todo \cup {} /\ UNCHANGED live
    BY <1>19 DEF MarkPop, Queued
  <2>2. {} \subseteq live
    BY <1>19 DEF MarkPop
  <2> QED BY <2>1, <2>2 DEF SeenLive
<1>20. ASSUME MarkScan PROVE SeenLive'
  <2>1. Seen' \cup todo' \subseteq Seen \cup todo \cup ({field[cur]} \ {Nil}) /\ UNCHANGED live
    BY <1>20 DEF MarkScan, Shaded, Queued
  <2>2. ({field[cur]} \ {Nil}) \subseteq live
    BY <1>20 DEF MarkScan, WaveShape, SeenLive
  <2> QED BY <2>1, <2>2 DEF SeenLive
<1>21. ASSUME MarkedGlobals PROVE SeenLive'
  <2>1. Seen' \cup todo' \subseteq Seen \cup todo \cup {Env} /\ UNCHANGED live
    BY <1>21 DEF MarkedGlobals, Shaded, MarkedOut, Queued
  <2>2. {Env} \subseteq live
    BY <1>21 DEF MarkedGlobals, HeapLive
  <2> QED BY <2>1, <2>2 DEF SeenLive
<1>22. ASSUME SweepSlab PROVE SeenLive'
  <2>1. mark_stack = {} /\ Queued = {} /\ todo = {}
    <3>1. cpc = "sweep" /\ phase \in {"sweep", "synchronized"}
      BY <1>22 DEF SweepSlab, PhaseShape
    <3>2. mark_stack = {} /\ shade_queue = <<>> /\ todo = {}
      BY <3>1 DEF GreyShape, AfterMarking, HandshakeShape
    <3> QED BY <3>2 DEF Queued
  <2>2. Seen' \cup todo' = mark \ {wavefront}
    BY <1>22, <2>1 DEF SweepSlab, Queued
  <2>3. mark \ {wavefront} \subseteq live'
    BY <1>22 DEF SweepSlab, SeenLive
  <2> QED BY <2>2, <2>3 DEF SeenLive
<1> QED BY <1>1, <1>2, <1>3, <1>4, <1>5, <1>6, <1>7, <1>8, <1>9, <1>10, <1>11, <1>12,
       <1>13, <1>14, <1>15, <1>16, <1>17, <1>18, <1>19, <1>20, <1>21, <1>22, Zenon
     DEF Next, Program, MutatorStep, CollectorStep

(* A cell that is allocated refers to a cell of the stack, so nothing dangles from it. *)
LEMMA AllocLive ==
  ASSUME TypeOK, HeapLive, NEW c \in Cells, NEW v \in stack \cup {Nil}, Alloc(c, v),
         interned' \subseteq interned \cup {c}
  PROVE  HeapLive'
<1>1. /\ mpc = "run" /\ ~Ended /\ ~Ended' /\ c \notin live /\ live' = live \cup {c}
      /\ field' = [field EXCEPT ![c] = v] /\ stack' = stack \cup {c} /\ UNCHANGED <<reg, wavefront>>
      /\ mark' \subseteq mark \cup {c}
  BY DEF Alloc, Ended, BornMark, mutator, barriers
<1>2. v \in live \cup {Nil}
  BY <1>1 DEF HeapLive
<1>3. Passed' \subseteq Passed \cup {c}
  BY <1>1 DEF Passed
<1>4. ASSUME NEW x \in live' \cap Passed' PROVE field'[x] \in live' \cup {Nil}
  <2>1. CASE x = c
    BY <1>1, <1>2, <2>1 DEF TypeOK, MemoryType
  <2>2. CASE x # c
    <3>1. x \in live \cap Passed /\ field'[x] = field[x]
      BY <1>1, <1>3, <2>2 DEF TypeOK, MemoryType
    <3> QED
      BY <1>1, <3>1 DEF HeapLive
  <2> QED
    BY <2>1, <2>2
<1>5. \A x \in Cells \ live' : field'[x] = Nil
  BY <1>1 DEF HeapLive, TypeOK, MemoryType
<1>6. /\ interned' \cup {Env} \subseteq live'
      /\ stack' \cup ({reg'} \ {Nil}) \subseteq live'
  BY <1>1 DEF HeapLive
<1> QED
  BY <1>4, <1>5, <1>6 DEF HeapLive

(* Nor from a cell that is written. *)
LEMMA StoreLive ==
  ASSUME TypeOK, HeapLive, ~Ended, NEW c \in stack, NEW v \in stack \cup {Nil},
         field' = [field EXCEPT ![c] = v] \/ UNCHANGED field,
         UNCHANGED <<live, interned, mark, wavefront, stack, reg>>
  PROVE  HeapLive'
<1>1. c \in live /\ v \in live \cup {Nil} /\ Passed' = Passed
  BY DEF HeapLive, Passed
<1>2. ASSUME NEW x \in Cells PROVE field'[x] = field[x] \/ (x = c /\ field'[x] = v)
  BY DEF TypeOK, MemoryType
<1>3. ASSUME NEW x \in live \cap Passed PROVE field'[x] \in live \cup {Nil}
  BY <1>1, <1>2 DEF HeapLive, TypeOK, MemoryType
<1>4. \A x \in Cells \ live : field'[x] = Nil
  BY <1>1, <1>2 DEF HeapLive
<1> QED
  BY <1>1, <1>3, <1>4 DEF HeapLive

(* The sweep frees a cell that no passed cell refers to, and no root and no name is. *)
LEMMA SlabLive ==
  ASSUME TypeOK, HeapLive, SweepClosed, ~TableWaits, SweepSlab
  PROVE  HeapLive'
<1>1. /\ wavefront \in Cells /\ wavefront' = wavefront + 1 /\ mark' = mark \ {wavefront}
      /\ UNCHANGED <<stack, reg, interned, mpc>>
      /\ live' = IF wavefront \in mark THEN live ELSE live \ {wavefront}
      /\ field' = IF wavefront \in mark THEN field ELSE [field EXCEPT ![wavefront] = Nil]
  BY NAssumption DEF SweepSlab, TypeOK, CounterType, Done, Cells, machine, mutator
<1>2. /\ Passed' = Passed \cup {wavefront}
      /\ wavefront \in mark => wavefront \in Passed
      /\ wavefront \notin mark => wavefront \notin Passed
  <2>1. 1 .. wavefront' - 1 = (1 .. wavefront - 1) \cup {wavefront} /\ wavefront \notin 1 .. wavefront - 1
    BY <1>1, NAssumption DEF Cells
  <2> QED
    BY <1>1, <2>1 DEF Passed
<1>3. CASE wavefront \in mark
  <2>1. Passed' = Passed /\ UNCHANGED <<live, field>>
    BY <1>1, <1>2, <1>3
  <2> QED
    BY <1>1, <2>1 DEF HeapLive, Ended
<1>4. CASE wavefront \notin mark
  <2>1. wavefront \notin Passed /\ live' = live \ {wavefront} /\ field' = [field EXCEPT ![wavefront] = Nil]
    BY <1>1, <1>2, <1>4
  <2>2. ASSUME NEW x \in live' \cap Passed' PROVE field'[x] \in live' \cup {Nil}
    <3>1. x # wavefront /\ x \in live \cap Passed
      BY <1>2, <2>1
    <3>2. field'[x] = field[x] /\ field[x] \in live \cup {Nil} /\ field[x] \in Passed \cup {Nil}
      BY <2>1, <3>1 DEF HeapLive, SweepClosed, TypeOK, MemoryType
    <3>3. wavefront # Nil
      BY <1>1, NAssumption DEF Cells, Nil
    <3> QED
      BY <2>1, <3>2, <3>3
  <2>3. \A x \in Cells \ live' : field'[x] = Nil
    BY <1>1, <2>1 DEF HeapLive, TypeOK, MemoryType
  <2>4. interned \cup {Env} \subseteq live' /\ (~Ended' => stack \cup ({reg} \ {Nil}) \subseteq live')
    BY <1>1, <2>1 DEF HeapLive, SweepClosed, Ended
  <2> QED
    BY <1>1, <2>2, <2>3, <2>4 DEF HeapLive
<1> QED
  BY <1>3, <1>4

(* What the machine gets hold of is allocated, and what the sweep frees nothing in use refers to. *)
LEMMA HeapLiveNext ==
  ASSUME TypeOK, PhaseShape, NamesShape, StoreShape, WaveShape, SweepClosed, HeapLive, Next
  PROVE  HeapLive'
<1>nil. \A c \in Cells : c # Nil
  BY NAssumption DEF Cells, Nil
<1>all. ASSUME wavefront = Done, UNCHANGED wavefront PROVE Passed = Cells /\ Passed' = Cells
  <2>1. mark \subseteq Cells /\ mark' \subseteq Cells /\ 1 .. Done - 1 = Cells
    BY MarkingNext, NAssumption DEF TypeOK, MarkingType, Done, Cells
  <2> QED
    BY <1>all, <2>1 DEF Passed
<1> USE DEF memory, heap, machine, marking, barriers, mutator
<1>1. ASSUME Kick \/ Start \/ Quit \/ Rest \/ Awaken \/ BeginConcurrent \/
       BeginSynchronized \/ StopWait \/ Drain \/ Drained \/ HaltedGlobals \/
       HaltedLocals
      PROVE  UNCHANGED <<live, field, interned, stack, reg, mark, wavefront, mpc>>
  BY <1>1 DEF Kick, Start, Quit, Rest, Awaken, BeginConcurrent, StopTheWorld,
         BeginSynchronized, StopWait, Drain, Dequeue, Drained, HaltedGlobals,
         StartTheWorld, HaltedLocals
<1>2. ASSUME HaltedFinal \/ FinalDrain \/ FinalDrained \/ ResumeWait \/ MarkQueue \/
       MarkScan \/ MarkMore \/ MarkedGlobals \/ MarkedInherents \/ MarkedLocals \/
       ReadBarrierOff \/ Swept
      PROVE  UNCHANGED <<live, field, interned, stack, reg, mark, wavefront, mpc>>
  BY <1>2 DEF HaltedFinal, FinalDrain, Dequeue, FinalDrained, ResumeWait, MarkQueue,
         MarkScan, MarkMore, MarkedGlobals, MarkedOut, MarkedInherents, StopTheWorld,
         MarkedLocals, ReadBarrierOff, Swept
<1>3. ASSUME SweptStopped \/ Finish \/ SpuriousWake
      PROVE  UNCHANGED <<live, field, interned, stack, reg, mark, wavefront, mpc>>
  BY <1>3 DEF SweptStopped, StartTheWorld, Finish, SpuriousWake
<1> USE DEF HeapLive, Passed, Ended, PhaseShape, WaveShape
<1>4. ASSUME UNCHANGED <<live, field, interned, stack, reg, mark, wavefront, mpc>> PROVE HeapLive'
  BY <1>4
<1>5. ASSUME NEW c \in Cells, NEW v \in stack \cup {Nil}, AllocCell(c, v) PROVE HeapLive'
  BY <1>5, AllocLive DEF AllocCell, Alloc
<1>6. ASSUME NEW c \in Cells, NEW v \in stack \cup {Nil}, Write(c, v) PROVE HeapLive'
  BY <1>6, StoreLive DEF Write
<1>7. ASSUME NEW v \in stack \cup {Nil}, SetReg(v) PROVE HeapLive'
  BY <1>7 DEF SetReg
<1>8. ASSUME NEW c \in Cells, InternNew(c) PROVE HeapLive'
  BY <1>8, AllocLive DEF InternNew, Alloc
<1>9. ASSUME NEW c \in Cells, Intern(c) PROVE HeapLive'
  BY <1>9 DEF Intern, Found
<1>10. ASSUME NEW c \in Cells, InternBarrier(c) PROVE HeapLive'
  BY <1>10 DEF InternBarrier
<1>11. ASSUME NEW c \in Cells, Drop(c) PROVE HeapLive'
  BY <1>11 DEF Drop
<1>12. ASSUME Read PROVE HeapLive'
  <2>1. PICK c \in Cells : /\ stack' = stack \cup {c}
                           /\ c \in {Env, reg} \ {Nil} \/ (\E d \in stack : field[d] = c)
    BY <1>12, ReadCell DEF TypeOK
  <2>2. ~Ended /\ ~Ended' /\ UNCHANGED <<live, field, interned, reg, mark, wavefront>>
    BY <1>12 DEF Read
  <2>3. c \in live
    BY <2>1, <2>2, <1>nil DEF SweepClosed
  <2>4. stack' = stack \cup {c}
    BY <2>1, Zenon
  <2> QED BY <2>2, <2>3, <2>4
<1>13. ASSUME Terminate PROVE HeapLive'
  BY <1>13 DEF Terminate
<1>14. ASSUME Poll PROVE HeapLive'
  BY <1>14 DEF Poll, RootsFor
<1>15. ASSUME InternMark PROVE HeapLive'
  <2>1. /\ store[1] \in interned /\ field[store[1]] = Nil
        /\ stack' = stack \cup {store[1]} /\ mark' = mark \cup {store[1]} /\ ~Ended
        /\ UNCHANGED <<live, field, interned, reg, wavefront>>
    BY <1>15 DEF InternMark, Found, StoreShape, NamesShape
  <2> QED BY <2>1
<1>16. ASSUME BarrierPut PROVE HeapLive'
  BY <1>16 DEF BarrierPut, Room
<1>17. ASSUME BarrierFull PROVE HeapLive'
  BY <1>17 DEF BarrierFull, Room
<1>18. ASSUME BarrierTest PROVE HeapLive'
  BY <1>18 DEF BarrierTest
<1>19. ASSUME BarrierYield PROVE HeapLive'
  BY <1>19 DEF BarrierYield
<1>20. ASSUME BarrierKick PROVE HeapLive'
  BY <1>20 DEF BarrierKick
<1>21. ASSUME BarrierRetry PROVE HeapLive'
  BY <1>21 DEF BarrierRetry
<1>22. ASSUME StoreDone PROVE HeapLive'
  BY <1>22, StoreLive DEF StoreDone, StoreShape, BarrierPlaces
<1>23. ASSUME RootPut PROVE HeapLive'
  BY <1>23 DEF RootPut, Room
<1>24. ASSUME RootFull PROVE HeapLive'
  BY <1>24 DEF RootFull, Room
<1>25. ASSUME RootKick PROVE HeapLive'
  BY <1>25 DEF RootKick
<1>26. ASSUME RootWake PROVE HeapLive'
  BY <1>26 DEF RootWake
<1>27. ASSUME StopEnter PROVE HeapLive'
  BY <1>27 DEF StopEnter, Handshake
<1>28. ASSUME StopWake PROVE HeapLive'
  BY <1>28 DEF StopWake, Handshake
<1>29. ASSUME ExitStop PROVE HeapLive'
  BY <1>29 DEF ExitStop, Handshake
<1>30. ASSUME ExitWake PROVE HeapLive'
  BY <1>30 DEF ExitWake, Handshake
<1>31. ASSUME Exit PROVE HeapLive'
  BY <1>31 DEF Exit
<1>32. ASSUME SerialTrace PROVE HeapLive'
  <2>1. wavefront = Done /\ UNCHANGED <<wavefront, live, field, interned, stack, reg, mpc>>
    BY <1>32 DEF SerialTrace, Trace
  <2>2. Passed' = Passed
    BY <1>all, <2>1
  <2> QED BY <2>1, <2>2
<1>33. ASSUME SerialTimeout PROVE HeapLive'
  <2>1. wavefront = Done /\ UNCHANGED <<wavefront, live, field, interned, stack, reg, mpc>>
    BY <1>33 DEF SerialTimeout, Trace, StartTheWorld
  <2>2. Passed' = Passed
    BY <1>all, <2>1
  <2> QED BY <2>1, <2>2
<1>34. ASSUME BeginSweep PROVE HeapLive'
  BY <1>34 DEF BeginSweep, StartTheWorld
<1>35. ASSUME BeginStoppedSweep PROVE HeapLive'
  BY <1>35 DEF BeginStoppedSweep
<1>36. ASSUME MarkPop PROVE HeapLive'
  <2>1. wavefront = Done /\ UNCHANGED <<wavefront, live, field, interned, stack, reg, mpc>>
    BY <1>36 DEF MarkPop
  <2>2. Passed' = Passed
    BY <1>all, <2>1
  <2> QED BY <2>1, <2>2
<1>37. ASSUME SweepTable PROVE HeapLive'
  BY <1>37 DEF SweepTable
<1>38. ASSUME SweepSlab PROVE HeapLive'
  BY <1>38, SlabLive DEF SweepSlab, TableWaits
<1> QED BY <1>1, <1>2, <1>3, <1>4, <1>5, <1>6, <1>7, <1>8, <1>9, <1>10, <1>11, <1>12,
       <1>13, <1>14, <1>15, <1>16, <1>17, <1>18, <1>19, <1>20, <1>21, <1>22, <1>23,
       <1>24, <1>25, <1>26, <1>27, <1>28, <1>29, <1>30, <1>31, <1>32, <1>33, <1>34,
       <1>35, <1>36, <1>37, <1>38, Zenon
     DEF Next, Program, MutatorStep, CollectorStep

------------------------------------------------------------------------------
(* The theorems. *)

LEMMA InitSafety == Init => SafetyInv
<1> SUFFICES ASSUME Init PROVE SafetyInv
  OBVIOUS
<1> USE NAssumption DEF Init, Cells, Nil, Done, NoStore
<1>1. Passed = Cells
  BY DEF Passed
<1>2. Queued = {} /\ Seen = {}
  BY DEF Queued, Seen
<1>3. HandshakeShape /\ BarrierShape
  BY DEF HandshakeShape, BarrierShape, RootPlaces, BarrierPlaces
<1>4. StoreShape /\ WaveShape
  BY DEF StoreShape, WaveShape, BarrierPlaces, TableWaits
<1>5. TriColour /\ PendingSeen /\ RootsSeen
  BY DEF TriColour, PendingSeen, RootsSeen, AfterMarking, RootPlaces
<1>6. SweepClosed /\ HeapLive
  BY <1>1 DEF SweepClosed, HeapLive
<1>7. GreyShape /\ SeenLive
  BY <1>2 DEF GreyShape, SeenLive
<1> QED
  BY <1>3, <1>4, <1>5, <1>6, <1>7, Zenon DEF SafetyInv

(* Every step of either thread keeps the invariant. *)
LEMMA NextSafety == IInv /\ SafetyInv /\ [Next]_vars => SafetyInv'
<1> SUFFICES ASSUME IInv, SafetyInv, [Next]_vars PROVE SafetyInv'
  OBVIOUS
<1>1. ASSUME Next PROVE SafetyInv'
  <2>1. TypeOK /\ PhaseShape /\ StopShape /\ WorldStopped /\ SweepShape /\ NamesShape
    BY DEF IInv
  <2>2. /\ HandshakeShape /\ BarrierShape /\ StoreShape /\ WaveShape
        /\ TriColour /\ PendingSeen /\ RootsSeen /\ SweepClosed
        /\ GreyShape /\ SeenLive /\ HeapLive
    BY DEF SafetyInv
  <2>3. HandshakeShape' /\ BarrierShape' /\ StoreShape' /\ WaveShape'
    BY <1>1, <2>1, <2>2, HandshakeNext, BarrierNext, StoreNext, WaveNext
  <2>4. TriColour' /\ PendingSeen'
    BY <1>1, <2>1, <2>2, TriColourNext, PendingNext
  <2>5. RootsSeen' /\ SweepClosed'
    BY <1>1, <2>1, <2>2, RootsNext, PassedNext
  <2>6. GreyShape' /\ SeenLive' /\ HeapLive'
    BY <1>1, <2>1, <2>2, GreyNext, SeenLiveNext, HeapLiveNext
  <2> QED
    BY <2>3, <2>4, <2>5, <2>6, Zenon DEF SafetyInv
<1>2. ASSUME UNCHANGED vars PROVE SafetyInv'
  <2> USE <1>2 DEF SafetyInv, vars, heap, machine, marking, barriers, request, world, cycle,
                   mutator, wakes
  <2>1. Passed' = Passed /\ Queued' = Queued /\ Seen' = Seen
    BY DEF Passed, Queued, Seen
  <2>2. RootsFor(root_snapshot)' = RootsFor(root_snapshot)
    BY DEF RootsFor
  <2>3. HandshakeShape' /\ BarrierShape' /\ StoreShape'
    BY DEF HandshakeShape, BarrierShape, StoreShape
  <2>4. WaveShape'
    BY DEF WaveShape, TableWaits
  <2>5. TriColour' /\ PendingSeen' /\ RootsSeen'
    BY <2>1, <2>2 DEF TriColour, PendingSeen, RootsSeen, AfterMarking
  <2>6. SweepClosed' /\ HeapLive'
    BY <2>1 DEF SweepClosed, HeapLive, Ended, TableWaits
  <2>7. GreyShape' /\ SeenLive'
    BY <2>1 DEF GreyShape, SeenLive, AfterMarking
  <2> QED
    BY <2>3, <2>4, <2>5, <2>6, <2>7, Zenon
<1> QED
  BY <1>1, <1>2

(* The inductive invariant holds in every reachable state. *)
THEOREM SafetyCorrect == Spec => []SafetyInv
<1> QED
  BY InitSafety, NextSafety, InvCorrect, PTL DEF Spec

(* A set that holds the roots and is closed holds what is reachable. *)
LEMMA ReachableLeast ==
  ASSUME NEW C \in SUBSET Cells, Env \in C, ~Ended => stack \cup ({reg} \ {Nil}) \subseteq C,
         \A c \in C : field[c] \in C \cup {Nil}
  PROVE  Heap!Reachable \subseteq C
<1>1. Heap!Roots \subseteq C
  BY NAssumption DEF Heap!Roots, Heap!Nil, Nil
<1>2. Heap!Closed(C)
  BY DEF Heap!Closed, Heap!Nil, Nil
<1> QED
  BY <1>1, <1>2 DEF Heap!Reachable, Heap!Cells, Cells

(* What is reachable is marked or behind the wavefront, and it is allocated. *)
LEMMA ReachablePassed ==
  ASSUME TypeOK, SweepClosed, HeapLive
  PROVE  Heap!Reachable \subseteq Passed \cap live
<1>1. Passed \in SUBSET Cells
  BY NAssumption DEF Passed, TypeOK, MarkingType, CounterType, Cells, Done
<1>2. \A c \in Passed \cap live : field[c] \in (Passed \cap live) \cup {Nil}
  BY DEF SweepClosed, HeapLive
<1>3. Env \in Passed \cap live /\ (~Ended => stack \cup ({reg} \ {Nil}) \subseteq Passed \cap live)
  BY DEF SweepClosed, HeapLive
<1> QED
  BY <1>1, <1>2, <1>3, ReachableLeast

(* The invariant of the run: in front of the sweep everything reachable is  *)
(* marked, so the sweep cannot free it.                                     *)
THEOREM UnsweptMarkedCorrect == Spec => []UnsweptMarked
<1>1. IInv /\ SafetyInv => UnsweptMarked
  <2> SUFFICES ASSUME IInv, SafetyInv, NEW c \in (wavefront .. N) \ mark
               PROVE  c \notin Heap!Reachable
    BY DEF UnsweptMarked
  <2>1. Heap!Reachable \subseteq Passed
    BY ReachablePassed DEF IInv, SafetyInv
  <2>2. c \notin 1 .. wavefront - 1
    BY NAssumption DEF IInv, TypeOK, CounterType, Done
  <2> QED
    BY <2>1, <2>2 DEF Passed
<1> QED
  BY <1>1, InvCorrect, SafetyCorrect, PTL

(* No reference of the running program dangles, and no name that can still  *)
(* be looked up is free.                                                    *)
THEOREM NothingDangles == Spec => []Heap!NoDangling
<1>1. IInv /\ SafetyInv => Heap!NoDangling
  <2> SUFFICES ASSUME IInv, SafetyInv PROVE Heap!NoDangling
    OBVIOUS
  <2>1. Heap!Reachable \subseteq Passed \cap live /\ interned \subseteq live
    BY ReachablePassed DEF IInv, SafetyInv, HeapLive
  <2> QED
    BY <2>1 DEF Heap!NoDangling
<1> QED
  BY <1>1, InvCorrect, SafetyCorrect, PTL

------------------------------------------------------------------------------
(* The collector implements GcHeap. *)

LEMMA InitHeap == Init => Heap!Init
  BY DEF Init, Heap!Init, Heap!Cells, Heap!Nil, Cells, Nil, Ended

(* Step by step: the machine allocates, looks up, reads and writes as there, the end of the   *)
(* thread lets go of the roots, and of the collector's steps SweepTable forgets names out of  *)
(* reach, SweepSlab frees a cell out of reach, and the others change nothing there.           *)
LEMMA HeapNext ==
  ASSUME TypeOK, NamesShape, StoreShape, WaveShape, SweepClosed, HeapLive, Next
  PROVE  Heap!Next \/ UNCHANGED Heap!vars
<1> USE DEF memory, heap, machine, mutator
<1>1. ASSUME Kick \/ Start \/ Quit \/ Rest \/ Awaken \/ BeginConcurrent \/
       BeginSynchronized \/ StopWait \/ Drain \/ Drained \/ HaltedGlobals \/
       HaltedLocals
      PROVE  UNCHANGED <<live, field, interned, stack, reg, mpc>>
  BY <1>1 DEF Kick, Start, Quit, Rest, Awaken, BeginConcurrent, StopTheWorld,
         BeginSynchronized, StopWait, Drain, Dequeue, Drained, HaltedGlobals,
         StartTheWorld, HaltedLocals
<1>2. ASSUME HaltedFinal \/ FinalDrain \/ FinalDrained \/ SerialTrace \/ SerialTimeout
       \/ BeginSweep \/ BeginStoppedSweep \/ ResumeWait \/ MarkQueue \/ MarkPop \/
       MarkScan \/ MarkMore
      PROVE  UNCHANGED <<live, field, interned, stack, reg, mpc>>
  BY <1>2 DEF HaltedFinal, FinalDrain, Dequeue, FinalDrained, SerialTrace, Trace,
         SerialTimeout, StartTheWorld, BeginSweep, BeginStoppedSweep, ResumeWait,
         MarkQueue, MarkPop, MarkScan, MarkMore
<1>3. ASSUME MarkedGlobals \/ MarkedInherents \/ MarkedLocals \/ ReadBarrierOff \/ Swept
       \/ SweptStopped \/ Finish \/ SpuriousWake
      PROVE  UNCHANGED <<live, field, interned, stack, reg, mpc>>
  BY <1>3 DEF MarkedGlobals, MarkedOut, MarkedInherents, StopTheWorld, MarkedLocals,
         ReadBarrierOff, Swept, SweptStopped, StartTheWorld, Finish, SpuriousWake
<1> USE DEF Ended
<1>4. ASSUME UNCHANGED <<live, field, interned, stack, reg, mpc>> PROVE Heap!Next \/ UNCHANGED Heap!vars
  BY <1>4 DEF Heap!vars
<1>5. ASSUME NEW c \in Cells, NEW v \in stack \cup {Nil}, AllocCell(c, v) PROVE Heap!Next \/ UNCHANGED Heap!vars
  <2>1. ~Ended /\ ~Ended'
    BY <1>5 DEF AllocCell, Alloc, BornMark, Ended, mutator
  <2>2. Heap!New
    BY <1>5, <2>1 DEF AllocCell, Alloc, BornMark, memory, heap, machine, Heap!New, Heap!Alloc, Heap!Cells, Heap!Nil, Cells, Nil
  <2> QED BY <2>2, Zenon DEF Heap!Next
<1>6. ASSUME NEW c \in Cells, NEW v \in stack \cup {Nil}, Write(c, v) PROVE Heap!Next \/ UNCHANGED Heap!vars
  <2>1. ~Ended /\ ~Ended'
    BY <1>6 DEF Write, Ended, mutator
  <2>2. CASE field' = [field EXCEPT ![c] = v]
    <3>1. Heap!Write
      BY <1>6, <2>1, <2>2 DEF Write, machine, NamesShape, Heap!Write, Heap!Nil, Nil
    <3> QED BY <3>1, Zenon DEF Heap!Next
  <2>3. CASE UNCHANGED field
    BY <1>6, <2>1, <2>3 DEF Write, machine, Heap!vars
  <2> QED BY <1>6, <2>2, <2>3 DEF Write
<1>7. ASSUME NEW v \in stack \cup {Nil}, SetReg(v) PROVE Heap!Next \/ UNCHANGED Heap!vars
  <2>1. ~Ended /\ ~Ended'
    BY <1>7 DEF SetReg, Ended, mutator
  <2>2. Heap!Write
    BY <1>7, <2>1 DEF SetReg, memory, heap, machine, Heap!Write, Heap!Cells, Heap!Nil, Cells, Nil
  <2> QED BY <2>2, Zenon DEF Heap!Next
<1>8. ASSUME NEW c \in Cells, InternNew(c) PROVE Heap!Next \/ UNCHANGED Heap!vars
  <2>1. ~Ended /\ ~Ended'
    BY <1>8 DEF InternNew, Alloc, BornMark, Ended, mutator
  <2>2. Heap!New
    BY <1>8, <2>1 DEF InternNew, Alloc, BornMark, memory, heap, machine, Heap!New, Heap!Alloc, Heap!Cells, Heap!Nil, Cells, Nil
  <2> QED BY <2>2, Zenon DEF Heap!Next
<1>9. ASSUME NEW c \in Cells, Intern(c) PROVE Heap!Next \/ UNCHANGED Heap!vars
  <2>1. ~Ended /\ ~Ended'
    BY <1>9 DEF Intern, Found, Ended, mutator
  <2>2. Heap!Lookup
    BY <1>9, <2>1 DEF Intern, Found, memory, heap, machine, Heap!Lookup, Heap!Cells, Heap!Nil, Cells, Nil
  <2> QED BY <2>2, Zenon DEF Heap!Next
<1>10. ASSUME NEW c \in Cells, InternBarrier(c) PROVE Heap!Next \/ UNCHANGED Heap!vars
  BY <1>10 DEF InternBarrier, memory, heap, machine, Heap!vars
<1>11. ASSUME NEW c \in Cells, Drop(c) PROVE Heap!Next \/ UNCHANGED Heap!vars
  <2>1. ~Ended /\ ~Ended'
    BY <1>11 DEF Drop, Ended, mutator
  <2>2. Heap!Write
    BY <1>11, <2>1 DEF Drop, memory, heap, machine, Heap!Write, Heap!Cells, Heap!Nil, Cells, Nil
  <2> QED BY <2>2, Zenon DEF Heap!Next
<1>12. ASSUME Read PROVE Heap!Next \/ UNCHANGED Heap!vars
  <2>1. ~Ended /\ ~Ended'
    BY <1>12 DEF Read, Ended, mutator
  <2>2. Heap!Read
    BY <1>12, <2>1 DEF Read, memory, heap, machine, Heap!Read, Heap!Cells, Heap!Nil, Cells, Nil
  <2> QED BY <2>2, Zenon DEF Heap!Next
<1>13. ASSUME Terminate PROVE Heap!Next \/ UNCHANGED Heap!vars
  <2>1. ~Ended /\ Ended' /\ UNCHANGED <<live, field, interned>>
    BY <1>13 DEF Terminate, Ended, memory, heap
  <2>2. Heap!End
    BY <2>1 DEF Heap!End, Heap!Nil, Nil
  <2> QED BY <2>2, Zenon DEF Heap!Next
<1>14. ASSUME Poll PROVE Heap!Next \/ UNCHANGED Heap!vars
  BY <1>14 DEF Poll, RootsFor, memory, heap, machine, Heap!vars
<1>15. ASSUME InternMark PROVE Heap!Next \/ UNCHANGED Heap!vars
  <2>1. ~Ended /\ ~Ended'
    BY <1>15 DEF InternMark, Found, Ended, mutator
  <2>2. Heap!Lookup
    BY <1>15, <2>1 DEF InternMark, Found, memory, heap, machine, Heap!Lookup, StoreShape, Heap!Cells, Heap!Nil, Cells, Nil
  <2> QED BY <2>2, Zenon DEF Heap!Next
<1>16. ASSUME BarrierPut PROVE Heap!Next \/ UNCHANGED Heap!vars
  BY <1>16 DEF BarrierPut, Room, memory, heap, machine, Heap!vars
<1>17. ASSUME BarrierFull PROVE Heap!Next \/ UNCHANGED Heap!vars
  BY <1>17 DEF BarrierFull, Room, memory, heap, machine, Heap!vars
<1>18. ASSUME BarrierTest PROVE Heap!Next \/ UNCHANGED Heap!vars
  BY <1>18 DEF BarrierTest, memory, heap, machine, Heap!vars
<1>19. ASSUME BarrierYield PROVE Heap!Next \/ UNCHANGED Heap!vars
  BY <1>19 DEF BarrierYield, memory, heap, machine, Heap!vars
<1>20. ASSUME BarrierKick PROVE Heap!Next \/ UNCHANGED Heap!vars
  BY <1>20 DEF BarrierKick, memory, heap, machine, Heap!vars
<1>21. ASSUME BarrierRetry PROVE Heap!Next \/ UNCHANGED Heap!vars
  BY <1>21 DEF BarrierRetry, memory, heap, machine, Heap!vars
<1>22. ASSUME StoreDone PROVE Heap!Next \/ UNCHANGED Heap!vars
  <2>1. ~Ended /\ ~Ended'
    BY <1>22 DEF StoreDone, Ended, mutator
  <2>2. Heap!Write
    BY <1>22, <2>1 DEF StoreDone, memory, heap, machine, Heap!Write, StoreShape, BarrierPlaces, NamesShape, Heap!Cells, Heap!Nil, Cells, Nil
  <2> QED BY <2>2, Zenon DEF Heap!Next
<1>23. ASSUME RootPut PROVE Heap!Next \/ UNCHANGED Heap!vars
  BY <1>23 DEF RootPut, Room, memory, heap, machine, Heap!vars
<1>24. ASSUME RootFull PROVE Heap!Next \/ UNCHANGED Heap!vars
  BY <1>24 DEF RootFull, Room, memory, heap, machine, Heap!vars
<1>25. ASSUME RootKick PROVE Heap!Next \/ UNCHANGED Heap!vars
  BY <1>25 DEF RootKick, memory, heap, machine, Heap!vars
<1>26. ASSUME RootWake PROVE Heap!Next \/ UNCHANGED Heap!vars
  BY <1>26 DEF RootWake, memory, heap, machine, Heap!vars
<1>27. ASSUME StopEnter PROVE Heap!Next \/ UNCHANGED Heap!vars
  BY <1>27 DEF StopEnter, Handshake, memory, heap, machine, Heap!vars
<1>28. ASSUME StopWake PROVE Heap!Next \/ UNCHANGED Heap!vars
  BY <1>28 DEF StopWake, Handshake, memory, heap, machine, Heap!vars
<1>29. ASSUME ExitStop PROVE Heap!Next \/ UNCHANGED Heap!vars
  BY <1>29 DEF ExitStop, Handshake, memory, heap, machine, Heap!vars
<1>30. ASSUME ExitWake PROVE Heap!Next \/ UNCHANGED Heap!vars
  BY <1>30 DEF ExitWake, Handshake, memory, heap, machine, Heap!vars
<1>31. ASSUME Exit PROVE Heap!Next \/ UNCHANGED Heap!vars
  BY <1>31 DEF Exit, memory, heap, machine, Heap!vars
<1>32. ASSUME SweepTable PROVE Heap!Next \/ UNCHANGED Heap!vars
  <2>1. interned' = interned \cap mark /\ UNCHANGED <<live, field, stack, reg, mpc>>
    BY <1>32 DEF SweepTable, machine, mutator
  <2>2. Heap!Reachable \subseteq mark
    <3>1. wavefront = 1
      BY <1>32 DEF SweepTable, WaveShape, TableWaits
    <3>2. Passed = mark
      BY <3>1 DEF Passed
    <3> QED BY <3>2, ReachablePassed
  <2>3. CASE interned \subseteq mark
    <3>1. interned' = interned
      BY <2>1, <2>3
    <3> QED BY <2>1, <3>1 DEF Heap!vars, Ended
  <2>4. CASE ~(interned \subseteq mark)
    <3> DEFINE F == interned \ mark
    <3>1. F \in (SUBSET interned) \ {{}} /\ interned' = interned \ F /\ F \cap Heap!Reachable = {}
      BY <2>1, <2>2, <2>4
    <3>2. Heap!Unintern
      BY <2>1, <3>1 DEF Heap!Unintern, Ended
    <3> QED BY <3>2, Zenon DEF Heap!Next
  <2> QED BY <2>3, <2>4
<1>33. ASSUME SweepSlab PROVE Heap!Next \/ UNCHANGED Heap!vars
  <2>1. /\ wavefront \in Cells /\ cpc = "sweep" /\ UNCHANGED <<stack, reg, interned, mpc>>
        /\ live' = IF wavefront \in mark THEN live ELSE live \ {wavefront}
        /\ field' = IF wavefront \in mark THEN field ELSE [field EXCEPT ![wavefront] = Nil]
    BY <1>33, NAssumption DEF SweepSlab, TypeOK, CounterType, Done, Cells, machine, mutator
  <2>2. CASE wavefront \in mark
    BY <2>1, <2>2 DEF Heap!vars, Ended
  <2>3. CASE wavefront \notin mark /\ wavefront \in live
    <3>1. wavefront \notin Passed
      BY <2>1, <2>3, NAssumption DEF Passed, Cells
    <3>2. wavefront \notin Heap!Reachable \cup interned
      BY <2>1, <3>1, ReachablePassed DEF SweepClosed, TableWaits
    <3> DEFINE F == {wavefront}
    <3>3. field' = [c \in Heap!Cells |-> IF c \in F THEN Heap!Nil ELSE field[c]]
      BY <2>1, <2>3 DEF TypeOK, MemoryType, Heap!Cells, Heap!Nil, Cells, Nil
    <3>4. /\ F \in (SUBSET live) \ {{}} /\ live' = live \ F
          /\ F \cap (Heap!Reachable \cup interned) = {}
      BY <2>1, <2>3, <3>2
    <3> HIDE DEF F
    <3>5. Heap!Reclaim
      BY <2>1, <3>3, <3>4 DEF Heap!Reclaim, Ended
    <3> QED BY <3>5, Zenon DEF Heap!Next
  <2>4. CASE wavefront \notin mark /\ wavefront \notin live
    <3>1. live' = live /\ field' = field
      BY <2>1, <2>4 DEF HeapLive, TypeOK, MemoryType
    <3> QED BY <2>1, <3>1 DEF Heap!vars, Ended
  <2> QED BY <2>2, <2>3, <2>4
<1> QED BY <1>1, <1>2, <1>3, <1>4, <1>5, <1>6, <1>7, <1>8, <1>9, <1>10, <1>11, <1>12,
       <1>13, <1>14, <1>15, <1>16, <1>17, <1>18, <1>19, <1>20, <1>21, <1>22, <1>23,
       <1>24, <1>25, <1>26, <1>27, <1>28, <1>29, <1>30, <1>31, <1>32, <1>33, Zenon
     DEF Next, Program, MutatorStep, CollectorStep

(* Whatever the threads do to each other, to the heap they do what GcHeap says. *)
THEOREM HeapRefined == Spec => RefinesHeap
<1>1. IInv /\ SafetyInv /\ [Next]_vars => [Heap!Next]_Heap!vars
  <2> SUFFICES ASSUME IInv, SafetyInv, [Next]_vars PROVE Heap!Next \/ UNCHANGED Heap!vars
    OBVIOUS
  <2>1. CASE Next
    BY <2>1, HeapNext DEF IInv, SafetyInv
  <2>2. CASE UNCHANGED vars
    BY <2>2 DEF vars, heap, machine, mutator, Heap!vars, Ended
  <2> QED
    BY <2>1, <2>2
<1> QED
  BY <1>1, InitHeap, InvCorrect, SafetyCorrect, PTL DEF Spec, RefinesHeap, Heap!Spec

==============================================================================
