----------------------------- MODULE SweptHeap --------------------------------
(***************************************************************************)
(* What allocation and sweep promise together: a cycle condemns some of    *)
(* the objects that exist, those and no others are reclaimed, and all of   *)
(* them are before the next cycle condemns anything.  There are no slabs,  *)
(* lists, marks or pages here.                                             *)
(***************************************************************************)
CONSTANT Objects

VARIABLES live,      (* the objects that exist *)
          doomed     (* those the current cycle will reclaim *)

vars == <<live, doomed>>

Init == live = {} /\ doomed = {}

New(o) ==
  /\ o \in Objects \ live
  /\ live' = live \cup {o}
  /\ UNCHANGED doomed

Condemn ==
  /\ doomed = {}
  /\ doomed' \in SUBSET live
  /\ UNCHANGED live

Reclaim ==
  /\ doomed' \in SUBSET doomed
  /\ live' = live \ (doomed \ doomed')

Next == Condemn \/ Reclaim \/ \E o \in Objects : New(o)

Spec == Init /\ [][Next]_vars
==============================================================================
