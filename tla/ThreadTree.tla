----------------------------- MODULE ThreadTree ------------------------------
(***************************************************************************)
(* What the thread table (src/interpreter.cpp) promises: threads form a    *)
(* tree, and since a child reads the heap of its parent, the heap of a     *)
(* thread goes away only when the thread has ended and no heap of a child  *)
(* is left.  There are no rows, addresses, locks or counters here.         *)
(***************************************************************************)
CONSTANTS Names, Root, None

VARIABLES running,   (* the threads that run Scheme code *)
          up         (* the parent of a thread whose heap exists *)

vars == <<running, up>>

Members == {Root} \cup {t \in Names : up[t] # None}

Init == running = {Root} /\ up = [t \in Names |-> None]

Spawn(p, c) ==
  /\ p \in running /\ c \notin Members
  /\ running' = running \cup {c}
  /\ up' = [up EXCEPT ![c] = p]

End(t) ==
  /\ t \in running \ {Root}
  /\ running' = running \ {t}
  /\ UNCHANGED up

Delete(t) ==
  /\ t \in Members \ running
  /\ \A c \in Names : up[c] # t
  /\ up' = [up EXCEPT ![t] = None]
  /\ UNCHANGED running

Next ==
  \/ \E p, c \in Names : Spawn(p, c)
  \/ \E t \in Names : End(t) \/ Delete(t)

Spec == Init /\ [][Next]_vars
==============================================================================
