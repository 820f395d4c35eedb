---------------------------- MODULE MCOverwritten ------------------------------
(***************************************************************************)
(* RememberSet with a history variable: what writes overwrote that called  *)
(* remember(lhs, rhs) and did not find lhs behind rhs, and what it led to. *)
(***************************************************************************)
EXTENDS MCRememberSet

VARIABLE overwritten

Overwrites ==
  /\ store = <<>> /\ store' # <<>>
  /\ Barred(store'[1]) /\ ref[store'[1]] \notin {Nil} \cup Reach({store'[2]})

History ==
  overwritten' = IF Overwrites THEN overwritten \cup Reach({ref[store'[1]]})
                 ELSE overwritten \ (used' \ used)

HistorySpec == Init /\ overwritten = {} /\ [][Next /\ History]_<<vars, overwritten>>

(* remember(lhs, rhs) is called with the value that is overwritten first,  *)
(* subr_hash.cpp 403 and 432 with no new value at all, and it skips lhs    *)
(* where it is behind rhs "(x ... lhs)" (interpreter.cpp 406 to 410): what *)
(* it does not skip is kept for the threads that run, so that none of them *)
(* refers to an overwritten object that has been freed.                    *)
OverwrittenKept == \A t \in Rows : (held[t] \ used) \cap overwritten = {}
==============================================================================
