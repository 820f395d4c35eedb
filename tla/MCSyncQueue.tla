----------------------------- MODULE MCSyncQueue -----------------------------
(* Small instances of SyncQueue for TLC.                                   *)
EXTENDS SyncQueue

(* Every call but try_put, which differs from try_get as put from get.     *)
MCCallKinds == (PutKinds \cup GetKinds) \ {"try_put"}
==============================================================================
