------------------------------- MODULE GcHeap -------------------------------
(***************************************************************************)
(* What the object heap (src/object_heap.cpp) promises the virtual machine *)
(* that runs on it: cells can be allocated, read and written, names can be *)
(* interned, and at any moment some cells that the machine cannot reach    *)
(* any more may disappear, together with their entries in the table of     *)
(* interned names.  There is no collector, no mark and no barrier here.    *)
(*                                                                         *)
(* A cell has one reference field; Env stands for the cells that the heap  *)
(* itself keeps (environments, m_inherents), stack for the value stack and *)
(* the registers saved with it, reg for the m_current_* registers.         *)
(***************************************************************************)
EXTENDS Naturals

CONSTANTS N,    (* cells are the addresses 1 .. N *)
          Env   (* the cell that is never collected *)

Nil == 0
Cells == 1 .. N

VARIABLES live,      (* the allocated cells *)
          field,     (* what each cell refers to *)
          interned,  (* the table of names; it does not keep its cells alive *)
          stack,     (* the cells on the stack *)
          reg        (* the cell in the register *)

vars == <<live, field, interned, stack, reg>>

Roots == ({Env, reg} \ {Nil}) \cup stack

(* The least set that holds the roots and is closed under field. *)
Closed(C) == \A c \in C : field[c] \in C \cup {Nil}
Reachable == {c \in Cells : \A C \in SUBSET Cells : Roots \subseteq C /\ Closed(C) => c \in C}

Init ==
  /\ live = {Env}
  /\ field = [c \in Cells |-> Nil]
  /\ interned = {}
  /\ stack = {}
  /\ reg = Nil

Alloc(c, v) ==
  /\ c \notin live
  /\ live' = live \cup {c}
  /\ field' = [field EXCEPT ![c] = v]
  /\ stack' = stack \cup {c}
  /\ UNCHANGED reg

(* A cell of the program, or a new name. *)
New ==
  \/ \E c \in Cells, v \in stack \cup {Nil} : Alloc(c, v) /\ UNCHANGED interned
  \/ \E c \in Cells : Alloc(c, Nil) /\ interned' = interned \cup {c}

(* A name that is in the table is found, even if nothing else refers to it. *)
Lookup ==
  /\ \E c \in interned : stack' = stack \cup {c}
  /\ UNCHANGED <<live, field, interned, reg>>

Read ==
  /\ \/ \E c \in stack : field[c] # Nil /\ stack' = stack \cup {field[c]}
     \/ \E c \in {Env, reg} \ {Nil} : stack' = stack \cup {c}
  /\ UNCHANGED <<live, field, interned, reg>>

(* A name has no field: what is interned refers to nothing. *)
Write ==
  /\ \/ \E c \in stack \ interned, v \in stack \cup {Nil} :
          field' = [field EXCEPT ![c] = v] /\ UNCHANGED <<stack, reg>>
     \/ \E v \in stack \cup {Nil} : reg' = v /\ UNCHANGED <<field, stack>>
     \/ \E c \in stack : stack' = stack \ {c} /\ UNCHANGED <<field, reg>>
  /\ UNCHANGED <<live, interned>>

(* The machine is a thread, and ends: it lets go of everything. *)
End ==
  /\ stack' = {} /\ reg' = Nil
  /\ UNCHANGED <<live, field, interned>>

(* Only what is out of reach is reclaimed, and its name first. *)
Unintern ==
  /\ \E S \in (SUBSET interned) \ {{}} : interned' = interned \ S /\ S \cap Reachable = {}
  /\ UNCHANGED <<live, field, stack, reg>>

Reclaim ==
  /\ \E S \in (SUBSET live) \ {{}} :
       /\ live' = live \ S
       /\ S \cap (Reachable \cup interned) = {}
       /\ field' = [c \in Cells |-> IF c \in S THEN Nil ELSE field[c]]
  /\ UNCHANGED <<interned, stack, reg>>

Next == New \/ Lookup \/ Read \/ Write \/ End \/ Unintern \/ Reclaim

Spec == Init /\ [][Next]_vars

(* No reference dangles: whatever the machine can reach, and every name it  *)
(* can look up, is allocated.                                               *)
NoDangling == Reachable \cup interned \subseteq live
==============================================================================
