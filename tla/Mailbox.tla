------------------------------- MODULE Mailbox -------------------------------
(***************************************************************************)
(* What a shared queue and a slot of a shared bag promise: a box of        *)
(* messages, each delivered once, as it was sent, in the order in which    *)
(* the box took them in.  No bytes, no tags, no identifiers.  Nothing is   *)
(* promised once the program is broken by what C++ leaves undefined.       *)
(***************************************************************************)
EXTENDS Naturals, Sequences

CONSTANTS Threads, Boxes, Messages, Depth, Nothing

VARIABLES box,       \* the messages in each box
          sending,   \* what each thread is about to send, or Nothing
          hand,      \* what each thread has received and not yet returned
          closed,    \* the boxes take nothing in any more
          broken

boxes == <<box, sending, hand, closed>>
vars == <<boxes, broken>>

Init ==
  /\ box = [b \in Boxes |-> <<>>]
  /\ sending = [t \in Threads |-> Nothing]
  /\ hand = [t \in Threads |-> Nothing]
  /\ closed = FALSE /\ broken = FALSE

Begin(t) ==
  /\ sending[t] = Nothing /\ hand[t] = Nothing
  /\ \E m \in Messages : sending' = [sending EXCEPT ![t] = m]
  /\ UNCHANGED <<box, hand, closed>>

Send(t, b) ==
  /\ sending[t] # Nothing /\ Len(box[b]) < Depth /\ ~closed
  /\ box' = [box EXCEPT ![b] = Append(@, sending[t])]
  /\ sending' = [sending EXCEPT ![t] = Nothing]
  /\ UNCHANGED <<hand, closed>>

GiveUp(t) ==
  /\ sending[t] # Nothing
  /\ sending' = [sending EXCEPT ![t] = Nothing]
  /\ UNCHANGED <<box, hand, closed>>

Receive(t, b) ==
  /\ box[b] # <<>> /\ sending[t] = Nothing /\ hand[t] = Nothing
  /\ hand' = [hand EXCEPT ![t] = Head(box[b])]
  /\ box' = [box EXCEPT ![b] = Tail(@)]
  /\ UNCHANGED <<sending, closed>>

Return(t) ==
  /\ hand[t] # Nothing
  /\ hand' = [hand EXCEPT ![t] = Nothing]
  /\ UNCHANGED <<box, sending, closed>>

Close == closed' = TRUE /\ UNCHANGED <<box, sending, hand>>

Step ==
  \/ \E t \in Threads : Begin(t) \/ GiveUp(t) \/ Return(t)
  \/ \E t \in Threads, b \in Boxes : Send(t, b) \/ Receive(t, b)
  \/ Close

Next == (Step /\ UNCHANGED broken) \/ broken' = TRUE

Spec == Init /\ [][Next]_vars
==============================================================================
