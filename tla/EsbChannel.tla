----------------------------- MODULE EsbChannel -----------------------------
(***************************************************************************)
(* What two nodes with the Enhanced ShockBurst driver promise to each      *)
(* other's applications: a channel that delivers what was written in the   *)
(* order it was written, each payload exactly once, however many packets   *)
(* and acknowledgments the air loses.  EsbLink implements it (the property *)
(* EsbLink!ImplementsChannel).                                             *)
(***************************************************************************)
EXTENDS Naturals, Sequences

CONSTANTS Payload, CAPACITY

VARIABLES waiting,     \* payloads accepted and not yet settled, oldest first
          delivered,   \* payloads delivered, oldest first
          headDone     \* the oldest of waiting has been delivered

channel == <<waiting, delivered, headDone>>

Init == waiting = <<>> /\ delivered = <<>> /\ headDone = FALSE

Accept == /\ Len(waiting) < CAPACITY
          /\ \E p \in Payload : waiting' = Append(waiting, p)
          /\ UNCHANGED <<delivered, headDone>>

\* The receiver gets the oldest payload; the sender does not know yet.
Deliver == /\ waiting # <<>> /\ ~headDone
           /\ delivered' = Append(delivered, Head(waiting))
           /\ headDone' = TRUE
           /\ UNCHANGED waiting

\* The sender learns of the delivery and lets the payload go.
Settle == /\ headDone
          /\ waiting' = Tail(waiting) /\ headDone' = FALSE
          /\ UNCHANGED delivered

Next == Accept \/ Deliver \/ Settle

Spec == Init /\ [][Next]_channel
=============================================================================
