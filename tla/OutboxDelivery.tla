--------------------------- MODULE OutboxDelivery ---------------------------
(***************************************************************************)
(* What the transactional outbox promises to the code that records a       *)
(* domain event, whatever the number of relay processes and whatever       *)
(* happens to them: an event waits until it is settled, it is settled      *)
(* once, it is called published only after the broker has it, and a relay  *)
(* may hand it to the broker more than once, even after it was given up.   *)
(*                                                                         *)
(* OutboxRelay is shown to implement this module.                          *)
(***************************************************************************)
CONSTANT Event                  \* the identities of the recorded events

VARIABLES phase,                \* event -> "none", "waiting", "published" or "dead"
          delivered             \* the events the broker accepted at least once

vars == <<phase, delivered>>

Init == /\ phase = [e \in Event |-> "none"]
        /\ delivered = {}

\* A committed business transaction leaves one new event behind.
Record(e) == /\ phase[e] = "none"
             /\ phase' = [phase EXCEPT ![e] = "waiting"]
             /\ UNCHANGED delivered

\* The broker accepts an event; a late copy may arrive in any later phase.
Deliver(e) == /\ phase[e] # "none"
              /\ delivered' = delivered \cup {e}
              /\ UNCHANGED phase

\* An event is declared published only if the broker has it.
Publish(e) == /\ phase[e] = "waiting"
              /\ e \in delivered
              /\ phase' = [phase EXCEPT ![e] = "published"]
              /\ UNCHANGED delivered

\* A relay that ran out of attempts gives the event up.
GiveUp(e) == /\ phase[e] = "waiting"
             /\ phase' = [phase EXCEPT ![e] = "dead"]
             /\ UNCHANGED delivered

Next == \E e \in Event : Record(e) \/ Deliver(e) \/ Publish(e) \/ GiveUp(e)

Safety == Init /\ [][Next]_vars

\* Every recorded event is settled in the end.
Settles == \A e \in Event :
               (phase[e] = "waiting") ~> (phase[e] \in {"published", "dead"})

Spec == Safety /\ Settles
=============================================================================
