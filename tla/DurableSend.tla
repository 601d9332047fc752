----------------------------- MODULE DurableSend -----------------------------
(***************************************************************************)
(* What a caller of the outbox may rely on (docs/architecture.md, Delivery *)
(* Semantics): a submitted message stays queued until it is resolved, it   *)
(* may be handed over several times while it is queued and never after,    *)
(* and it is resolved as sent only if it has reached the broker.           *)
(***************************************************************************)
EXTENDS Naturals

CONSTANT Id

VARIABLES
    status,    \* status[m]: absent, queued, or an outcome
    handed,    \* handed[m]: how often m was handed to the transport
    accepted   \* messages the broker has taken

dsvars == <<status, handed, accepted>>

Init ==
    /\ status = [m \in Id |-> "absent"]
    /\ handed = [m \in Id |-> 0]
    /\ accepted = {}

Submit(m) ==
    /\ status[m] = "absent"
    /\ status' = [status EXCEPT ![m] = "queued"]
    /\ UNCHANGED <<handed, accepted>>

HandOver(m) ==
    /\ status[m] = "queued"
    /\ handed' = [handed EXCEPT ![m] = @ + 1]
    /\ UNCHANGED <<status, accepted>>

(* A message in the transport reaches the broker, even after its outcome.  *)
Arrive(m) ==
    /\ handed[m] > 0
    /\ accepted' = accepted \cup {m}
    /\ UNCHANGED <<status, handed>>

Outcome == {"sent", "quarantined", "expired"}

(* One transaction may resolve several messages: a sweep expires them all. *)
Resolve ==
    /\ status' \in [Id -> {"absent", "queued"} \cup Outcome]
    /\ \A m \in Id : status'[m] # status[m] =>
           /\ status[m] = "queued"
           /\ status'[m] \in Outcome
           /\ status'[m] = "sent" => m \in accepted
    /\ UNCHANGED <<handed, accepted>>

Next ==
    \/ \E m \in Id : Submit(m) \/ HandOver(m) \/ Arrive(m)
    \/ Resolve

Spec == Init /\ [][Next]_dsvars
=============================================================================
