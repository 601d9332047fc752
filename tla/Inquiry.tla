------------------------------- MODULE Inquiry -------------------------------
(***************************************************************************)
(* What a consultation promises to whoever asks (docs/adr/0007): an        *)
(* inquiry is answered or refused at most once and then stays so; a node   *)
(* that works on an inquiry may ask the other node, one question a round   *)
(* and only so deep; an answer rests on nothing but the answers that were  *)
(* given to the questions asked for it.                                    *)
(***************************************************************************)
EXTENDS Naturals, Sequences

CONSTANTS Inquiry, Question

VARIABLES
    status,     \* status[q]: where inquiry q stands
    basis       \* basis[q]: the rounds whose answers the answer to q rests on

inquiryvars == <<status, basis>>

Init ==
    /\ status = [q \in Inquiry |-> IF q = <<>> THEN "open" ELSE "absent"]
    /\ basis = [q \in Inquiry |-> {}]

Ask(q, r) ==
    /\ Append(q, r) \in Inquiry
    /\ status[q] # "absent" /\ status[Append(q, r)] = "absent"
    /\ status' = [status EXCEPT ![Append(q, r)] = "open"]
    /\ UNCHANGED basis

Answer(q, used) ==
    /\ status[q] = "open"
    /\ \A r \in used : Append(q, r) \in Inquiry /\ status[Append(q, r)] = "answered"
    /\ status' = [status EXCEPT ![q] = "answered"]
    /\ basis' = [basis EXCEPT ![q] = used]

Refuse(q) ==
    /\ status[q] = "open"
    /\ status' = [status EXCEPT ![q] = "refused"]
    /\ UNCHANGED basis

Next ==
    \E q \in Inquiry :
        \/ \E r \in Question : Ask(q, r)
        \/ \E used \in SUBSET Question : Answer(q, used)
        \/ Refuse(q)

Spec == Init /\ [][Next]_inquiryvars
=============================================================================
