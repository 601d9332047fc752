---------------------------- MODULE AtLeastOnce ----------------------------
(***************************************************************************)
(* What the receiving side of a subscription promises (Delivery Semantics  *)
(* in docs/architecture.md): every copy the broker took is waiting,        *)
(* finished or refused; a copy is finished only when the inbox holds its   *)
(* very message; and the first message stored under an identifier stays.   *)
(***************************************************************************)

CONSTANTS Copy, Envelope, Id, None, Ident

VARIABLES
    status,   \* status[c]: absent, waiting, finished or refused
    content,  \* content[c]: the message copy c carries
    inbox     \* inbox[i]: the message stored under identifier i, or None

alovars == <<status, content, inbox>>

Init ==
    /\ status = [c \in Copy |-> "absent"]
    /\ content = [c \in Copy |-> None]
    /\ inbox = [i \in Id |-> None]

Accept(c, e) ==
    /\ status[c] = "absent"
    /\ status' = [status EXCEPT ![c] = "waiting"]
    /\ content' = [content EXCEPT ![c] = e]
    /\ UNCHANGED inbox

(* A copy whose last delivery lapsed may be in a receiver's hands still.   *)
Store(c) ==
    /\ status[c] # "absent"
    /\ inbox[Ident[content[c]]] = None
    /\ inbox' = [inbox EXCEPT ![Ident[content[c]]] = content[c]]
    /\ UNCHANGED <<status, content>>

Finish(c) ==
    /\ status[c] = "waiting"
    /\ inbox[Ident[content[c]]] = content[c]
    /\ status' = [status EXCEPT ![c] = "finished"]
    /\ UNCHANGED <<content, inbox>>

(* A lock that lapses may use up the last delivery of several copies.      *)
Refuse(C) ==
    /\ \A c \in C : status[c] = "waiting"
    /\ status' = [c \in Copy |-> IF c \in C THEN "refused" ELSE status[c]]
    /\ UNCHANGED <<content, inbox>>

Next ==
    \/ \E c \in Copy : (\E e \in Envelope : Accept(c, e)) \/ Store(c) \/ Finish(c)
    \/ \E C \in SUBSET Copy : Refuse(C)

Spec == Init /\ [][Next]_alovars
=============================================================================
