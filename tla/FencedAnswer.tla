---------------------------- MODULE FencedAnswer ----------------------------
(***************************************************************************)
(* What a peer's request may expect of the receiving node                  *)
(* (docs/architecture.md, Delivery Semantics): it is received once, closed *)
(* once, and a closing answer is published in the same step.  The work     *)
(* behind an answer may run any number of times; it is not visible.        *)
(*                                                                         *)
(* A request may be withheld: its permission was asked for, or its origin  *)
(* used the identifier for something else.  Nothing but a decision of the  *)
(* operator opens it again.  A request that was closed before it was       *)
(* withheld is opened again by the revocation of its approval only, and    *)
(* there is one approval: it is closed twice at most.                      *)
(***************************************************************************)
EXTENDS Naturals

CONSTANTS Id, Key, Content, None

VARIABLES
    status,     \* status[m]: unknown, open, closed or withheld
    permit,     \* permit[m]: none, pending, approved or closed
    answer,     \* answer[m]: the recorded answer <<key, content>>, or None
    published   \* published[m][k]: the content published under k, or None

favars == <<status, permit, answer, published>>

Init ==
    /\ status = [m \in Id |-> "unknown"]
    /\ permit = [m \in Id |-> "none"]
    /\ answer = [m \in Id |-> None]
    /\ published = [m \in Id |-> [k \in Key |-> None]]

Receive(m) ==
    /\ status[m] = "unknown"
    /\ status' = [status EXCEPT ![m] = "open"]
    /\ UNCHANGED <<permit, answer, published>>

(* Closed without an answer of its own.                                    *)
Close(m) ==
    /\ status[m] = "open"
    /\ status' = [status EXCEPT ![m] = "closed"]
    /\ UNCHANGED <<permit, answer, published>>

(* Closed with what was published under k before, or with a new answer.    *)
Answer(m, k, c) ==
    /\ status[m] = "open"
    /\ published[m][k] \in {None, c}
    /\ status' = [status EXCEPT ![m] = "closed"]
    /\ answer' = [answer EXCEPT ![m] = <<k, c>>]
    /\ published' = [published EXCEPT ![m][k] = c]
    /\ UNCHANGED permit

(* A reply outside of any claim.                                           *)
Reply(m, k, c) ==
    /\ status[m] # "unknown"
    /\ published[m][k] = None
    /\ published' = [published EXCEPT ![m][k] = c]
    /\ UNCHANGED <<status, permit, answer>>

(* The origin used the identifier for something else as well.              *)
Poison(m) ==
    /\ status[m] \in {"open", "closed"}
    /\ status' = [status EXCEPT ![m] = "withheld"]
    /\ UNCHANGED <<permit, answer, published>>

(* Approvals are used up or expire, alone or with one of the steps below.  *)
Ends == SUBSET {m \in Id : permit[m] = "approved"}

Expired(ended) == [m \in Id |-> IF m \in ended THEN "closed" ELSE permit[m]]

PermitsEnd(ended) ==
    /\ permit' = Expired(ended)
    /\ UNCHANGED <<status, answer, published>>

(* The operator is asked once.                                             *)
Ask(m, ended) ==
    /\ status[m] = "open" /\ permit[m] = "none"
    /\ status' = [status EXCEPT ![m] = "withheld"]
    /\ permit' = [Expired(ended) EXCEPT ![m] = "pending"]
    /\ UNCHANGED <<answer, published>>

Decide(m, decision, ended) ==
    /\ status[m] = "withheld" /\ permit[m] = "pending"
    /\ status' = [status EXCEPT ![m] = "open"]
    /\ permit' = [Expired(ended) EXCEPT ![m] = decision]
    /\ UNCHANGED <<answer, published>>

Revoke(m, ended) ==
    /\ permit[m] = "approved" /\ m \notin ended
    /\ status' = [status EXCEPT ![m] = IF @ = "withheld" THEN "open" ELSE @]
    /\ permit' = [Expired(ended) EXCEPT ![m] = "closed"]
    /\ UNCHANGED <<answer, published>>

Next ==
    \/ \E m \in Id :
           \/ Receive(m) \/ Close(m) \/ Poison(m)
           \/ \E ended \in Ends :
                  \/ Ask(m, ended) \/ Revoke(m, ended)
                  \/ \E decision \in {"approved", "closed"} : Decide(m, decision, ended)
           \/ \E k \in Key, c \in Content : Answer(m, k, c) \/ Reply(m, k, c)
    \/ \E ended \in Ends : PermitsEnd(ended)

Spec == Init /\ [][Next]_favars
=============================================================================
