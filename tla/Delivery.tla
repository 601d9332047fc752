------------------------------ MODULE Delivery ------------------------------
(***************************************************************************)
(* The way of a message from the broker into the inbox of one node:        *)
(* src/transport/service-bus-transport.ts (receiveAvailable),              *)
(* src/bridge/worker.ts (processInboundDelivery) and the transaction of    *)
(* persistIncoming in src/storage/database.ts, with the subscription of    *)
(* infra/main.bicep: sessions, peek lock, a limit on deliveries.           *)
(*                                                                         *)
(* A cycle accepts a session, receives a batch and handles its messages in *)
(* order.  It awaits the broker at every acceptance, settlement and close, *)
(* where the lock of the session may lapse, an answer may be lost and the  *)
(* process may die.  verify, parseEnvelope and persistIncoming run without *)
(* an await in between, so they are one step.                              *)
(***************************************************************************)
EXTENDS Naturals, FiniteSets

CONSTANTS
    Copy,         \* copies of messages the broker takes: their sequence numbers
    Envelope,     \* durable envelopes of the peers
    Id,           \* message identifiers
    Peer,         \* origins
    Session,      \* conversation identifiers, the broker's sessions
    None,         \* no envelope, no session
    Profile,      \* Profile[e]: what the bridge reads off envelope e
    BatchLimit,   \* maximumMessages, 10 in runInboundOnce
    MaxDelivery,  \* maxDeliveryCount of the subscription, 10
    MaxFaults     \* bound: session locks lost in use, plus crashes

(* genuine: everything verify, assertBrokerMetadataMatches and the checks  *)
(* of processInboundDelivery look at, but for the time.                    *)
ASSUME DeliveryAssumption ==
    /\ Copy \subseteq Nat
    /\ None \notin Envelope \cup Session
    /\ Profile \in [Envelope -> [id : Id, origin : Peer, session : Session,
                                 genuine : BOOLEAN]]
    /\ BatchLimit \in Nat \ {0} /\ MaxDelivery \in Nat \ {0}
    /\ MaxFaults \in Nat

VARIABLES
    copies,       \* copies[c]: copy c in the subscription
    locked,       \* sessions whose lock the broker has given out
    receiver,     \* the inbound lane: its phase, session and batch
    inbox,        \* inbox[i]: the envelope stored under identifier i
    quarantined,  \* identifiers whose row persistIncoming quarantined
    faults        \* faults so far

vars == <<copies, locked, receiver, inbox, quarantined, faults>>

(* taken: handed out under the current lock; overdue: the expiry of its    *)
(* wire has passed; count: deliveries the broker counts as failed.         *)
CopyRecord == [state : {"absent", "active", "completed", "dead"},
               env : Envelope \cup {None}, count : Nat,
               taken : BOOLEAN, overdue : BOOLEAN]

NoCopy == [state |-> "absent", env |-> None, count |-> 0,
           taken |-> FALSE, overdue |-> FALSE]

(* stored, collided: persistIncoming answered, the settlement is awaited.  *)
(* refusing: close() threw, and receiveInProgress is still set.            *)
Receiver == [phase : {"idle", "receiving", "batch", "stored", "collided", "refusing"},
             session : Session \cup {None}, batch : SUBSET Copy]

Idle == [phase |-> "idle", session |-> None, batch |-> {}]

SessionOf(c) == Profile[copies[c].env].session
IdOf(c)      == Profile[copies[c].env].id

Pending(s) == {c \in Copy : copies[c].state = "active" /\ SessionOf(c) = s}

HoldsSession == receiver.session \in locked

-----------------------------------------------------------------------------
(* The broker.                                                             *)

(* A peer's send, or its retry of an identifier that duplicate detection   *)
(* does not know any more.  Sequence numbers are given in order.           *)
Arrive(c, e) ==
    /\ copies[c].state = "absent"
    /\ \A k \in Copy : k < c => copies[k].state # "absent"
    /\ copies' = [copies EXCEPT ![c] = [NoCopy EXCEPT !.state = "active", !.env = e]]
    /\ UNCHANGED <<locked, receiver, inbox, quarantined, faults>>

(* Time passes the expiry that boundedExpiry gave the wire.                *)
Lapse(c) ==
    /\ copies[c].state = "active" \/ c \in receiver.batch
    /\ copies' = [copies EXCEPT ![c].overdue = TRUE]
    /\ UNCHANGED <<locked, receiver, inbox, quarantined, faults>>

(* deadLetteringOnMessageExpiration.  The broker counts the same lifetime  *)
(* from its arrival, so its expiry never comes before that of the wire.    *)
Expire(c) ==
    /\ copies[c].state = "active" /\ copies[c].overdue /\ ~copies[c].taken
    /\ copies' = [copies EXCEPT ![c].state = "dead"]
    /\ UNCHANGED <<locked, receiver, inbox, quarantined, faults>>

Redelivered(r) ==
    [r EXCEPT !.taken = FALSE, !.count = @ + 1,
              !.state = IF r.count + 1 >= MaxDelivery THEN "dead" ELSE @]

Released(r) == [r EXCEPT !.taken = FALSE]

(* The copies handed out under the lock of s go back: a lock that lapses   *)
(* counts as a failed delivery of each, a session that is closed does not. *)
HandBack(s, counts) ==
    copies' = [c \in Copy |->
        IF c \notin Pending(s) \/ ~copies[c].taken THEN copies[c]
        ELSE IF counts THEN Redelivered(copies[c]) ELSE Released(copies[c])]

LockLapses(s) ==
    /\ s \in locked
    /\ s = receiver.session => faults < MaxFaults
    /\ faults' = IF s = receiver.session THEN faults + 1 ELSE faults
    /\ locked' = locked \ {s}
    /\ HandBack(s, TRUE)
    /\ UNCHANGED <<receiver, inbox, quarantined>>

-----------------------------------------------------------------------------
(* receiveAvailable: one cycle of the inbound lane.                        *)

AcceptSession(s) ==
    /\ receiver.phase = "idle"
    /\ s \notin locked /\ Pending(s) # {}
    /\ locked' = locked \cup {s}
    /\ receiver' = [Idle EXCEPT !.phase = "receiving", !.session = s]
    /\ UNCHANGED <<copies, inbox, quarantined, faults>>

FirstOnes(chosen, candidates) ==
    /\ chosen \subseteq candidates
    /\ Cardinality(chosen) <= BatchLimit
    /\ \A c \in chosen, k \in candidates \ chosen : c < k

(* An empty batch stands for a wait in vain and for an error as well.      *)
ReceiveMessages(chosen) ==
    /\ receiver.phase = "receiving"
    /\ FirstOnes(chosen, IF HoldsSession THEN Pending(receiver.session) ELSE {})
    /\ copies' = [c \in Copy |-> IF c \in chosen
                                   THEN [copies[c] EXCEPT !.taken = TRUE] ELSE copies[c]]
    /\ receiver' = [receiver EXCEPT !.phase = "batch", !.batch = chosen]
    /\ UNCHANGED <<locked, inbox, quarantined, faults>>

Handling(c) == c \in receiver.batch /\ \A k \in receiver.batch : c <= k

NextMessage(c) == receiver' = [receiver EXCEPT !.phase = "batch", !.batch = @ \ {c}]

(* An error leaves the loop; the finally block closes the receiver.        *)
AbortCycle == receiver' = [receiver EXCEPT !.phase = "batch", !.batch = {}]

Verifies(c) == Profile[copies[c].env].genuine /\ ~copies[c].overdue

(* A settlement the broker takes while the lock is held.                   *)
Settle(c, state) ==
    /\ HoldsSession
    /\ copies' = [copies EXCEPT ![c].state = state, ![c].taken = FALSE]

(* deadLetterMessage throws unless the broker's answer arrives, and so may *)
(* the journal after it.                                                   *)
DeadLetter(c) ==
    /\ \/ Settle(c, "dead") /\ (NextMessage(c) \/ AbortCycle)
       \/ UNCHANGED copies /\ AbortCycle
    /\ UNCHANGED <<locked, inbox, quarantined, faults>>

SkipUnverified(c) ==
    /\ receiver.phase = "batch" /\ Handling(c)
    /\ ~Verifies(c)
    /\ NextMessage(c)
    /\ UNCHANGED <<copies, locked, inbox, quarantined, faults>>

RejectUnverified(c) ==
    /\ receiver.phase = "batch" /\ Handling(c)
    /\ ~Verifies(c)
    /\ DeadLetter(c)

PersistByIdentifier(c) ==
    LET i == IdOf(c) IN
    /\ receiver.phase = "batch" /\ Handling(c)
    /\ Verifies(c)
    /\ inbox' = IF inbox[i] = None THEN [inbox EXCEPT ![i] = copies[c].env] ELSE inbox
    /\ receiver' = [receiver EXCEPT !.phase = "stored"]
    /\ UNCHANGED <<copies, locked, quarantined, faults>>

(* persistIncoming: insert, find the same message, or find another one     *)
(* under its identifier, which quarantines the row if the origin is one.   *)
Persist(c) ==
    LET e == copies[c].env
        i == IdOf(c) IN
    /\ receiver.phase = "batch" /\ Handling(c)
    /\ Verifies(c)
    /\ \/ /\ inbox[i] \in {None, e}
          /\ inbox' = [inbox EXCEPT ![i] = e]
          /\ receiver' = [receiver EXCEPT !.phase = "stored"]
          /\ UNCHANGED quarantined
       \/ /\ inbox[i] \notin {None, e}
          /\ quarantined' = IF Profile[inbox[i]].origin = Profile[e].origin
                              THEN quarantined \cup {i} ELSE quarantined
          /\ receiver' = [receiver EXCEPT !.phase = "collided"]
          /\ UNCHANGED inbox
    /\ UNCHANGED <<copies, locked, faults>>

PersistFailsUnseen(c) ==
    /\ receiver.phase = "batch" /\ Handling(c)
    /\ Verifies(c)
    /\ Settle(c, "completed") \/ UNCHANGED copies
    /\ NextMessage(c) \/ AbortCycle
    /\ UNCHANGED <<locked, inbox, quarantined, faults>>

(* The transaction fails: abandon, whose own failure is only logged.  The  *)
(* journal may throw.                                                      *)
PersistFails(c) ==
    /\ receiver.phase = "batch" /\ Handling(c)
    /\ Verifies(c)
    /\ \/ HoldsSession /\ copies' = [copies EXCEPT ![c] = Redelivered(@)]
       \/ UNCHANGED copies
    /\ NextMessage(c) \/ AbortCycle
    /\ UNCHANGED <<locked, inbox, quarantined, faults>>

(* A completion that is not confirmed is only journalled.                  *)
Complete(c) ==
    /\ receiver.phase = "stored" /\ Handling(c)
    /\ Settle(c, "completed") \/ UNCHANGED copies
    /\ NextMessage(c) \/ AbortCycle
    /\ UNCHANGED <<locked, inbox, quarantined, faults>>

CompleteCollision(c) ==
    /\ receiver.phase = "collided" /\ Handling(c)
    /\ Settle(c, "completed") \/ UNCHANGED copies
    /\ NextMessage(c) \/ AbortCycle
    /\ UNCHANGED <<locked, inbox, quarantined, faults>>

DeadLetterCollision(c) ==
    /\ receiver.phase = "collided" /\ Handling(c)
    /\ DeadLetter(c)

(* receiver.close() gives the session and what is unsettled back.          *)
CloseReceiver ==
    /\ receiver.phase = "batch" /\ receiver.batch = {}
    /\ locked' = locked \ {receiver.session}
    /\ HandBack(receiver.session, FALSE)
    /\ receiver' = Idle
    /\ UNCHANGED <<inbox, quarantined, faults>>

CloseFailsClosed ==
    /\ receiver.phase = "batch" /\ receiver.batch = {}
    /\ receiver' = [Idle EXCEPT !.phase = "closed"]
    /\ UNCHANGED <<copies, locked, inbox, quarantined, faults>>

(* receiver.close() throws in the finally block, before receiveInProgress  *)
(* is reset: every later cycle is refused as already in progress.          *)
CloseFails ==
    /\ receiver.phase = "batch" /\ receiver.batch = {}
    /\ receiver' = [Idle EXCEPT !.phase = "refusing"]
    /\ UNCHANGED <<copies, locked, inbox, quarantined, faults>>

-----------------------------------------------------------------------------
(* The process dies and is started again; the broker keeps the lock until  *)
(* it lapses.                                                              *)
Crash ==
    /\ receiver.phase # "idle" /\ faults < MaxFaults
    /\ receiver' = Idle
    /\ faults' = faults + 1
    /\ UNCHANGED <<copies, locked, inbox, quarantined>>

Init ==
    /\ copies = [c \in Copy |-> NoCopy]
    /\ locked = {}
    /\ receiver = Idle
    /\ inbox = [i \in Id |-> None]
    /\ quarantined = {}
    /\ faults = 0

HandleMessage(c) ==
    \/ RejectUnverified(c)
    \/ Persist(c)
    \/ PersistFails(c)
    \/ Complete(c)
    \/ DeadLetterCollision(c)

ReceiverStep ==
    \/ \E s \in Session : AcceptSession(s)
    \/ \E chosen \in SUBSET Copy : ReceiveMessages(chosen)
    \/ \E c \in Copy : HandleMessage(c)
    \/ CloseReceiver
    \/ CloseFails

BrokerStep ==
    \/ \E c \in Copy : (\E e \in Envelope : Arrive(c, e)) \/ Lapse(c) \/ Expire(c)
    \/ \E s \in Session : LockLapses(s)

Next == ReceiverStep \/ BrokerStep \/ Crash

Spec == Init /\ [][Next]_vars

(* The loop of runtime.ts starts a cycle after every other one, failed or  *)
(* not.  The broker gets round to every session, its lock lapses when      *)
(* nobody renews it, and neither the database nor a settlement fails every *)
(* time.  Nothing is assumed of close().                                   *)
Fairness ==
    /\ WF_vars(ReceiverStep)
    /\ \A s \in Session :
           /\ SF_vars(AcceptSession(s))
           /\ WF_vars(s # receiver.session /\ LockLapses(s))
    /\ SF_vars(\E chosen \in SUBSET Copy \ {{}} : ReceiveMessages(chosen))
    /\ \A c \in Copy :
           /\ SF_vars(Persist(c))
           /\ SF_vars(HandleMessage(c) /\ copies'[c].state \in {"completed", "dead"})

FairSpec == Spec /\ Fairness

-----------------------------------------------------------------------------
(* Every variable holds a value of its kind.                               *)
TypeOK ==
    /\ copies \in [Copy -> CopyRecord]
    /\ locked \subseteq Session
    /\ receiver \in Receiver
    /\ inbox \in [Id -> Envelope \cup {None}]
    /\ quarantined \subseteq Id
    /\ faults \in Nat

(* What the broker was told is received is in the inbox: persistIncoming   *)
(* commits before complete() is called, for the very message of that copy. *)
CompletedIsStored ==
    \A c \in Copy : copies[c].state = "completed" => inbox[IdOf(c)] = copies[c].env

(* The two contents of a collision both stay where an operator finds them: *)
(* when a row is quarantined, a copy of the other content of its origin is *)
(* still in the subscription or in its dead-letter queue.                  *)
CollisionLeavesBoth ==
    \A i \in quarantined : \E c \in Copy :
        /\ copies[c].state \in {"active", "dead"}
        /\ IdOf(c) = i /\ copies[c].env # inbox[i]
        /\ Profile[copies[c].env].origin = Profile[inbox[i]].origin

(* Every copy the broker took is completed or dead-lettered in the end,    *)
(* whatever crashes, lost locks and unconfirmed settlements came between,  *)
(* unless a close() that threw has left the transport refusing to receive. *)
EveryCopySettled ==
    \A c \in Copy : (copies[c].state = "active") ~>
        (copies[c].state \in {"completed", "dead"} \/ receiver.phase = "refusing")

-----------------------------------------------------------------------------
(* What the inbound lane promises, see AtLeastOnce.                        *)
StatusName == [absent |-> "absent", active |-> "waiting",
               completed |-> "finished", dead |-> "refused"]

Status == [c \in Copy |-> StatusName[copies[c].state]]

Content == [c \in Copy |-> copies[c].env]

Abstract == INSTANCE AtLeastOnce
    WITH status <- Status, content <- Content,
         Ident <- [e \in Envelope |-> Profile[e].id]

(* The inbound lane and the subscription implement the channel that loses  *)
(* nothing: a copy leaves it finished, with its message stored, or refused.*)
ImplementsAtLeastOnce == Abstract!Spec
=============================================================================
