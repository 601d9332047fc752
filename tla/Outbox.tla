------------------------------- MODULE Outbox -------------------------------
(***************************************************************************)
(* The durable outbox of one node and the outbound lane of its bridge      *)
(* worker: src/storage/database.ts (enqueueEnvelope, leaseOutbox,          *)
(* markOutboxSent, releaseOutboxLease, quarantineOutbox) driven by         *)
(* src/bridge/worker.ts (runOutboundOnce).                                 *)
(*                                                                         *)
(* SQLite transactions are single steps.  Between two of them the worker   *)
(* awaits the transport, so a send is three steps (begin, broker accepts,  *)
(* outcome seen) and a crash, a lapse of the lease or another worker may   *)
(* come between any two.  A worker is one incarnation of the process: its  *)
(* instanceId is drawn afresh at every start and is the lease owner.       *)
(***************************************************************************)
EXTENDS Naturals, FiniteSets, Sequences

CONSTANTS
    Id,             \* message identifiers that createEnvelope may draw
    Operation,      \* pairs (target_system, idempotency_key)
    Worker,         \* incarnations of the bridge process
    None,           \* no operation, no worker, no message
    Authorized,     \* Authorized[w]: operations whose target w's config allows
    Mortal,         \* incarnations that may crash
    ExclusiveLock,  \* the process lock admits one live incarnation at a time
    LeaseSeconds,   \* 60 in runOutboundOnce
    BatchLimit,     \* 10 in runOutboundOnce
    Backoff,        \* Backoff[n]: delay after the n-th failed attempt
    Validity,       \* how long a message is valid, see Enqueue
    MaxTime         \* bound of the model's clock

ASSUME OutboxAssumption ==
    /\ None \notin Id \cup Worker \cup Operation
    /\ Authorized \in [Worker -> SUBSET Operation]
    /\ Mortal \subseteq Worker
    /\ ExclusiveLock \in BOOLEAN
    /\ LeaseSeconds \in Nat \ {0} /\ BatchLimit \in Nat \ {0}
    /\ Backoff \in Seq(Nat \ {0}) /\ Backoff # <<>>
    /\ Validity \subseteq [instant : Nat \ {0}, text : Nat]
    /\ MaxTime \in Nat

VARIABLES
    outbox,    \* outbox[m]: the row of message m
    worker,    \* worker[w]: the local state of incarnation w
    handed,    \* handed[m]: how often m was handed to the transport
    accepted,  \* messages the broker holds or has held
    now        \* the wall clock

vars == <<outbox, worker, handed, accepted, now>>

RowState == {"absent", "pending", "leased", "sent", "quarantined", "expired"}
Final    == {"sent", "quarantined", "expired"}

(* The expiry is one text that leaseOutbox compares as text and sign() as  *)
(* an instant; the two readings differ when it carries a UTC offset.       *)
NoRow == [state |-> "absent", op |-> None, owner |-> None, until |-> 0,
          attempts |-> 0, next |-> 0, created |-> 0, expires |-> 0, text |-> 0]

Row == [state : RowState, op : Operation \cup {None},
        owner : Worker \cup {None}, until : Nat, attempts : Nat, next : Nat,
        created : Nat, expires : Nat, text : Nat]

(* batch: the leased items of the cycle that are left; current: the item   *)
(* whose send is awaited; acked: the answer of the broker has arrived.     *)
Local == [phase : {"new", "idle", "batch", "sending", "dead"},
          batch : SUBSET Id, current : Id \cup {None}, acked : BOOLEAN]

Stopped(p) == [phase |-> p, batch |-> {}, current |-> None, acked |-> FALSE]

Live == {w \in Worker : worker[w].phase \in {"idle", "batch", "sending"}}

Least(a, b) == IF a <= b THEN a ELSE b

RetryDelay(n) == Backoff[Least(n, Len(Backoff))]

-----------------------------------------------------------------------------
(* enqueueEnvelope: INSERT OR IGNORE under UNIQUE (target, key).  When the *)
(* operation already has a row the call changes nothing: it returns the    *)
(* prior row, or throws IdempotencyConflictError if the content differs.   *)
(* MaxTime bounds the expiry, so that the model's clock can reach it.      *)

OperationIsFresh(op) == \A m \in Id : outbox[m].op # op

Enqueue(m, op, v) ==
    /\ outbox[m].state = "absent"
    /\ OperationIsFresh(op)
    /\ now + v.text <= MaxTime
    /\ outbox' = [outbox EXCEPT ![m] =
           [NoRow EXCEPT !.state = "pending", !.op = op, !.next = now,
                         !.created = now, !.expires = now + v.instant,
                         !.text = now + v.text]]
    /\ UNCHANGED <<worker, handed, accepted, now>>

-----------------------------------------------------------------------------
(* leaseOutbox: one transaction that returns lapsed leases to pending,     *)
(* expires what is overdue, and leases the oldest rows that are due.       *)

Lapsed(r)  == r.state = "leased" /\ r.until <= now
Overdue(r) == r.state \in {"pending", "leased"} /\ r.text <= now

SweptLeavingLapsed(r) ==
    IF Overdue(r) /\ ~Lapsed(r)
      THEN [r EXCEPT !.state = "expired", !.owner = None, !.until = 0]
      ELSE r

Swept(r) ==
    IF Overdue(r)
      THEN [r EXCEPT !.state = "expired", !.owner = None, !.until = 0]
    ELSE IF Lapsed(r)
      THEN [r EXCEPT !.state = "pending", !.owner = None, !.until = 0]
    ELSE r

Due == {m \in Id : Swept(outbox[m]).state = "pending" /\ outbox[m].next <= now}

OldestFirst(chosen, candidates) ==
    /\ chosen \subseteq candidates
    /\ Cardinality(chosen) = Least(BatchLimit, Cardinality(candidates))
    /\ \A m \in chosen, k \in candidates \ chosen :
           outbox[m].created <= outbox[k].created

LeaseBatch(w, chosen) ==
    /\ worker[w].phase = "idle"
    /\ OldestFirst(chosen, Due)
    /\ outbox' = [m \in Id |->
           IF m \in chosen
             THEN [Swept(outbox[m]) EXCEPT !.state = "leased", !.owner = w,
                                           !.until = now + LeaseSeconds]
             ELSE Swept(outbox[m])]
    /\ worker' = [worker EXCEPT ![w].phase = IF chosen = {} THEN "idle" ELSE "batch",
                                ![w].batch = chosen]
    /\ UNCHANGED <<handed, accepted, now>>

-----------------------------------------------------------------------------
(* The WHERE clause shared by markOutboxSent, releaseOutboxLease and       *)
(* quarantineOutbox; a statement that updates no row throws, which leaves  *)
(* the for loop of runOutboundOnce and drops the rest of the batch.        *)

HoldsLease(w, m) == outbox[m].state = "leased" /\ outbox[m].owner = w

NextItem(w) == {m \in worker[w].batch :
                   \A k \in worker[w].batch : outbox[m].created <= outbox[k].created}

ContinueBatchKeepingItem(w, m) ==
    worker' = [worker EXCEPT ![w] = [@ EXCEPT !.phase = "batch", !.current = None,
                                              !.acked = FALSE]]

ContinueBatch(w, m) ==
    LET rest == worker[w].batch \ {m} IN
    worker' = [worker EXCEPT ![w] =
        [phase |-> IF rest = {} THEN "idle" ELSE "batch", batch |-> rest,
         current |-> None, acked |-> FALSE]]

AbortCycle(w) == worker' = [worker EXCEPT ![w] = Stopped("idle")]

Settled(r, state) == [r EXCEPT !.state = state, !.owner = None, !.until = 0]

Retried(r) ==
    [r EXCEPT !.state = "pending", !.owner = None, !.until = 0,
              !.attempts = r.attempts + 1, !.next = now + RetryDelay(r.attempts + 1)]

QuarantinedAsRejected(r) == [Settled(r, "rejected") EXCEPT !.attempts = r.attempts + 1]

Quarantined(r) == [Settled(r, "quarantined") EXCEPT !.attempts = r.attempts + 1]

(* An update guarded by the lease, then recordDeliveryAttempt: the cycle   *)
(* goes on, unless the guard or the journal throws.  After markOutboxSent  *)
(* a throw enters the catch block, which finds no lease and throws again.  *)
UpdateHeld(w, m, row) ==
    /\ \/ /\ HoldsLease(w, m)
          /\ outbox' = [outbox EXCEPT ![m] = row]
          /\ ContinueBatch(w, m) \/ AbortCycle(w)
       \/ ~HoldsLease(w, m) /\ outbox' = outbox /\ AbortCycle(w)
    /\ UNCHANGED <<handed, accepted, now>>

QuarantineUnauthorized(w, m) ==
    /\ worker[w].phase = "batch" /\ m \in NextItem(w)
    /\ outbox[m].op \notin Authorized[w]
    /\ UpdateHeld(w, m, Quarantined(outbox[m]))

(* sign() throws once the message is overdue, or when the target has no    *)
(* active key: nothing is handed over and the item is released for a retry.*)
SignRejects(w, m) ==
    /\ worker[w].phase = "batch" /\ m \in NextItem(w)
    /\ outbox[m].op \in Authorized[w]
    /\ UpdateHeld(w, m, Retried(outbox[m]))

BeginSend(w, m) ==
    /\ worker[w].phase = "batch" /\ m \in NextItem(w)
    /\ outbox[m].op \in Authorized[w]
    /\ outbox[m].expires > now
    /\ worker' = [worker EXCEPT ![w].phase = "sending", ![w].current = m]
    /\ handed' = [handed EXCEPT ![m] = @ + 1]
    /\ UNCHANGED <<outbox, accepted, now>>

(* The broker takes the message and its answer reaches the worker.         *)
BrokerAcknowledges(w) ==
    /\ worker[w].phase = "sending" /\ ~worker[w].acked
    /\ worker' = [worker EXCEPT ![w].acked = TRUE]
    /\ accepted' = accepted \cup {worker[w].current}
    /\ UNCHANGED <<outbox, handed, now>>

(* The broker takes a message whose sender timed out, crashed or gave up.  *)
BrokerAcceptsUnseen(m) ==
    /\ handed[m] > 0 /\ m \notin accepted
    /\ accepted' = accepted \cup {m}
    /\ UNCHANGED <<outbox, worker, handed, now>>

SendReturnedUnchecked(w) == worker[w].phase = "sending"

SendReturned(w) == worker[w].phase = "sending" /\ worker[w].acked

SendSucceeds(w) ==
    /\ SendReturned(w)
    /\ LET m == worker[w].current IN UpdateHeld(w, m, Settled(outbox[m], "sent"))

(* send rejects, or markOutboxSent throws after the broker answered: the   *)
(* catch block releases the lease for a retry of the same message id.      *)
SendFailsForNow(w) ==
    /\ worker[w].phase = "sending"
    /\ LET m == worker[w].current IN UpdateHeld(w, m, Retried(outbox[m]))

(* send rejects with one of PERMANENT_TRANSPORT_CODES.                     *)
SendFailsForGood(w) ==
    /\ worker[w].phase = "sending" /\ ~worker[w].acked
    /\ LET m == worker[w].current IN UpdateHeld(w, m, Quarantined(outbox[m]))

-----------------------------------------------------------------------------
(* acquireBridgeProcessLock, then the loops of runBridgeLoops.             *)
LockUnchecked == TRUE

LockFree == ExclusiveLock => Live = {}

Start(w) ==
    /\ worker[w].phase = "new"
    /\ LockFree
    /\ worker' = [worker EXCEPT ![w] = Stopped("idle")]
    /\ UNCHANGED <<outbox, handed, accepted, now>>

(* A crash, or a shutdown that abandons the outbound lane: rows stay.      *)
Crash(w) ==
    /\ w \in Live \cap Mortal
    /\ worker' = [worker EXCEPT ![w] = Stopped("dead")]
    /\ UNCHANGED <<outbox, handed, accepted, now>>

Tick ==
    /\ now < MaxTime
    /\ now' = now + 1
    /\ UNCHANGED <<outbox, worker, handed, accepted>>

Init ==
    /\ outbox = [m \in Id |-> NoRow]
    /\ worker = [w \in Worker |-> Stopped("new")]
    /\ handed = [m \in Id |-> 0]
    /\ accepted = {}
    /\ now = 0

WorkerStep(w) ==
    \/ \E chosen \in SUBSET Id : LeaseBatch(w, chosen)
    \/ \E m \in Id : \/ QuarantineUnauthorized(w, m)
                    \/ SignRejects(w, m)
                    \/ BeginSend(w, m)
    \/ SendSucceeds(w)
    \/ SendFailsForNow(w)
    \/ SendFailsForGood(w)

Next ==
    \/ \E m \in Id, op \in Operation, v \in Validity : Enqueue(m, op, v)
    \/ \E w \in Worker : WorkerStep(w) \/ BrokerAcknowledges(w) \/ Start(w) \/ Crash(w)
    \/ \E m \in Id : BrokerAcceptsUnseen(m)
    \/ Tick

Spec == Init /\ [][Next]_vars

(* The loop of runtime.ts runs again after every cycle, a send of the SDK  *)
(* ends within its retry budget, the service manager starts the next       *)
(* incarnation, and time passes.  Nothing is assumed of the broker.        *)
Fairness ==
    /\ WF_vars(Tick)
    /\ \A w \in Worker : WF_vars(Start(w)) /\ WF_vars(WorkerStep(w))

FairSpec == Spec /\ Fairness

-----------------------------------------------------------------------------
(* Every variable holds a value of its kind.                               *)
TypeOK ==
    /\ outbox \in [Id -> Row]
    /\ worker \in [Worker -> Local]
    /\ handed \in [Id -> Nat]
    /\ accepted \subseteq Id
    /\ now \in Nat

(* A row reads sent only if the broker has taken its message, whatever     *)
(* crashes, lapsed leases and second workers came before: what the agent   *)
(* saw accepted is never dropped by being recorded as done.                *)
SentWasAccepted == \A m \in Id : outbox[m].state = "sent" => m \in accepted

(* Sent, quarantined and expired are final: neither the sweep of a later   *)
(* lease nor the late answer of a worker whose lease lapsed reopens a row. *)
FinalStaysFinal ==
    [][\A m \in Id : outbox[m].state \in Final => outbox'[m] = outbox[m]]_vars

(* Under the process lock every message a live worker still has to handle  *)
(* is leased to it, however long its sends took: no guard of its own cycle *)
(* fails, and no sweep takes a message out of its hands.                   *)
BatchIsLeased ==
    ExclusiveLock =>
        \A w \in Live : \A m \in worker[w].batch : HoldsLease(w, m)

(* Under the process lock a message whose row is final is never handed to  *)
(* the transport again.                                                    *)
NoSendOnceFinal ==
    [][ExclusiveLock =>
         \A m \in Id : outbox[m].state \in Final => handed'[m] = handed[m]]_vars

(* Every enqueued message is sent, quarantined or expired in the end: an   *)
(* item is never stuck behind the lease of a worker that is gone.          *)
EveryMessageResolved ==
    \A m \in Id : (outbox[m].state = "pending") ~> (outbox[m].state \in Final)

-----------------------------------------------------------------------------
(* What the outbox promises, see DurableSend.                              *)
Status == [m \in Id |-> IF outbox[m].state \in {"pending", "leased"}
                          THEN "queued" ELSE outbox[m].state]

Abstract == INSTANCE DurableSend WITH status <- Status

(* Under the process lock the outbox implements the durable sender: a      *)
(* message is handed over while it is queued and never after.              *)
ImplementsDurableSend == Abstract!Spec
=============================================================================
