----------------------------- MODULE Consultation -----------------------------
(***************************************************************************)
(* Autonomous consultations between two nodes:                             *)
(* src/coordination/autonomous-consultation-coordinator.ts with the runs   *)
(* of src/storage/database.ts and src/contracts/consultation.ts.           *)
(*                                                                         *)
(* A request is named by the rounds that led to it: <<>> is the request of *)
(* an agent, Append(q, r) the peer request of round r of the run of q, as  *)
(* its idempotency key says.  The two nodes take turns, so the length of a *)
(* request is its depth and tells whose coordinators work on it.           *)
(*                                                                         *)
(* Each transaction is one step; between two of them the process may die,  *)
(* its claim may lapse and another coordinator may take the request.  Time *)
(* is what has passed: a claim has lapsed or not, a deadline or a poll     *)
(* interval is over or not.  The two nodes' clocks are not compared.       *)
(***************************************************************************)
EXTENDS Naturals, Sequences

CONSTANTS
    MaxRounds,      \* policy.maxRounds
    MaxDepth,       \* policy.maxDepth, the same on both nodes
    Topic,          \* fingerprints of requests
    RootTopic,      \* that of the agent's request
    Coordinator,    \* coordinator processes
    NodeOf,         \* NodeOf[c]: the node of c, 0 or 1
    MaxFaults,      \* deaths, and lapses between two statements (bound)
    Elsewhere,      \* requests that some other program of the peer answers
    None            \* no envelope, run or topic

Round   == 1 .. MaxRounds
Request == UNION {[1 .. d -> Round] : d \in 0 .. MaxDepth}
Root    == <<>>

ASSUME ConsultationAssumption ==
    /\ MaxRounds \in Nat \ {0} /\ MaxDepth \in Nat /\ MaxFaults \in Nat
    /\ NodeOf \in [Coordinator -> {0, 1}]
    /\ Elsewhere \subseteq Request
    /\ RootTopic \in Topic /\ None \notin Topic

VARIABLES
    task,       \* task[q]: the envelope of request q
    inbox,      \* inbox[q]: its row at the node that works on it
    run,        \* run[q]: the row of consultation_runs
    overdue,    \* overdue[q]: deadline_at_utc has passed
    due,        \* due[q]: next_attempt_at_utc has passed
    reply,      \* reply[q]: the result in the outbox
    returned,   \* returned[q]: that result in the inbox of the node that asked
    work,       \* work[c]: the claim coordinator c works on
    faults      \* deaths, and claims that lapsed between two statements

vars == <<task, inbox, run, overdue, due, reply, returned, work, faults>>

Envelope == [topic : Topic, ancestry : SUBSET Topic]

Row == [state : {"absent", "available", "claimed", "parked", "processed", "rejected"},
        owner : Coordinator \cup {None}, lapsed : BOOLEAN]

InState(s) == [state |-> s, owner |-> None, lapsed |-> FALSE]

RunState == {"pending_child", "needs_information", "waiting_peer", "completed", "failed"}

(* peer is peer_request, nested says whether nested_task_id is set, and    *)
(* evidence holds the rounds whose peer results were merged.               *)
Run == [state : RunState, round : 0 .. MaxRounds, peer : Topic \cup {None},
        nested : BOOLEAN, evidence : SUBSET Round]

NewRun == [state |-> "pending_child", round |-> 0, peer |-> None,
           nested |-> FALSE, evidence |-> {}]

Outcome == [outcome : {"completed", "rejected"}, evidence : SUBSET Round]

ASSUME NoneAssumption == None \notin Envelope \cup Run \cup Outcome

(* What a coordinator keeps from its claim: the run it read, whether the   *)
(* version it read is still the row's, and what its clock reading says of  *)
(* the claim and of the deadline.                                          *)
Step == {"claimed", "approved", "child", "evidence", "peer", "nested",
         "fail", "answer", "refuse", "reject", "release"}

Work == [step : Step, request : Request, run : Run \cup {None},
         current : BOOLEAN, lapsed : BOOLEAN, overdue : BOOLEAN]

Depth(q) == Len(q)

Busy(c) == work[c] # None

At(c, step) == Busy(c) /\ work[c].step = step

Idle(c) == work' = [work EXCEPT ![c] = None]

GoTo(c, step) == work' = [work EXCEPT ![c].step = step]

-----------------------------------------------------------------------------
(* runOnce: claimAutonomousConsultationInbox returns lapsed claims, then   *)
(* claims one request that is available and whose next attempt is due.     *)

Swept(q) ==
    IF inbox[q].state = "claimed" /\ inbox[q].lapsed THEN InState("available") ELSE inbox[q]

Claim(c, q) ==
    /\ ~Busy(c) /\ NodeOf[c] = Depth(q) % 2
    /\ Swept(q).state = "available" /\ due[q]
    /\ inbox' = [p \in Request |->
           IF p = q THEN [state |-> "claimed", owner |-> c, lapsed |-> FALSE]
           ELSE IF NodeOf[c] = Depth(p) % 2 THEN Swept(p) ELSE inbox[p]]
    /\ work' = [work EXCEPT ![c] =
           [step |-> "claimed", request |-> q, run |-> None, current |-> FALSE,
            lapsed |-> FALSE, overdue |-> overdue[q]]]
    /\ UNCHANGED <<task, run, overdue, due, reply, returned, faults>>

(* The WHERE clause of acknowledge, settleInboxWithReply and               *)
(* authorizeClaimedResourceAccess: a coordinator holds one claim at a      *)
(* time, so a row that names it carries its token.                         *)
ClaimValid(c) ==
    LET r == inbox[work[c].request] IN
    r.state = "claimed" /\ r.owner = c /\ ~work[c].lapsed

(* processClaim asks for the authorization first; see Approval for how it  *)
(* is decided.                                                             *)
Authorize(c) ==
    /\ At(c, "claimed") /\ ClaimValid(c)
    /\ \/ GoTo(c, "approved") /\ UNCHANGED inbox
       \/ GoTo(c, "reject") /\ UNCHANGED inbox
       \/ Idle(c) /\ inbox' = [inbox EXCEPT ![work[c].request] = InState("parked")]
    /\ UNCHANGED <<task, run, overdue, due, reply, returned, faults>>

StepFor == [pending_child |-> "child", needs_information |-> "evidence",
            waiting_peer |-> "peer", completed |-> "answer", failed |-> "refuse"]

AfterAllRounds(r) == r.state = "pending_child" /\ r.round > MaxRounds

OutOfRounds(r) == r.state = "pending_child" /\ r.round >= MaxRounds

StepAtAnyTime(r, late) == IF OutOfRounds(r) THEN "fail" ELSE StepFor[r.state]

(* The deadline comes before everything but a recorded failure: a run that *)
(* is completed and not yet settled fails too.                             *)
NextStep(r, late) ==
    IF (late /\ r.state # "failed") \/ OutOfRounds(r) THEN "fail" ELSE StepFor[r.state]

(* ensureRun: insert the run or read the one that is there, then switch on *)
(* its state.  A project that left the registry, and an envelope that does *)
(* not fit its ancestry or depth, are rejected without a run.              *)
Admissible(q) == task[q].topic \in task[q].ancestry /\ Depth(q) <= MaxDepth

EnsureRun(c) ==
    LET q == work[c].request
        r == IF run[q] = None THEN NewRun ELSE run[q] IN
    /\ At(c, "approved")
    /\ \/ /\ Admissible(q)
          /\ run' = [run EXCEPT ![q] = r]
          /\ work' = [work EXCEPT ![c].step = NextStep(r, work[c].overdue),
                                  ![c].run = r, ![c].current = TRUE]
       \/ GoTo(c, "reject") /\ UNCHANGED run
    /\ UNCHANGED <<task, inbox, overdue, due, reply, returned, faults>>

-----------------------------------------------------------------------------
(* saveConsultationRun: a compare-and-set on the version.  reading says    *)
(* whether the claim has lapsed by the clock the rest of the call uses.    *)

SaveWithoutVersion(c, r, step, reading) ==
    LET q == work[c].request IN
    /\ run' = [run EXCEPT ![q] = r]
    /\ work' = [d \in Coordinator |->
           IF d = c THEN [work[c] EXCEPT !.step = step, !.run = r, !.lapsed = reading]
           ELSE work[d]]

Save(c, r, step, reading) ==
    LET q == work[c].request IN
    /\ work[c].current
    /\ run' = [run EXCEPT ![q] = r]
    /\ work' = [d \in Coordinator |->
           IF d = c THEN [work[c] EXCEPT !.step = step, !.run = r, !.lapsed = reading]
           ELSE IF Busy(d) /\ work[d].request = q THEN [work[d] EXCEPT !.current = FALSE]
           ELSE work[d]]

(* withoutTransientRequests.                                               *)
Settled(r) == [r EXCEPT !.peer = None, !.nested = FALSE]

(* The live clock, read after the child or the collection.                 *)
LiveReading(c) == inbox[work[c].request].lapsed

(* executeChild: the child answers, asks for local evidence or for the     *)
(* peer, or fails.  A failure is handled with the clock of the cycle.      *)
ChildAnswers(c) ==
    LET r == work[c].run IN
    /\ At(c, "child")
    /\ Save(c, [Settled(r) EXCEPT !.state = "completed", !.round = @ + 1],
            "answer", LiveReading(c))
    /\ UNCHANGED <<task, inbox, overdue, due, reply, returned, faults>>

ChildAsksForEvidence(c) ==
    LET r == work[c].run IN
    /\ At(c, "child")
    /\ Save(c, [Settled(r) EXCEPT !.state = "needs_information", !.round = @ + 1],
            "release", LiveReading(c))
    /\ UNCHANGED <<task, inbox, overdue, due, reply, returned, faults>>

ChildAsksForPeer(c, t) ==
    LET r == work[c].run IN
    /\ At(c, "child")
    /\ Save(c, [Settled(r) EXCEPT !.state = "waiting_peer", !.round = @ + 1, !.peer = t],
            "release", LiveReading(c))
    /\ UNCHANGED <<task, inbox, overdue, due, reply, returned, faults>>

(* collectLocalEvidence.                                                   *)
CollectEvidence(c) ==
    /\ At(c, "evidence")
    /\ Save(c, [Settled(work[c].run) EXCEPT !.state = "pending_child"],
            "release", LiveReading(c))
    /\ UNCHANGED <<task, inbox, overdue, due, reply, returned, faults>>

(* A CodexExecutionError or an EvidencePolicyError.                        *)
ChildOrCollectionFails(c) ==
    /\ At(c, "child") \/ At(c, "evidence")
    /\ GoTo(c, "fail")
    /\ UNCHANGED <<task, inbox, run, overdue, due, reply, returned, faults>>

-----------------------------------------------------------------------------
(* advancePeerWait.                                                        *)

TooDeep(q, t) == Depth(q) >= MaxDepth

Forbidden(q, t) == Depth(q) >= MaxDepth \/ t \in task[q].ancestry

PeerForbidden(c) ==
    /\ At(c, "peer") /\ ~work[c].run.nested
    /\ Forbidden(work[c].request, work[c].run.peer)
    /\ GoTo(c, "fail")
    /\ UNCHANGED <<task, inbox, run, overdue, due, reply, returned, faults>>

(* send under the key of the request and the round: the row that is there  *)
(* already is the authoritative one, and other content under the key is    *)
(* refused.                                                                *)
SendNested(c) ==
    LET q == work[c].request
        r == work[c].run
        n == Append(q, r.round)
        e == [topic |-> r.peer, ancestry |-> task[q].ancestry \cup {r.peer}] IN
    /\ At(c, "peer") /\ ~r.nested /\ ~Forbidden(q, r.peer)
    /\ task[n] \in {None, e}
    /\ task' = [task EXCEPT ![n] = e]
    /\ GoTo(c, "nested")
    /\ UNCHANGED <<inbox, run, overdue, due, reply, returned, faults>>

SaveNested(c) ==
    /\ At(c, "nested")
    /\ Save(c, [work[c].run EXCEPT !.nested = TRUE], "release", work[c].lapsed)
    /\ due' = [due EXCEPT ![work[c].request] = FALSE]
    /\ UNCHANGED <<task, inbox, overdue, reply, returned, faults>>

PeerResult(c) == Append(work[c].request, work[c].run.round)

NoResultYet(c) ==
    /\ At(c, "peer") /\ work[c].run.nested /\ returned[PeerResult(c)] = "no"
    /\ Save(c, work[c].run, "release", work[c].lapsed)
    /\ due' = [due EXCEPT ![work[c].request] = FALSE]
    /\ UNCHANGED <<task, inbox, overdue, reply, returned, faults>>

(* A result that was quarantined, does not match or is no answer.          *)
PeerFailed(c) ==
    /\ At(c, "peer") /\ work[c].run.nested
    /\ \/ returned[PeerResult(c)] = "quarantined"
       \/ /\ returned[PeerResult(c)] = "here"
          /\ reply[PeerResult(c)].outcome = "rejected"
    /\ GoTo(c, "fail")
    /\ UNCHANGED <<task, inbox, run, overdue, due, reply, returned, faults>>

AnyResult(c) == returned[PeerResult(c)] # "no"

UsableResult(c) ==
    returned[PeerResult(c)] = "here" /\ reply[PeerResult(c)].outcome = "completed"

PeerAnswered(c) ==
    LET r == work[c].run IN
    /\ At(c, "peer") /\ r.nested /\ UsableResult(c)
    /\ Save(c, [Settled(r) EXCEPT !.state = "pending_child",
                                  !.evidence = @ \cup {r.round}],
            "release", work[c].lapsed)
    /\ UNCHANGED <<task, inbox, overdue, due, reply, returned, faults>>

-----------------------------------------------------------------------------
(* fail, complete, settleFailure, settleInitialFailure and release.        *)

SaveFailed(c) ==
    /\ At(c, "fail")
    /\ Save(c, [Settled(work[c].run) EXCEPT !.state = "failed"], "refuse", work[c].lapsed)
    /\ UNCHANGED <<task, inbox, overdue, due, reply, returned, faults>>

SettleWithReply(c, step, state, result) ==
    /\ At(c, step) /\ ClaimValid(c)
    /\ inbox' = [inbox EXCEPT ![work[c].request] = InState(state)]
    /\ reply' = [reply EXCEPT ![work[c].request] = result]
    /\ Idle(c)
    /\ UNCHANGED <<task, run, overdue, due, returned, faults>>

Complete(c) ==
    SettleWithReply(c, "answer", "processed",
        [outcome |-> "completed", evidence |-> work[c].run.evidence])

SettleFailure(c) ==
    SettleWithReply(c, "refuse", "rejected", [outcome |-> "rejected", evidence |-> {}])

SettleInitialFailure(c) ==
    SettleWithReply(c, "reject", "rejected", [outcome |-> "rejected", evidence |-> {}])

Release(c) ==
    /\ At(c, "release") /\ ClaimValid(c)
    /\ inbox' = [inbox EXCEPT ![work[c].request] = InState("available")]
    /\ Idle(c)
    /\ UNCHANGED <<task, run, overdue, due, reply, returned, faults>>

(* A save under a stale version and a call under a lost claim throw.       *)
Saves(c) ==
    \/ \E s \in {"child", "evidence", "nested", "fail"} : At(c, s)
    \/ At(c, "peer") /\ work[c].run.nested

Refused(c) ==
    /\ \/ Saves(c) /\ ~work[c].current
       \/ /\ \E s \in {"claimed", "answer", "refuse", "reject", "release"} : At(c, s)
          /\ ~ClaimValid(c)
    /\ Idle(c)
    /\ UNCHANGED <<task, inbox, run, overdue, due, reply, returned, faults>>

(* The process dies, is aborted or meets any other error: the claim stays. *)
Dies(c) ==
    /\ Busy(c) /\ Idle(c)
    /\ faults < MaxFaults /\ faults' = faults + 1
    /\ UNCHANGED <<task, inbox, run, overdue, due, reply, returned>>

-----------------------------------------------------------------------------
(* The bridge between the nodes, the operator and the time.                *)

Deliver(q) ==
    /\ q \notin Elsewhere /\ task[q] # None /\ inbox[q].state = "absent"
    /\ inbox' = [inbox EXCEPT ![q] = InState("available")]
    /\ UNCHANGED <<task, run, overdue, due, reply, returned, work, faults>>

AnsweredElsewhere(q) ==
    /\ q \in Elsewhere /\ task[q] # None /\ reply[q] = None
    /\ \E o \in {"completed", "rejected"} :
         reply' = [reply EXCEPT ![q] = [outcome |-> o, evidence |-> {}]]
    /\ UNCHANGED <<task, inbox, run, overdue, due, returned, work, faults>>

DeliverResult(q) ==
    /\ reply[q] # None /\ returned[q] = "no"
    /\ returned' = [returned EXCEPT ![q] = "here"]
    /\ UNCHANGED <<task, inbox, run, overdue, due, reply, work, faults>>

ResultCollides(q) ==
    /\ returned[q] = "here"
    /\ returned' = [returned EXCEPT ![q] = "quarantined"]
    /\ UNCHANGED <<task, inbox, run, overdue, due, reply, work, faults>>

Decide(q) ==
    /\ inbox[q].state = "parked"
    /\ inbox' = [inbox EXCEPT ![q] = InState("available")]
    /\ UNCHANGED <<task, run, overdue, due, reply, returned, work, faults>>

Waits(q) == \E s \in {"child", "evidence"} : At(inbox[q].owner, s)

Holds(q) == inbox[q].owner \in Coordinator /\ Busy(inbox[q].owner)
                /\ work[inbox[q].owner].request = q

Lapse(q) ==
    /\ inbox[q].state = "claimed" /\ ~inbox[q].lapsed
    /\ IF Holds(q) /\ ~Waits(q)
         THEN faults < MaxFaults /\ faults' = faults + 1
         ELSE UNCHANGED faults
    /\ inbox' = [inbox EXCEPT ![q].lapsed = TRUE]
    /\ UNCHANGED <<task, run, overdue, due, reply, returned, work>>

DeadlinePasses(q) ==
    /\ inbox[q].state \notin {"absent", "processed", "rejected"} /\ ~overdue[q]
    /\ overdue' = [overdue EXCEPT ![q] = TRUE]
    /\ UNCHANGED <<task, inbox, run, due, reply, returned, work, faults>>

BecomesDue(q) ==
    /\ ~due[q]
    /\ due' = [due EXCEPT ![q] = TRUE]
    /\ UNCHANGED <<task, inbox, run, overdue, reply, returned, work, faults>>

Init ==
    /\ task = [q \in Request |->
           IF q = Root THEN [topic |-> RootTopic, ancestry |-> {RootTopic}] ELSE None]
    /\ inbox = [q \in Request |-> InState("absent")]
    /\ run = [q \in Request |-> None]
    /\ overdue = [q \in Request |-> FALSE]
    /\ due = [q \in Request |-> TRUE]
    /\ reply = [q \in Request |-> None]
    /\ returned = [q \in Request |-> "no"]
    /\ work = [c \in Coordinator |-> None]
    /\ faults = 0

Settle(c) == Complete(c) \/ SettleFailure(c) \/ SettleInitialFailure(c)

CoordinatorStep(c) ==
    \/ Authorize(c) \/ EnsureRun(c)
    \/ ChildAnswers(c) \/ ChildAsksForEvidence(c) \/ CollectEvidence(c)
    \/ \E t \in Topic : ChildAsksForPeer(c, t)
    \/ ChildOrCollectionFails(c)
    \/ PeerForbidden(c) \/ SendNested(c) \/ SaveNested(c)
    \/ NoResultYet(c) \/ PeerFailed(c) \/ PeerAnswered(c)
    \/ SaveFailed(c) \/ Settle(c) \/ Release(c) \/ Refused(c)

Next ==
    \/ \E c \in Coordinator, q \in Request : Claim(c, q)
    \/ \E c \in Coordinator : CoordinatorStep(c) \/ Dies(c)
    \/ \E q \in Request :
         \/ Deliver(q) \/ AnsweredElsewhere(q) \/ DeliverResult(q) \/ ResultCollides(q) \/ Decide(q)
         \/ Lapse(q) \/ DeadlinePasses(q) \/ BecomesDue(q)

Spec == Init /\ [][Next]_vars

(* The loop of dispatcher/index.ts goes on, children and collections       *)
(* return, timers fire and a dead coordinator's claim lapses.  The oldest  *)
(* request is claimed first and one that waits for its peer is skipped     *)
(* until it is due, so a request that can be claimed again and again is.   *)
Fairness ==
    /\ \A c \in Coordinator : WF_vars(CoordinatorStep(c))
    /\ \A q \in Request :
         /\ WF_vars(Lapse(q)) /\ WF_vars(DeadlinePasses(q)) /\ WF_vars(BecomesDue(q))
         /\ SF_vars(\E c \in Coordinator : Claim(c, q))

FairSpec == Spec /\ Fairness

-----------------------------------------------------------------------------
(* Every variable holds a value of its kind.                               *)
TypeOK ==
    /\ task \in [Request -> Envelope \cup {None}]
    /\ inbox \in [Request -> Row]
    /\ run \in [Request -> Run \cup {None}]
    /\ overdue \in [Request -> BOOLEAN] /\ due \in [Request -> BOOLEAN]
    /\ reply \in [Request -> Outcome \cup {None}]
    /\ returned \in [Request -> {"no", "here", "quarantined"}]
    /\ work \in [Coordinator -> Work \cup {None}]
    /\ faults \in Nat

(* A request is reported processed only with the answer of its run, and    *)
(* that run stays completed: no coordinator that lost its claim, slept     *)
(* through the deadline or read an older version turns it over.            *)
AnswerMatchesRun ==
    \A q \in Request : inbox[q].state = "processed" =>
        /\ run[q] # None /\ run[q].state = "completed"
        /\ reply[q] = [outcome |-> "completed", evidence |-> run[q].evidence]

(* A peer is asked once a round, with the request that the run recorded    *)
(* for that round, however many coordinators ran a child for it and        *)
(* wherever one of them died before the task was noted in the run.         *)
OneTaskPerRound ==
    \A q \in Request, r \in Round :
        Append(q, r) \in Request /\ task[Append(q, r)] # None =>
            /\ run[q] # None /\ r <= run[q].round
            /\ run[q].state = "waiting_peer" /\ run[q].round = r =>
                   task[Append(q, r)].topic = run[q].peer

(* No request repeats one of those it was asked for, on whichever node.    *)
NoCycle ==
    \A q \in Request : task[q] # None =>
        \A d \in 0 .. Len(q) - 1 :
            /\ task[SubSeq(q, 1, d)] # None
            /\ task[SubSeq(q, 1, d)].topic # task[q].topic

(* Every request that arrives is settled in the end unless the operator    *)
(* leaves it parked: rounds, depth and the deadline bound the consultation *)
(* and no two nodes wait for each other for ever.                          *)
EveryRequestSettled ==
    \A q \in Request :
        (inbox[q].state = "available")
            ~> (inbox[q].state \in {"parked", "processed", "rejected"})

-----------------------------------------------------------------------------
(* What a consultation promises, see Inquiry.                              *)
Status ==
    [q \in Request |->
        IF task[q] = None THEN "absent"
        ELSE IF reply[q] = None THEN "open"
        ELSE IF reply[q].outcome = "completed" THEN "answered" ELSE "refused"]

Basis == [q \in Request |-> IF reply[q] = None THEN {} ELSE reply[q].evidence]

Abstract == INSTANCE Inquiry
    WITH Inquiry <- Request, Question <- Round, status <- Status, basis <- Basis

(* Each request is answered or refused once, and an answer rests only on   *)
(* answers that the other node really gave to the tasks of this run.       *)
ImplementsInquiry == Abstract!Spec
=============================================================================
