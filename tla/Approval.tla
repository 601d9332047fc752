------------------------------- MODULE Approval -------------------------------
(***************************************************************************)
(* Local authorization of a node: src/storage/database.ts, resources,      *)
(* grants and the approval workflow (514-1424), with the inbox rows it     *)
(* parks and releases and the consumers that ask it before they work       *)
(* (src/dispatcher/dispatcher.ts, src/coordination/                        *)
(* autonomous-consultation-coordinator.ts).                                *)
(*                                                                         *)
(* Every operation is one SQLite transaction and one step; a call that     *)
(* throws rolls back and is no step.  The instants at which temporary      *)
(* approvals end are arbitrary: every operation that expires requests      *)
(* takes the set that has ended by its caller's clock.                     *)
(***************************************************************************)
EXTENDS FiniteSets

CONSTANTS
    Message,         \* message identifiers; also the identifiers of requests
    Operation,       \* request identities (peer, resource, kind, stream, key)
    OperationOf,     \* the operation a message asks for
    Peer, Resource,
    PeerOf,          \* origin of an operation
    ResourceOf,      \* project an operation names
    Consumer,        \* dispatchers, coordinators and MCP agents
    Coordinator,     \* those that keep consultation runs
    Eligible,        \* Eligible[c]: messages the claim filter of c selects
    Asks,            \* consumers that ask for authorization: all but agents
    Authentic,       \* messages whose ingress was authenticated
    None

ASSUME ApprovalAssumption ==
    /\ OperationOf \in [Message -> Operation]
    /\ PeerOf \in [Operation -> Peer] /\ ResourceOf \in [Operation -> Resource]
    /\ Coordinator \subseteq Asks /\ Asks \subseteq Consumer
    /\ Eligible \in [Consumer -> SUBSET Message]
    /\ Authentic \subseteq Message
    /\ None \notin Message \cup Consumer

VARIABLES
    resource,   \* resource[r]: the row of a resource
    grant,      \* grant[<<p, r>>]: the persistent grant of a pair
    row,        \* row[m]: the inbox row of a message
    request,    \* request[m]: state of the authorization request m
    run,        \* messages with a row in consultation_runs
    work        \* work[c]: the message c holds a claim of, and how far it is

vars == <<resource, grant, row, request, run, work>>

RequestState == {"absent", "pending", "approved_once", "approved_temporary",
                 "denied", "revoked", "expired", "consumed"}

(* live: the claim has not lapsed; cause: what last_error names.           *)
Row == [state : {"absent", "available", "claimed", "processed", "rejected", "quarantined"},
        owner : Consumer \cup {None}, live : BOOLEAN,
        cause : {"none", "approval", "collision"}]

NoRow == [state |-> "absent", owner |-> None, live |-> FALSE, cause |-> "none"]

Work == [msg : Message \cup {None}, phase : {"idle", "claimed", "refused", "authorized"}]

Idle == [msg |-> None, phase |-> "idle"]

Pair == Peer \X Resource
PairOf == [o \in Operation |-> <<PeerOf[o], ResourceOf[o]>>]

-----------------------------------------------------------------------------
(* registerResource, setResourceEnabled, grantPeerResource.                *)

RegisterResource(r) ==
    /\ resource[r] = "absent"
    /\ resource' = [resource EXCEPT ![r] = "enabled"]
    /\ UNCHANGED <<grant, row, request, run, work>>

SetResourceEnabled(r, setting) ==
    /\ resource[r] # "absent"
    /\ resource' = [resource EXCEPT ![r] = setting]
    /\ UNCHANGED <<grant, row, request, run, work>>

GrantPeerResource(pair) ==
    /\ resource[pair[2]] # "absent"
    /\ grant' = [grant EXCEPT ![pair] = "active"]
    /\ UNCHANGED <<resource, row, request, run, work>>

(* isPeerAuthorizedForResource.                                            *)
Standing(pair) == grant[pair] = "active" /\ resource[pair[2]] = "enabled"

RequestsOf(pair) == {m \in Message : PairOf[OperationOf[m]] = pair}

(* revokePeerResource takes the temporary approvals of the pair with it;   *)
(* it does not expire requests and releases no message.                    *)
RevokePeerResource(pair) ==
    /\ grant[pair] # "absent"
    /\ grant' = [grant EXCEPT ![pair] = "revoked"]
    /\ request' = [m \in Message |->
           IF request[m] = "approved_temporary" /\ m \in RequestsOf(pair)
             THEN "revoked" ELSE request[m]]
    /\ UNCHANGED <<resource, row, run, work>>

-----------------------------------------------------------------------------
(* expireAuthorizationRequests and requeueAuthorizationRequest.            *)

Ends == SUBSET {m \in Message : request[m] = "approved_temporary"}

Expired(ended) == [m \in Message |-> IF m \in ended THEN "expired" ELSE request[m]]

RequeuedIfClaimed(m) ==
    IF row[m].state = "claimed"
      THEN [row EXCEPT ![m] = [NoRow EXCEPT !.state = "available"]]
      ELSE row

Requeued(m) ==
    IF row[m].state = "quarantined"
      THEN [row EXCEPT ![m] = [NoRow EXCEPT !.state = "available"]]
      ELSE row

(* listAuthorizationRequests, getAuthorizationRequest, and a decision that *)
(* was made already: they expire requests and nothing else.                *)
Inspect(ended) ==
    /\ request' = Expired(ended)
    /\ UNCHANGED <<resource, grant, row, run, work>>

(* decideAuthorizationRequest.                                             *)
Decide(m, decision, ended) ==
    LET pair == PairOf[OperationOf[m]] IN
    /\ request[m] = "pending"
    /\ resource[pair[2]] = "enabled"
    /\ decision # "denied" => ~Standing(pair)
    /\ request' = [Expired(ended) EXCEPT ![m] = decision]
    /\ row' = Requeued(m)
    /\ UNCHANGED <<resource, grant, run, work>>

(* revokeAuthorizationRequest.                                             *)
Revoke(m, ended) ==
    /\ request[m] \in {"approved_once", "approved_temporary"} /\ m \notin ended
    /\ request' = [Expired(ended) EXCEPT ![m] = "revoked"]
    /\ row' = Requeued(m)
    /\ UNCHANGED <<resource, grant, run, work>>

-----------------------------------------------------------------------------
(* The inbox, as far as approvals see it (module Inbox has all of it).     *)

Persist(m) ==
    /\ row[m].state = "absent"
    /\ row' = [row EXCEPT ![m].state = "available"]
    /\ UNCHANGED <<resource, grant, request, run, work>>

(* Another content under the identifier, from the same origin.             *)
Collide(m) ==
    /\ row[m].state # "absent"
    /\ row' = [row EXCEPT ![m].state = "quarantined", ![m].cause = "collision"]
    /\ UNCHANGED <<resource, grant, request, run, work>>

Swept(r) ==
    IF r.state = "claimed" /\ ~r.live THEN [NoRow EXCEPT !.state = "available"] ELSE r

Claim(c, m) ==
    /\ work[c] = Idle
    /\ m \in Eligible[c] /\ Swept(row[m]).state = "available"
    /\ row' = [k \in Message |->
           IF k = m THEN [state |-> "claimed", owner |-> c, live |-> TRUE, cause |-> "none"]
                    ELSE Swept(row[k])]
    /\ work' = [work EXCEPT ![c] = [msg |-> m, phase |-> "claimed"]]
    /\ UNCHANGED <<resource, grant, request, run>>

ClaimLapses(m) ==
    /\ row[m].state = "claimed" /\ row[m].live
    /\ row' = [row EXCEPT ![m].live = FALSE]
    /\ UNCHANGED <<resource, grant, request, run, work>>

ClaimValidByOwner(c, m) ==
    /\ work[c].msg = m
    /\ row[m].owner = c /\ row[m].live

ClaimValid(c, m) ==
    /\ work[c].msg = m
    /\ row[m].state = "claimed" /\ row[m].owner = c /\ row[m].live

(* acknowledge and settleInboxWithReply; a release makes the message       *)
(* available.  Whoever asks answers only what it was authorized to do, but *)
(* may always reject; a coordinator has the run first.                     *)
MaySettle(c, outcome) ==
    \/ c \notin Asks \/ outcome = "rejected"
    \/ /\ work[c].phase = "authorized"
       /\ IF c \in Coordinator THEN work[c].msg \in run ELSE outcome = "processed"

Settle(c, outcome) ==
    /\ work[c] # Idle /\ ClaimValid(c, work[c].msg)
    /\ MaySettle(c, outcome)
    /\ row' = [row EXCEPT ![work[c].msg] = [NoRow EXCEPT !.state = outcome]]
    /\ work' = [work EXCEPT ![c] = Idle]
    /\ UNCHANGED <<resource, grant, request, run>>

(* A consumer crashes, is aborted, or finds its claim gone.                *)
Abandon(c) ==
    /\ work[c] # Idle
    /\ work' = [work EXCEPT ![c] = Idle]
    /\ UNCHANGED <<resource, grant, row, request, run>>

(* ensureConsultationRun, the first thing a coordinator does when it is    *)
(* authorized.                                                             *)
EnsureRun(c) ==
    /\ c \in Coordinator /\ work[c].phase = "authorized"
    /\ run' = run \cup {work[c].msg}
    /\ UNCHANGED <<resource, grant, row, request, work>>

-----------------------------------------------------------------------------
(* authorizeClaimedResourceAccess: the checks in the order of the code,    *)
(* each on the requests as they are once the ended ones have expired.      *)

(* 783-799: an unknown or disabled resource is refused, a standing grant   *)
(* is enough.                                                              *)
Known(m) == m \in Authentic /\ resource[ResourceOf[OperationOf[m]]] = "enabled"

UnderTemporary(m, requests) ==
    \E k \in RequestsOf(PairOf[OperationOf[m]]) : requests[k] = "approved_temporary"

(* The request of the same operation, whichever message made it.           *)
Asked(o, requests) ==
    {m \in Message : OperationOf[m] = o /\ requests[m] # "absent"}

RequestById(m) == {k \in Message : k = m /\ request[k] # "absent"}

RequestFor(m) == Asked(OperationOf[m], request)

Answered(c, answer) == work' = [work EXCEPT ![c].phase = answer]

(* parkClaimForApproval.                                                   *)
ParkKeepingClaim(c, m) ==
    /\ row' = [row EXCEPT ![m] =
           [NoRow EXCEPT !.state = "quarantined", !.cause = "approval"]]
    /\ work' = [work EXCEPT ![c].phase = "idle"]

Park(c, m) ==
    /\ row' = [row EXCEPT ![m] =
           [NoRow EXCEPT !.state = "quarantined", !.cause = "approval"]]
    /\ work' = [work EXCEPT ![c] = Idle]

WithoutRequest(c, m, requests) ==
    \/ /\ ~Known(m)
       /\ request' = requests /\ row' = row /\ Answered(c, "refused")
    \/ /\ Known(m)
       /\ Standing(PairOf[OperationOf[m]]) \/ UnderTemporary(m, requests)
       /\ request' = requests /\ row' = row /\ Answered(c, "authorized")

(* No request yet: one is made, and the message waits for the decision.    *)
AskOperator(c, m, requests) ==
    /\ RequestFor(m) = {}
    /\ request' = [requests EXCEPT ![m] = "pending"]
    /\ Park(c, m)

(* A later message of the same operation is refused.                       *)
Duplicate(c, m, requests) ==
    /\ RequestFor(m) \ {m} # {}
    /\ request' = requests /\ row' = row /\ Answered(c, "refused")

(* The message made the request itself (857-914): its state decides.  A    *)
(* spent approval only resumes a consultation that has its run; a          *)
(* temporary one that has not ended was found before.                      *)
UseRequestUnrecorded(c, m, requests) ==
    /\ RequestFor(m) = {m}
    /\ request' = requests
    /\ \/ requests[m] = "pending" /\ Park(c, m)
       \/ /\ requests[m] # "pending" /\ row' = row
          /\ Answered(c, IF requests[m] = "approved_once" THEN "authorized" ELSE "refused")

UseRequest(c, m, requests) ==
    /\ RequestFor(m) = {m}
    /\ \/ requests[m] = "pending" /\ request' = requests /\ Park(c, m)
       \/ /\ requests[m] = "approved_once"
          /\ request' = [requests EXCEPT ![m] = "consumed"]
          /\ row' = row /\ Answered(c, "authorized")
       \/ /\ requests[m] \in {"consumed", "denied", "revoked", "expired"}
          /\ request' = requests /\ row' = row
          /\ Answered(c, IF requests[m] = "consumed" /\ m \in run
                           THEN "authorized" ELSE "refused")

Authorize(c, ended) ==
    LET m == work[c].msg
        requests == Expired(ended)
    IN
    /\ c \in Asks /\ work[c].phase = "claimed" /\ ClaimValid(c, m)
    /\ \/ WithoutRequest(c, m, requests)
       \/ /\ Known(m)
          /\ ~Standing(PairOf[OperationOf[m]]) /\ ~UnderTemporary(m, requests)
          /\ \/ AskOperator(c, m, requests)
             \/ Duplicate(c, m, requests)
             \/ UseRequest(c, m, requests)
    /\ UNCHANGED <<resource, grant, run>>

-----------------------------------------------------------------------------
Init ==
    /\ resource = [r \in Resource |-> "absent"]
    /\ grant = [pair \in Pair |-> "absent"]
    /\ row = [m \in Message |-> NoRow]
    /\ request = [m \in Message |-> "absent"]
    /\ run = {}
    /\ work = [c \in Consumer |-> Idle]

Operator ==
    \/ \E r \in Resource :
           \/ RegisterResource(r)
           \/ \E setting \in {"enabled", "disabled"} : SetResourceEnabled(r, setting)
    \/ \E pair \in Pair : GrantPeerResource(pair) \/ RevokePeerResource(pair)
    \/ \E ended \in Ends :
           \/ Inspect(ended)
           \/ \E m \in Message :
                  \/ Revoke(m, ended)
                  \/ \E decision \in {"approved_once", "approved_temporary", "denied"} :
                         Decide(m, decision, ended)

ConsumerStep(c) ==
    \/ \E m \in Message : Claim(c, m)
    \/ \E ended \in Ends : Authorize(c, ended)
    \/ \E outcome \in {"processed", "rejected", "available"} : Settle(c, outcome)
    \/ EnsureRun(c)
    \/ Abandon(c)

Next ==
    \/ Operator
    \/ \E c \in Consumer : ConsumerStep(c)
    \/ \E m \in Message : Persist(m) \/ Collide(m) \/ ClaimLapses(m)

Spec == Init /\ [][Next]_vars

-----------------------------------------------------------------------------
(* Every variable holds a value of its kind, and an idle consumer has no   *)
(* message.                                                                *)
TypeOK ==
    /\ resource \in [Resource -> {"absent", "enabled", "disabled"}]
    /\ grant \in [Pair -> {"absent", "active", "revoked"}]
    /\ row \in [Message -> Row]
    /\ request \in [Message -> RequestState]
    /\ run \subseteq Message
    /\ work \in [Consumer -> Work]
    /\ \A c \in Consumer : work[c].msg = None <=> work[c].phase = "idle"

(* A message waits parked exactly as long as its request is undecided:     *)
(* no undecided message can be claimed by anyone, and none stays parked    *)
(* once its request was decided, revoked or spent.                         *)
ParkedIsPending ==
    \A m \in Message :
        /\ request[m] = "pending" => row[m].state = "quarantined"
        /\ row[m].cause = "approval" => request[m] = "pending"

(* However often a peer repeats an operation under new messages, the       *)
(* operator is asked once and one decision is kept (docs/configuration.md, *)
(* Local Approval Workflow: a later message is not an approval replay).    *)
OneRequestPerOperation ==
    \A m, k \in Message :
        request[m] # "absent" /\ request[k] # "absent"
            /\ OperationOf[m] = OperationOf[k] => m = k

(* A message under an identity collision is released by the operator's     *)
(* decision on its own request and by nothing else: no sweep, expiry or    *)
(* late settlement of the claim it was held under brings it back.          *)
CollisionReleasedByOperator ==
    [][\A m \in Message :
          row[m].cause = "collision" /\ row'[m].state # "quarantined" =>
              /\ request[m] \in {"pending", "approved_once", "approved_temporary"}
              /\ request'[m] # request[m]]_vars

-----------------------------------------------------------------------------
(* What the workflow promises, see AccessPolicy.                           *)
PermitOf == [state \in RequestState |->
    CASE state = "absent" -> "none"
      [] state = "pending" -> "waiting"
      [] state = "approved_once" -> "once"
      [] state = "approved_temporary" -> "temporary"
      [] state = "consumed" -> "spent"
      [] OTHER -> "closed"]

HolderIn(requests) == [o \in Operation |->
    IF Asked(o, requests) = {} THEN None ELSE CHOOSE m \in Asked(o, requests) : TRUE]

PermitsIn(requests) == [o \in Operation |->
    IF Asked(o, requests) = {} THEN "none"
                               ELSE PermitOf[requests[HolderIn(requests)[o]]]]

Abstract == INSTANCE AccessPolicy WITH
    enabled <- {r \in Resource : resource[r] = "enabled"},
    granted <- {pair \in Pair : grant[pair] = "active"},
    permit <- PermitsIn(request),
    holder <- HolderIn(request),
    begun <- run,
    running <- {w \in Consumer \X Message :
                    work[w[1]] = [msg |-> w[2], phase |-> "authorized"]}

(* Work starts only on an enabled resource, and only under a standing      *)
(* grant, a temporary approval of the pair that has not ended, the         *)
(* one use of an approval of its own operation, or as the continuation of  *)
(* a consultation such a use began; nothing closed opens again.            *)
ImplementsAccessPolicy == Abstract!Spec
=============================================================================
