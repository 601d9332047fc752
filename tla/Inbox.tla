------------------------------- MODULE Inbox --------------------------------
(***************************************************************************)
(* The durable inbox of one node: src/storage/database.ts (persistIncoming,*)
(* claimInboxWhere, renewClaim, acknowledge, settleInboxWithReply,         *)
(* parkClaimForApproval, requeueAuthorizationRequest), with the consumers  *)
(* that claim from it and the reply rows they leave in the outbox.  These  *)
(* are all the statements that write inbox rows.  When a message needs an  *)
(* approval and when the operator may decide is the subject of Approval;   *)
(* here any message may be parked once and any decision may come.          *)
(*                                                                         *)
(* Every operation is one SQLite transaction and one step.  A consumer is  *)
(* an agent behind the MCP server, a dispatcher or a coordinator: it keeps *)
(* the token of each claim, works for any length of time, and may come     *)
(* back with it when the claim has lapsed, was given to another consumer   *)
(* or is settled already.  A call that the code rejects changes nothing,   *)
(* so it is no step here.                                                  *)
(***************************************************************************)
EXTENDS Naturals, FiniteSets

CONSTANTS
    Id,              \* message identifiers
    Peer,            \* authenticated origin nodes
    Version,         \* signed contents a message identifier may come with
    Consumer,        \* consumers, by consumer_id
    Token,           \* claim tokens; a claim waits while all are in use (bound)
    Key,             \* idempotency keys of the replies to one message
    Content,         \* contents of a reply
    OtherKind,       \* those of them that are no task_result
    None,            \* no token, no reply, no consumer
    Eligible,        \* Eligible[c]: messages the claim filter of c selects
    IncludeExpired,  \* consumers that claim expired messages too
    Asks,            \* consumers that ask for authorization: all but agents
    ClaimLimit,      \* limit of claimInboxWhere
    LeaseSeconds,    \* length of a claim
    Lifetime,        \* possible expires_at - first_received_at
    Stall,           \* how old the caller's clock reading may be at its commit
    MaxTime          \* bound of the model's clock

ASSUME InboxAssumption ==
    /\ None \notin Token \cup Content \cup Consumer \cup Peer \cup Version
    /\ None \notin Key \X Content
    /\ OtherKind \subseteq Content
    /\ Eligible \in [Consumer -> SUBSET Id]
    /\ IncludeExpired \subseteq Consumer /\ Asks \subseteq Consumer
    /\ ClaimLimit \in Nat \ {0} /\ LeaseSeconds \in Nat \ {0}
    /\ Lifetime \subseteq Nat \ {0}
    /\ Stall \in Nat /\ MaxTime \in Nat

VARIABLES
    inbox,      \* inbox[m]: the row of message m
    held,       \* held[c][m]: the token c keeps for m
    reply,      \* reply[m][k]: the outbox row of the reply to m under key k
    asked,      \* asked[m]: state of the authorization request with m's identifier
    delivered,  \* history: every <<message, origin, version>> taken from the broker
    now         \* the wall clock

vars == <<inbox, held, reply, asked, delivered, now>>

InboxState == {"absent", "available", "claimed", "processed", "rejected", "quarantined"}
Settled    == {"processed", "rejected"}

(* The answer a settlement recorded: result_idempotency_key with the hash  *)
(* of the content it names.                                                *)
Result == {None} \cup (Key \X Content)

(* accepted is history: the token that the last renewal, release,          *)
(* settlement or parking that went through came with.                      *)
Row == [state : InboxState, origin : Peer \cup {None}, version : Version \cup {None},
        received : Nat, expires : Nat, owner : Consumer \cup {None},
        token : Token \cup {None}, until : Nat,
        result : Result, accepted : Token \cup {None}]

NoRow == [state |-> "absent", origin |-> None, version |-> None, received |-> 0,
          expires |-> 0, owner |-> None, token |-> None, until |-> 0,
          result |-> None, accepted |-> None]

(* A reply is live while its outbox row is pending or leased, and dead     *)
(* once that row is quarantined or expired.                                *)
ReplyRow == [state : {"absent", "live", "sent", "dead"}, content : Content \cup {None}]

NoReply == [state |-> "absent", content |-> None]

(* closed stands for denied, revoked, expired and consumed.                *)
RequestState == {"none", "pending", "approved_once", "approved_temporary", "closed"}

Unclaimed(r, state) ==
    [r EXCEPT !.state = state, !.owner = None, !.token = None, !.until = 0]

(* The caller reads its clock, then waits for the database lock.           *)
ClockReading == {t \in 0 .. now : now <= t + Stall}

-----------------------------------------------------------------------------
(* persistIncoming.                                                        *)

SameMessage(m, p, v) == inbox[m].origin = p /\ inbox[m].version = v

CollisionFromOrigin(m, p, v) ==
    inbox[m].state # "absent" /\ inbox[m].origin = p /\ ~SameMessage(m, p, v)

(* An identical duplicate and a foreign collision leave the row alone.     *)
Persist(m, p, v, life) ==
    /\ delivered' = delivered \cup {<<m, p, v>>}
    /\ \/ /\ inbox[m].state = "absent"
          /\ inbox' = [inbox EXCEPT ![m] =
                 [NoRow EXCEPT !.state = "available", !.origin = p, !.version = v,
                               !.received = now, !.expires = now + life]]
       \/ /\ CollisionFromOrigin(m, p, v)
          /\ inbox' = [inbox EXCEPT ![m].state = "quarantined"]
       \/ /\ inbox[m].state # "absent" /\ ~CollisionFromOrigin(m, p, v)
          /\ inbox' = inbox
    /\ UNCHANGED <<held, reply, asked, now>>

-----------------------------------------------------------------------------
(* claimInboxWhere: return lapsed claims, then claim the oldest messages   *)
(* the filter selects, each under a token nobody has seen before.          *)

SweptAsInOutbox(r, at) ==
    IF r.state = "claimed" /\ r.until <= at THEN Unclaimed(r, "pending") ELSE r

Swept(r, at) ==
    IF r.state = "claimed" /\ r.until <= at THEN Unclaimed(r, "available") ELSE r

Claimable(c, at) ==
    {m \in Eligible[c] :
        /\ Swept(inbox[m], at).state = "available"
        /\ c \in IncludeExpired \/ inbox[m].expires > at}

OldestFirst(chosen, candidates) ==
    /\ chosen \subseteq candidates
    /\ Cardinality(chosen) = IF ClaimLimit <= Cardinality(candidates)
                               THEN ClaimLimit ELSE Cardinality(candidates)
    /\ \A m \in chosen, k \in candidates \ chosen :
           inbox[m].received <= inbox[k].received

UsedTokens ==
    {t \in Token : \/ \E m \in Id : inbox[m].token = t \/ inbox[m].accepted = t
                   \/ \E c \in Consumer, m \in Id : held[c][m] = t}

Claim(c, chosen, fresh, at) ==
    /\ at \in ClockReading
    /\ OldestFirst(chosen, Claimable(c, at))
    /\ fresh \in [chosen -> Token \ UsedTokens]
    /\ \A m, k \in chosen : fresh[m] = fresh[k] => m = k
    /\ inbox' = [m \in Id |->
           IF m \in chosen
             THEN [Swept(inbox[m], at) EXCEPT !.state = "claimed", !.owner = c,
                       !.token = fresh[m], !.until = at + LeaseSeconds]
             ELSE Swept(inbox[m], at)]
    /\ held' = [held EXCEPT ![c] = [m \in Id |->
                   IF m \in chosen THEN fresh[m] ELSE held[c][m]]]
    /\ UNCHANGED <<reply, asked, delivered, now>>

-----------------------------------------------------------------------------
(* The WHERE clause of renewClaim, acknowledge and settleInboxWithReply.   *)

ClaimValidByOwner(c, m, at) ==
    /\ inbox[m].state = "claimed" /\ inbox[m].owner = c
    /\ inbox[m].until > at

ClaimValidInAnyState(c, m, at) ==
    /\ inbox[m].token = held[c][m] /\ held[c][m] # None
    /\ inbox[m].until > at

ClaimValid(c, m, at) ==
    /\ inbox[m].state = "claimed" /\ inbox[m].owner = c
    /\ inbox[m].token = held[c][m] /\ held[c][m] # None
    /\ inbox[m].until > at

RenewClaim(c, m, at) ==
    /\ at \in ClockReading
    /\ ClaimValid(c, m, at)
    /\ inbox' = [inbox EXCEPT ![m].until = at + LeaseSeconds,
                              ![m].accepted = held[c][m]]
    /\ UNCHANGED <<held, reply, asked, delivered, now>>

(* acknowledge: a row already in the outcome is reported without a change. *)
(* A release makes the message available again.                            *)
Acknowledge(c, m, outcome, at) ==
    /\ at \in ClockReading
    /\ ClaimValid(c, m, at)
    /\ inbox' = [inbox EXCEPT ![m] =
           [Unclaimed(@, outcome) EXCEPT !.accepted = held[c][m]]]
    /\ UNCHANGED <<held, reply, asked, delivered, now>>

(* The reply a settlement ends with: the offered content if it is new or   *)
(* the same, otherwise the earlier result, unless that one is dead (the    *)
(* code throws DispatchResultUnavailableError) or no result at all.        *)
AuthoritativeOverwriting(m, k, offered) == {offered}

Authoritative(m, k, offered) ==
    IF reply[m][k].content \in {None, offered} THEN {offered}
    ELSE {r \in Content \ OtherKind :
             r = reply[m][k].content /\ reply[m][k].state # "dead"}

Published(m, k, content) ==
    IF reply[m][k].state = "absent"
      THEN [reply EXCEPT ![m][k] = [state |-> "live", content |-> content]]
      ELSE reply

SettleWithReply(c, m, outcome, k, offered, at) ==
    /\ at \in ClockReading
    /\ ClaimValid(c, m, at)
    /\ \E content \in Authoritative(m, k, offered) :
         /\ reply' = Published(m, k, content)
         /\ inbox' = [inbox EXCEPT ![m] =
                [Unclaimed(@, outcome) EXCEPT !.result = <<k, content>>,
                                              !.accepted = held[c][m]]]
    /\ UNCHANGED <<held, asked, delivered, now>>

-----------------------------------------------------------------------------
(* Temporary approvals end.  Authorizing, listing, deciding and revoking   *)
(* first expire those that have ended by their clock.                      *)
Ends == SUBSET {m \in Id : asked[m] = "approved_temporary"}

Expired(ended) == [m \in Id |-> IF m \in ended THEN "closed" ELSE asked[m]]

(* parkClaimForApproval, called by authorizeClaimedResourceAccess when it  *)
(* has made a request for the message or finds its own undecided: the      *)
(* message waits in quarantine for the operator.                           *)
Park(c, m, ended, at) ==
    /\ c \in Asks
    /\ at \in ClockReading
    /\ ClaimValid(c, m, at)
    /\ asked[m] \in {"none", "pending"}
    /\ asked' = [Expired(ended) EXCEPT ![m] = "pending"]
    /\ inbox' = [inbox EXCEPT ![m] =
           [Unclaimed(@, "quarantined") EXCEPT !.accepted = held[c][m]]]
    /\ UNCHANGED <<held, reply, delivered, now>>

(* authorizeClaimedResourceAccess spends a one-time approval.              *)
Consume(c, m, ended, at) ==
    /\ c \in Asks
    /\ at \in ClockReading
    /\ ClaimValid(c, m, at)
    /\ asked[m] = "approved_once"
    /\ asked' = [Expired(ended) EXCEPT ![m] = "closed"]
    /\ UNCHANGED <<inbox, held, reply, delivered, now>>

(* requeueAuthorizationRequest asks for the state quarantined only: it     *)
(* brings back a message for whatever reason it was quarantined, also one  *)
(* that was settled before.                                                *)
Requeued(m) ==
    IF inbox[m].state = "quarantined"
      THEN [inbox EXCEPT ![m] = Unclaimed(@, "available")]
      ELSE inbox

(* decideAuthorizationRequest and revokeAuthorizationRequest.              *)
Decide(m, decision, ended) ==
    /\ asked[m] = "pending"
    /\ asked' = [Expired(ended) EXCEPT ![m] = decision]
    /\ inbox' = Requeued(m)
    /\ UNCHANGED <<held, reply, delivered, now>>

Revoke(m, ended) ==
    /\ asked[m] \in {"approved_once", "approved_temporary"} /\ m \notin ended
    /\ asked' = [Expired(ended) EXCEPT ![m] = "closed"]
    /\ inbox' = Requeued(m)
    /\ UNCHANGED <<held, reply, delivered, now>>

(* The other outcomes of an authorization, the listing, and                *)
(* revokePeerResource, which closes the temporary approvals of a pair: no  *)
(* message is requeued.                                                    *)
TemporaryEnds(ended) ==
    /\ ended # {}
    /\ asked' = Expired(ended)
    /\ UNCHANGED <<inbox, held, reply, delivered, now>>

-----------------------------------------------------------------------------
(* reply of agent-bridge-service.ts: enqueued outside of any claim; under  *)
(* a used key it changes nothing.                                          *)
Reply(m, k, content) ==
    /\ inbox[m].state # "absent"
    /\ reply[m][k].state = "absent"
    /\ reply' = [reply EXCEPT ![m][k] = [state |-> "live", content |-> content]]
    /\ UNCHANGED <<inbox, held, asked, delivered, now>>

(* The outbound lane sends the reply, quarantines it or lets it expire.    *)
ReplyLeaves(m, k, outcome) ==
    /\ reply[m][k].state = "live"
    /\ reply' = [reply EXCEPT ![m][k].state = outcome]
    /\ UNCHANGED <<inbox, held, asked, delivered, now>>

(* A consumer crashes or loses its context: its claims wait for the lapse. *)
Forget(c) ==
    /\ held' = [held EXCEPT ![c] = [m \in Id |-> None]]
    /\ UNCHANGED <<inbox, reply, asked, delivered, now>>

Tick ==
    /\ now < MaxTime
    /\ now' = now + 1
    /\ UNCHANGED <<inbox, held, reply, asked, delivered>>

Init ==
    /\ inbox = [m \in Id |-> NoRow]
    /\ held = [c \in Consumer |-> [m \in Id |-> None]]
    /\ reply = [m \in Id |-> [k \in Key |-> NoReply]]
    /\ asked = [m \in Id |-> "none"]
    /\ delivered = {}
    /\ now = 0

ConsumerStep(c) ==
    \/ \E at \in ClockReading, chosen \in SUBSET Id :
           \E fresh \in [chosen -> Token \ UsedTokens] : Claim(c, chosen, fresh, at)
    \/ \E at \in ClockReading, m \in Id :
           \/ RenewClaim(c, m, at)
           \/ \E ended \in Ends : Park(c, m, ended, at) \/ Consume(c, m, ended, at)
           \/ \E outcome \in {"processed", "rejected", "available"} :
                  Acknowledge(c, m, outcome, at)
           \/ \E outcome \in Settled, k \in Key, offered \in Content \ OtherKind :
                  SettleWithReply(c, m, outcome, k, offered, at)
    \/ Forget(c)

Operator ==
    \E ended \in Ends :
        \/ \E m \in Id :
               \/ \E decision \in {"approved_once", "approved_temporary", "closed"} :
                      Decide(m, decision, ended)
               \/ Revoke(m, ended)
        \/ TemporaryEnds(ended)

Next ==
    \/ \E m \in Id, p \in Peer, v \in Version, life \in Lifetime : Persist(m, p, v, life)
    \/ \E c \in Consumer : ConsumerStep(c)
    \/ Operator
    \/ \E m \in Id, k \in Key :
           \/ \E content \in Content : Reply(m, k, content)
           \/ \E outcome \in {"sent", "dead"} : ReplyLeaves(m, k, outcome)
    \/ Tick

Spec == Init /\ [][Next]_vars

-----------------------------------------------------------------------------
(* Every variable holds a value of its kind.                               *)
TypeOK ==
    /\ inbox \in [Id -> Row]
    /\ held \in [Consumer -> [Id -> Token \cup {None}]]
    /\ reply \in [Id -> [Key -> ReplyRow]]
    /\ asked \in [Id -> RequestState]
    /\ delivered \subseteq Id \X Peer \X Version
    /\ now \in Nat

(* A claim has one holder: whoever still keeps the token of the current    *)
(* claim of a message is its owner, never a consumer of an earlier claim.  *)
ClaimHasOneHolder ==
    \A c \in Consumer, m, n \in Id :
        inbox[m].state = "claimed" /\ held[c][n] = inbox[m].token
            => c = inbox[m].owner /\ n = m

(* A renewal, a release, a settlement or a parking goes through only with  *)
(* the token of the current claim: a consumer that lost its claim while it *)
(* worked can do none of them for the one that has it now.                 *)
ClaimFencing ==
    [][\A m \in Id : inbox'[m].accepted # inbox[m].accepted =>
          inbox[m].state = "claimed" /\ inbox'[m].accepted = inbox[m].token]_vars

(* The result recorded with a settled message is in the outbox with just   *)
(* that content, whatever replies were enqueued before, so a repeated      *)
(* settlement never reports inconsistent result metadata.                  *)
ResultIsPublished ==
    \A m \in Id : \A k \in Key, content \in Content :
        inbox[m].result = <<k, content>> =>
            reply[m][k].state # "absent" /\ reply[m][k].content = content

(* A quarantined message waits for the operator's decision on its own      *)
(* request, or its origin sent another content under its identifier; no    *)
(* other peer can get it quarantined (persistIncoming).                    *)
QuarantineHasItsCause ==
    \A m \in Id : inbox[m].state = "quarantined" =>
        \/ asked[m] = "pending"
        \/ \E v \in Version \ {inbox[m].version} : <<m, inbox[m].origin, v>> \in delivered

(* A quarantined or expired prior result is not reused as a successful     *)
(* reply (docs/architecture.md, Delivery Semantics).                       *)
DeadResultNotReused ==
    [][\A m \in Id, k \in Key :
          reply[m][k].state = "dead" /\ inbox[m].state = "claimed"
                                     /\ inbox'[m].state = "processed"
              => inbox'[m].result # <<k, reply[m][k].content>>]_vars

-----------------------------------------------------------------------------
(* What the inbox promises, see FencedAnswer.                              *)
Status == [m \in Id |->
    CASE inbox[m].state = "absent" -> "unknown"
      [] inbox[m].state \in {"available", "claimed"} -> "open"
      [] inbox[m].state \in Settled -> "closed"
      [] OTHER -> "withheld"]

Permit == [m \in Id |->
    IF asked[m] \in {"approved_once", "approved_temporary"} THEN "approved" ELSE asked[m]]

Abstract == INSTANCE FencedAnswer WITH
    status <- Status,
    permit <- Permit,
    answer <- [m \in Id |-> inbox[m].result],
    published <- [m \in Id |-> [k \in Key |-> reply[m][k].content]]

(* However many consumers work on a request, the inbox closes it once and  *)
(* publishes its answer in the same step.  Only a request that its origin  *)
(* poisoned and whose standing approval the operator then revokes is open  *)
(* a second time, and no request a third time.                             *)
ImplementsFencedAnswer == Abstract!Spec
=============================================================================
