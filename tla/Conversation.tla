---------------------------- MODULE Conversation ----------------------------
(***************************************************************************)
(* Coordination conversations as the requesting node sees them:            *)
(* src/application/agent-bridge-service.ts (send, askAgent, continueAgent) *)
(* over enqueueEnvelopeRow and listConversation of                         *)
(* src/storage/database.ts.                                                *)
(*                                                                         *)
(* A client is an MCP server process; several share one database.  A call  *)
(* reads the thread first and commits its turn later, in a transaction of  *)
(* its own, so other clients may commit in between.  Turns are named by    *)
(* the idempotency key of the request: (target, key) is unique in the      *)
(* outbox, and the peer publishes one result for each request.             *)
(***************************************************************************)
EXTENDS Integers, FiniteSets, FiniteSetsExt

CONSTANTS Client, Key, Conv, Project, Content, None

ASSUME ConversationAssumption ==
    /\ None \notin Key \cup Conv \cup Project \cup Content

VARIABLES
    request,  \* request[k]: the turn in the outbox under key k
    result,   \* result[k]: its result in the inbox
    call      \* call[c]: the call client c is in, or its last one if refused

vars == <<request, result, call>>

(* The root of a conversation has no cause; a follow-up is caused by the   *)
(* result of an earlier turn, named by that turn's key.                    *)
Turn == [conv : Conv, seq : Nat, cause : Key \cup {None}, project : Project,
         content : Content]

NoTurn == [conv |-> None, seq |-> 0, cause |-> None, project |-> None, content |-> None]

Answer == [state : {"absent", "available", "claimed", "processed", "rejected", "quarantined"},
           completed : BOOLEAN]

NoAnswer == [state |-> "absent", completed |-> FALSE]

(* pinned: the caller gave the conversation, so a retry has to match it.   *)
Idle == [phase |-> "idle", key |-> None, turn |-> NoTurn, pinned |-> FALSE]

Exists(k) == request[k] # NoTurn

Turns(c) == {k \in Key : request[k].conv = c}

Results(c) == {k \in Turns(c) : result[k].state # "absent"}

(* The sequence numbers of the messages of a thread.                       *)
Sequences(c) ==
    {request[k].seq : k \in Turns(c)} \cup {request[k].seq + 1 : k \in Results(c)}

(* listConversation sorts by sequence number, then by creation time: of    *)
(* two messages with the last number either may be the later one.          *)
MayBeLatestAlways(c, k) == k \in Results(c)

MayBeLatest(c, k) == k \in Results(c) /\ Max(Sequences(c)) = request[k].seq + 1

MustBeLatest(c, k) ==
    /\ MayBeLatest(c, k)
    /\ \A j \in Results(c) \ {k} : request[j].seq # request[k].seq
    /\ \A j \in Turns(c) : request[j].seq # request[k].seq + 1

(* A call ends, or goes on to its transaction.                             *)
Enter(c, k, turn, pinned, phase) ==
    call' = [call EXCEPT ![c] =
                [phase |-> phase, key |-> k, turn |-> turn, pinned |-> pinned]]

-----------------------------------------------------------------------------
(* askAgent, up to send: an unpinned call gets a conversation of its own.  *)
AskAgent(c, k, conv, project, content, pinned) ==
    /\ call[c].phase # "sending"
    /\ pinned \/ (Turns(conv) = {} /\ \A d \in Client : call[d].turn.conv # conv)
    /\ LET root  == [conv |-> conv, seq |-> 0, cause |-> None, project |-> project,
                     content |-> content]
           clash == pinned /\ IF Exists(k) THEN request[k].conv # conv
                                           ELSE Turns(conv) # {}
       IN  Enter(c, k, root, pinned, IF clash THEN "refused" ELSE "sending")
    /\ UNCHANGED <<request, result>>

(* The checks of continueAgent on the result it continues from.            *)
KnownUnchecked(prev) == TRUE

Known(prev) == result[prev].state # "absent"

Continuable(prev) == result[prev].state \in {"available", "processed"} /\ result[prev].completed

OneProjectIn(prev) ==
    \A k \in Turns(request[prev].conv) : request[k].project = request[prev].project

(* continueAgent, up to send: a retry keeps the number of its turn, a new  *)
(* turn must come from the latest message and gets the next number.        *)
NextSequence(k, prev) ==
    IF Exists(k) THEN request[k].seq ELSE Max(Sequences(request[prev].conv)) + 1

ContinueAgent(c, k, prev, content) ==
    /\ call[c].phase # "sending"
    /\ Known(prev)
    /\ LET conv == request[prev].conv
           turn == [conv |-> conv, seq |-> NextSequence(k, prev), cause |-> prev,
                    project |-> request[prev].project, content |-> content]
       IN  \/ /\ Continuable(prev) /\ OneProjectIn(prev)
              /\ Exists(k) \/ MayBeLatest(conv, prev)
              /\ Enter(c, k, turn, TRUE, "sending")
           \/ /\ ~(/\ Continuable(prev) /\ OneProjectIn(prev)
                   /\ Exists(k) \/ MustBeLatest(conv, prev))
              /\ Enter(c, k, turn, TRUE, "refused")
    /\ UNCHANGED <<request, result>>

-----------------------------------------------------------------------------
(* enqueueEnvelope: one transaction, with the check for another root.      *)
OtherRootIgnored(k, turn) == FALSE

OtherRoot(k, turn) ==
    turn.cause = None /\ \E r \in Turns(turn.conv) \ {k} : request[r].cause = None

(* sameIdempotentOperation, with matchConversationId for a pinned call.    *)
SameOperation(k, turn, pinned) ==
    /\ request[k].seq = turn.seq /\ request[k].cause = turn.cause
    /\ request[k].project = turn.project /\ request[k].content = turn.content
    /\ pinned => request[k].conv = turn.conv

Send(c) ==
    LET k == call[c].key
        turn == call[c].turn
        accepted == /\ ~OtherRoot(k, turn)
                    /\ Exists(k) => SameOperation(k, turn, call[c].pinned)
    IN  /\ call[c].phase = "sending"
        /\ call' = [call EXCEPT ![c] =
               IF accepted THEN Idle ELSE [@ EXCEPT !.phase = "refused"]]
        /\ request' = IF accepted /\ ~Exists(k) THEN [request EXCEPT ![k] = turn] ELSE request
        /\ UNCHANGED result

-----------------------------------------------------------------------------
(* The inbox: the result of a turn arrives, is read and acknowledged by a  *)
(* consumer, or is quarantined by a collision.                             *)

ResultArrives(k, completed) ==
    /\ Exists(k) /\ result[k].state = "absent"
    /\ result' = [result EXCEPT ![k] = [state |-> "available", completed |-> completed]]
    /\ UNCHANGED <<request, call>>

ResultMoves(k, from, to) ==
    /\ result[k].state = from
    /\ <<from, to>> \in {<<"available", "claimed">>, <<"claimed", "available">>,
                         <<"claimed", "processed">>, <<"claimed", "rejected">>}
                    \cup {<<s, "quarantined">> : s \in {"available", "claimed", "processed",
                                                        "rejected"}}
    /\ result' = [result EXCEPT ![k].state = to]
    /\ UNCHANGED <<request, call>>

Init ==
    /\ request = [k \in Key |-> NoTurn]
    /\ result = [k \in Key |-> NoAnswer]
    /\ call = [c \in Client |-> Idle]

Next ==
    \/ \E c \in Client :
           \/ \E k \in Key, conv \in Conv, project \in Project, content \in Content,
                 pinned \in BOOLEAN : AskAgent(c, k, conv, project, content, pinned)
           \/ \E k, prev \in Key, content \in Content : ContinueAgent(c, k, prev, content)
           \/ Send(c)
    \/ \E k \in Key :
           \/ \E completed \in BOOLEAN : ResultArrives(k, completed)
           \/ \E from, to \in {"available", "claimed", "processed", "rejected",
                               "quarantined"} : ResultMoves(k, from, to)

Spec == Init /\ [][Next]_vars

-----------------------------------------------------------------------------
(* Every variable holds a value of its kind.                               *)
TypeOK ==
    /\ request \in [Key -> Turn \cup {NoTurn}]
    /\ result \in [Key -> Answer]
    /\ call \in [Client -> [phase : {"idle", "sending", "refused"},
                            key : Key \cup {None}, turn : Turn \cup {NoTurn},
                            pinned : BOOLEAN]]

(* However many clients ask at once, a conversation has one root request   *)
(* and stays on its project.                                               *)
OneRootAndProject ==
    \A j, k \in Key : Exists(j) /\ Exists(k) /\ request[j].conv = request[k].conv =>
        /\ request[j].cause = None /\ request[k].cause = None => j = k
        /\ request[j].project = request[k].project

(* Every follow-up is caused by a completed result of its conversation and *)
(* is numbered right after it, however stale the thread was that it read.  *)
FollowUpsFollow ==
    \A k \in Key : Exists(k) /\ request[k].cause # None =>
        LET prev == request[k].cause
        IN  /\ result[prev].completed
            /\ request[prev].conv = request[k].conv
            /\ request[k].seq = request[prev].seq + 2

(* Parallel or stale continuations fail closed: two turns of a             *)
(* conversation never have the same number, so the thread is one chain of  *)
(* requests and results (docs/architecture.md, Peer coordination).         *)
OneChain ==
    \A j, k \in Key :
        Exists(j) /\ Exists(k) /\ request[j].conv = request[k].conv
                  /\ request[j].seq = request[k].seq => j = k
=============================================================================
