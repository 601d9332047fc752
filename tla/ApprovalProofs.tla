---------------------------- MODULE ApprovalProofs ----------------------------
(* Theorems about Approval, for every value of its constants.              *)
EXTENDS Approval, TLAPS

-----------------------------------------------------------------------------
(* The inductive invariant.                                                *)

CausedAreQuarantined ==
    \A m \in Message : row[m].cause # "none" => row[m].state = "quarantined"

ApprovalInv ==
    /\ TypeOK /\ CausedAreQuarantined
    /\ ParkedIsPending /\ OneRequestPerOperation

-----------------------------------------------------------------------------
(* Type correctness.                                                       *)

LEMMA RowKinds ==
    /\ \A s \in {"absent", "available", "processed", "rejected", "claimed", "quarantined"} :
           [NoRow EXCEPT !.state = s] \in Row
    /\ [NoRow EXCEPT !.state = "quarantined", !.cause = "approval"] \in Row
    /\ \A c \in Consumer :
           [state |-> "claimed", owner |-> c, live |-> TRUE, cause |-> "none"] \in Row
    /\ \A r \in Row :
           /\ Swept(r) \in Row
           /\ [r EXCEPT !.state = "available"] \in Row
           /\ [r EXCEPT !.live = FALSE] \in Row
           /\ [r EXCEPT !.state = "quarantined", !.cause = "collision"] \in Row
  <1>1. NoRow \in Row
    BY DEF NoRow, Row
  <1>2. \A s \in {"absent", "available", "processed", "rejected", "claimed", "quarantined"} :
            [NoRow EXCEPT !.state = s] \in Row
    BY DEF NoRow, Row
  <1>3. [NoRow EXCEPT !.state = "quarantined", !.cause = "approval"] \in Row
    BY DEF NoRow, Row
  <1>4. \A c \in Consumer :
            [state |-> "claimed", owner |-> c, live |-> TRUE, cause |-> "none"] \in Row
    BY DEF Row
  <1>5. ASSUME NEW r \in Row
        PROVE  /\ [r EXCEPT !.state = "available"] \in Row
               /\ [r EXCEPT !.live = FALSE] \in Row
               /\ [r EXCEPT !.state = "quarantined", !.cause = "collision"] \in Row
    BY DEF Row
  <1>6. \A r \in Row : Swept(r) \in Row
    BY <1>2 DEF Swept
  <1>7. QED BY <1>2, <1>3, <1>4, <1>5, <1>6

LEMMA ExpiredType ==
    ASSUME TypeOK, NEW ended \in Ends
    PROVE  /\ Expired(ended) \in [Message -> RequestState]
           /\ \A m \in Message :
                 \/ Expired(ended)[m] = request[m]
                 \/ request[m] = "approved_temporary" /\ Expired(ended)[m] = "expired"
  BY DEF TypeOK, Ends, Expired, RequestState

LEMMA RequeuedType ==
    ASSUME TypeOK, NEW m \in Message
    PROVE  Requeued(m) \in [Message -> Row]
  BY RowKinds DEF TypeOK, Requeued

LEMMA WorkKinds ==
    ASSUME TypeOK, NEW c \in Consumer
    PROVE  /\ Idle \in Work /\ Idle.msg = None /\ Idle.phase = "idle"
           /\ \A m \in Message : [msg |-> m, phase |-> "claimed"] \in Work
           /\ \A answer \in {"refused", "authorized"} :
                 [work[c] EXCEPT !.phase = answer] \in Work
           /\ work[c] # Idle => work[c].msg \in Message
           /\ work[c].phase # "idle" => work[c].msg \in Message
  <1>1. work[c] \in Work
    BY DEF TypeOK
  <1>2. work[c].phase = "idle" => work[c] = Idle
    BY <1>1 DEF TypeOK, Work, Idle
  <1>3. QED BY <1>1, <1>2 DEF TypeOK, Work, Idle

LEMMA OperatorType ==
    ASSUME TypeOK, Operator
    PROVE  TypeOK'
  <1>1. CASE \E r \in Resource :
                 \/ RegisterResource(r)
                 \/ \E setting \in {"enabled", "disabled"} : SetResourceEnabled(r, setting)
    BY <1>1 DEF TypeOK, RegisterResource, SetResourceEnabled
  <1>2. CASE \E pair \in Pair : GrantPeerResource(pair)
    BY <1>2 DEF TypeOK, GrantPeerResource
  <1>3. CASE \E pair \in Pair : RevokePeerResource(pair)
    BY <1>3 DEF TypeOK, RevokePeerResource, RequestState
  <1>4. CASE \E ended \in Ends : Inspect(ended)
    BY <1>4, ExpiredType DEF TypeOK, Inspect
  <1>5. CASE \E ended \in Ends, m \in Message : Revoke(m, ended)
    BY <1>5, ExpiredType, RequeuedType DEF TypeOK, Revoke, RequestState
  <1>6. CASE \E ended \in Ends, m \in Message,
                decision \in {"approved_once", "approved_temporary", "denied"} :
                 Decide(m, decision, ended)
    BY <1>6, ExpiredType, RequeuedType DEF TypeOK, Decide, RequestState
  <1>7. QED BY <1>1, <1>2, <1>3, <1>4, <1>5, <1>6 DEF Operator

LEMMA AnswerType ==
    ASSUME TypeOK, NEW c \in Consumer, work[c].phase = "claimed",
           NEW answer \in {"refused", "authorized"}, Answered(c, answer)
    PROVE  /\ work' \in [Consumer -> Work]
           /\ \A k \in Consumer : work'[k].msg = None <=> work'[k].phase = "idle"
  <1>1. work' = [work EXCEPT ![c] = [work[c] EXCEPT !.phase = answer]]
    BY DEF Answered, TypeOK, Work
  <1>2. [work[c] EXCEPT !.phase = answer].phase = answer
        /\ [work[c] EXCEPT !.phase = answer].msg = work[c].msg
    BY DEF TypeOK, Work
  <1>3. QED BY <1>1, <1>2, WorkKinds DEF TypeOK

(* What an authorization leaves behind, whichever way it ends.             *)
LEMMA AuthorizeEffect ==
    ASSUME TypeOK, NEW c \in Consumer, NEW ended \in Ends, Authorize(c, ended)
    PROVE  LET m == work[c].msg
               requests == Expired(ended)
           IN /\ m \in Message /\ ClaimValid(c, m) /\ work[c].phase = "claimed"
              /\ UNCHANGED <<resource, grant, run>>
              /\ \/ /\ request' = requests /\ row' = row /\ Answered(c, "refused")
                 \/ /\ request' = requests /\ row' = row /\ Answered(c, "authorized")
                    /\ Known(m)
                    /\ \/ Standing(PairOf[OperationOf[m]]) \/ UnderTemporary(m, requests)
                       \/ RequestFor(m) = {m} /\ requests[m] = "consumed" /\ m \in run
                 \/ /\ Known(m) /\ RequestFor(m) = {m} /\ requests[m] = "approved_once"
                    /\ request' = [requests EXCEPT ![m] = "consumed"]
                    /\ row' = row /\ Answered(c, "authorized")
                 \/ /\ Known(m) /\ RequestFor(m) = {}
                    /\ request' = [requests EXCEPT ![m] = "pending"] /\ Park(c, m)
                 \/ /\ requests[m] = "pending" /\ request' = requests /\ Park(c, m)
  <1> DEFINE m == work[c].msg
             requests == Expired(ended)
  <1>1. m \in Message /\ ClaimValid(c, m) /\ work[c].phase = "claimed"
        /\ UNCHANGED <<resource, grant, run>>
    BY WorkKinds DEF Authorize
  <1>2. \/ WithoutRequest(c, m, requests)
        \/ /\ Known(m)
           /\ \/ AskOperator(c, m, requests)
              \/ Duplicate(c, m, requests)
              \/ UseRequest(c, m, requests)
    BY DEF Authorize
  <1> HIDE DEF m, requests
  <1>3. CASE WithoutRequest(c, m, requests)
    BY <1>1, <1>3 DEF WithoutRequest, m, requests
  <1>4. CASE Known(m) /\ AskOperator(c, m, requests)
    BY <1>1, <1>4 DEF AskOperator, m, requests
  <1>5. CASE Known(m) /\ Duplicate(c, m, requests)
    BY <1>1, <1>5 DEF Duplicate, m, requests
  <1>6. CASE Known(m) /\ UseRequest(c, m, requests)
    BY <1>1, <1>6 DEF UseRequest, m, requests
  <1>7. QED BY <1>2, <1>3, <1>4, <1>5, <1>6

LEMMA AuthorizeType ==
    ASSUME TypeOK, NEW c \in Consumer, NEW ended \in Ends, Authorize(c, ended)
    PROVE  TypeOK'
  <1> DEFINE m == work[c].msg
             requests == Expired(ended)
  <1>1. m \in Message /\ work[c].phase = "claimed" /\ UNCHANGED <<resource, grant, run>>
    BY AuthorizeEffect
  <1>2. requests \in [Message -> RequestState]
    BY ExpiredType
  <1>3. /\ request' \in {requests, [requests EXCEPT ![m] = "consumed"],
                                   [requests EXCEPT ![m] = "pending"]}
        /\ \/ row' = row /\ \E answer \in {"refused", "authorized"} : Answered(c, answer)
           \/ Park(c, m)
    BY AuthorizeEffect
  <1> HIDE DEF m, requests
  <1>4. request' \in [Message -> RequestState]
    BY <1>1, <1>2, <1>3 DEF RequestState
  <1>5. CASE row' = row /\ \E answer \in {"refused", "authorized"} : Answered(c, answer)
    BY <1>1, <1>4, <1>5, AnswerType DEF TypeOK
  <1>6. CASE Park(c, m)
    BY <1>1, <1>4, <1>6, RowKinds, WorkKinds DEF TypeOK, Park
  <1>7. QED BY <1>3, <1>5, <1>6

LEMMA ConsumerType ==
    ASSUME TypeOK, NEW c \in Consumer, ConsumerStep(c)
    PROVE  TypeOK'
  <1>1. CASE \E m \in Message : Claim(c, m)
    <2>1. PICK m \in Message : Claim(c, m)
      BY <1>1
    <2>2. work' \in [Consumer -> Work]
      BY <2>1, WorkKinds DEF TypeOK, Claim
    <2>3. \A k \in Message : row[k] \in Row /\ Swept(row[k]) \in Row
      BY RowKinds DEF TypeOK
    <2>4. row' \in [Message -> Row]
      BY <2>1, <2>3, RowKinds DEF Claim
    <2>5. \A k \in Consumer : work'[k].msg = None <=> work'[k].phase = "idle"
      BY <2>1, ApprovalAssumption DEF TypeOK, Claim
    <2>6. QED BY <2>1, <2>2, <2>4, <2>5 DEF TypeOK, Claim
  <1>2. CASE \E ended \in Ends : Authorize(c, ended)
    BY <1>2, AuthorizeType
  <1>3. CASE \E outcome \in {"processed", "rejected", "available"} : Settle(c, outcome)
    <2>1. PICK outcome \in {"processed", "rejected", "available"} : Settle(c, outcome)
      BY <1>3
    <2>2. [NoRow EXCEPT !.state = outcome] \in Row
      BY RowKinds
    <2>3. row' \in [Message -> Row]
      BY <2>1, <2>2, WorkKinds DEF TypeOK, Settle
    <2>4. work' \in [Consumer -> Work]
          /\ \A k \in Consumer : work'[k].msg = None <=> work'[k].phase = "idle"
      BY <2>1, WorkKinds DEF TypeOK, Settle
    <2>5. QED BY <2>1, <2>3, <2>4 DEF TypeOK, Settle
  <1>4. CASE EnsureRun(c)
    BY <1>4, WorkKinds DEF TypeOK, EnsureRun
  <1>5. CASE Abandon(c)
    BY <1>5, WorkKinds DEF TypeOK, Abandon
  <1>6. QED BY <1>1, <1>2, <1>3, <1>4, <1>5 DEF ConsumerStep

LEMMA MessageType ==
    ASSUME TypeOK, NEW m \in Message, Persist(m) \/ Collide(m) \/ ClaimLapses(m)
    PROVE  TypeOK'
  <1>1. \/ row' = [row EXCEPT ![m] = [row[m] EXCEPT !.state = "available"]]
        \/ row' = [row EXCEPT ![m] = [row[m] EXCEPT !.state = "quarantined",
                                                    !.cause = "collision"]]
        \/ row' = [row EXCEPT ![m] = [row[m] EXCEPT !.live = FALSE]]
    BY DEF Persist, Collide, ClaimLapses, TypeOK, Row
  <1>2. /\ row[m] \in Row /\ [row[m] EXCEPT !.state = "available"] \in Row
        /\ [row[m] EXCEPT !.state = "quarantined", !.cause = "collision"] \in Row
        /\ [row[m] EXCEPT !.live = FALSE] \in Row
    BY DEF TypeOK, Row
  <1>3. row' \in [Message -> Row]
    BY <1>1, <1>2 DEF TypeOK
  <1>4. QED BY <1>3 DEF TypeOK, Persist, Collide, ClaimLapses

LEMMA TypeStep == TypeOK /\ [Next]_vars => TypeOK'
  <1> SUFFICES ASSUME TypeOK, [Next]_vars PROVE TypeOK'
    OBVIOUS
  <1>1. CASE UNCHANGED vars
    BY <1>1 DEF vars, TypeOK
  <1>2. CASE Next
    BY <1>2, OperatorType, ConsumerType, MessageType DEF Next
  <1>3. QED BY <1>1, <1>2

LEMMA InitType == Init => TypeOK
  <1>1. NoRow \in Row
    BY DEF NoRow, Row
  <1>2. Idle \in Work /\ Idle.msg = None /\ Idle.phase = "idle"
    BY DEF Idle, Work
  <1>3. QED BY <1>1, <1>2 DEF Init, TypeOK, RequestState

(* Every variable of the approval workflow keeps its kind, and a consumer  *)
(* without work holds no message.                                          *)
THEOREM ApprovalTypeCorrect == Spec => []TypeOK
  BY InitType, TypeStep, PTL DEF Spec

-----------------------------------------------------------------------------
(* The inductive invariant, one operation at a time.                       *)

LEMMA SweptFields ==
    ASSUME NEW r \in Row
    PROVE  \/ Swept(r) = r
           \/ /\ r.state = "claimed"
              /\ Swept(r).state = "available" /\ Swept(r).cause = "none"
  BY DEF Swept, NoRow, Row

LEMMA RequeuedFields ==
    ASSUME TypeOK, NEW m \in Message, NEW k \in Message
    PROVE  \/ Requeued(m)[k] = row[k] /\ (k = m => row[m].state # "quarantined")
           \/ /\ k = m /\ row[m].state = "quarantined"
              /\ Requeued(m)[k].state = "available" /\ Requeued(m)[k].cause = "none"
  BY DEF TypeOK, Requeued, NoRow, Row

(* A decision or a revocation of a request that is pending or approved.    *)
LEMMA DecisionInv ==
    ASSUME ApprovalInv, TypeOK', NEW m \in Message, NEW ended \in Ends, NEW next,
           next \notin {"absent", "pending"}, request[m] # "absent",
           request' = [Expired(ended) EXCEPT ![m] = next], row' = Requeued(m)
    PROVE  ApprovalInv'
  <1>1. \A k \in Message :
            /\ request'[k] = "pending" => k # m /\ request[k] = "pending"
            /\ k # m /\ request[k] = "pending" => request'[k] = "pending"
            /\ request'[k] # "absent" => request[k] # "absent"
    BY ExpiredType DEF ApprovalInv, TypeOK
  <1>2. \A k \in Message : k # m => row'[k] = row[k]
    BY RequeuedFields DEF ApprovalInv
  <1>3. row'[m].cause = "none"
    BY RequeuedFields DEF ApprovalInv, CausedAreQuarantined
  <1>4. ParkedIsPending'
    BY <1>1, <1>2, <1>3 DEF ApprovalInv, ParkedIsPending
  <1>5. CausedAreQuarantined'
    BY <1>2, <1>3 DEF ApprovalInv, CausedAreQuarantined
  <1>6. OneRequestPerOperation'
    BY <1>1 DEF ApprovalInv, OneRequestPerOperation
  <1>7. QED BY <1>4, <1>5, <1>6 DEF ApprovalInv

(* Steps that only close temporary approvals, and leave the rows alone.    *)
LEMMA ClosingInv ==
    ASSUME ApprovalInv, TypeOK', row' = row,
           \A k \in Message : \/ request'[k] = request[k]
                              \/ /\ request[k] \notin {"absent", "pending"}
                                 /\ request'[k] \notin {"absent", "pending"}
    PROVE  ApprovalInv'
  BY DEF ApprovalInv, CausedAreQuarantined, ParkedIsPending, OneRequestPerOperation

(* Steps of the inbox, which leave the requests alone.                     *)
LEMMA InboxInv ==
    ASSUME ApprovalInv, TypeOK', request' = request,
           \A k \in Message :
               \/ row'[k].state = row[k].state /\ row'[k].cause = row[k].cause
               \/ row'[k].state = "quarantined" /\ row'[k].cause = "collision"
               \/ row[k].state # "quarantined" /\ row'[k].cause = "none"
    PROVE  ApprovalInv'
  BY DEF ApprovalInv, CausedAreQuarantined, ParkedIsPending, OneRequestPerOperation

LEMMA OperatorInv ==
    ASSUME ApprovalInv, TypeOK', Operator
    PROVE  ApprovalInv'
  <1>1. CASE \E r \in Resource :
                 \/ RegisterResource(r)
                 \/ \E setting \in {"enabled", "disabled"} : SetResourceEnabled(r, setting)
    BY <1>1, ClosingInv DEF RegisterResource, SetResourceEnabled
  <1>2. CASE \E pair \in Pair : GrantPeerResource(pair)
    BY <1>2, ClosingInv DEF GrantPeerResource
  <1>3. CASE \E pair \in Pair : RevokePeerResource(pair)
    BY <1>3, ClosingInv DEF RevokePeerResource
  <1>4. CASE \E ended \in Ends : Inspect(ended)
    BY <1>4, ClosingInv, ExpiredType DEF Inspect, ApprovalInv
  <1>5. CASE \E ended \in Ends, m \in Message : Revoke(m, ended)
    <2>1. PICK ended \in Ends, m \in Message : Revoke(m, ended)
      BY <1>5
    <2>2. /\ request[m] # "absent" /\ row' = Requeued(m)
          /\ request' = [Expired(ended) EXCEPT ![m] = "revoked"]
      BY <2>1 DEF Revoke
    <2> DEFINE next == "revoked"
    <2>3. next \notin {"absent", "pending"}
      OBVIOUS
    <2>4. request' = [Expired(ended) EXCEPT ![m] = next]
      BY <2>2
    <2> HIDE DEF next
    <2>5. QED BY <2>2, <2>3, <2>4, DecisionInv
  <1>6. CASE \E ended \in Ends, m \in Message,
                decision \in {"approved_once", "approved_temporary", "denied"} :
                 Decide(m, decision, ended)
    BY <1>6, DecisionInv DEF Decide
  <1>7. QED BY <1>1, <1>2, <1>3, <1>4, <1>5, <1>6 DEF Operator

LEMMA ParkFields ==
    ASSUME TypeOK, NEW c, NEW m \in Message, Park(c, m)
    PROVE  /\ row'[m].state = "quarantined" /\ row'[m].cause = "approval"
           /\ \A k \in Message : k # m => row'[k] = row[k]
  BY DEF TypeOK, Park, NoRow

LEMMA AuthorizeInv ==
    ASSUME ApprovalInv, TypeOK', NEW c \in Consumer, NEW ended \in Ends,
           Authorize(c, ended)
    PROVE  ApprovalInv'
  <1> DEFINE m == work[c].msg
             requests == Expired(ended)
  <1>1. m \in Message /\ row[m].state = "claimed"
    BY AuthorizeEffect DEF ApprovalInv, ClaimValid
  <1>2. request[m] # "pending"
    BY <1>1 DEF ApprovalInv, ParkedIsPending
  <1>3. /\ requests \in [Message -> RequestState]
        /\ \A k \in Message :
              \/ requests[k] = request[k]
              \/ request[k] = "approved_temporary" /\ requests[k] = "expired"
    BY ExpiredType DEF ApprovalInv
  <1>4. \/ request' = requests /\ row' = row
        \/ /\ requests[m] = "approved_once"
           /\ request' = [requests EXCEPT ![m] = "consumed"] /\ row' = row
        \/ /\ RequestFor(m) = {}
           /\ request' = [requests EXCEPT ![m] = "pending"] /\ Park(c, m)
        \/ requests[m] = "pending" /\ request' = requests /\ Park(c, m)
    BY AuthorizeEffect DEF ApprovalInv
  <1> HIDE DEF m, requests
  <1>5. CASE request' = requests /\ row' = row
    BY <1>3, <1>5, ClosingInv
  <1>6. CASE /\ requests[m] = "approved_once"
             /\ request' = [requests EXCEPT ![m] = "consumed"] /\ row' = row
    BY <1>1, <1>3, <1>6, ClosingInv
  <1>7. CASE /\ RequestFor(m) = {}
             /\ request' = [requests EXCEPT ![m] = "pending"] /\ Park(c, m)
    <2>1. \A k \in Message : OperationOf[k] = OperationOf[m] => request[k] = "absent"
      BY <1>1, <1>7 DEF RequestFor, Asked
    <2>2. request'[m] = "pending" /\ \A k \in Message : k # m => request'[k] = requests[k]
      BY <1>1, <1>3, <1>7
    <2>3. OneRequestPerOperation'
      BY <1>1, <1>3, <2>1, <2>2 DEF ApprovalInv, OneRequestPerOperation
    <2>4. /\ row'[m].state = "quarantined" /\ row'[m].cause = "approval"
          /\ \A k \in Message : k # m => row'[k] = row[k]
      BY <1>1, <1>7, ParkFields DEF ApprovalInv
    <2>5. ParkedIsPending' /\ CausedAreQuarantined'
      BY <1>3, <2>2, <2>4 DEF ApprovalInv, ParkedIsPending, CausedAreQuarantined
    <2>6. QED BY <2>3, <2>5 DEF ApprovalInv
  <1>8. CASE requests[m] = "pending"
    BY <1>1, <1>2, <1>3, <1>8
  <1>9. QED BY <1>4, <1>5, <1>6, <1>7, <1>8

LEMMA ConsumerInv ==
    ASSUME ApprovalInv, TypeOK', NEW c \in Consumer, ConsumerStep(c)
    PROVE  ApprovalInv'
  <1>1. CASE \E m \in Message : Claim(c, m)
    <2>1. PICK m \in Message : Claim(c, m)
      BY <1>1
    <2>2. \A k \in Message : row[k] \in Row
      BY DEF ApprovalInv, TypeOK
    <2>3. row[m].state # "quarantined" /\ row'[m].cause = "none"
      BY <2>1, <2>2, SweptFields DEF Claim
    <2>4. \A k \in Message : k # m => row'[k] = Swept(row[k])
      BY <2>1 DEF Claim
    <2>5. QED BY <2>1, <2>2, <2>3, <2>4, SweptFields, InboxInv DEF Claim
  <1>2. CASE \E ended \in Ends : Authorize(c, ended)
    BY <1>2, AuthorizeInv
  <1>3. CASE \E outcome \in {"processed", "rejected", "available"} : Settle(c, outcome)
    <2>1. PICK outcome \in {"processed", "rejected", "available"} : Settle(c, outcome)
      BY <1>3
    <2>2. work[c].msg \in Message /\ row[work[c].msg].state = "claimed"
      BY <2>1, WorkKinds DEF ApprovalInv, Settle, ClaimValid
    <2>3. row'[work[c].msg].cause = "none"
          /\ \A k \in Message : k # work[c].msg => row'[k] = row[k]
      BY <2>1, <2>2 DEF ApprovalInv, TypeOK, Settle, NoRow
    <2>4. QED BY <2>1, <2>2, <2>3, InboxInv DEF Settle
  <1>4. CASE EnsureRun(c)
    BY <1>4, InboxInv DEF EnsureRun
  <1>5. CASE Abandon(c)
    BY <1>5, InboxInv DEF Abandon
  <1>6. QED BY <1>1, <1>2, <1>3, <1>4, <1>5 DEF ConsumerStep

LEMMA MessageInv ==
    ASSUME ApprovalInv, TypeOK', NEW m \in Message,
           Persist(m) \/ Collide(m) \/ ClaimLapses(m)
    PROVE  ApprovalInv'
  <1>1. row[m] \in Row /\ \A k \in Message : k # m => row'[k] = row[k]
    BY DEF ApprovalInv, TypeOK, Persist, Collide, ClaimLapses
  <1>2. \/ row'[m].state = row[m].state /\ row'[m].cause = row[m].cause
        \/ row'[m].state = "quarantined" /\ row'[m].cause = "collision"
        \/ row[m].state = "absent" /\ row'[m].cause = row[m].cause
    BY <1>1 DEF ApprovalInv, TypeOK, Persist, Collide, ClaimLapses, Row
  <1>3. row[m].state = "absent" => row[m].cause = "none"
    BY DEF ApprovalInv, CausedAreQuarantined
  <1>4. request' = request
    BY DEF Persist, Collide, ClaimLapses
  <1>5. QED BY <1>1, <1>2, <1>3, <1>4, InboxInv

LEMMA ApprovalInvHolds == Spec => []ApprovalInv
  <1>1. Init => ApprovalInv
    BY InitType DEF Init, ApprovalInv, NoRow, CausedAreQuarantined, ParkedIsPending,
                    OneRequestPerOperation
  <1>2. ApprovalInv /\ [Next]_vars => ApprovalInv'
    <2> SUFFICES ASSUME ApprovalInv, [Next]_vars PROVE ApprovalInv'
      OBVIOUS
    <2>1. TypeOK'
      BY TypeStep DEF ApprovalInv
    <2>2. CASE UNCHANGED vars
      BY <2>1, <2>2, InboxInv DEF vars
    <2>3. CASE Next
      BY <2>1, <2>3, OperatorInv, ConsumerInv, MessageInv DEF Next
    <2>4. QED BY <2>2, <2>3
  <1>3. QED BY <1>1, <1>2, PTL DEF Spec

(* No undecided message can be claimed by anyone, and none stays parked    *)
(* once its request is decided: whatever the operator, the consumers and   *)
(* colliding deliveries do in between.                                     *)
THEOREM ParkedArePending == Spec => []ParkedIsPending
  BY ApprovalInvHolds, PTL DEF ApprovalInv

(* However often an operation is repeated, one request is kept for it.     *)
THEOREM OperatorIsAskedOnce == Spec => []OneRequestPerOperation
  BY ApprovalInvHolds, PTL DEF ApprovalInv

-----------------------------------------------------------------------------
(* Collisions.                                                             *)

LEMMA OperatorReleases ==
    ASSUME ApprovalInv, Operator, NEW m \in Message, row'[m] # row[m]
    PROVE  /\ request[m] \in {"pending", "approved_once", "approved_temporary"}
           /\ request'[m] # request[m]
  <1>1. CASE \E ended \in Ends, k \in Message : Revoke(k, ended)
    <2>1. PICK ended \in Ends, k \in Message : Revoke(k, ended)
      BY <1>1
    <2>2. k = m
      BY <2>1, RequeuedFields DEF Revoke, ApprovalInv
    <2>3. request'[m] = "revoked"
      BY <2>1, <2>2, ExpiredType DEF Revoke, ApprovalInv
    <2>4. QED BY <2>1, <2>2, <2>3 DEF Revoke
  <1>2. CASE \E ended \in Ends, k \in Message,
                decision \in {"approved_once", "approved_temporary", "denied"} :
                 Decide(k, decision, ended)
    <2>1. PICK ended \in Ends, k \in Message,
               decision \in {"approved_once", "approved_temporary", "denied"} :
                   Decide(k, decision, ended)
      BY <1>2
    <2>2. k = m
      BY <2>1, RequeuedFields DEF Decide, ApprovalInv
    <2>3. request'[m] = decision
      BY <2>1, <2>2, ExpiredType DEF Decide, ApprovalInv
    <2>4. QED BY <2>1, <2>2, <2>3 DEF Decide
  <1>3. CASE row' = row
    BY <1>3
  <1>4. QED BY <1>1, <1>2, <1>3
     DEF Operator, RegisterResource, SetResourceEnabled, GrantPeerResource,
         RevokePeerResource, Inspect

(* Nobody else touches a quarantined row, whatever claim it was under.     *)
LEMMA OthersLeaveQuarantined ==
    ASSUME ApprovalInv, NEW m \in Message, row[m].state = "quarantined",
           \/ \E c \in Consumer : ConsumerStep(c)
           \/ \E k \in Message : Persist(k) \/ Collide(k) \/ ClaimLapses(k)
    PROVE  row'[m].state = "quarantined"
  <1>1. CASE \E k \in Message : Persist(k) \/ Collide(k) \/ ClaimLapses(k)
    <2>1. PICK k \in Message : Persist(k) \/ Collide(k) \/ ClaimLapses(k)
      BY <1>1
    <2>2. CASE k = m
      BY <2>1, <2>2 DEF ApprovalInv, TypeOK, Row, Persist, Collide, ClaimLapses
    <2>3. CASE k # m
      BY <2>1, <2>3 DEF ApprovalInv, TypeOK, Persist, Collide, ClaimLapses
    <2>4. QED BY <2>2, <2>3
  <1>2. CASE \E c \in Consumer, k \in Message : Claim(c, k)
    <2>1. Swept(row[m]) = row[m]
      BY DEF Swept
    <2>2. QED BY <1>2, <2>1 DEF Claim
  <1>3. CASE \E c \in Consumer, ended \in Ends : Authorize(c, ended)
    <2>1. PICK c \in Consumer, ended \in Ends : Authorize(c, ended)
      BY <1>3
    <2>2. work[c].msg \in Message /\ row[work[c].msg].state = "claimed"
          /\ (row' = row \/ Park(c, work[c].msg))
      BY <2>1, AuthorizeEffect DEF ApprovalInv, ClaimValid
    <2>3. QED BY <2>2, ParkFields DEF ApprovalInv
  <1>4. CASE \E c \in Consumer, outcome \in {"processed", "rejected", "available"} :
                 Settle(c, outcome)
    BY <1>4 DEF Settle, ClaimValid, ApprovalInv, TypeOK
  <1>5. CASE row' = row
    BY <1>5
  <1>6. QED BY <1>1, <1>2, <1>3, <1>4, <1>5 DEF ConsumerStep, EnsureRun, Abandon

(* A message under an identity collision comes back only by the operator's *)
(* decision on its own request: no sweep of lapsed claims, no expiry of    *)
(* approvals and no late answer of a consumer releases it.                 *)
THEOREM CollisionsWaitForTheOperator == Spec => CollisionReleasedByOperator
  <1> DEFINE Step == \A m \in Message :
                 row[m].cause = "collision" /\ row'[m].state # "quarantined" =>
                     /\ request[m] \in {"pending", "approved_once", "approved_temporary"}
                     /\ request'[m] # request[m]
  <1>1. ApprovalInv /\ [Next]_vars => [Step]_vars
    <2> SUFFICES ASSUME ApprovalInv, Next, NEW m \in Message,
                        row[m].cause = "collision", row'[m].state # "quarantined"
                 PROVE  /\ request[m] \in {"pending", "approved_once", "approved_temporary"}
                        /\ request'[m] # request[m]
      OBVIOUS
    <2>1. row[m].state = "quarantined"
      BY DEF ApprovalInv, CausedAreQuarantined
    <2>2. Operator
      BY <2>1, OthersLeaveQuarantined DEF Next
    <2>3. row'[m] # row[m]
      BY <2>1
    <2>4. QED BY <2>2, <2>3, OperatorReleases
  <1>2. QED
    BY <1>1, ApprovalInvHolds, PTL DEF Spec, CollisionReleasedByOperator

-----------------------------------------------------------------------------
(* Refinement: the permit of an operation is the state of its one request. *)

Unique(requests) ==
    \A m, k \in Message :
        requests[m] # "absent" /\ requests[k] # "absent"
            /\ OperationOf[m] = OperationOf[k] => m = k

LEMMA PermitOfRequest ==
    ASSUME NEW requests, Unique(requests), NEW m \in Message,
           OperationOf[m] \in Operation, requests[m] # "absent"
    PROVE  /\ Asked(OperationOf[m], requests) = {m}
           /\ HolderIn(requests)[OperationOf[m]] = m
           /\ PermitsIn(requests)[OperationOf[m]] = PermitOf[requests[m]]
  <1>1. Asked(OperationOf[m], requests) = {m}
    BY DEF Asked, Unique
  <1>2. (CHOOSE k \in {m} : TRUE) = m
    OBVIOUS
  <1>3. HolderIn(requests)[OperationOf[m]] = m
    BY <1>1, <1>2 DEF HolderIn
  <1>4. QED BY <1>1, <1>3 DEF PermitsIn

LEMMA NoPermit ==
    ASSUME NEW requests, NEW o \in Operation, Asked(o, requests) = {}
    PROVE  HolderIn(requests)[o] = None /\ PermitsIn(requests)[o] = "none"
  BY DEF HolderIn, PermitsIn

LEMMA PermitNames ==
    /\ PermitOf["pending"] = "waiting" /\ PermitOf["approved_once"] = "once"
    /\ PermitOf["approved_temporary"] = "temporary" /\ PermitOf["consumed"] = "spent"
    /\ \A state \in {"denied", "revoked", "expired"} : PermitOf[state] = "closed"
  BY DEF PermitOf, RequestState

LEMMA PermitsType ==
    ASSUME NEW requests \in [Message -> RequestState], Unique(requests)
    PROVE  PermitsIn(requests) \in [Operation -> Abstract!Permit]
  <1>1. ASSUME NEW o \in Operation
        PROVE  PermitsIn(requests)[o] \in Abstract!Permit
    <2>1. CASE Asked(o, requests) = {}
      BY <2>1, NoPermit DEF Abstract!Permit
    <2>2. CASE Asked(o, requests) # {}
      <3>1. PICK m \in Message : OperationOf[m] = o /\ requests[m] # "absent"
        BY <2>2 DEF Asked
      <3>2. PermitsIn(requests)[o] = PermitOf[requests[m]]
        BY <3>1, PermitOfRequest
      <3>3. requests[m] \in RequestState \ {"absent"}
        BY <3>1
      <3>4. QED BY <3>2, <3>3, PermitNames DEF RequestState, Abstract!Permit
    <2>3. QED BY <2>1, <2>2
  <1>2. QED BY <1>1 DEF PermitsIn

(* Two states of the requests in which the same messages have asked for an *)
(* operation: its holder is the same, and its permit changes as its        *)
(* request does.                                                           *)
LEMMA PermitChange ==
    ASSUME NEW requests, Unique(requests), NEW next, Unique(next), NEW o \in Operation,
           \A m \in Message :
               OperationOf[m] = o => (requests[m] = "absent" <=> next[m] = "absent")
    PROVE  /\ HolderIn(next)[o] = HolderIn(requests)[o]
           /\ \/ PermitsIn(requests)[o] = "none" /\ PermitsIn(next)[o] = "none"
              \/ \E m \in Message :
                    /\ OperationOf[m] = o /\ requests[m] # "absent"
                    /\ PermitsIn(requests)[o] = PermitOf[requests[m]]
                    /\ PermitsIn(next)[o] = PermitOf[next[m]]
  <1>1. Asked(o, next) = Asked(o, requests)
    BY DEF Asked
  <1>2. CASE Asked(o, requests) = {}
    BY <1>1, <1>2, NoPermit
  <1>3. CASE Asked(o, requests) # {}
    <2>1. PICK m \in Message : OperationOf[m] = o /\ requests[m] # "absent"
      BY <1>3 DEF Asked
    <2>2. HolderIn(requests)[o] = m /\ PermitsIn(requests)[o] = PermitOf[requests[m]]
      BY <2>1, PermitOfRequest
    <2>3. HolderIn(next)[o] = m /\ PermitsIn(next)[o] = PermitOf[next[m]]
      BY <2>1, PermitOfRequest
    <2>4. QED BY <2>1, <2>2, <2>3
  <1>4. QED BY <1>2, <1>3

LEMMA HoldersStay ==
    ASSUME NEW requests, Unique(requests), NEW next, Unique(next),
           \A m \in Message : requests[m] = "absent" <=> next[m] = "absent"
    PROVE  HolderIn(next) = HolderIn(requests)
  <1>1. \A o \in Operation : HolderIn(next)[o] = HolderIn(requests)[o]
    BY PermitChange
  <1>2. QED BY <1>1 DEF HolderIn

LEMMA UniqueHolds ==
    ASSUME OneRequestPerOperation
    PROVE  Unique(request)
  BY DEF OneRequestPerOperation, Unique

LEMMA UniqueHoldsNext ==
    ASSUME OneRequestPerOperation'
    PROVE  Unique(request')
  BY DEF OneRequestPerOperation, Unique

(* The same messages have asked, and every request went its lawful way.    *)
Lawful ==
    \A m \in Message :
        \/ request'[m] = request[m]
        \/ request[m] = "pending"
               /\ request'[m] \in {"approved_once", "approved_temporary", "denied"}
        \/ request[m] \in {"approved_once", "approved_temporary"} /\ request'[m] = "revoked"
        \/ request[m] = "approved_temporary" /\ request'[m] = "expired"

Expiring ==
    \A m \in Message :
        \/ request'[m] = request[m]
        \/ request[m] = "approved_temporary" /\ request'[m] = "expired"

LEMMA LawfulCourse ==
    ASSUME ApprovalInv, ApprovalInv', Lawful
    PROVE  /\ HolderIn(request)' = HolderIn(request)
           /\ PermitsIn(request)' \in [Operation -> Abstract!Permit]
           /\ \A o \in Operation :
                 <<PermitsIn(request)[o], PermitsIn(request)'[o]>> \in Abstract!Course
  <1>1. Unique(request) /\ Unique(request')
    BY UniqueHolds, UniqueHoldsNext DEF ApprovalInv
  <1>2. request \in [Message -> RequestState] /\ request' \in [Message -> RequestState]
    BY DEF ApprovalInv, TypeOK
  <1>3. \A m \in Message : request[m] = "absent" <=> request'[m] = "absent"
    BY DEF Lawful
  <1>4. PermitsIn(request') \in [Operation -> Abstract!Permit]
        /\ PermitsIn(request) \in [Operation -> Abstract!Permit]
    BY <1>1, <1>2, PermitsType
  <1>5. HolderIn(request') = HolderIn(request)
    BY <1>1, <1>3, HoldersStay
  <1>6. ASSUME NEW o \in Operation
        PROVE  <<PermitsIn(request)[o], PermitsIn(request')[o]>> \in Abstract!Course
    <2>1. CASE PermitsIn(request)[o] = PermitsIn(request')[o]
      BY <1>4, <2>1 DEF Abstract!Course
    <2>2. ASSUME NEW m \in Message, request[m] # "absent",
                 PermitsIn(request)[o] = PermitOf[request[m]],
                 PermitsIn(request')[o] = PermitOf[request'[m]]
          PROVE  <<PermitsIn(request)[o], PermitsIn(request')[o]>> \in Abstract!Course
      <3>1. CASE request'[m] = request[m]
        BY <2>1, <2>2, <3>1
      <3>2. CASE request'[m] # request[m]
        BY <2>2, <3>2, PermitNames DEF Lawful, Abstract!Course
      <3>3. QED BY <3>1, <3>2
    <2>3. QED BY <1>1, <1>3, <2>1, <2>2, PermitChange
  <1>7. QED BY <1>4, <1>5, <1>6

LEMMA PermitLapse ==
    ASSUME ApprovalInv, ApprovalInv', NEW o \in Operation,
           \A m \in Message : OperationOf[m] = o =>
               \/ request'[m] = request[m]
               \/ request[m] = "approved_temporary" /\ request'[m] = "expired"
    PROVE  <<PermitsIn(request)[o], PermitsIn(request)'[o]>> \in Abstract!Lapse
  <1>1. Unique(request) /\ Unique(request')
    BY UniqueHolds, UniqueHoldsNext DEF ApprovalInv
  <1>2. PermitsIn(request) \in [Operation -> Abstract!Permit]
    BY <1>1, PermitsType DEF ApprovalInv, TypeOK
  <1>3. CASE PermitsIn(request)[o] = PermitsIn(request')[o]
    BY <1>2, <1>3 DEF Abstract!Lapse
  <1>4. ASSUME NEW m \in Message, OperationOf[m] = o, request[m] # "absent",
               PermitsIn(request)[o] = PermitOf[request[m]],
               PermitsIn(request')[o] = PermitOf[request'[m]]
        PROVE  <<PermitsIn(request)[o], PermitsIn(request')[o]>> \in Abstract!Lapse
    <2>1. CASE request'[m] = request[m]
      BY <1>3, <1>4, <2>1
    <2>2. CASE request'[m] # request[m]
      BY <1>4, <2>2, PermitNames DEF Abstract!Lapse
    <2>3. QED BY <2>1, <2>2
  <1>5. \A m \in Message :
            OperationOf[m] = o => (request[m] = "absent" <=> request'[m] = "absent")
    OBVIOUS
  <1>6. QED BY <1>1, <1>3, <1>4, <1>5, PermitChange

LEMMA PermitsAfter ==
    ASSUME ApprovalInv, ApprovalInv'
    PROVE  /\ PermitsIn(request)' \in [Operation -> Abstract!Permit]
           /\ (\A m \in Message : request[m] = "absent" <=> request'[m] = "absent")
                  => HolderIn(request)' = HolderIn(request)
  <1>1. Unique(request) /\ Unique(request')
    BY UniqueHolds, UniqueHoldsNext DEF ApprovalInv
  <1>2. request' \in [Message -> RequestState]
    BY DEF ApprovalInv, TypeOK
  <1>3. QED BY <1>1, <1>2, PermitsType, HoldersStay

Running ==
    {w \in Consumer \X Message : work[w[1]] = [msg |-> w[2], phase |-> "authorized"]}

(* Only a consumer that becomes or stops being authorized changes who      *)
(* works on what.                                                          *)
LEMMA RunningAfter ==
    ASSUME TypeOK, NEW c \in Consumer, NEW v, work' = [work EXCEPT ![c] = v]
    PROVE  /\ v.phase # "authorized" => Running' = {w \in Running : w[1] # c}
           /\ v.phase # "authorized" /\ work[c].phase # "authorized" => Running' = Running
           /\ \A m \in Message :
                 work[c].phase # "authorized" /\ v = [msg |-> m, phase |-> "authorized"]
                     => Running' = Running \cup {<<c, m>>}
  <1>1. \A k \in Consumer : work'[k] = IF k = c THEN v ELSE work[k]
    BY DEF TypeOK
  <1>2. v.phase # "authorized" =>
            \A m \in Message : v # [msg |-> m, phase |-> "authorized"]
    OBVIOUS
  <1>3. work[c].phase # "authorized" =>
            \A m \in Message : work[c] # [msg |-> m, phase |-> "authorized"]
    OBVIOUS
  <1>4. \A w \in Consumer \X Message : w = <<w[1], w[2]>> /\ w[1] \in Consumer /\ w[2] \in Message
    OBVIOUS
  <1>5. v.phase # "authorized" => Running' = {w \in Running : w[1] # c}
    BY <1>1, <1>2, <1>4 DEF Running
  <1>6. work[c].phase # "authorized" => \A w \in Running : w[1] # c
    BY <1>3, <1>4 DEF Running
  <1>7. ASSUME NEW m \in Message, work[c].phase # "authorized",
               v = [msg |-> m, phase |-> "authorized"]
        PROVE  Running' = Running \cup {<<c, m>>}
    <2>1. ASSUME NEW k \in Consumer, NEW n \in Message
          PROVE  <<k, n>> \in Running' <=> <<k, n>> \in Running \/ (k = c /\ n = m)
      <3>1. CASE k = c
        <4>1. <<k, n>> \notin Running
          BY <1>6, <1>7, <3>1
        <4>2. <<k, n>> \in Running' <=> v = [msg |-> n, phase |-> "authorized"]
          BY <1>1, <3>1 DEF Running
        <4>3. v = [msg |-> n, phase |-> "authorized"] <=> n = m
          BY <1>7
        <4>4. QED BY <3>1, <4>1, <4>2, <4>3
      <3>2. CASE k # c
        BY <1>1, <3>2 DEF Running
      <3>3. QED BY <3>1, <3>2
    <2>2. Running' \subseteq Consumer \X Message /\ Running \subseteq Consumer \X Message
      BY DEF Running
    <2>3. QED BY <1>4, <2>1, <2>2
  <1>8. QED BY <1>5, <1>6, <1>7

LEMMA OperatorIsLawful ==
    ASSUME ApprovalInv, Operator
    PROVE  /\ Lawful /\ UNCHANGED <<run, work>>
           /\ \A pair \in Pair : grant[pair] = "active" /\ grant'[pair] # "active" =>
                 \A m \in RequestsOf(pair) : request'[m] # "approved_temporary"
  <1> USE DEF Lawful
  <1>1. CASE \E r \in Resource :
                 \/ RegisterResource(r)
                 \/ \E setting \in {"enabled", "disabled"} : SetResourceEnabled(r, setting)
    BY <1>1 DEF RegisterResource, SetResourceEnabled
  <1>2. CASE \E pair \in Pair : GrantPeerResource(pair)
    BY <1>2 DEF GrantPeerResource, ApprovalInv, TypeOK
  <1>3. CASE \E pair \in Pair : RevokePeerResource(pair)
    <2>1. PICK pair \in Pair : RevokePeerResource(pair)
      BY <1>3
    <2>2. \A m \in Message :
              \/ request'[m] = request[m]
                 /\ ~(request[m] = "approved_temporary" /\ m \in RequestsOf(pair))
              \/ request[m] = "approved_temporary" /\ request'[m] = "revoked"
      BY <2>1 DEF RevokePeerResource
    <2>3. \A p \in Pair : p # pair => grant'[p] = grant[p]
      BY <2>1 DEF RevokePeerResource, ApprovalInv, TypeOK
    <2>4. RequestsOf(pair) \subseteq Message
      BY DEF RequestsOf
    <2>5. QED BY <2>1, <2>2, <2>3, <2>4 DEF RevokePeerResource
  <1>4. CASE \E ended \in Ends : Inspect(ended)
    BY <1>4, ExpiredType DEF Inspect, ApprovalInv
  <1>5. CASE \E ended \in Ends, m \in Message : Revoke(m, ended)
    <2>1. PICK ended \in Ends, m \in Message : Revoke(m, ended)
      BY <1>5
    <2>2. \A k \in Message : request'[k] = IF k = m THEN "revoked" ELSE Expired(ended)[k]
      BY <2>1, ExpiredType DEF Revoke, ApprovalInv
    <2>3. QED BY <2>1, <2>2, ExpiredType DEF Revoke, ApprovalInv
  <1>6. CASE \E ended \in Ends, m \in Message,
                decision \in {"approved_once", "approved_temporary", "denied"} :
                 Decide(m, decision, ended)
    <2>1. PICK ended \in Ends, m \in Message,
               decision \in {"approved_once", "approved_temporary", "denied"} :
                   Decide(m, decision, ended)
      BY <1>6
    <2>2. \A k \in Message : request'[k] = IF k = m THEN decision ELSE Expired(ended)[k]
      BY <2>1, ExpiredType DEF Decide, ApprovalInv
    <2>3. QED BY <2>1, <2>2, ExpiredType DEF Decide, ApprovalInv
  <1>7. QED BY <1>1, <1>2, <1>3, <1>4, <1>5, <1>6 DEF Operator

(* A step of the operator, or of time, is the abstract administration.     *)
LEMMA AdministerImplements ==
    ASSUME ApprovalInv, ApprovalInv', Lawful, run' = run, Running' = Running,
           \A pair \in Pair : grant[pair] = "active" /\ grant'[pair] # "active" =>
               \A m \in RequestsOf(pair) : request'[m] # "approved_temporary"
    PROVE  Abstract!Next
  <1>1. /\ HolderIn(request)' = HolderIn(request)
        /\ PermitsIn(request)' \in [Operation -> Abstract!Permit]
        /\ \A o \in Operation :
              <<PermitsIn(request)[o], PermitsIn(request)'[o]>> \in Abstract!Course
    BY LawfulCourse
  <1>2. ASSUME NEW o \in Operation, grant[PairOf[o]] = "active",
               grant'[PairOf[o]] # "active", PairOf[o] \in Pair
        PROVE  PermitsIn(request')[o] # "temporary"
    <2>1. CASE Asked(o, request') = {}
      BY <2>1, NoPermit
    <2>2. CASE Asked(o, request') # {}
      <3>1. PICK m \in Message : OperationOf[m] = o /\ request'[m] # "absent"
        BY <2>2 DEF Asked
      <3>2. PermitsIn(request')[o] = PermitOf[request'[m]]
        BY <3>1, PermitOfRequest, UniqueHoldsNext DEF ApprovalInv
      <3>3. m \in RequestsOf(PairOf[o])
        BY <3>1 DEF RequestsOf
      <3>4. request'[m] \in RequestState \ {"absent", "approved_temporary"}
        BY <1>2, <3>1, <3>3 DEF ApprovalInv, TypeOK
      <3>5. QED BY <3>2, <3>4, PermitNames DEF RequestState
    <2>3. QED BY <2>1, <2>2
  <1>3. Abstract!Administer
    BY <1>1, <1>2 DEF Abstract!Administer, Running
  <1>4. QED BY <1>3 DEF Abstract!Next

(* A message is authorized without the use of its own approval.            *)
LEMMA BeginImplements ==
    ASSUME ApprovalInv, ApprovalInv', NEW c \in Consumer, NEW m \in Message,
           Known(m), Expiring, UNCHANGED <<resource, grant, run>>,
           Running' = Running \cup {<<c, m>>},
           \/ Standing(PairOf[OperationOf[m]]) \/ UnderTemporary(m, request')
           \/ request'[m] = "consumed" /\ m \in run
    PROVE  Abstract!Next
  <1> DEFINE o == OperationOf[m]
  <1>1. o \in Operation /\ PairOf[o] \in Pair /\ ResourceOf[o] \in Resource
    BY ApprovalAssumption DEF PairOf, Pair
  <1>2. HolderIn(request)' = HolderIn(request)
        /\ PermitsIn(request)' \in [Operation -> Abstract!Permit]
    BY PermitsAfter DEF Expiring
  <1>3. \A p \in Operation :
            <<PermitsIn(request)[p], PermitsIn(request)'[p]>> \in Abstract!Lapse
    BY PermitLapse DEF Expiring
  <1>4. CASE Standing(PairOf[o])
    <2>1. Abstract!UnderStandingGrant(m)
      BY <1>1, <1>4 DEF Standing, Abstract!UnderStandingGrant
    <2>2. Abstract!Begin(c, m)
      BY <1>1, <1>2, <1>3, <2>1 DEF Abstract!Begin, Running, Known
    <2>3. QED BY <2>2 DEF Abstract!Next
  <1>5. CASE UnderTemporary(m, request')
    <2>1. PICK k \in Message : PairOf[OperationOf[k]] = PairOf[o]
                                   /\ request'[k] = "approved_temporary"
      BY <1>5 DEF UnderTemporary, RequestsOf
    <2>2. OperationOf[k] \in Operation
      BY ApprovalAssumption
    <2>3. PermitsIn(request')[OperationOf[k]] = "temporary"
      BY <2>1, <2>2, PermitOfRequest, PermitNames, UniqueHoldsNext DEF ApprovalInv
    <2>4. Abstract!UnderTemporaryPermit(m)
      BY <2>1, <2>2, <2>3 DEF Abstract!UnderTemporaryPermit
    <2>5. Abstract!Begin(c, m)
      BY <1>1, <1>2, <1>3, <2>4 DEF Abstract!Begin, Running, Known
    <2>6. QED BY <2>5 DEF Abstract!Next
  <1>6. CASE request'[m] = "consumed" /\ m \in run
    <2>1. request[m] = "consumed"
      BY <1>6 DEF Expiring
    <2>2. PermitsIn(request)[o] = "spent" /\ HolderIn(request)[o] = m
      BY <1>1, <2>1, PermitOfRequest, PermitNames, UniqueHolds DEF ApprovalInv
    <2>3. Abstract!Resumes(m)
      BY <1>6, <2>2 DEF Abstract!Resumes
    <2>4. Abstract!Begin(c, m)
      BY <1>1, <1>2, <1>3, <2>3 DEF Abstract!Begin, Running, Known
    <2>5. QED BY <2>4 DEF Abstract!Next
  <1>7. QED BY <1>4, <1>5, <1>6

(* A message uses up the approval of its own request.                      *)
LEMMA SpendImplements ==
    ASSUME ApprovalInv, ApprovalInv', NEW c \in Consumer, NEW m \in Message,
           Known(m), UNCHANGED <<resource, grant, run>>,
           Running' = Running \cup {<<c, m>>},
           request[m] = "approved_once", request'[m] = "consumed",
           \A k \in Message \ {m} :
               \/ request'[k] = request[k]
               \/ request[k] = "approved_temporary" /\ request'[k] = "expired"
    PROVE  Abstract!Next
  <1> DEFINE o == OperationOf[m]
  <1>1. o \in Operation /\ ResourceOf[o] \in Resource
    BY ApprovalAssumption
  <1>2. HolderIn(request)' = HolderIn(request)
        /\ PermitsIn(request)' \in [Operation -> Abstract!Permit]
    BY PermitsAfter
  <1>3. \A p \in Operation \ {o} :
            <<PermitsIn(request)[p], PermitsIn(request)'[p]>> \in Abstract!Lapse
    BY PermitLapse
  <1>4. PermitsIn(request)[o] = "once" /\ HolderIn(request)[o] = m
    BY <1>1, PermitOfRequest, PermitNames, UniqueHolds DEF ApprovalInv
  <1>5. PermitsIn(request')[o] = "spent"
    BY <1>1, PermitOfRequest, PermitNames, UniqueHoldsNext DEF ApprovalInv
  <1>6. Abstract!SpendsItsPermit(m)
    BY <1>4, <1>5 DEF Abstract!SpendsItsPermit
  <1>7. Abstract!Begin(c, m)
    BY <1>1, <1>2, <1>3, <1>6 DEF Abstract!Begin, Running, Known
  <1>8. QED BY <1>7 DEF Abstract!Next

(* The first message of an operation asks, and is not authorized.          *)
LEMMA AskImplements ==
    ASSUME ApprovalInv, ApprovalInv', NEW m \in Message,
           Known(m), UNCHANGED <<resource, grant, run>>, Running' = Running,
           RequestFor(m) = {}, request'[m] = "pending",
           \A k \in Message \ {m} :
               \/ request'[k] = request[k]
               \/ request[k] = "approved_temporary" /\ request'[k] = "expired"
    PROVE  Abstract!Next
  <1> DEFINE o == OperationOf[m]
  <1>1. o \in Operation /\ ResourceOf[o] \in Resource
    BY ApprovalAssumption
  <1>2. PermitsIn(request)' \in [Operation -> Abstract!Permit]
    BY PermitsAfter
  <1>3. \A p \in Operation \ {o} :
            <<PermitsIn(request)[p], PermitsIn(request)'[p]>> \in Abstract!Lapse
    BY PermitLapse
  <1>4. PermitsIn(request)[o] = "none"
    BY <1>1, NoPermit DEF RequestFor
  <1>5. PermitsIn(request')[o] = "waiting" /\ HolderIn(request')[o] = m
    BY <1>1, PermitOfRequest, PermitNames, UniqueHoldsNext DEF ApprovalInv
  <1>6. \A p \in Operation \ {o} : HolderIn(request')[p] = HolderIn(request)[p]
    BY PermitChange, UniqueHolds, UniqueHoldsNext DEF ApprovalInv
  <1>7. HolderIn(request') = [HolderIn(request) EXCEPT ![o] = m]
    <2>1. \A requests : HolderIn(requests) = [p \in Operation |-> HolderIn(requests)[p]]
      BY DEF HolderIn
    <2>2. /\ HolderIn(request) = [p \in Operation |-> HolderIn(request)[p]]
          /\ HolderIn(request') = [p \in Operation |-> HolderIn(request')[p]]
      BY <2>1
    <2> HIDE DEF o
    <2>3. QED BY <1>1, <1>5, <1>6, <2>2
  <1>8. Abstract!Ask(m)
    BY <1>1, <1>2, <1>3, <1>4, <1>5, <1>7 DEF Abstract!Ask, Running, Known
  <1>9. QED BY <1>8 DEF Abstract!Next

LEMMA AuthorizeImplements ==
    ASSUME ApprovalInv, ApprovalInv', NEW c \in Consumer, NEW ended \in Ends,
           Authorize(c, ended)
    PROVE  Abstract!Next
  <1> DEFINE m == work[c].msg
             requests == Expired(ended)
  <1> USE DEF ApprovalInv
  <1>1. /\ m \in Message /\ row[m].state = "claimed" /\ work[c].phase # "authorized"
        /\ UNCHANGED <<resource, grant, run>>
    BY AuthorizeEffect DEF ClaimValid
  <1>2. requests \in [Message -> RequestState] /\
        \A k \in Message :
            \/ requests[k] = request[k]
            \/ request[k] = "approved_temporary" /\ requests[k] = "expired"
    BY ExpiredType
  <1>3. request[m] # "pending"
    BY <1>1 DEF ParkedIsPending
  <1>4. /\ Answered(c, "refused") => Running' = Running
        /\ Park(c, m) => Running' = Running
        /\ Answered(c, "authorized") => Running' = Running \cup {<<c, m>>}
    <2>1. work[c] \in Work
      BY DEF TypeOK
    <2>2. [work[c] EXCEPT !.phase = "refused"].phase # "authorized"
          /\ [work[c] EXCEPT !.phase = "authorized"] = [msg |-> m, phase |-> "authorized"]
      BY <2>1 DEF Work
    <2>3. Answered(c, "refused") =>
              work' = [work EXCEPT ![c] = [work[c] EXCEPT !.phase = "refused"]]
      BY <2>1 DEF Answered, TypeOK
    <2>4. Answered(c, "authorized") =>
              work' = [work EXCEPT ![c] = [msg |-> m, phase |-> "authorized"]]
      BY <2>1, <2>2 DEF Answered, TypeOK
    <2>5. Park(c, m) => work' = [work EXCEPT ![c] = Idle]
      BY DEF Park
    <2>6. Idle.phase # "authorized"
      BY DEF Idle
    <2> HIDE DEF m
    <2>7. QED BY <1>1, <2>2, <2>3, <2>4, <2>5, <2>6, RunningAfter
  <1>5. \/ request' = requests /\ Answered(c, "refused")
        \/ /\ request' = requests /\ Answered(c, "authorized") /\ Known(m)
           /\ \/ Standing(PairOf[OperationOf[m]]) \/ UnderTemporary(m, requests)
              \/ requests[m] = "consumed" /\ m \in run
        \/ /\ Known(m) /\ requests[m] = "approved_once"
           /\ request' = [requests EXCEPT ![m] = "consumed"] /\ Answered(c, "authorized")
        \/ /\ Known(m) /\ RequestFor(m) = {}
           /\ request' = [requests EXCEPT ![m] = "pending"] /\ Park(c, m)
        \/ requests[m] = "pending"
    BY AuthorizeEffect
  <1> HIDE DEF m, requests
  <1>6. CASE request' = requests /\ Answered(c, "refused")
    <2>1. Lawful
      BY <1>2, <1>6 DEF Lawful
    <2>2. QED BY <1>1, <1>4, <1>6, <2>1, AdministerImplements
  <1>7. CASE /\ request' = requests /\ Answered(c, "authorized") /\ Known(m)
             /\ \/ Standing(PairOf[OperationOf[m]]) \/ UnderTemporary(m, requests)
                \/ requests[m] = "consumed" /\ m \in run
    <2>1. Expiring
      BY <1>2, <1>7 DEF Expiring
    <2>2. QED BY <1>1, <1>4, <1>7, <2>1, BeginImplements
  <1>8. CASE /\ Known(m) /\ requests[m] = "approved_once"
             /\ request' = [requests EXCEPT ![m] = "consumed"] /\ Answered(c, "authorized")
    <2>1. request[m] = "approved_once" /\ request'[m] = "consumed"
      BY <1>1, <1>2, <1>8
    <2>2. \A k \in Message \ {m} : request'[k] = requests[k]
      BY <1>2, <1>8
    <2>3. QED BY <1>1, <1>2, <1>4, <1>8, <2>1, <2>2, SpendImplements
  <1>9. CASE /\ Known(m) /\ RequestFor(m) = {}
             /\ request' = [requests EXCEPT ![m] = "pending"] /\ Park(c, m)
    <2>1. request'[m] = "pending" /\ \A k \in Message \ {m} : request'[k] = requests[k]
      BY <1>1, <1>2, <1>9
    <2>2. QED BY <1>1, <1>2, <1>4, <1>9, <2>1, AskImplements
  <1>10. CASE requests[m] = "pending"
    BY <1>1, <1>2, <1>3, <1>10
  <1>11. QED BY <1>5, <1>6, <1>7, <1>8, <1>9, <1>10

LEMMA QuietImplements ==
    ASSUME UNCHANGED <<resource, grant, request, run>>, Running' = Running
    PROVE  UNCHANGED Abstract!policyvars
  BY DEF Abstract!policyvars, Running

LEMMA ConsumerImplements ==
    ASSUME ApprovalInv, ApprovalInv', NEW c \in Consumer, ConsumerStep(c)
    PROVE  [Abstract!Next]_(Abstract!policyvars)
  <1> USE DEF ApprovalInv
  <1>1. CASE \E m \in Message : Claim(c, m)
    <2>1. PICK m \in Message : Claim(c, m)
      BY <1>1
    <2>2. [msg |-> m, phase |-> "claimed"].phase # "authorized" /\ work[c].phase # "authorized"
      BY <2>1 DEF Claim, Idle
    <2>3. Running' = Running
      BY <2>1, <2>2, RunningAfter DEF Claim
    <2>4. QED BY <2>1, <2>3, QuietImplements DEF Claim
  <1>2. CASE \E ended \in Ends : Authorize(c, ended)
    BY <1>2, AuthorizeImplements
  <1>3. CASE \/ Abandon(c)
             \/ \E outcome \in {"processed", "rejected", "available"} : Settle(c, outcome)
    <2>1. work' = [work EXCEPT ![c] = Idle] /\ UNCHANGED <<resource, grant, request, run>>
      BY <1>3 DEF Abandon, Settle
    <2>2. Idle.phase # "authorized"
      BY DEF Idle
    <2>3. Running' = {w \in Running : w[1] # c}
      BY <2>1, <2>2, RunningAfter
    <2>4. Abstract!End(c)
      BY <2>1, <2>3 DEF Abstract!End, Running
    <2>5. QED BY <2>4 DEF Abstract!Next
  <1>4. CASE EnsureRun(c)
    <2>1. work[c].msg \in Message /\ work[c] = [msg |-> work[c].msg, phase |-> "authorized"]
      BY <1>4, WorkKinds DEF EnsureRun, TypeOK, Work
    <2>2. <<c, work[c].msg>> \in Running
      BY <2>1 DEF Running
    <2>3. Abstract!Record(c, work[c].msg)
      BY <1>4, <2>2 DEF EnsureRun, Abstract!Record, Running
    <2>4. QED BY <2>1, <2>3 DEF Abstract!Next
  <1>5. QED BY <1>1, <1>2, <1>3, <1>4 DEF ConsumerStep

LEMMA StepImplements ==
    ASSUME ApprovalInv, ApprovalInv', [Next]_vars
    PROVE  [Abstract!Next]_(Abstract!policyvars)
  <1>1. CASE Operator
    BY <1>1, OperatorIsLawful, AdministerImplements DEF Running
  <1>2. CASE \E c \in Consumer : ConsumerStep(c)
    BY <1>2, ConsumerImplements
  <1>3. CASE \E m \in Message : Persist(m) \/ Collide(m) \/ ClaimLapses(m)
    BY <1>3, QuietImplements DEF Persist, Collide, ClaimLapses, Running
  <1>4. CASE UNCHANGED vars
    BY <1>4, QuietImplements DEF vars, Running
  <1>5. QED BY <1>1, <1>2, <1>3, <1>4 DEF Next

(* The workflow implements its policy: work starts only on an enabled      *)
(* resource, under a standing grant, a temporary approval of the pair that *)
(* has not ended, the one use of the approval of its own operation, or as  *)
(* the continuation of a consultation such a use began; a revoked grant    *)
(* takes the temporary approvals of its pair with it, and nothing closed   *)
(* opens again.                                                            *)
THEOREM ApprovalImplementsAccessPolicy == Spec => ImplementsAccessPolicy
  <1>1. Init => Abstract!Init
    <2> SUFFICES ASSUME Init PROVE Abstract!Init
      OBVIOUS
    <2>1. \A o \in Operation : Asked(o, request) = {}
      BY DEF Init, Asked
    <2>2. HolderIn(request) = [o \in Operation |-> None]
          /\ PermitsIn(request) = [o \in Operation |-> "none"]
      BY <2>1 DEF HolderIn, PermitsIn
    <2>3. Running = {}
      BY DEF Init, Running, Idle
    <2>4. QED BY <2>2, <2>3 DEF Init, Abstract!Init, Running
  <1>2. ApprovalInv /\ ApprovalInv' /\ [Next]_vars => [Abstract!Next]_(Abstract!policyvars)
    BY StepImplements
  <1>3. QED
    BY <1>1, <1>2, ApprovalInvHolds, PTL DEF Spec, ImplementsAccessPolicy, Abstract!Spec
=============================================================================
