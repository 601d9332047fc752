------------------------- MODULE ConversationProofs -------------------------
(* Theorems about Conversation, for every value of its constants.          *)
EXTENDS Conversation, WellFoundedInduction, TLAPS

-----------------------------------------------------------------------------
(* The number of a turn comes from the maximum of a set.  The proofs need  *)
(* no more than what MayBeLatest says of it, so nothing here depends on    *)
(* the type of the numbers of refused calls.                               *)

Shape ==
    /\ request = [k \in Key |-> request[k]]
    /\ result \in [Key -> Answer]
    /\ call = [c \in Client |-> call[c]]

TurnsAreTurns ==
    \A k \in Key : Exists(k) =>
        /\ request[k].conv \in Conv /\ request[k].seq \in Nat
        /\ request[k].cause \in Key \cup {None}

ResultsHaveTurns ==
    \A k \in Key : Exists(k) \/ result[k].state = "absent"

AbsentResults == \A k \in Key : result[k].state = "absent" => ~result[k].completed

(* A conversation with a turn has a root.                                  *)
Rooted ==
    \A k \in Key : Exists(k) =>
        \E r \in Key : /\ Exists(r) /\ request[r].conv = request[k].conv
                       /\ request[r].cause = None

(* A turn on its way to the outbox: a root, or the follow-up of a turn     *)
(* that is there, numbered after it unless the key is used already.        *)
PendingTurn(k, turn) ==
    /\ k \in Key /\ turn.conv \in Conv
    /\ \/ turn.cause = None /\ (Exists(k) \/ turn.seq = 0)
       \/ /\ turn.cause \in Key /\ Exists(turn.cause)
          /\ result[turn.cause].completed
          /\ request[turn.cause].conv = turn.conv
          /\ request[turn.cause].project = turn.project
          /\ Exists(k) \/ turn.seq = request[turn.cause].seq + 2

PendingTurns ==
    \A c \in Client : call[c].phase = "sending" => PendingTurn(call[c].key, call[c].turn)

ChainInv ==
    /\ Shape /\ TurnsAreTurns /\ ResultsHaveTurns /\ AbsentResults
    /\ Rooted /\ PendingTurns
    /\ OneRootAndProject /\ FollowUpsFollow

-----------------------------------------------------------------------------
(* A step that leaves the turns alone and only moves results on.           *)
LEMMA QuietStep ==
    ASSUME ChainInv, Shape', request' = request,
           \A k \in Key : result[k].completed => result'[k].completed,
           \A k \in Key : Exists(k) \/ result'[k] = result[k],
           \A k \in Key : result'[k] = result[k] \/ result'[k].state # "absent",
           \A c \in Client : call'[c].phase = "sending" =>
               call'[c] = call[c] \/ PendingTurn(call'[c].key, call'[c].turn)
    PROVE  ChainInv'
  <1> USE DEF ChainInv
  <1>1. TurnsAreTurns' /\ ResultsHaveTurns' /\ Rooted' /\ OneRootAndProject'
    BY DEF TurnsAreTurns, ResultsHaveTurns, Rooted, OneRootAndProject, Exists
  <1>6. AbsentResults'
    BY DEF AbsentResults
  <1>2. \A k, turn : PendingTurn(k, turn) => PendingTurn(k, turn)'
    BY DEF PendingTurn, Exists
  <1>3. PendingTurns'
    BY <1>2 DEF PendingTurns
  <1>4. FollowUpsFollow'
    <2> SUFFICES ASSUME NEW k \in Key, Exists(k), request[k].cause # None
                 PROVE  LET prev == request[k].cause
                        IN  /\ result'[prev].completed
                            /\ request[prev].conv = request[k].conv
                            /\ request[k].seq = request[prev].seq + 2
      BY DEF FollowUpsFollow, Exists
    <2>1. request[k].cause \in Key /\ request[k].conv \in Conv
      BY DEF TurnsAreTurns
    <2>2. Exists(request[k].cause)
      BY <2>1, ConversationAssumption DEF FollowUpsFollow, Exists, NoTurn
    <2>3. QED BY <2>1, <2>2 DEF FollowUpsFollow
  <1>5. QED BY <1>1, <1>3, <1>4, <1>6

LEMMA AskStep ==
    ASSUME ChainInv, NEW c \in Client, NEW k \in Key, NEW conv \in Conv,
           NEW project \in Project, NEW content \in Content, NEW pinned \in BOOLEAN,
           AskAgent(c, k, conv, project, content, pinned)
    PROVE  ChainInv'
  <1> DEFINE root == [conv |-> conv, seq |-> 0, cause |-> None, project |-> project,
                      content |-> content]
  <1>1. PICK phase \in {"refused", "sending"} : Enter(c, k, root, pinned, phase)
    BY DEF AskAgent
  <1>2. PendingTurn(k, root)
    BY DEF PendingTurn
  <1>3. call'[c].key = k /\ call'[c].turn = root
            /\ \A d \in Client \ {c} : call'[d] = call[d]
    BY <1>1 DEF Enter, ChainInv, Shape
  <1>4. Shape' /\ UNCHANGED <<request, result>>
    BY <1>1 DEF AskAgent, Enter, ChainInv, Shape
  <1>5. QED BY <1>2, <1>3, <1>4, QuietStep

LEMMA ContinueStep ==
    ASSUME ChainInv, NEW c \in Client, NEW k \in Key, NEW prev \in Key,
           NEW content \in Content, ContinueAgent(c, k, prev, content)
    PROVE  ChainInv'
  <1> DEFINE conv == request[prev].conv
             turn == [conv |-> conv, seq |-> NextSequence(k, prev), cause |-> prev,
                      project |-> request[prev].project, content |-> content]
  <1>1. Exists(prev)
    BY DEF ContinueAgent, Known, ChainInv, ResultsHaveTurns
  <1>2. \/ /\ result[prev].completed /\ (Exists(k) \/ MayBeLatest(conv, prev))
           /\ Enter(c, k, turn, TRUE, "sending")
        \/ Enter(c, k, turn, TRUE, "refused")
    BY DEF ContinueAgent, Continuable
  <1>3. call'[c].phase = "sending" => PendingTurn(k, turn)
    <2> SUFFICES ASSUME call'[c].phase = "sending" PROVE PendingTurn(k, turn)
      OBVIOUS
    <2>1. result[prev].completed /\ (Exists(k) \/ MayBeLatest(conv, prev))
      BY <1>2 DEF Enter, ChainInv, Shape
    <2>2. Exists(k) \/ NextSequence(k, prev) = request[prev].seq + 2
      BY <1>1, <2>1 DEF MayBeLatest, NextSequence, ChainInv, TurnsAreTurns
    <2>3. conv \in Conv
      BY <1>1 DEF ChainInv, TurnsAreTurns
    <2>4. QED BY <1>1, <2>1, <2>2, <2>3 DEF PendingTurn
  <1>4. call'[c].key = k /\ call'[c].turn = turn
            /\ \A d \in Client \ {c} : call'[d] = call[d]
    BY <1>2 DEF Enter, ChainInv, Shape
  <1>5. Shape' /\ UNCHANGED <<request, result>>
    BY <1>2 DEF ContinueAgent, Enter, ChainInv, Shape
  <1>6. QED BY <1>3, <1>4, <1>5, QuietStep

LEMMA SendStep ==
    ASSUME ChainInv, NEW c \in Client, Send(c)
    PROVE  ChainInv'
  <1> USE DEF ChainInv
  <1> DEFINE k == call[c].key
             turn == call[c].turn
  <1>1. PendingTurn(k, turn) /\ call[c].phase = "sending"
    BY DEF Send, PendingTurns
  <1>2. Shape' /\ result' = result
    BY DEF Send, Shape
  <1>3. \A d \in Client : call'[d].phase = "sending" => call'[d] = call[d]
    BY DEF Send, Shape, Idle
  <1>4. CASE request' = request
    BY <1>2, <1>3, <1>4, QuietStep
  <1>5. CASE request' # request
    <2>1. ~OtherRoot(k, turn) /\ ~Exists(k) /\ request' = [request EXCEPT ![k] = turn]
      BY <1>5 DEF Send
    <2>2. k \in Key /\ request'[k] = turn /\ \A j \in Key \ {k} : request'[j] = request[j]
      BY <1>1, <2>1 DEF PendingTurn, Shape
    <2>3. turn # NoTurn /\ turn.conv \in Conv /\ turn.conv # None
      BY <1>1, ConversationAssumption DEF PendingTurn, NoTurn
    <2>4. \A j \in Key : (Exists(j) => Exists(j)' /\ request'[j] = request[j])
                             /\ (Exists(j)' => j = k \/ Exists(j))
      BY <2>1, <2>2 DEF Exists
    <2>5. \/ turn.cause = None /\ turn.seq = 0
          \/ /\ turn.cause \in Key /\ Exists(turn.cause) /\ result[turn.cause].completed
             /\ request[turn.cause].conv = turn.conv
             /\ request[turn.cause].project = turn.project
             /\ turn.seq = request[turn.cause].seq + 2
      BY <1>1, <2>1 DEF PendingTurn
    <2>6. TurnsAreTurns'
      BY <2>2, <2>3, <2>4, <2>5 DEF TurnsAreTurns
    <2>7. ResultsHaveTurns' /\ AbsentResults'
      BY <1>2, <2>4 DEF ResultsHaveTurns, AbsentResults
    <2>8. Rooted'
      <3> SUFFICES ASSUME NEW j \in Key, Exists(j)'
                   PROVE  \E r \in Key : /\ Exists(r)' /\ request'[r].conv = request'[j].conv
                                         /\ request'[r].cause = None
        BY DEF Rooted
      <3>1. CASE Exists(j)
        BY <2>4, <3>1 DEF Rooted
      <3>2. CASE j = k /\ turn.cause = None
        BY <2>2, <3>2
      <3>3. CASE j = k /\ turn.cause # None
        <4>1. PICK r \in Key : /\ Exists(r) /\ request[r].conv = turn.conv
                               /\ request[r].cause = None
          BY <2>5, <3>3 DEF Rooted
        <4>2. QED BY <2>2, <2>4, <3>3, <4>1
      <3>4. QED BY <2>4, <3>1, <3>2, <3>3
    <2>9. ASSUME NEW j \in Key, Exists(j), request[j].conv = turn.conv
          PROVE  turn.cause # None /\ request[j].project = turn.project
      <3>1. PICK r \in Key : /\ Exists(r) /\ request[r].conv = turn.conv
                             /\ request[r].cause = None
        BY <2>9 DEF Rooted
      <3>2. turn.cause # None
        BY <2>1, <3>1 DEF OtherRoot, Turns
      <3>3. QED BY <2>5, <2>9, <3>2 DEF OneRootAndProject
    <2>10. OneRootAndProject'
      <3> SUFFICES ASSUME NEW i \in Key, NEW j \in Key, Exists(i)', Exists(j)',
                          request'[i].conv = request'[j].conv
                   PROVE  /\ request'[i].cause = None /\ request'[j].cause = None => i = j
                          /\ request'[i].project = request'[j].project
        BY DEF OneRootAndProject
      <3>1. CASE Exists(i) /\ Exists(j)
        BY <2>4, <3>1 DEF OneRootAndProject
      <3>2. CASE i = k /\ Exists(j)
        BY <2>2, <2>4, <2>9, <3>2
      <3>3. CASE j = k /\ Exists(i)
        BY <2>2, <2>4, <2>9, <3>3
      <3>4. QED BY <2>4, <3>1, <3>2, <3>3
    <2>11. FollowUpsFollow'
      <3> SUFFICES ASSUME NEW j \in Key, Exists(j)', request'[j].cause # None
                   PROVE  LET prev == request'[j].cause
                          IN  /\ result'[prev].completed
                              /\ request'[prev].conv = request'[j].conv
                              /\ request'[j].seq = request'[prev].seq + 2
        BY DEF FollowUpsFollow
      <3>1. CASE j = k
        <4>1. turn.cause \in Key /\ Exists(turn.cause) /\ request'[turn.cause] = request[turn.cause]
          BY <2>2, <2>4, <2>5, <3>1
        <4>2. QED BY <1>2, <2>2, <2>5, <3>1, <4>1
      <3>2. CASE Exists(j)
        <4>1. request'[j] = request[j] /\ request[j].cause \in Key
                  /\ request[j].conv \in Conv
          BY <2>4, <3>2 DEF TurnsAreTurns
        <4>2. /\ result[request[j].cause].completed
              /\ request[request[j].cause].conv = request[j].conv
              /\ request[j].seq = request[request[j].cause].seq + 2
          BY <3>2, <4>1 DEF FollowUpsFollow
        <4>3. Exists(request[j].cause)
          BY <4>1, <4>2, ConversationAssumption DEF Exists, NoTurn
        <4>4. QED BY <1>2, <2>4, <4>1, <4>2, <4>3
      <3>3. QED BY <2>4, <3>1, <3>2
    <2>12. PendingTurns'
      <3>1. \A j, t : PendingTurn(j, t) => PendingTurn(j, t)'
        BY <1>2, <2>4 DEF PendingTurn
      <3>2. QED BY <1>3, <3>1 DEF PendingTurns
    <2>13. QED BY <1>2, <2>6, <2>7, <2>8, <2>10, <2>11, <2>12
  <1>6. QED BY <1>4, <1>5

LEMMA ResultSteps ==
    ASSUME ChainInv, NEW k \in Key,
           \/ \E completed \in BOOLEAN : ResultArrives(k, completed)
           \/ \E from, to \in {"available", "claimed", "processed", "rejected",
                               "quarantined"} : ResultMoves(k, from, to)
    PROVE  ChainInv'
  <1> USE DEF ChainInv
  <1>0. result[k] \in Answer
    BY DEF Shape
  <1>1. Shape' /\ UNCHANGED <<request, call>>
    <2>1. ASSUME NEW completed \in BOOLEAN, ResultArrives(k, completed)
          PROVE  Shape' /\ UNCHANGED <<request, call>>
      BY <2>1 DEF ResultArrives, Shape, Answer
    <2>2. ASSUME NEW from,
                 NEW to \in {"available", "claimed", "processed", "rejected", "quarantined"},
                 ResultMoves(k, from, to)
          PROVE  Shape' /\ UNCHANGED <<request, call>>
      <3>1. [result[k] EXCEPT !.state = to] \in Answer
        BY <1>0 DEF Answer
      <3>2. result' \in [Key -> Answer]
        BY <2>2, <3>1 DEF ResultMoves, Shape
      <3>3. QED BY <2>2, <3>2 DEF ResultMoves, Shape
    <2>3. QED BY <2>1, <2>2
  <1>2. \A j \in Key \ {k} : result'[j] = result[j]
    BY DEF ResultArrives, ResultMoves, Shape
  <1>3. Exists(k)
    BY DEF ResultArrives, ResultMoves, ResultsHaveTurns
  <1>4. /\ result[k].completed => result'[k].completed
        /\ result'[k].state # "absent"
    <2>1. ASSUME NEW completed \in BOOLEAN, ResultArrives(k, completed)
          PROVE  ~result[k].completed /\ result'[k].state # "absent"
      BY <2>1 DEF ResultArrives, Shape, AbsentResults
    <2>2. ASSUME NEW from,
                 NEW to \in {"available", "claimed", "processed", "rejected", "quarantined"},
                 ResultMoves(k, from, to)
          PROVE  result'[k].completed = result[k].completed /\ result'[k].state # "absent"
      <3>1. result'[k] = [result[k] EXCEPT !.state = to]
        BY <2>2 DEF ResultMoves, Shape
      <3>2. QED BY <1>0, <3>1 DEF Answer
    <2>3. QED BY <2>1, <2>2
  <1>5. QED BY <1>1, <1>2, <1>3, <1>4, QuietStep

LEMMA ChainInitial == Init => ChainInv
  BY DEF Init, Idle, NoTurn, NoAnswer, Answer, Exists, ChainInv, Shape, TurnsAreTurns,
         ResultsHaveTurns, AbsentResults, Rooted, PendingTurns, OneRootAndProject,
         FollowUpsFollow

LEMMA ChainInductive == ChainInv /\ [Next]_vars => ChainInv'
  <1>1. ASSUME ChainInv, UNCHANGED vars PROVE ChainInv'
    BY <1>1, QuietStep DEF vars, ChainInv, Shape
  <1>2. QED BY <1>1, AskStep, ContinueStep, SendStep, ResultSteps DEF Next

(* However many clients ask at once, a conversation has one root request   *)
(* and stays on its project.                                               *)
THEOREM ConversationsHaveOneRoot == Spec => []OneRootAndProject
  <1>1. ChainInv => OneRootAndProject
    BY DEF ChainInv
  <1>2. QED BY <1>1, ChainInitial, ChainInductive, PTL DEF Spec

(* Every follow-up is caused by a completed result of its conversation and *)
(* numbered right after it.                                                *)
THEOREM FollowUpsAreCaused == Spec => []FollowUpsFollow
  <1>1. ChainInv => FollowUpsFollow
    BY DEF ChainInv
  <1>2. QED BY <1>1, ChainInitial, ChainInductive, PTL DEF Spec
-----------------------------------------------------------------------------
(* Types.  continueAgent numbers a turn after the maximum of the thread's  *)
(* numbers.  The turns of a thread need not be finitely many for it to     *)
(* exist: at every moment some number bounds all that were ever given.     *)

LEMMA MaximumExists ==
    ASSUME NEW S \in SUBSET Nat, S # {}, NEW n \in Nat, \A s \in S : s <= n
    PROVE  Max(S) \in Nat /\ \A s \in S : s <= Max(S)
  <1> DEFINE Above == {u \in Nat : \A s \in S : s <= u}
             R == OpToRel(<, Nat)
  <1>1. PICK u \in Above : \A v \in Above : <<v, u>> \notin R
    <2>1. Above \subseteq Nat /\ Above # {}
      OBVIOUS
    <2>2. IsWellFoundedOn(R, Nat)
      BY NatLessThanWellFounded
    <2> HIDE DEF Above, R
    <2>3. QED BY <2>1, <2>2, WFMin
  <1>2. u \in S
    <2> SUFFICES ASSUME u \notin S PROVE FALSE
      OBVIOUS
    <2>3. \A v \in Nat : v < u => <<v, u>> \in R
      BY DEF OpToRel
    <2> HIDE DEF R
    <2>1. \A s \in S : s \in Nat /\ s < u
      OBVIOUS
    <2>2. u - 1 \in Above
      <3>1. PICK s \in S : s \in Nat /\ s < u
        BY <2>1
      <3>2. u - 1 \in Nat /\ \A r \in S : r <= u - 1
        BY <2>1, <3>1
      <3>3. QED BY <3>2
    <2>4. u - 1 \in Nat /\ u - 1 < u
      BY <2>2
    <2>5. <<u - 1, u>> \in R
      BY <2>3, <2>4
    <2>6. QED BY <1>1, <2>2, <2>5
  <1> HIDE DEF R
  <1>3. \A s \in S : u >= s
    OBVIOUS
  <1>4. Max(S) \in S /\ \A s \in S : Max(S) >= s
    BY <1>2, <1>3 DEF Max
  <1>5. QED BY <1>4

Bounded == \E n \in Nat : \A k \in Key : request[k].seq <= n

TypedInv == TypeOK /\ ChainInv /\ Bounded

LEMMA NextSequenceIsNat ==
    ASSUME TypedInv, NEW k \in Key, NEW prev \in Key, Exists(prev)
    PROVE  /\ NextSequence(k, prev) \in Nat
           /\ Exists(k) \/ \A j \in Turns(request[prev].conv) :
                              request[j].seq < NextSequence(k, prev)
  <1> DEFINE S == Sequences(request[prev].conv)
  <1>1. \A j \in Key : request[j].seq \in Nat
    BY DEF TypedInv, TypeOK, Turn, NoTurn
  <1>2. PICK n \in Nat : \A j \in Key : request[j].seq <= n
    BY DEF TypedInv, Bounded
  <1>3. S \in SUBSET Nat /\ \A s \in S : s <= n + 1
    BY <1>1, <1>2 DEF Sequences, Turns, Results
  <1>4. S # {}
    BY DEF Sequences, Turns
  <1>5. Max(S) \in Nat /\ \A s \in S : s <= Max(S)
    <2> HIDE DEF S
    <2>1. n + 1 \in Nat
      OBVIOUS
    <2>2. QED BY <1>3, <1>4, <2>1, MaximumExists
  <1>6. NextSequence(k, prev) \in Nat
    BY <1>1, <1>5 DEF NextSequence
  <1>7. ASSUME ~Exists(k), NEW j \in Turns(request[prev].conv)
        PROVE  request[j].seq < NextSequence(k, prev)
    <2>1. request[j].seq \in S /\ request[j].seq \in Nat
      BY <1>1 DEF Sequences, Turns
    <2>2. NextSequence(k, prev) = Max(S) + 1
      BY <1>7 DEF NextSequence
    <2>3. request[j].seq <= Max(S)
      BY <1>5, <2>1
    <2> HIDE DEF S
    <2>4. QED BY <1>5, <2>1, <2>2, <2>3
  <1>8. QED BY <1>6, <1>7

LEMMA TypedEnter ==
    ASSUME TypedInv, NEW c \in Client, NEW k \in Key, NEW turn \in Turn,
           NEW pinned \in BOOLEAN, NEW phase \in {"sending", "refused"},
           Enter(c, k, turn, pinned, phase), UNCHANGED <<request, result>>
    PROVE  TypeOK' /\ Bounded'
  BY DEF TypedInv, TypeOK, Bounded, Enter

LEMMA TypedAsk ==
    ASSUME TypedInv, NEW c \in Client, NEW k \in Key, NEW conv \in Conv,
           NEW project \in Project, NEW content \in Content, NEW pinned \in BOOLEAN,
           AskAgent(c, k, conv, project, content, pinned)
    PROVE  TypeOK' /\ Bounded'
  <1> DEFINE root == [conv |-> conv, seq |-> 0, cause |-> None, project |-> project,
                      content |-> content]
  <1>1. PICK phase \in {"refused", "sending"} : Enter(c, k, root, pinned, phase)
    BY DEF AskAgent
  <1>2. root \in Turn
    BY DEF Turn
  <1>3. QED BY <1>1, <1>2, TypedEnter DEF AskAgent

LEMMA TypedContinue ==
    ASSUME TypedInv, NEW c \in Client, NEW k \in Key, NEW prev \in Key,
           NEW content \in Content, ContinueAgent(c, k, prev, content)
    PROVE  TypeOK' /\ Bounded'
  <1> DEFINE turn == [conv |-> request[prev].conv, seq |-> NextSequence(k, prev),
                      cause |-> prev, project |-> request[prev].project,
                      content |-> content]
  <1>1. PICK phase \in {"refused", "sending"} : Enter(c, k, turn, TRUE, phase)
    BY DEF ContinueAgent
  <1>2. Exists(prev)
    BY DEF ContinueAgent, Known, TypedInv, ChainInv, ResultsHaveTurns
  <1>3. request[prev] \in Turn
    BY <1>2 DEF TypedInv, TypeOK, Exists
  <1>4. turn \in Turn
    BY <1>2, <1>3, NextSequenceIsNat DEF Turn
  <1>5. QED BY <1>1, <1>4, TypedEnter DEF ContinueAgent

LEMMA TypedSend ==
    ASSUME TypedInv, NEW c \in Client, Send(c)
    PROVE  TypeOK' /\ Bounded'
  <1> DEFINE k == call[c].key
             turn == call[c].turn
  <1>1. k \in Key /\ turn \in Turn \cup {NoTurn}
    BY DEF Send, TypedInv, TypeOK, ChainInv, PendingTurns, PendingTurn
  <1>2. call' \in [Client -> [phase : {"idle", "sending", "refused"},
                             key : Key \cup {None}, turn : Turn \cup {NoTurn},
                             pinned : BOOLEAN]]
    BY DEF Send, TypedInv, TypeOK, Idle
  <1>3. CASE request' = request
    BY <1>2, <1>3 DEF Send, TypedInv, TypeOK, Bounded
  <1>4. CASE request' = [request EXCEPT ![k] = turn]
    <2>1. request' \in [Key -> Turn \cup {NoTurn}]
      BY <1>1, <1>4 DEF TypedInv, TypeOK
    <2>2. PICK n \in Nat : \A j \in Key : request[j].seq <= n
      BY DEF TypedInv, Bounded
    <2>3. turn.seq \in Nat /\ \A j \in Key : request[j].seq \in Nat
      BY <1>1 DEF TypedInv, TypeOK, Turn, NoTurn
    <2>4. PICK m \in Nat : n <= m /\ turn.seq <= m
      BY <2>2, <2>3
    <2>5. \A j \in Key : request'[j].seq <= m
      BY <1>1, <1>4, <2>2, <2>3, <2>4 DEF TypedInv, TypeOK
    <2>6. QED BY <1>2, <2>1, <2>5 DEF Send, TypedInv, TypeOK, Bounded
  <1>5. QED BY <1>3, <1>4 DEF Send

LEMMA TypedResults ==
    ASSUME TypedInv, NEW k \in Key,
           \/ \E completed \in BOOLEAN : ResultArrives(k, completed)
           \/ \E from, to \in {"available", "claimed", "processed", "rejected",
                               "quarantined"} : ResultMoves(k, from, to)
    PROVE  TypeOK' /\ Bounded'
  <1>1. Shape' /\ UNCHANGED <<request, call>>
    BY ResultSteps DEF TypedInv, ChainInv, ResultArrives, ResultMoves
  <1>2. QED BY <1>1 DEF TypedInv, TypeOK, Bounded, Shape

LEMMA TypedInitial == Init => TypedInv
  BY ChainInitial DEF Init, TypedInv, TypeOK, Bounded, Idle, NoTurn, NoAnswer, Answer

LEMMA TypedInductive == TypedInv /\ [Next]_vars => TypedInv'
  <1>1. ASSUME TypedInv, UNCHANGED vars PROVE TypeOK' /\ Bounded'
    BY <1>1 DEF vars, TypedInv, TypeOK, Bounded
  <1>2. QED BY <1>1, ChainInductive, TypedAsk, TypedContinue, TypedSend, TypedResults
            DEF Next, TypedInv

(* Whatever clients ask, continue and repeat, and however results arrive   *)
(* and move on, every turn keeps a conversation, a number and a project.   *)
THEOREM ConversationTypeCorrect == Spec => []TypeOK
  <1>1. TypedInv => TypeOK
    BY DEF TypedInv
  <1>2. QED BY <1>1, TypedInitial, TypedInductive, PTL DEF Spec

-----------------------------------------------------------------------------
(* OneChain does not hold of clients that continue a conversation at the   *)
(* same time.  It is enough that no two are on their way to the outbox     *)
(* with turns of one conversation: what a call read of the thread is then  *)
(* still so when its turn is committed.                                    *)

NoParallelCalls ==
    \A c, d \in Client :
        call[c].phase = "sending" /\ call[d].phase = "sending"
            /\ call[c].turn.conv = call[d].turn.conv => c = d

(* A follow-up on its way has a number above those of its conversation.    *)
Ahead(c) ==
    call[c].phase = "sending" /\ call[c].turn.cause # None /\ ~Exists(call[c].key) =>
        \A j \in Turns(call[c].turn.conv) : request[j].seq < call[c].turn.seq

SequentialInv == TypedInv /\ OneChain /\ \A c \in Client : Ahead(c)

(* A step of which the turns in the outbox are not a part.                 *)
LEMMA SequentialUnchanged ==
    ASSUME SequentialInv, request' = request,
           \A c \in Client : call'[c] = call[c] \/ Ahead(c)'
    PROVE  OneChain' /\ \A c \in Client : Ahead(c)'
  BY DEF SequentialInv, OneChain, Ahead, Exists, Turns

LEMMA SequentialAsk ==
    ASSUME SequentialInv, NEW c \in Client, NEW k \in Key, NEW conv \in Conv,
           NEW project \in Project, NEW content \in Content, NEW pinned \in BOOLEAN,
           AskAgent(c, k, conv, project, content, pinned)
    PROVE  OneChain' /\ \A d \in Client : Ahead(d)'
  <1> USE DEF SequentialInv, TypedInv, TypeOK
  <1>1. call'[c].turn.cause = None
    BY DEF AskAgent, Enter
  <1>2. \A d \in Client \ {c} : call'[d] = call[d]
    BY DEF AskAgent, Enter
  <1>3. Ahead(c)'
    BY <1>1 DEF Ahead
  <1>4. QED BY <1>2, <1>3, SequentialUnchanged DEF AskAgent

LEMMA SequentialContinue ==
    ASSUME SequentialInv, NEW c \in Client, NEW k \in Key, NEW prev \in Key,
           NEW content \in Content, ContinueAgent(c, k, prev, content)
    PROVE  OneChain' /\ \A d \in Client : Ahead(d)'
  <1> DEFINE turn == [conv |-> request[prev].conv, seq |-> NextSequence(k, prev),
                      cause |-> prev, project |-> request[prev].project,
                      content |-> content]
  <1>1. PICK phase \in {"refused", "sending"} : Enter(c, k, turn, TRUE, phase)
    BY DEF ContinueAgent
  <1>2. call'[c].key = k /\ call'[c].turn = turn
            /\ \A d \in Client \ {c} : call'[d] = call[d]
    BY <1>1 DEF Enter, SequentialInv, TypedInv, TypeOK
  <1>3. Exists(prev)
    BY DEF ContinueAgent, Known, SequentialInv, TypedInv, ChainInv, ResultsHaveTurns
  <1>4. Exists(k) \/ \A j \in Turns(turn.conv) : request[j].seq < turn.seq
    BY <1>3, NextSequenceIsNat DEF SequentialInv
  <1>5. request' = request
    BY DEF ContinueAgent
  <1>6. Ahead(c)'
    <2> HIDE DEF turn
    <2>1. QED BY <1>2, <1>4, <1>5 DEF Ahead, Exists, Turns
  <1>7. QED BY <1>2, <1>5, <1>6, SequentialUnchanged

LEMMA SequentialSend ==
    ASSUME SequentialInv, NoParallelCalls, NEW c \in Client, Send(c)
    PROVE  OneChain' /\ \A d \in Client : Ahead(d)'
  <1> DEFINE k == call[c].key
             turn == call[c].turn
  <1>1. \A d \in Client \ {c} : call'[d] = call[d]
    BY DEF Send, SequentialInv, TypedInv, TypeOK
  <1>2. call'[c].phase # "sending"
    BY DEF Send, SequentialInv, TypedInv, TypeOK, Idle
  <1>3. CASE request' = request
    BY <1>1, <1>2, <1>3, SequentialUnchanged DEF Ahead
  <1>4. CASE ~OtherRoot(k, turn) /\ ~Exists(k) /\ request' = [request EXCEPT ![k] = turn]
    <2>1. PendingTurn(k, turn)
      BY DEF Send, SequentialInv, TypedInv, ChainInv, PendingTurns
    <2>2. k \in Key /\ turn.conv \in Conv
      BY <2>1 DEF PendingTurn
    <2>3. request'[k] = turn /\ \A j \in Key \ {k} : request'[j] = request[j]
      BY <1>4, <2>2 DEF SequentialInv, TypedInv, TypeOK
    <2>4. \A j \in Turns(turn.conv) : Exists(j) /\ request[j].seq \in Nat
      BY <2>2, ConversationAssumption
         DEF Turns, Exists, NoTurn, SequentialInv, TypedInv, TypeOK, Turn
    <2>5. \A j \in Turns(turn.conv) : request[j].seq # turn.seq
      <3>1. CASE turn.cause = None
        <4>1. \A r \in Turns(turn.conv) : request[r].cause # None
          BY <1>4, <2>4, <3>1 DEF OtherRoot
        <4>2. Turns(turn.conv) = {}
          BY <2>4, <4>1 DEF SequentialInv, TypedInv, ChainInv, Rooted, Turns
        <4>3. QED BY <4>2
      <3>2. CASE turn.cause # None
        <4>1. \A j \in Turns(turn.conv) : request[j].seq < turn.seq
          BY <1>4, <3>2 DEF SequentialInv, Ahead, Send
        <4>2. turn.seq \in Nat
          BY <2>2, ConversationAssumption
             DEF SequentialInv, TypedInv, TypeOK, Turn, NoTurn
        <4>3. QED BY <2>4, <4>1, <4>2
      <3>3. QED BY <3>1, <3>2
    <2>6. OneChain'
      <3> SUFFICES ASSUME NEW i \in Key, NEW j \in Key, Exists(i)', Exists(j)',
                          request'[i].conv = request'[j].conv,
                          request'[i].seq = request'[j].seq
                   PROVE  i = j
        BY DEF OneChain
      <3>1. CASE i # k /\ j # k
        BY <2>3, <3>1 DEF SequentialInv, OneChain, Exists
      <3>2. CASE i = k /\ j # k
        BY <2>3, <2>5, <3>2 DEF Turns
      <3>3. CASE i # k /\ j = k
        BY <2>3, <2>5, <3>3 DEF Turns
      <3>4. QED BY <3>1, <3>2, <3>3
    <2>7. ASSUME NEW d \in Client \ {c}, call[d].phase = "sending",
                 NEW j \in Key, request'[j].conv = call[d].turn.conv
          PROVE  j \in Turns(call[d].turn.conv) /\ request'[j] = request[j]
      <3>1. call[d].turn.conv # turn.conv
        BY <2>7 DEF NoParallelCalls, Send
      <3>2. j # k
        BY <2>3, <2>7, <3>1
      <3>3. QED BY <2>3, <2>7, <3>2 DEF Turns
    <2>8. ASSUME NEW d \in Client \ {c} PROVE Ahead(d)'
      <3>1. ASSUME call[d].phase = "sending", call[d].turn.cause # None,
                   request'[call[d].key] = NoTurn,
                   NEW j \in Key, request'[j].conv = call[d].turn.conv
            PROVE  request'[j].seq < call[d].turn.seq
        <4>1. call[d].key \in Key
          BY <3>1 DEF SequentialInv, TypedInv, ChainInv, PendingTurns, PendingTurn
        <4>2. ~Exists(call[d].key)
          BY <1>4, <2>3, <3>1, <4>1 DEF Exists
        <4>3. \A i \in Turns(call[d].turn.conv) : request[i].seq < call[d].turn.seq
          BY <2>8, <3>1, <4>2 DEF SequentialInv, Ahead
        <4>4. j \in Turns(call[d].turn.conv) /\ request'[j] = request[j]
          BY <2>7, <2>8, <3>1
        <4>5. QED BY <4>3, <4>4
      <3>2. call'[d] = call[d]
        BY <1>1, <2>8
      <3>3. QED BY <3>1, <3>2 DEF Ahead, Turns, Exists
    <2>9. QED BY <1>2, <2>6, <2>8 DEF Ahead
  <1>5. QED BY <1>3, <1>4 DEF Send

LEMMA SequentialResults ==
    ASSUME SequentialInv, NEW k \in Key,
           \/ \E completed \in BOOLEAN : ResultArrives(k, completed)
           \/ \E from, to \in {"available", "claimed", "processed", "rejected",
                               "quarantined"} : ResultMoves(k, from, to)
    PROVE  OneChain' /\ \A d \in Client : Ahead(d)'
  <1>1. UNCHANGED <<request, call>>
    BY DEF ResultArrives, ResultMoves
  <1>2. QED BY <1>1, SequentialUnchanged

LEMMA SequentialInductive ==
    SequentialInv /\ NoParallelCalls /\ [Next]_vars => SequentialInv'
  <1>1. ASSUME SequentialInv, UNCHANGED vars
        PROVE  OneChain' /\ \A c \in Client : Ahead(c)'
    BY <1>1, SequentialUnchanged DEF vars
  <1>2. ASSUME SequentialInv, NoParallelCalls, Next
        PROVE  OneChain' /\ \A c \in Client : Ahead(c)'
    BY <1>2, SequentialAsk, SequentialContinue, SequentialSend, SequentialResults DEF Next
  <1>3. SequentialInv /\ [Next]_vars => TypedInv'
    BY TypedInductive DEF SequentialInv
  <1>4. QED BY <1>1, <1>2, <1>3 DEF SequentialInv

(* Calls that do not overlap in a conversation keep it one chain of        *)
(* requests and results: the check of continueAgent against the latest     *)
(* message is enough as long as nothing is committed between that check    *)
(* and the transaction, and parallel calls are the only way to a fork.     *)
THEOREM SequentialCallsKeepOneChain == Spec /\ []NoParallelCalls => []OneChain
  <1>1. Init => SequentialInv
    BY TypedInitial DEF Init, SequentialInv, OneChain, Exists, Ahead, Idle
  <1>2. SequentialInv => OneChain
    BY DEF SequentialInv
  <1>3. QED BY <1>1, <1>2, SequentialInductive, PTL DEF Spec
=============================================================================
