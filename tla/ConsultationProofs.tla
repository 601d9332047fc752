-------------------------- MODULE ConsultationProofs --------------------------
(* Theorems about Consultation, for every value of its constants.          *)
EXTENDS Consultation, TLAPS

-----------------------------------------------------------------------------
(* Requests.                                                               *)

LEMMA RequestsAreSequences ==
    ASSUME NEW q \in Request
    PROVE  q \in Seq(Round) /\ Len(q) \in Nat /\ Len(q) <= MaxDepth
  <1>1. PICK d \in 0 .. MaxDepth : q \in [1 .. d -> Round]
    BY DEF Request
  <1>2. d \in Nat /\ q \in Seq(Round) /\ Len(q) = d
    BY <1>1, ConsultationAssumption
  <1>3. QED BY <1>1, <1>2, ConsultationAssumption

LEMMA RequestOfALength ==
    ASSUME NEW n \in Seq(Round), Len(n) <= MaxDepth
    PROVE  n \in Request
  <1>1. Len(n) \in 0 .. MaxDepth
    BY ConsultationAssumption
  <1>2. n \in [1 .. Len(n) -> Round]
    OBVIOUS
  <1>3. QED BY <1>1, <1>2 DEF Request

LEMMA NestedRequest ==
    ASSUME NEW q \in Request, NEW r \in Round, Len(q) < MaxDepth
    PROVE  Append(q, r) \in Request
  <1>1. q \in Seq(Round) /\ Len(q) \in Nat
    BY RequestsAreSequences
  <1>2. Append(q, r) \in Seq(Round) /\ Len(Append(q, r)) = Len(q) + 1
    BY <1>1
  <1>3. Len(Append(q, r)) <= MaxDepth
    BY <1>1, <1>2, ConsultationAssumption
  <1>4. QED BY <1>2, <1>3, RequestOfALength

LEMMA NestedFrom ==
    ASSUME NEW q \in Request, NEW p \in Request, NEW r \in Round, NEW s \in Round,
           Append(q, r) = Append(p, s)
    PROVE  q = p /\ r = s
  <1>1. q \in Seq(Round) /\ p \in Seq(Round)
    BY RequestsAreSequences
  <1>2. Len(q) = Len(p)
    <2>1. Len(Append(q, r)) = Len(q) + 1 /\ Len(Append(p, s)) = Len(p) + 1
      BY <1>1
    <2>2. QED BY <1>1, <2>1
  <1>3. r = s
    <2>1. Append(q, r)[Len(q) + 1] = r /\ Append(p, s)[Len(p) + 1] = s
      BY <1>1
    <2>2. QED BY <1>2, <2>1
  <1>4. \A i \in 1 .. Len(q) : q[i] = p[i]
    <2>1. \A i \in 1 .. Len(q) : Append(q, r)[i] = q[i]
      BY <1>1
    <2>2. \A i \in 1 .. Len(p) : Append(p, s)[i] = p[i]
      BY <1>1
    <2>3. QED BY <1>2, <2>1, <2>2
  <1>5. QED BY <1>1, <1>2, <1>3, <1>4

LEMMA RootIsARequest == Root \in Request /\ Len(Root) = 0
  <1>1. <<>> \in Seq(Round) /\ Len(<<>>) = 0
    OBVIOUS
  <1>2. Len(<<>>) <= MaxDepth
    BY <1>1, ConsultationAssumption
  <1>3. <<>> \in Request
    BY <1>1, <1>2, RequestOfALength
  <1>4. QED BY <1>1, <1>3 DEF Root

(* What precedes a nested request is what precedes the request.            *)
LEMMA Prefixes ==
    ASSUME NEW q \in Request, NEW r \in Round, NEW d \in 0 .. Len(q)
    PROVE  /\ SubSeq(Append(q, r), 1, d) = SubSeq(q, 1, d)
           /\ SubSeq(q, 1, d) \in Request
           /\ SubSeq(q, 1, Len(q)) = q
  <1>1. q \in Seq(Round) /\ Len(q) \in Nat /\ Len(q) <= MaxDepth
    BY RequestsAreSequences
  <1>2. d \in Nat /\ d <= Len(q)
    BY <1>1
  <1>3. SubSeq(q, 1, d) \in Seq(Round) /\ Len(SubSeq(q, 1, d)) = d
    BY <1>1, <1>2
  <1>4. SubSeq(q, 1, d) \in Request
    <2>1. Len(SubSeq(q, 1, d)) <= MaxDepth
      BY <1>1, <1>2, <1>3, ConsultationAssumption
    <2>2. QED BY <1>3, <2>1, RequestOfALength
  <1>5. SubSeq(Append(q, r), 1, d) = SubSeq(q, 1, d)
    BY <1>1, <1>2
  <1>6. SubSeq(q, 1, Len(q)) = q
    BY <1>1
  <1>7. QED BY <1>4, <1>5, <1>6

-----------------------------------------------------------------------------
(* The inductive invariant.                                                *)

(* The peer has answered the task of round r of request q.                 *)
Answered(q, r) ==
    /\ Append(q, r) \in Request /\ task[Append(q, r)] # None
    /\ reply[Append(q, r)] # None /\ reply[Append(q, r)].outcome = "completed"

(* r can be a state of the run of q.                                       *)
RunFits(q, r) ==
    /\ r.state = "waiting_peer" => r.round \in Round /\ r.peer # None
    /\ r.nested => r.state = "waiting_peer" /\ Len(q) < MaxDepth
    /\ \A e \in r.evidence : Answered(q, e)

(* What precedes a request is known and is in its ancestry.                *)
TaskFits(q) ==
    task[q] # None =>
        /\ \A d \in 0 .. Len(q) :
              /\ task[SubSeq(q, 1, d)] # None
              /\ task[SubSeq(q, 1, d)].topic \in task[q].ancestry
        /\ \A d \in 0 .. Len(q) - 1 : task[SubSeq(q, 1, d)].topic # task[q].topic

RowFits(q) ==
    /\ inbox[q].state # "absent" => task[q] # None /\ q \notin Elsewhere
    /\ reply[q] # None =>
           /\ task[q] # None
           /\ q \in Elsewhere \/ inbox[q].state \in {"processed", "rejected"}
    /\ returned[q] # "no" => reply[q] # None
    /\ run[q] # None => RunFits(q, run[q])

(* r was the run of q, now or earlier.                                     *)
ReadEarlier(q, r) ==
    /\ run[q] # None /\ r.round <= run[q].round
    /\ r.round = run[q].round /\ r.state = "waiting_peer" /\ run[q].state = "waiting_peer" =>
           r.peer = run[q].peer

(* The step that a coordinator takes next fits the run it read.            *)
StepFits(w) ==
    /\ w.step \notin {"claimed", "approved", "reject"}
    /\ w.step = "child" => w.run.state = "pending_child" /\ w.run.round < MaxRounds
    /\ w.step = "evidence" => w.run.state = "needs_information"
    /\ w.step \in {"peer", "nested"} => w.run.state = "waiting_peer"
    /\ w.step = "nested" => Len(w.request) < MaxDepth
    /\ w.step \in {"child", "answer"} => ~w.overdue
    /\ w.step = "answer" => w.run.state = "completed"
    /\ w.step = "fail" => (w.run.state = "completed" => w.overdue)

WorkFits(w) ==
    /\ inbox[w.request].state # "absent"
    /\ w.overdue => overdue[w.request]
    /\ \/ w.step \in {"claimed", "approved", "reject"} /\ ~w.current
       \/ /\ w.run # None /\ StepFits(w)
          /\ RunFits(w.request, w.run) /\ ReadEarlier(w.request, w.run)
          /\ w.current => run[w.request] = w.run

WorksOn(c, q) == Busy(c) /\ work[c].request = q

Owns(c, q) == WorksOn(c, q) /\ inbox[q].state = "claimed" /\ inbox[q].owner = c

(* Whoever saw the deadline pass claimed the request before its owner did, *)
(* who then sees it too.                                                   *)
OwnerFits(c, q) ==
    Owns(c, q) =>
        /\ \A d \in Coordinator : WorksOn(d, q) /\ work[d].overdue => work[c].overdue
        /\ work[c].step = "answer" => run[q] = work[c].run

ProcessedFits(q) ==
    inbox[q].state = "processed" =>
        /\ run[q] # None /\ run[q].state = "completed"
        /\ reply[q] = [outcome |-> "completed", evidence |-> run[q].evidence]
        /\ \A d \in Coordinator : WorksOn(d, q) => ~work[d].overdue

NestedFits(q) ==
    \A r \in Round :
        Append(q, r) \in Request /\ task[Append(q, r)] # None =>
            /\ run[q] # None /\ r <= run[q].round
            /\ run[q].state = "waiting_peer" /\ run[q].round = r =>
                   task[Append(q, r)].topic = run[q].peer

ConsultationInv ==
    /\ TypeOK
    /\ \A q \in Request : TaskFits(q) /\ RowFits(q) /\ ProcessedFits(q) /\ NestedFits(q)
    /\ \A c \in Coordinator : Busy(c) => WorkFits(work[c])
    /\ \A c \in Coordinator, q \in Request : OwnerFits(c, q)

-----------------------------------------------------------------------------
(* Saves.                                                                  *)

(* r is a sound outcome of what coordinator c is about, which then goes on *)
(* with step s.                                                            *)
Advances(c, r, s) ==
    LET w == work[c] IN
    /\ r.round \in {w.run.round, w.run.round + 1}
    /\ r.state = "waiting_peer" /\ r.round = w.run.round =>
           w.run.state = "waiting_peer" /\ r.peer = w.run.peer
    /\ w.run.state = "completed" => w.overdue
    /\ s \in {"answer", "release", "refuse"}
    /\ s = "answer" => r.state = "completed" /\ ~w.overdue
    /\ RunFits(w.request, r)

SavesSoundly(c) ==
    /\ Busy(c) /\ work[c].step \notin {"claimed", "approved", "reject"}
    /\ \E r \in Run, s \in Step, l \in BOOLEAN : Save(c, r, s, l) /\ Advances(c, r, s)

(* What a coordinator holds.                                               *)
LEMMA Holding ==
    ASSUME ConsultationInv, NEW c \in Coordinator, Busy(c)
    PROVE  /\ work[c] \in Work /\ WorkFits(work[c])
           /\ work[c].request \in Request /\ work[c].step \in Step
           /\ work[c].step \notin {"claimed", "approved", "reject"} =>
                  work[c].run \in Run /\ StepFits(work[c])
                      /\ RunFits(work[c].request, work[c].run)
  <1>1. work[c] \in Work
    BY DEF ConsultationInv, TypeOK, Busy
  <1>2. WorkFits(work[c])
    BY DEF ConsultationInv
  <1>3. QED BY <1>1, <1>2 DEF Work, WorkFits

LEMMA SettledRun ==
    ASSUME NEW r \in Run
    PROVE  /\ Settled(r) \in Run
           /\ Settled(r).peer = None /\ Settled(r).nested = FALSE
           /\ Settled(r).state = r.state /\ Settled(r).round = r.round
           /\ Settled(r).evidence = r.evidence
  BY DEF Settled, Run

LEMMA ChildSavesSoundly ==
    ASSUME ConsultationInv, NEW c \in Coordinator,
           \/ ChildAnswers(c) \/ ChildAsksForEvidence(c)
           \/ \E t \in Topic : ChildAsksForPeer(c, t)
    PROVE  SavesSoundly(c)
  <1> DEFINE r == work[c].run
  <1>1. /\ Busy(c) /\ work[c].step = "child"
        /\ LiveReading(c) \in BOOLEAN
    <2>1. Busy(c) /\ work[c].step = "child"
      BY DEF ChildAnswers, ChildAsksForEvidence, ChildAsksForPeer, At
    <2>2. QED BY <2>1, Holding DEF LiveReading, ConsultationInv, TypeOK, Row
  <1>2. /\ r \in Run /\ r.round \in 0 .. MaxRounds /\ r.round < MaxRounds
        /\ r.state = "pending_child" /\ ~work[c].overdue
        /\ RunFits(work[c].request, r)
    BY <1>1, Holding DEF StepFits, Run
  <1>3. /\ r.round + 1 \in 0 .. MaxRounds /\ r.round + 1 \in Round /\ r.round + 1 # r.round
    BY <1>2, ConsultationAssumption DEF Round
  <1>4. /\ Settled(r).peer = None /\ Settled(r).nested = FALSE
        /\ Settled(r).evidence = r.evidence /\ Settled(r).round = r.round
        /\ Settled(r) \in Run
    BY <1>2, SettledRun
  <1>5. CASE ChildAnswers(c)
    <2> DEFINE s == [Settled(r) EXCEPT !.state = "completed", !.round = @ + 1]
    <2>1. /\ s \in Run /\ s.state = "completed" /\ s.round = r.round + 1
          /\ s.nested = FALSE /\ s.evidence = r.evidence
      BY <1>3, <1>4 DEF Run, RunState
    <2>2. Save(c, s, "answer", LiveReading(c))
      BY <1>5 DEF ChildAnswers
    <2>3. Advances(c, s, "answer")
      BY <1>2, <1>3, <2>1 DEF Advances, RunFits
    <2> HIDE DEF s
    <2>4. QED BY <1>1, <2>1, <2>2, <2>3 DEF SavesSoundly, Step
  <1>6. CASE ChildAsksForEvidence(c)
    <2> DEFINE s == [Settled(r) EXCEPT !.state = "needs_information", !.round = @ + 1]
    <2>1. /\ s \in Run /\ s.state = "needs_information" /\ s.round = r.round + 1
          /\ s.nested = FALSE /\ s.evidence = r.evidence
      BY <1>3, <1>4 DEF Run, RunState
    <2>2. Save(c, s, "release", LiveReading(c))
      BY <1>6 DEF ChildAsksForEvidence
    <2>3. Advances(c, s, "release")
      BY <1>2, <1>3, <2>1 DEF Advances, RunFits
    <2> HIDE DEF s
    <2>4. QED BY <1>1, <2>1, <2>2, <2>3 DEF SavesSoundly, Step
  <1>7. CASE \E t \in Topic : ChildAsksForPeer(c, t)
    <2>1. PICK t \in Topic : ChildAsksForPeer(c, t)
      BY <1>7
    <2> DEFINE s == [Settled(r) EXCEPT !.state = "waiting_peer", !.round = @ + 1, !.peer = t]
    <2>2. /\ s \in Run /\ s.state = "waiting_peer" /\ s.round = r.round + 1
          /\ s.nested = FALSE /\ s.evidence = r.evidence /\ s.peer = t
      BY <1>3, <1>4 DEF Run, RunState
    <2>3. Save(c, s, "release", LiveReading(c))
      BY <2>1 DEF ChildAsksForPeer
    <2>4. t # None
      BY ConsultationAssumption
    <2>5. Advances(c, s, "release")
      BY <1>2, <1>3, <2>2, <2>4 DEF Advances, RunFits
    <2> HIDE DEF s
    <2>6. QED BY <1>1, <2>2, <2>3, <2>5 DEF SavesSoundly, Step
  <1>8. QED BY <1>5, <1>6, <1>7

LEMMA OthersSaveSoundly ==
    ASSUME ConsultationInv, NEW c \in Coordinator,
           \/ CollectEvidence(c) \/ SaveNested(c) \/ NoResultYet(c)
           \/ PeerAnswered(c) \/ SaveFailed(c)
    PROVE  SavesSoundly(c)
  <1> DEFINE r == work[c].run
  <1>1. Busy(c) /\ work[c].step \in {"evidence", "nested", "peer", "fail"}
    BY DEF CollectEvidence, SaveNested, NoResultYet, PeerAnswered, SaveFailed, At
  <1>2. /\ r \in Run /\ RunFits(work[c].request, r) /\ StepFits(work[c])
        /\ work[c] \in Work /\ work[c].request \in Request
    BY <1>1, Holding
  <1>3. /\ work[c].lapsed \in BOOLEAN /\ LiveReading(c) \in BOOLEAN
    BY <1>2 DEF Work, LiveReading, ConsultationInv, TypeOK, Row
  <1>4. /\ Settled(r).peer = None /\ Settled(r).nested = FALSE
        /\ Settled(r).evidence = r.evidence /\ Settled(r).round = r.round
        /\ Settled(r) \in Run
    BY <1>2, SettledRun
  <1>5. CASE CollectEvidence(c)
    <2> DEFINE s == [Settled(r) EXCEPT !.state = "pending_child"]
    <2>1. /\ s \in Run /\ s.state = "pending_child" /\ s.round = r.round
          /\ s.nested = FALSE /\ s.evidence = r.evidence
      BY <1>4 DEF Run, RunState
    <2>2. Save(c, s, "release", LiveReading(c)) /\ work[c].step = "evidence"
      BY <1>5 DEF CollectEvidence, At
    <2>3. Advances(c, s, "release")
      BY <1>2, <2>1, <2>2 DEF Advances, RunFits, StepFits
    <2> HIDE DEF s
    <2>4. QED BY <1>1, <1>3, <2>1, <2>2, <2>3 DEF SavesSoundly, Step
  <1>6. CASE SaveNested(c)
    <2> DEFINE s == [r EXCEPT !.nested = TRUE]
    <2>1. /\ s \in Run /\ s.state = r.state /\ s.round = r.round
          /\ s.peer = r.peer /\ s.evidence = r.evidence
      BY <1>2 DEF Run, RunState
    <2>2. Save(c, s, "release", work[c].lapsed) /\ work[c].step = "nested"
      BY <1>6 DEF SaveNested, At
    <2>3. Advances(c, s, "release")
      BY <1>2, <2>1, <2>2 DEF Advances, RunFits, StepFits
    <2> HIDE DEF s
    <2>4. QED BY <1>1, <1>3, <2>1, <2>2, <2>3 DEF SavesSoundly, Step
  <1>7. CASE NoResultYet(c)
    <2>1. Save(c, r, "release", work[c].lapsed) /\ work[c].step = "peer"
      BY <1>7 DEF NoResultYet, At
    <2>2. Advances(c, r, "release")
      BY <1>2, <2>1 DEF Advances, RunFits, StepFits
    <2>3. QED BY <1>1, <1>2, <1>3, <2>1, <2>2 DEF SavesSoundly, Step
  <1>8. CASE PeerAnswered(c)
    <2> DEFINE s == [Settled(r) EXCEPT !.state = "pending_child",
                                       !.evidence = @ \cup {r.round}]
    <2>1. work[c].step = "peer" /\ r.nested /\ UsableResult(c)
      BY <1>8 DEF PeerAnswered, At
    <2>2. r.state = "waiting_peer" /\ r.round \in Round /\ Len(work[c].request) < MaxDepth
      BY <1>2, <2>1 DEF RunFits, StepFits
    <2>3. /\ s \in Run /\ s.state = "pending_child" /\ s.round = r.round
          /\ s.nested = FALSE /\ s.evidence = r.evidence \cup {r.round}
      BY <1>4, <2>2 DEF Run, RunState
    <2>4. Save(c, s, "release", work[c].lapsed)
      BY <1>8 DEF PeerAnswered
    <2>5. Answered(work[c].request, r.round)
      <3>1. PeerResult(c) \in Request
        BY <1>2, <2>2, NestedRequest DEF PeerResult
      <3>2. RowFits(PeerResult(c))
        BY <3>1 DEF ConsultationInv
      <3>3. QED BY <2>1, <3>1, <3>2 DEF RowFits, UsableResult, Answered, PeerResult
    <2>6. Advances(c, s, "release")
      BY <1>2, <2>1, <2>2, <2>3, <2>5 DEF Advances, RunFits
    <2> HIDE DEF s
    <2>7. QED BY <1>1, <1>3, <2>3, <2>4, <2>6 DEF SavesSoundly, Step
  <1>9. CASE SaveFailed(c)
    <2> DEFINE s == [Settled(r) EXCEPT !.state = "failed"]
    <2>1. /\ s \in Run /\ s.state = "failed" /\ s.round = r.round
          /\ s.nested = FALSE /\ s.evidence = r.evidence
      BY <1>4 DEF Run, RunState
    <2>2. Save(c, s, "refuse", work[c].lapsed) /\ work[c].step = "fail"
      BY <1>9 DEF SaveFailed, At
    <2>3. Advances(c, s, "refuse")
      BY <1>2, <2>1, <2>2 DEF Advances, RunFits, StepFits
    <2> HIDE DEF s
    <2>4. QED BY <1>1, <1>3, <2>1, <2>2, <2>3 DEF SavesSoundly, Step
  <1>10. QED BY <1>5, <1>6, <1>7, <1>8, <1>9

(* A sound save keeps the invariant: the version it was made under is the  *)
(* row's, so nobody has saved since it was read.                           *)
LEMMA SavePreserves ==
    ASSUME ConsultationInv, TypeOK', NEW c \in Coordinator, SavesSoundly(c),
           UNCHANGED <<task, inbox, overdue, reply, returned>>
    PROVE  ConsultationInv'
  <1>1. PICK r \in Run, s \in Step, l \in BOOLEAN : Save(c, r, s, l) /\ Advances(c, r, s)
    BY DEF SavesSoundly
  <1>2. PICK q \in Request : q = work[c].request
    BY Holding DEF SavesSoundly
  <1>3. /\ work[c].run \in Run /\ work[c].current /\ run[q] = work[c].run /\ run[q] # None
        /\ WorkFits(work[c]) /\ Busy(c) /\ work[c] \in Work
    <2>1. /\ Busy(c) /\ work[c].step \notin {"claimed", "approved", "reject"}
          /\ work[c].current
      BY <1>1 DEF SavesSoundly, Save
    <2>2. QED BY <1>2, <2>1, Holding DEF WorkFits
  <1>4. /\ run'[q] = r /\ r # None
        /\ \A p \in Request : p # q => run'[p] = run[p]
    BY <1>1, <1>2, NoneAssumption DEF Save, ConsultationInv, TypeOK
  <1>5. /\ work'[c] = [work[c] EXCEPT !.step = s, !.run = r, !.lapsed = l]
        /\ \A d \in Coordinator : d # c =>
             work'[d] = IF Busy(d) /\ work[d].request = q
                          THEN [work[d] EXCEPT !.current = FALSE] ELSE work[d]
    BY <1>1, <1>2 DEF Save
  <1>6. /\ work'[c].request = q /\ work'[c].overdue = work[c].overdue
        /\ work'[c].step = s /\ work'[c].run = r
    BY <1>2, <1>3, <1>5 DEF Work
  <1>7. \A d \in Coordinator : d # c /\ work'[d] # None =>
          /\ work[d] # None
          /\ work'[d].request = work[d].request /\ work'[d].overdue = work[d].overdue
          /\ work'[d].step = work[d].step /\ work'[d].run = work[d].run
          /\ work[d].request = q => ~work'[d].current
          /\ work[d].request # q => work'[d] = work[d]
    BY <1>5 DEF ConsultationInv, TypeOK, Work, Busy
  <1>8. ASSUME NEW p \in Request
        PROVE  TaskFits(p)' /\ RowFits(p)'
    <2>1. TaskFits(p) /\ RowFits(p)
      BY DEF ConsultationInv
    <2>2. TaskFits(p)'
      BY <2>1 DEF TaskFits
    <2>3. RunFits(q, r)
      BY <1>1, <1>2 DEF Advances
    <2>4. RowFits(p)'
      BY <1>4, <2>1, <2>3 DEF RowFits, RunFits, Answered
    <2>5. QED BY <2>2, <2>4
  <1>9. ASSUME NEW p \in Request
        PROVE  ProcessedFits(p)'
    <2>1. ProcessedFits(p)
      BY DEF ConsultationInv
    <2>2. p = q => inbox[p].state # "processed"
      BY <1>1, <1>2, <1>3, <2>1 DEF ProcessedFits, Advances, WorksOn
    <2>3. \A d \in Coordinator : WorksOn(d, p)' => WorksOn(d, p) /\ work'[d].overdue = work[d].overdue
      BY <1>2, <1>3, <1>6, <1>7 DEF WorksOn, Busy
    <2>4. QED BY <1>4, <2>1, <2>2, <2>3 DEF ProcessedFits
  <1>10. ASSUME NEW p \in Request
         PROVE  NestedFits(p)'
    <2>1. NestedFits(p)
      BY DEF ConsultationInv
    <2>2. CASE p # q
      BY <1>4, <2>1, <2>2 DEF NestedFits
    <2>3. CASE p = q
      <3>1. /\ r.round \in {run[q].round, run[q].round + 1}
            /\ run[q].round \in Nat /\ r.round \in Nat
            /\ r.state = "waiting_peer" /\ r.round = run[q].round =>
                 run[q].state = "waiting_peer" /\ r.peer = run[q].peer
        BY <1>1, <1>3, ConsultationAssumption DEF Advances, Run
      <3>2. \A i \in Round : i \in Nat
        BY ConsultationAssumption DEF Round
      <3>3. QED BY <1>4, <2>1, <2>3, <3>1, <3>2 DEF NestedFits
    <2>4. QED BY <2>2, <2>3
  <1>11. ASSUME NEW d \in Coordinator, Busy(d)'
         PROVE  WorkFits(work[d])'
    <2>1. CASE d = c
      <3>1. inbox[q].state # "absent" /\ (work[c].overdue => overdue[q])
        BY <1>2, <1>3 DEF WorkFits
      <3>2. /\ s \in {"answer", "release", "refuse"}
            /\ s = "answer" => r.state = "completed" /\ ~work[c].overdue
            /\ RunFits(q, r)
        BY <1>1, <1>2 DEF Advances
      <3>3. StepFits(work[c])'
        BY <1>6, <3>2 DEF StepFits
      <3>4. /\ r.round \in Nat
            /\ RunFits(work[c].request, work[c].run)'
        BY <1>6, <3>2, ConsultationAssumption DEF RunFits, Answered, Run
      <3>5. ReadEarlier(work[c].request, work[c].run)'
        BY <1>4, <1>6, <3>4 DEF ReadEarlier
      <3>6. QED BY <1>4, <1>6, <2>1, <3>1, <3>3, <3>4, <3>5 DEF WorkFits
    <2>2. CASE d # c
      <3>1. /\ Busy(d) /\ WorkFits(work[d]) /\ work[d].request \in Request
            /\ work[d] \in Work
        BY <1>7, <1>11, <2>2, Holding DEF Busy
      <3>2. PICK p \in Request : p = work[d].request
        BY <3>1
      <3>3. CASE p # q
        <4>1. work'[d] = work[d] /\ run'[p] = run[p]
          BY <1>4, <1>7, <1>11, <2>2, <3>2, <3>3 DEF Busy
        <4>2. QED BY <3>1, <3>2, <4>1
                DEF WorkFits, StepFits, RunFits, Answered, ReadEarlier
      <3>4. CASE p = q
        <4>1. /\ work'[d].request = q /\ work'[d].overdue = work[d].overdue
              /\ work'[d].step = work[d].step /\ work'[d].run = work[d].run
              /\ ~work'[d].current
          BY <1>7, <1>11, <2>2, <3>2, <3>4 DEF Busy
        <4>2. CASE work[d].step \in {"claimed", "approved", "reject"}
          BY <3>1, <3>2, <3>4, <4>1, <4>2 DEF WorkFits
        <4>3. CASE work[d].step \notin {"claimed", "approved", "reject"}
          <5>1. /\ work[d].run # None /\ work[d].run \in Run /\ StepFits(work[d])
                /\ RunFits(q, work[d].run) /\ ReadEarlier(q, work[d].run)
            BY <3>1, <3>2, <3>4, <4>3 DEF WorkFits, Work
          <5>2. StepFits(work[d])' /\ RunFits(work[d].request, work[d].run)'
            BY <4>1, <5>1, <3>2, <3>4 DEF StepFits, RunFits, Answered
          <5>3. ReadEarlier(work[d].request, work[d].run)'
            <6>1. /\ r.round \in {run[q].round, run[q].round + 1}
                  /\ run[q].round \in Nat /\ r.round \in Nat /\ work[d].run.round \in Nat
                  /\ r.state = "waiting_peer" /\ r.round = run[q].round =>
                       run[q].state = "waiting_peer" /\ r.peer = run[q].peer
              BY <1>1, <1>3, <5>1, ConsultationAssumption DEF Advances, Run
            <6>2. QED BY <1>4, <4>1, <5>1, <6>1 DEF ReadEarlier
          <5>4. QED BY <3>1, <3>2, <3>4, <4>1, <5>1, <5>2, <5>3 DEF WorkFits
        <4>4. QED BY <4>2, <4>3
      <3>5. QED BY <3>3, <3>4
    <2>3. QED BY <2>1, <2>2
  <1>12. ASSUME NEW d \in Coordinator, NEW p \in Request
         PROVE  OwnerFits(d, p)'
    <2>1. SUFFICES ASSUME Owns(d, p)'
                   PROVE  /\ \A b \in Coordinator :
                               WorksOn(b, p)' /\ work'[b].overdue => work'[d].overdue
                          /\ work'[d].step = "answer" => run'[p] = work'[d].run
      BY DEF OwnerFits
    <2>2. \A b \in Coordinator : WorksOn(b, p)' =>
            WorksOn(b, p) /\ work'[b].overdue = work[b].overdue
      BY <1>2, <1>3, <1>6, <1>7 DEF WorksOn, Busy
    <2>3. Owns(d, p) /\ OwnerFits(d, p)
      BY <2>1, <2>2 DEF Owns, ConsultationInv
    <2>4. \A b \in Coordinator : WorksOn(b, p)' /\ work'[b].overdue => work'[d].overdue
      BY <2>1, <2>2, <2>3 DEF OwnerFits, Owns
    <2>5. ASSUME work'[d].step = "answer"
          PROVE  run'[p] = work'[d].run
      <3>1. CASE d = c
        BY <1>2, <1>4, <1>6, <2>3, <3>1 DEF Owns, WorksOn
      <3>2. CASE d # c
        <4>1. /\ work[d].step = "answer" /\ work'[d].run = work[d].run
              /\ run[p] = work[d].run /\ Busy(d)
          BY <1>7, <2>1, <2>3, <2>5, <3>2 DEF Owns, WorksOn, OwnerFits, Busy
        <4>2. StepFits(work[d])
          BY <4>1, Holding
        <4>3. p # q
          <5>1. SUFFICES ASSUME p = q PROVE FALSE
            OBVIOUS
          <5>2. work[c].run.state = "completed"
            BY <1>3, <4>1, <4>2, <5>1 DEF StepFits
          <5>3. work[c].overdue /\ WorksOn(c, p)
            BY <1>1, <1>2, <1>3, <5>1, <5>2 DEF Advances, WorksOn
          <5>4. QED BY <2>3, <4>1, <4>2, <5>3 DEF OwnerFits, StepFits
        <4>4. QED BY <1>4, <4>1, <4>3
      <3>3. QED BY <3>1, <3>2
    <2>6. QED BY <2>4, <2>5
  <1>13. QED BY <1>8, <1>9, <1>10, <1>11, <1>12 DEF ConsultationInv

-----------------------------------------------------------------------------
(* Steps that change no task, no run and no result.                        *)

Early == {"claimed", "approved", "reject"}

(* Coordinator d goes on with step s of its request.                       *)
Moves(d, s) ==
    /\ work'[d] = [work[d] EXCEPT !.step = s] /\ s # "answer"
    /\ \/ work[d].step \in Early /\ s \in Early
       \/ work[d].step \notin Early /\ StepFits([work[d] EXCEPT !.step = s])

RowMoves(q) ==
    /\ \/ inbox'[q].state = inbox[q].state
       \/ /\ inbox[q].state \notin {"processed", "rejected"}
          /\ inbox'[q].state \in {"available", "parked"}
          /\ task[q] # None /\ q \notin Elsewhere
    /\ inbox'[q].state = "claimed" => inbox'[q].owner = inbox[q].owner
    /\ overdue[q] => overdue'[q]
    /\ returned'[q] # "no" => reply[q] # None

Quiet ==
    /\ UNCHANGED <<task, run, reply>>
    /\ \A q \in Request : RowMoves(q)
    /\ \A d \in Coordinator : Busy(d)' =>
           Busy(d) /\ (work'[d] = work[d] \/ \E s \in Step : Moves(d, s))

LEMMA QuietPreserves ==
    ASSUME ConsultationInv, TypeOK', Quiet
    PROVE  ConsultationInv'
  <1>1. \A d \in Coordinator, q \in Request : WorksOn(d, q)' =>
          /\ WorksOn(d, q) /\ work'[d].overdue = work[d].overdue
          /\ work'[d].run = work[d].run /\ work'[d].current = work[d].current
          /\ work'[d] = work[d] \/ \E s \in Step : Moves(d, s) /\ work'[d].step = s
    <2>1. SUFFICES ASSUME NEW d \in Coordinator, NEW q \in Request, WorksOn(d, q)'
                   PROVE  /\ WorksOn(d, q) /\ work'[d].overdue = work[d].overdue
                          /\ work'[d].run = work[d].run /\ work'[d].current = work[d].current
                          /\ \/ work'[d] = work[d]
                             \/ \E s \in Step : Moves(d, s) /\ work'[d].step = s
      OBVIOUS
    <2>2. Busy(d) /\ (work'[d] = work[d] \/ \E s \in Step : Moves(d, s))
      BY <2>1 DEF Quiet, WorksOn, Busy
    <2>3. work[d] \in Work
      BY <2>2, Holding
    <2>4. CASE work'[d] = work[d]
      BY <2>1, <2>2, <2>4 DEF WorksOn, Busy
    <2>5. ASSUME NEW s \in Step, Moves(d, s)
          PROVE  /\ work'[d].request = work[d].request /\ work'[d].overdue = work[d].overdue
                 /\ work'[d].run = work[d].run /\ work'[d].current = work[d].current
                 /\ work'[d].step = s
      BY <2>3, <2>5 DEF Moves, Work
    <2>6. QED BY <2>1, <2>2, <2>4, <2>5 DEF WorksOn
  <1>2. ASSUME NEW q \in Request
        PROVE  TaskFits(q)' /\ NestedFits(q)' /\ RowFits(q)' /\ ProcessedFits(q)'
    <2>1. TaskFits(q) /\ NestedFits(q) /\ RowFits(q) /\ ProcessedFits(q) /\ RowMoves(q)
      BY DEF ConsultationInv, Quiet
    <2>2. TaskFits(q)'
      BY <2>1 DEF TaskFits, Quiet
    <2>3. NestedFits(q)'
      BY <2>1 DEF NestedFits, Quiet
    <2>4. RowFits(q)'
      BY <2>1 DEF RowFits, RunFits, Answered, Quiet, RowMoves
    <2>5. ProcessedFits(q)'
      BY <1>1, <2>1 DEF ProcessedFits, Quiet, RowMoves
    <2>6. QED BY <2>2, <2>3, <2>4, <2>5
  <1>3. ASSUME NEW d \in Coordinator, Busy(d)'
        PROVE  WorkFits(work[d])'
    <2>1. PICK q \in Request : q = work'[d].request
      BY <1>3 DEF TypeOK, Work, Busy
    <2>2. WorksOn(d, q)' /\ WorksOn(d, q)
      BY <1>1, <1>3, <2>1 DEF WorksOn
    <2>3. /\ work[d] \in Work /\ WorkFits(work[d]) /\ RowFits(q) /\ RowMoves(q)
          /\ work[d].request = q
      BY <2>2, Holding DEF WorksOn, ConsultationInv, Quiet
    <2>4. inbox'[q].state # "absent" /\ (work'[d].overdue => overdue'[q])
      BY <1>1, <2>2, <2>3 DEF WorkFits, RowMoves
    <2>5. CASE work[d].step \in Early
      <3>1. ~work[d].current
        BY <2>3, <2>5 DEF WorkFits, StepFits, Early
      <3>2. ~work'[d].current /\ work'[d].step \in Early
        BY <1>1, <2>2, <2>5, <3>1 DEF Moves
      <3>3. QED BY <2>1, <2>4, <3>2 DEF WorkFits, Early
    <2>6. CASE work[d].step \notin Early
      <3>1. /\ work[d].run # None /\ StepFits(work[d]) /\ RunFits(q, work[d].run)
            /\ ReadEarlier(q, work[d].run) /\ (work[d].current => run[q] = work[d].run)
        BY <2>3, <2>6 DEF WorkFits, Early
      <3>2. StepFits(work[d])'
        <4>1. CASE work'[d] = work[d]
          BY <3>1, <4>1 DEF StepFits
        <4>2. ASSUME NEW s \in Step, Moves(d, s)
              PROVE  StepFits(work[d])'
          BY <2>3, <2>6, <4>2 DEF StepFits, Moves, Work
        <4>3. QED BY <1>1, <2>2, <4>1, <4>2
      <3>3. /\ RunFits(work[d].request, work[d].run)'
            /\ ReadEarlier(work[d].request, work[d].run)'
        BY <1>1, <2>1, <2>2, <3>1 DEF RunFits, ReadEarlier, Answered, Quiet
      <3>4. QED BY <1>1, <2>1, <2>2, <2>4, <3>1, <3>2, <3>3 DEF WorkFits, Quiet
    <2>7. QED BY <2>5, <2>6
  <1>4. ASSUME NEW d \in Coordinator, NEW q \in Request
        PROVE  OwnerFits(d, q)'
    <2>1. SUFFICES ASSUME Owns(d, q)' PROVE OwnerFits(d, q)'
      BY DEF OwnerFits
    <2>2. Owns(d, q) /\ OwnerFits(d, q)
      BY <1>1, <2>1 DEF Owns, ConsultationInv, Quiet, RowMoves
    <2>3. work'[d].step = "answer" => work[d].step = "answer"
      BY <1>1, <2>1 DEF Owns, Moves
    <2>4. QED BY <1>1, <2>1, <2>2, <2>3 DEF OwnerFits, Owns, Quiet
  <1>5. QED BY <1>2, <1>3, <1>4 DEF ConsultationInv

(* The steps of a coordinator that keep to this shape.                     *)
LEMMA CoordinatorIsQuiet ==
    ASSUME ConsultationInv, NEW c \in Coordinator,
           \/ Authorize(c)
           \/ EnsureRun(c) /\ UNCHANGED run /\ GoTo(c, "reject")
           \/ ChildOrCollectionFails(c) \/ PeerForbidden(c) \/ PeerFailed(c)
           \/ Release(c) \/ Refused(c) \/ Dies(c)
    PROVE  Quiet
  <1>1. /\ task' = task /\ run' = run /\ reply' = reply /\ overdue' = overdue
        /\ returned' = returned
    BY DEF Authorize, EnsureRun, ChildOrCollectionFails, PeerForbidden, PeerFailed,
           Release, Refused, Dies
  <1>2. /\ Busy(c) /\ work[c] \in Work /\ work[c].request \in Request
        /\ WorkFits(work[c])
    <2>1. Busy(c)
      BY DEF Authorize, EnsureRun, ChildOrCollectionFails, PeerForbidden, PeerFailed,
             Release, Refused, Dies, Saves, At
    <2>2. QED BY <2>1, Holding
  <1>3. ASSUME NEW q \in Request
        PROVE  RowMoves(q)
    <2>1. RowFits(q) /\ RowFits(work[c].request)
      BY <1>2 DEF ConsultationInv
    <2>2. CASE inbox' = inbox
      BY <1>1, <2>1, <2>2 DEF RowMoves, RowFits
    <2>3. ASSUME ClaimValid(c), NEW s \in {"parked", "available"},
                 inbox' = [inbox EXCEPT ![work[c].request] = InState(s)]
          PROVE  RowMoves(q)
      <3>1. inbox \in [Request -> Row]
        BY DEF ConsultationInv, TypeOK
      <3>2. CASE q = work[c].request
        BY <1>1, <2>1, <2>3, <3>1, <3>2 DEF RowMoves, RowFits, ClaimValid, InState
      <3>3. CASE q # work[c].request
        BY <1>1, <2>1, <2>3, <3>1, <3>3 DEF RowMoves, RowFits
      <3>4. QED BY <3>2, <3>3
    <2>4. \/ inbox' = inbox
          \/ /\ ClaimValid(c)
             /\ \E s \in {"parked", "available"} :
                  inbox' = [inbox EXCEPT ![work[c].request] = InState(s)]
      BY DEF Authorize, EnsureRun, ChildOrCollectionFails, PeerForbidden, PeerFailed,
             Release, Refused, Dies
    <2>5. QED BY <2>2, <2>3, <2>4
  <1>4. ASSUME NEW d \in Coordinator, Busy(d)'
        PROVE  Busy(d) /\ (work'[d] = work[d] \/ \E s \in Step : Moves(d, s))
    <2>1. work \in [Coordinator -> Work \cup {None}]
      BY DEF ConsultationInv, TypeOK
    <2>2. ASSUME Idle(c) PROVE d # c /\ work'[d] = work[d]
      BY <1>4, <2>1, <2>2 DEF Idle, Busy
    <2>3. ASSUME NEW s \in Step, GoTo(c, s), s # "answer",
                 \/ work[c].step \in Early /\ s \in Early
                 \/ work[c].step \notin Early /\ StepFits([work[c] EXCEPT !.step = s])
          PROVE  Busy(d) /\ (work'[d] = work[d] \/ Moves(d, s))
      BY <1>2, <1>4, <2>1, <2>3 DEF GoTo, Moves, Busy
    <2>4. CASE Authorize(c) \/ (EnsureRun(c) /\ GoTo(c, "reject"))
      <3>1. work[c].step \in {"claimed", "approved"}
        BY <2>4 DEF Authorize, EnsureRun, At
      <3>2. Idle(c) \/ \E s \in {"approved", "reject"} : GoTo(c, s)
        BY <2>4 DEF Authorize
      <3>3. QED BY <1>4, <2>2, <2>3, <3>1, <3>2 DEF Early, Step, Busy
    <2>5. CASE ChildOrCollectionFails(c) \/ PeerForbidden(c) \/ PeerFailed(c)
      <3>1. GoTo(c, "fail") /\ work[c].step \in {"child", "evidence", "peer"}
        BY <2>5 DEF ChildOrCollectionFails, PeerForbidden, PeerFailed, At
      <3>2. StepFits(work[c])
        BY <1>2, <3>1, Holding
      <3>3. StepFits([work[c] EXCEPT !.step = "fail"])
        BY <1>2, <3>1, <3>2 DEF StepFits, Work
      <3>4. QED BY <2>3, <3>1, <3>3 DEF Early, Step
    <2>6. CASE Release(c) \/ Refused(c) \/ Dies(c)
      <3>1. Idle(c)
        BY <2>6 DEF Release, Refused, Dies
      <3>2. QED BY <1>4, <2>2, <3>1 DEF Busy
    <2>7. QED BY <2>4, <2>5, <2>6
  <1>5. QED BY <1>1, <1>3, <1>4 DEF Quiet

LEMMA EnvironmentIsQuiet ==
    ASSUME ConsultationInv, NEW p \in Request,
           \/ Deliver(p) \/ DeliverResult(p) \/ ResultCollides(p) \/ Decide(p)
           \/ Lapse(p) \/ DeadlinePasses(p) \/ BecomesDue(p)
    PROVE  Quiet
  <1>1. task' = task /\ run' = run /\ reply' = reply /\ work' = work
    BY DEF Deliver, DeliverResult, ResultCollides, Decide, Lapse, DeadlinePasses, BecomesDue
  <1>2. ASSUME NEW q \in Request
        PROVE  RowMoves(q)
    <2>1. RowFits(q) /\ inbox \in [Request -> Row] /\ overdue \in [Request -> BOOLEAN]
          /\ returned \in [Request -> {"no", "here", "quarantined"}]
      BY DEF ConsultationInv, TypeOK
    <2>2. CASE Deliver(p) \/ Decide(p)
      BY <1>1, <2>1, <2>2 DEF Deliver, Decide, RowMoves, RowFits, InState
    <2>3. CASE Lapse(p)
      BY <1>1, <2>1, <2>3 DEF Lapse, RowMoves, RowFits, Row
    <2>4. CASE DeliverResult(p) \/ ResultCollides(p)
      BY <1>1, <2>1, <2>4 DEF DeliverResult, ResultCollides, RowMoves, RowFits
    <2>5. CASE DeadlinePasses(p) \/ BecomesDue(p)
      BY <1>1, <2>1, <2>5 DEF DeadlinePasses, BecomesDue, RowMoves, RowFits
    <2>6. QED BY <2>2, <2>3, <2>4, <2>5
  <1>3. QED BY <1>1, <1>2 DEF Quiet, Busy

-----------------------------------------------------------------------------
(* The other steps.                                                        *)

LEMMA ClaimPreserves ==
    ASSUME ConsultationInv, TypeOK', NEW c \in Coordinator, NEW q \in Request, Claim(c, q)
    PROVE  ConsultationInv'
  <1>1. /\ task' = task /\ run' = run /\ reply' = reply /\ overdue' = overdue
        /\ returned' = returned
    BY DEF Claim
  <1>2. /\ work'[c] = [step |-> "claimed", request |-> q, run |-> None, current |-> FALSE,
                       lapsed |-> FALSE, overdue |-> overdue[q]]
        /\ \A d \in Coordinator : d # c => work'[d] = work[d]
    BY DEF Claim, ConsultationInv, TypeOK
  <1>3. /\ inbox'[q] = [state |-> "claimed", owner |-> c, lapsed |-> FALSE]
        /\ inbox[q].state \in {"available", "claimed"}
    BY DEF Claim, Swept
  <1>4. \A p \in Request : p # q =>
          \/ inbox'[p] = inbox[p]
          \/ inbox[p].state = "claimed" /\ inbox'[p].state = "available"
    BY DEF Claim, Swept, InState
  <1>5. \A d \in Coordinator, p \in Request : WorksOn(d, p)' =>
          \/ d = c /\ p = q
          \/ d # c /\ WorksOn(d, p) /\ work'[d] = work[d]
    BY <1>2 DEF WorksOn, Busy
  <1>6. ASSUME NEW p \in Request
        PROVE  TaskFits(p)' /\ NestedFits(p)' /\ RowFits(p)' /\ ProcessedFits(p)'
    <2>1. TaskFits(p) /\ NestedFits(p) /\ RowFits(p) /\ ProcessedFits(p)
      BY DEF ConsultationInv
    <2>2. TaskFits(p)' /\ NestedFits(p)'
      BY <1>1, <2>1 DEF TaskFits, NestedFits
    <2>3. RowFits(p)'
      BY <1>1, <1>3, <1>4, <2>1 DEF RowFits, RunFits, Answered
    <2>4. ProcessedFits(p)'
      BY <1>1, <1>3, <1>4, <1>5, <2>1 DEF ProcessedFits
    <2>5. QED BY <2>2, <2>3, <2>4
  <1>7. ASSUME NEW d \in Coordinator, Busy(d)'
        PROVE  WorkFits(work[d])'
    <2>1. CASE d = c
      BY <1>1, <1>2, <1>3, <2>1 DEF WorkFits
    <2>2. CASE d # c
      <3>1. Busy(d) /\ WorkFits(work[d]) /\ work'[d] = work[d] /\ work[d].request \in Request
        BY <1>2, <1>7, <2>2, Holding DEF Busy
      <3>2. PICK p \in Request : p = work[d].request
        BY <3>1
      <3>3. inbox'[p].state # "absent"
        BY <1>3, <1>4, <3>1, <3>2 DEF WorkFits
      <3>4. QED BY <1>1, <3>1, <3>2, <3>3
              DEF WorkFits, StepFits, RunFits, ReadEarlier, Answered
    <2>3. QED BY <2>1, <2>2
  <1>8. ASSUME NEW d \in Coordinator, NEW p \in Request
        PROVE  OwnerFits(d, p)'
    <2>1. SUFFICES ASSUME Owns(d, p)' PROVE OwnerFits(d, p)'
      BY DEF OwnerFits
    <2>2. CASE p = q
      <3>1. d = c
        BY <1>3, <2>1, <2>2 DEF Owns
      <3>2. \A b \in Coordinator : WorksOn(b, q)' /\ work'[b].overdue => overdue[q]
        BY <1>2, <1>5, Holding DEF WorksOn, WorkFits
      <3>3. QED BY <1>2, <2>2, <3>1, <3>2 DEF OwnerFits
    <2>3. CASE p # q
      <3>1. d # c /\ Owns(d, p) /\ OwnerFits(d, p) /\ work'[d] = work[d]
        BY <1>4, <1>5, <2>1, <2>3 DEF Owns, ConsultationInv
      <3>2. QED BY <1>1, <1>5, <2>3, <3>1 DEF OwnerFits
    <2>4. QED BY <2>2, <2>3
  <1>9. QED BY <1>6, <1>7, <1>8 DEF ConsultationInv

(* The step after ensureRun fits the run.                                  *)
LEMMA NextStepFits ==
    ASSUME NEW r \in Run, NEW late \in BOOLEAN, NEW s, s = NextStep(r, late)
    PROVE  /\ s \in {"child", "evidence", "peer", "answer", "refuse", "fail"}
           /\ s = "child" => r.state = "pending_child" /\ r.round < MaxRounds
           /\ s = "evidence" => r.state = "needs_information"
           /\ s = "peer" => r.state = "waiting_peer"
           /\ s \in {"child", "answer"} => ~late
           /\ s = "answer" => r.state = "completed"
           /\ s = "fail" => (r.state = "completed" => late)
  <1>1. r.state \in RunState /\ r.round \in Nat
    BY ConsultationAssumption DEF Run
  <1>2. /\ StepFor.pending_child = "child" /\ StepFor.needs_information = "evidence"
        /\ StepFor.waiting_peer = "peer" /\ StepFor.completed = "answer"
        /\ StepFor.failed = "refuse"
    BY DEF StepFor
  <1>3. CASE (late /\ r.state # "failed") \/ OutOfRounds(r)
    BY <1>3 DEF NextStep, OutOfRounds
  <1>4. CASE ~((late /\ r.state # "failed") \/ OutOfRounds(r))
    <2>1. s = StepFor[r.state]
      BY <1>4 DEF NextStep
    <2>2. CASE r.state = "pending_child"
      BY <1>1, <1>2, <1>4, <2>1, <2>2, ConsultationAssumption DEF OutOfRounds
    <2>3. CASE r.state # "pending_child"
      BY <1>1, <1>2, <1>4, <2>1, <2>3 DEF RunState
    <2>4. QED BY <2>2, <2>3
  <1>5. QED BY <1>3, <1>4

LEMMA EnsureRunPreserves ==
    ASSUME ConsultationInv, TypeOK', NEW c \in Coordinator, EnsureRun(c),
           ~(UNCHANGED run /\ GoTo(c, "reject"))
    PROVE  ConsultationInv'
  <1>1. /\ Busy(c) /\ work[c] \in Work /\ WorkFits(work[c]) /\ work[c].step = "approved"
        /\ work \in [Coordinator -> Work \cup {None}]
        /\ task' = task /\ inbox' = inbox /\ reply' = reply /\ overdue' = overdue
        /\ returned' = returned
    BY Holding DEF EnsureRun, At, ConsultationInv, TypeOK
  <1>2. PICK q \in Request : q = work[c].request
    BY <1>1 DEF Work
  <1>3. PICK r : r = IF run[q] = None THEN NewRun ELSE run[q]
    OBVIOUS
  <1>4. PICK s : s = NextStep(r, work[c].overdue)
    OBVIOUS
  <1>5. /\ run' = [run EXCEPT ![q] = r]
        /\ work' = [work EXCEPT ![c].step = s, ![c].run = r, ![c].current = TRUE]
    BY <1>2, <1>3, <1>4 DEF EnsureRun
  <1>6. /\ r \in Run /\ r # None /\ RunFits(q, r) /\ run'[q] = r
        /\ run[q] # None => r = run[q]
        /\ \A p \in Request : p # q => run'[p] = run[p]
    <2>1. run \in [Request -> Run \cup {None}] /\ RowFits(q)
      BY DEF ConsultationInv, TypeOK
    <2>2. NewRun \in Run /\ RunFits(q, NewRun)
      BY ConsultationAssumption DEF NewRun, Run, RunState, RunFits
    <2>3. r \in Run /\ RunFits(q, r)
      BY <1>3, <2>1, <2>2 DEF RowFits
    <2>4. r # None
      BY <2>3, NoneAssumption
    <2>5. QED BY <1>3, <1>5, <2>1, <2>3, <2>4
  <1>7. /\ work'[c].step = s /\ work'[c].run = r /\ work'[c].request = q
        /\ work'[c].overdue = work[c].overdue
        /\ \A d \in Coordinator : d # c => work'[d] = work[d]
    BY <1>1, <1>2, <1>5 DEF Work
  <1>8. \A d \in Coordinator, p \in Request : WorksOn(d, p)' =>
          WorksOn(d, p) /\ work'[d].overdue = work[d].overdue
    BY <1>1, <1>2, <1>7 DEF WorksOn, Busy
  <1>9. ASSUME NEW p \in Request
        PROVE  TaskFits(p)' /\ NestedFits(p)' /\ RowFits(p)' /\ ProcessedFits(p)'
    <2>1. TaskFits(p) /\ NestedFits(p) /\ RowFits(p) /\ ProcessedFits(p)
      BY DEF ConsultationInv
    <2>2. TaskFits(p)'
      BY <1>1, <2>1 DEF TaskFits
    <2>3. NestedFits(p)'
      BY <1>1, <1>6, <2>1 DEF NestedFits
    <2>4. RowFits(p)'
      BY <1>1, <1>6, <2>1 DEF RowFits, RunFits, Answered
    <2>5. ProcessedFits(p)'
      BY <1>1, <1>6, <1>8, <2>1 DEF ProcessedFits
    <2>6. QED BY <2>2, <2>3, <2>4, <2>5
  <1>10. ASSUME NEW d \in Coordinator, Busy(d)'
         PROVE  WorkFits(work[d])'
    <2>1. CASE d = c
      <3>1. inbox[q].state # "absent" /\ (work[c].overdue => overdue[q])
        BY <1>1, <1>2 DEF WorkFits
      <3>2. work[c].overdue \in BOOLEAN
        BY <1>1 DEF Work
      <3>3. StepFits(work[c])'
        BY <1>4, <1>6, <1>7, <3>2, NextStepFits DEF StepFits
      <3>4. RunFits(work[c].request, work[c].run)'
        BY <1>1, <1>6, <1>7 DEF RunFits, Answered
      <3>5. ReadEarlier(work[c].request, work[c].run)'
        BY <1>6, <1>7, ConsultationAssumption DEF ReadEarlier, Run
      <3>6. QED BY <1>1, <1>6, <1>7, <2>1, <3>1, <3>3, <3>4, <3>5 DEF WorkFits
    <2>2. CASE d # c
      <3>1. Busy(d) /\ WorkFits(work[d]) /\ work'[d] = work[d] /\ work[d].request \in Request
        BY <1>7, <1>10, <2>2, Holding DEF Busy
      <3>2. PICK p \in Request : p = work[d].request
        BY <3>1
      <3>3. run[p] # None => run'[p] = run[p]
        BY <1>6
      <3>4. QED BY <1>1, <3>1, <3>2, <3>3
              DEF WorkFits, StepFits, RunFits, ReadEarlier, Answered
    <2>3. QED BY <2>1, <2>2
  <1>11. ASSUME NEW d \in Coordinator, NEW p \in Request
         PROVE  OwnerFits(d, p)'
    <2>1. SUFFICES ASSUME Owns(d, p)' PROVE OwnerFits(d, p)'
      BY DEF OwnerFits
    <2>2. Owns(d, p) /\ OwnerFits(d, p)
      BY <1>1, <1>8, <2>1 DEF Owns, ConsultationInv
    <2>3. work'[d].step = "answer" => run'[p] = work'[d].run
      <3>1. CASE d = c
        BY <1>2, <1>6, <1>7, <2>2, <3>1 DEF Owns, WorksOn
      <3>2. CASE d # c
        <4>1. work'[d] = work[d] /\ Busy(d) /\ work[d].request = p
          BY <1>7, <2>2, <3>2 DEF Owns, WorksOn
        <4>2. work[d].step = "answer" => run[p] # None
          BY <4>1, Holding DEF WorkFits, ReadEarlier
        <4>3. QED BY <1>6, <2>2, <4>1, <4>2 DEF OwnerFits
      <3>3. QED BY <3>1, <3>2
    <2>4. QED BY <1>8, <2>1, <2>2, <2>3 DEF OwnerFits, Owns
  <1>12. QED BY <1>9, <1>10, <1>11 DEF ConsultationInv

(* What the coordinator sends for its round, and from which run.           *)
LEMMA Sending ==
    ASSUME ConsultationInv, NEW c \in Coordinator, SendNested(c),
           NEW q, q = work[c].request, NEW r, r = work[c].run
    PROVE  /\ q \in Request /\ r \in Run /\ r.round \in Round /\ Len(q) < MaxDepth
           /\ Append(q, r.round) \in Request
           /\ r.state = "waiting_peer" /\ r.peer \in Topic
           /\ task[q] \in Envelope /\ r.peer \notin task[q].ancestry
           /\ RunFits(q, r) /\ ReadEarlier(q, r) /\ StepFits(work[c])
           /\ Busy(c) /\ work[c] \in Work /\ WorkFits(work[c]) /\ work[c].step = "peer"
  <1>1. Busy(c) /\ work[c].step = "peer" /\ ~Forbidden(q, r.peer)
    BY DEF SendNested, At
  <1>2. /\ q \in Request /\ r \in Run /\ StepFits(work[c]) /\ RunFits(q, r)
        /\ work[c] \in Work /\ WorkFits(work[c])
    BY <1>1, Holding
  <1>3. ReadEarlier(q, r)
    BY <1>1, <1>2 DEF WorkFits
  <1>4. r.state = "waiting_peer" /\ r.round \in Round /\ r.peer # None /\ r.peer \in Topic
    BY <1>1, <1>2 DEF StepFits, RunFits, Run
  <1>5. Len(q) < MaxDepth /\ r.peer \notin task[q].ancestry
    <2>1. Len(q) \in Nat
      BY <1>2, RequestsAreSequences
    <2>2. QED BY <1>1, <2>1, ConsultationAssumption DEF Forbidden, Depth
  <1>6. Append(q, r.round) \in Request
    BY <1>2, <1>4, <1>5, NestedRequest
  <1>7. task[q] \in Envelope
    <2>1. RowFits(q) /\ inbox[q].state # "absent"
      BY <1>2 DEF ConsultationInv, WorkFits
    <2>2. QED BY <1>2, <2>1 DEF RowFits, ConsultationInv, TypeOK
  <1>8. QED BY <1>1, <1>2, <1>3, <1>4, <1>5, <1>6, <1>7

LEMMA SendNestedPreserves ==
    ASSUME ConsultationInv, TypeOK', NEW c \in Coordinator, SendNested(c)
    PROVE  ConsultationInv'
  <1>1. PICK q, r : q = work[c].request /\ r = work[c].run
    OBVIOUS
  <1>2. /\ q \in Request /\ r \in Run /\ r.round \in Round /\ Len(q) < MaxDepth
        /\ Append(q, r.round) \in Request
        /\ r.state = "waiting_peer" /\ r.peer \in Topic
        /\ task[q] \in Envelope /\ r.peer \notin task[q].ancestry
        /\ RunFits(q, r) /\ ReadEarlier(q, r) /\ StepFits(work[c])
        /\ Busy(c) /\ work[c] \in Work /\ WorkFits(work[c]) /\ work[c].step = "peer"
    BY <1>1, Sending
  <1>3. PICK n \in Request : n = Append(q, r.round)
    BY <1>2
  <1>4. PICK e : e = [topic |-> r.peer, ancestry |-> task[q].ancestry \cup {r.peer}]
    OBVIOUS
  <1>5. /\ inbox' = inbox /\ run' = run /\ reply' = reply /\ overdue' = overdue
        /\ returned' = returned /\ GoTo(c, "nested")
        /\ task[n] \in {None, e} /\ task' = [task EXCEPT ![n] = e]
    BY <1>1, <1>3, <1>4 DEF SendNested
  <1>6. /\ e \in Envelope /\ e # None /\ task'[n] = e
        /\ \A p \in Request : p # n => task'[p] = task[p]
        /\ \A p \in Request : task[p] # None => task'[p] = task[p]
    <2>1. e \in Envelope
      BY <1>2, <1>4 DEF Envelope
    <2>2. e # None
      BY <2>1, NoneAssumption
    <2>3. QED BY <1>5, <2>1, <2>2 DEF ConsultationInv, TypeOK
  <1>7. /\ work'[c].step = "nested" /\ work'[c].request = q /\ work'[c].run = r
        /\ work'[c].overdue = work[c].overdue /\ work'[c].current = work[c].current
        /\ \A d \in Coordinator : d # c => work'[d] = work[d]
    BY <1>1, <1>2, <1>5 DEF GoTo, Work, ConsultationInv, TypeOK
  <1>8. \A d \in Coordinator, p \in Request : WorksOn(d, p)' =>
          WorksOn(d, p) /\ work'[d].overdue = work[d].overdue
    BY <1>1, <1>2, <1>7 DEF WorksOn, Busy
  <1>9. ASSUME NEW p \in Request
        PROVE  TaskFits(p)'
    <2>1. TaskFits(p) /\ TaskFits(q)
      BY <1>2 DEF ConsultationInv
    <2>2. CASE task[p] # None
      <3>1. \A d \in 0 .. Len(p) : SubSeq(p, 1, d) \in Request
        BY <1>2, Prefixes
      <3>2. Len(p) \in Nat
        BY RequestsAreSequences
      <3>3. \A d \in 0 .. Len(p) : task'[SubSeq(p, 1, d)] = task[SubSeq(p, 1, d)]
        BY <1>6, <2>1, <2>2, <3>1 DEF TaskFits
      <3>4. task'[p] = task[p]
        BY <1>6, <2>2
      <3>5. QED BY <2>1, <2>2, <3>2, <3>3, <3>4 DEF TaskFits
    <2>3. CASE task[p] = None /\ p # n
      BY <1>6, <2>3 DEF TaskFits
    <2>4. CASE p = n
      <3>1. Len(q) \in Nat /\ Len(p) = Len(q) + 1
        BY <1>2, <1>3, <2>4, RequestsAreSequences
      <3>2. \A d \in 0 .. Len(q) : SubSeq(p, 1, d) = SubSeq(q, 1, d) /\ SubSeq(q, 1, d) \in Request
        BY <1>2, <1>3, <2>4, Prefixes
      <3>3. SubSeq(p, 1, Len(p)) = p
        BY <1>2, <3>1, Prefixes
      <3>4. \A d \in 0 .. Len(q) :
              /\ task'[SubSeq(p, 1, d)] # None
              /\ task'[SubSeq(p, 1, d)].topic \in task[q].ancestry
        BY <1>2, <1>6, <2>1, <3>2, NoneAssumption DEF TaskFits
      <3>5. /\ task'[p] = e /\ e.topic = r.peer /\ e.topic \in e.ancestry
            /\ e.topic \notin task[q].ancestry
            /\ \A t \in task[q].ancestry : t \in e.ancestry
        BY <1>2, <1>4, <1>6, <2>4
      <3>6. \A d \in 0 .. Len(p) : d \in 0 .. Len(q) \/ d = Len(p)
        BY <3>1
      <3>7. \A d \in 0 .. Len(p) - 1 : d \in 0 .. Len(q)
        BY <3>1
      <3>8. QED BY <1>6, <2>4, <3>3, <3>4, <3>5, <3>6, <3>7 DEF TaskFits
    <2>5. QED BY <2>2, <2>3, <2>4
  <1>10. ASSUME NEW p \in Request
         PROVE  NestedFits(p)' /\ RowFits(p)' /\ ProcessedFits(p)'
    <2>1. NestedFits(p) /\ RowFits(p) /\ ProcessedFits(p)
      BY DEF ConsultationInv
    <2>2. ASSUME NEW i \in Round, Append(p, i) \in Request, task'[Append(p, i)] # None
          PROVE  /\ run[p] # None /\ i <= run[p].round
                 /\ run[p].state = "waiting_peer" /\ run[p].round = i =>
                        task'[Append(p, i)].topic = run[p].peer
      <3>1. CASE Append(p, i) # n
        BY <1>6, <2>1, <2>2, <3>1 DEF NestedFits
      <3>2. CASE Append(p, i) = n
        <4>1. p = q /\ i = r.round
          BY <1>2, <1>3, <3>2, NestedFrom
        <4>2. QED BY <1>2, <1>4, <1>6, <3>2, <4>1 DEF ReadEarlier
      <3>3. QED BY <3>1, <3>2
    <2>3. NestedFits(p)'
      BY <1>5, <2>2 DEF NestedFits
    <2>4. RowFits(p)'
      BY <1>5, <1>6, <2>1, NoneAssumption DEF RowFits, RunFits, Answered
    <2>5. ProcessedFits(p)'
      BY <1>5, <1>8, <2>1 DEF ProcessedFits
    <2>6. QED BY <2>3, <2>4, <2>5
  <1>11. ASSUME NEW d \in Coordinator, Busy(d)'
         PROVE  WorkFits(work[d])'
    <2>1. CASE d = c
      <3>1. /\ inbox[q].state # "absent" /\ (work[c].overdue => overdue[q])
            /\ r # None /\ (work[c].current => run[q] = r)
        BY <1>1, <1>2 DEF WorkFits, StepFits
      <3>2. StepFits(work[c])'
        BY <1>2, <1>7 DEF StepFits
      <3>3. /\ RunFits(work[c].request, work[c].run)'
            /\ ReadEarlier(work[c].request, work[c].run)'
        BY <1>2, <1>5, <1>6, <1>7 DEF RunFits, ReadEarlier, Answered
      <3>4. QED BY <1>5, <1>7, <2>1, <3>1, <3>2, <3>3 DEF WorkFits
    <2>2. CASE d # c
      <3>1. Busy(d) /\ WorkFits(work[d]) /\ work'[d] = work[d] /\ work[d].request \in Request
        BY <1>7, <1>11, <2>2, Holding DEF Busy
      <3>2. QED BY <1>5, <1>6, <3>1 DEF WorkFits, StepFits, RunFits, ReadEarlier, Answered
    <2>3. QED BY <2>1, <2>2
  <1>12. ASSUME NEW d \in Coordinator, NEW p \in Request
         PROVE  OwnerFits(d, p)'
    <2>1. SUFFICES ASSUME Owns(d, p)' PROVE OwnerFits(d, p)'
      BY DEF OwnerFits
    <2>2. Owns(d, p) /\ OwnerFits(d, p)
      BY <1>5, <1>8, <2>1 DEF Owns, ConsultationInv
    <2>3. work'[d].step = "answer" => work'[d] = work[d]
      BY <1>7
    <2>4. QED BY <1>5, <1>8, <2>1, <2>2, <2>3 DEF OwnerFits, Owns
  <1>13. QED BY <1>9, <1>10, <1>11, <1>12 DEF ConsultationInv

(* The three ways to settle.                                               *)
LEMMA SettlePreserves ==
    ASSUME ConsultationInv, TypeOK', NEW c \in Coordinator, Settle(c)
    PROVE  /\ ConsultationInv'
           /\ reply[work[c].request] = None /\ task[work[c].request] # None
           /\ WorkFits(work[c]) /\ work[c].request \in Request
  <1>1. PICK step, state, result :
          /\ SettleWithReply(c, step, state, result)
          /\ \/ /\ step = "answer" /\ state = "processed"
                /\ result = [outcome |-> "completed", evidence |-> work[c].run.evidence]
             \/ /\ step \in {"refuse", "reject"} /\ state = "rejected"
    BY DEF Settle, Complete, SettleFailure, SettleInitialFailure
  <1>2. /\ Busy(c) /\ work[c] \in Work /\ WorkFits(work[c]) /\ work[c].step = step
        /\ work[c].request \in Request
    BY <1>1, Holding DEF SettleWithReply, At
  <1>3. PICK q \in Request : q = work[c].request
    BY <1>2
  <1>4. /\ inbox[q].state = "claimed" /\ inbox[q].owner = c /\ Owns(c, q)
        /\ task' = task /\ run' = run /\ overdue' = overdue /\ returned' = returned
        /\ inbox'[q].state = state /\ inbox'[q].owner = None /\ reply'[q] = result
        /\ \A p \in Request : p # q => inbox'[p] = inbox[p] /\ reply'[p] = reply[p]
    BY <1>1, <1>2, <1>3
      DEF SettleWithReply, ClaimValid, Owns, WorksOn, InState, ConsultationInv, TypeOK
  <1>5. reply[q] = None /\ task[q] # None /\ q \notin Elsewhere /\ RowFits(q)
    BY <1>4 DEF ConsultationInv, RowFits
  <1>6. \A d \in Coordinator, p \in Request : WorksOn(d, p)' =>
          d # c /\ WorksOn(d, p) /\ work'[d] = work[d]
    BY <1>1 DEF SettleWithReply, Idle, WorksOn, Busy, ConsultationInv, TypeOK
  <1>7. ASSUME NEW p \in Request
        PROVE  TaskFits(p)' /\ NestedFits(p)' /\ RowFits(p)' /\ ProcessedFits(p)'
    <2>1. TaskFits(p) /\ NestedFits(p) /\ RowFits(p) /\ ProcessedFits(p)
      BY DEF ConsultationInv
    <2>2. TaskFits(p)' /\ NestedFits(p)'
      BY <1>4, <2>1 DEF TaskFits, NestedFits
    <2>3. ASSUME NEW i, Answered(p, i)
          PROVE  reply'[Append(p, i)] = reply[Append(p, i)]
      BY <1>4, <1>5, <2>3 DEF Answered
    <2>4. RowFits(p)'
      BY <1>1, <1>4, <1>5, <2>1, <2>3 DEF RowFits, RunFits, Answered
    <2>5. ProcessedFits(p)'
      <3>1. CASE p # q
        BY <1>4, <1>6, <2>1, <3>1 DEF ProcessedFits
      <3>2. CASE p = q
        <4>1. SUFFICES ASSUME state = "processed" PROVE ProcessedFits(q)'
          BY <1>4, <3>2 DEF ProcessedFits
        <4>2. /\ step = "answer" /\ OwnerFits(c, q)
              /\ result = [outcome |-> "completed", evidence |-> work[c].run.evidence]
          BY <1>1, <4>1 DEF ConsultationInv
        <4>3. /\ run[q] = work[c].run /\ work[c].run # None
              /\ work[c].run.state = "completed" /\ ~work[c].overdue
          BY <1>2, <1>4, <4>2 DEF OwnerFits, WorkFits, StepFits
        <4>4. \A d \in Coordinator : WorksOn(d, q) => ~work[d].overdue
          BY <1>4, <4>2, <4>3 DEF OwnerFits
        <4>5. QED BY <1>4, <1>6, <4>2, <4>3, <4>4 DEF ProcessedFits
      <3>3. QED BY <3>1, <3>2
    <2>6. QED BY <2>2, <2>4, <2>5
  <1>8. ASSUME NEW d \in Coordinator, Busy(d)'
        PROVE  WorkFits(work[d])'
    <2>1. PICK p \in Request : p = work'[d].request
      BY <1>8 DEF TypeOK, Work, Busy
    <2>2. work'[d] = work[d] /\ Busy(d) /\ WorkFits(work[d])
      BY <1>6, <1>8, <2>1, Holding DEF WorksOn
    <2>3. inbox'[p].state # "absent"
      BY <1>1, <1>4, <2>1, <2>2 DEF WorkFits
    <2>4. ASSUME NEW i, Answered(p, i)
          PROVE  reply'[Append(p, i)] = reply[Append(p, i)]
      BY <1>4, <1>5, <2>4 DEF Answered
    <2>5. QED BY <1>4, <2>1, <2>2, <2>3, <2>4
            DEF WorkFits, StepFits, RunFits, ReadEarlier, Answered
  <1>9. ASSUME NEW d \in Coordinator, NEW p \in Request
        PROVE  OwnerFits(d, p)'
    <2>1. SUFFICES ASSUME Owns(d, p)' PROVE OwnerFits(d, p)'
      BY DEF OwnerFits
    <2>2. p # q /\ Owns(d, p) /\ OwnerFits(d, p) /\ work'[d] = work[d]
      BY <1>1, <1>4, <1>6, <2>1 DEF Owns, ConsultationInv
    <2>3. QED BY <1>4, <1>6, <2>2 DEF OwnerFits
  <1>10. ConsultationInv'
    BY <1>7, <1>8, <1>9 DEF ConsultationInv
  <1>11. QED BY <1>2, <1>3, <1>5, <1>10

LEMMA AnsweredElsewherePreserves ==
    ASSUME ConsultationInv, TypeOK', NEW q \in Request, AnsweredElsewhere(q)
    PROVE  ConsultationInv'
  <1>1. /\ task' = task /\ run' = run /\ overdue' = overdue /\ returned' = returned
        /\ inbox' = inbox /\ work' = work
        /\ q \in Elsewhere /\ task[q] # None /\ reply[q] = None
        /\ \A p \in Request : p # q => reply'[p] = reply[p]
    BY DEF AnsweredElsewhere, ConsultationInv, TypeOK
  <1>2. ASSUME NEW p \in Request, NEW i, Answered(p, i)
        PROVE  reply'[Append(p, i)] = reply[Append(p, i)]
    BY <1>1, <1>2 DEF Answered
  <1>3. ASSUME NEW p \in Request
        PROVE  TaskFits(p)' /\ NestedFits(p)' /\ RowFits(p)' /\ ProcessedFits(p)'
    <2>1. TaskFits(p) /\ NestedFits(p) /\ RowFits(p) /\ ProcessedFits(p)
      BY DEF ConsultationInv
    <2>2. TaskFits(p)' /\ NestedFits(p)'
      BY <1>1, <2>1 DEF TaskFits, NestedFits
    <2>3. RowFits(p)'
      BY <1>1, <1>2, <2>1 DEF RowFits, RunFits, Answered
    <2>4. ProcessedFits(p)'
      BY <1>1, <2>1 DEF ProcessedFits, RowFits, WorksOn, Busy
    <2>5. QED BY <2>2, <2>3, <2>4
  <1>4. ASSUME NEW d \in Coordinator, Busy(d)'
        PROVE  WorkFits(work[d])'
    <2>1. Busy(d) /\ WorkFits(work[d]) /\ work[d].request \in Request
      BY <1>1, <1>4, Holding DEF Busy
    <2>2. PICK p \in Request : p = work[d].request
      BY <2>1
    <2>3. QED BY <1>1, <1>2, <2>1, <2>2
            DEF WorkFits, StepFits, RunFits, ReadEarlier, Answered
  <1>5. ASSUME NEW d \in Coordinator, NEW p \in Request
        PROVE  OwnerFits(d, p)'
    BY <1>1 DEF ConsultationInv, OwnerFits, Owns, WorksOn, Busy
  <1>6. QED BY <1>3, <1>4, <1>5 DEF ConsultationInv

-----------------------------------------------------------------------------
(* Types.                                                                  *)

LEMMA SaveKeepsTypes ==
    ASSUME ConsultationInv, NEW c \in Coordinator, SavesSoundly(c),
           UNCHANGED <<task, inbox, overdue, reply, returned, faults>>,
           \/ UNCHANGED due
           \/ due' = [due EXCEPT ![work[c].request] = FALSE]
    PROVE  TypeOK'
  <1>1. PICK r \in Run, s \in Step, l \in BOOLEAN : Save(c, r, s, l)
    BY DEF SavesSoundly
  <1>2. TypeOK /\ work[c] \in Work
    BY Holding DEF SavesSoundly, ConsultationInv
  <1>3. run' \in [Request -> Run \cup {None}] /\ due' \in [Request -> BOOLEAN]
    BY <1>1, <1>2 DEF Save, TypeOK
  <1>4. [work[c] EXCEPT !.step = s, !.run = r, !.lapsed = l] \in Work
    BY <1>2 DEF Work
  <1>5. \A d \in Coordinator : Busy(d) => [work[d] EXCEPT !.current = FALSE] \in Work
    BY <1>2 DEF Work, TypeOK, Busy
  <1>6. work' \in [Coordinator -> Work \cup {None}]
    BY <1>1, <1>2, <1>4, <1>5 DEF Save, TypeOK, Busy
  <1>7. QED BY <1>2, <1>3, <1>6 DEF TypeOK

LEMMA GoToKeepsTypes ==
    ASSUME TypeOK, NEW c \in Coordinator, Busy(c), NEW s \in Step, GoTo(c, s)
    PROVE  work' \in [Coordinator -> Work \cup {None}]
  <1>1. [work[c] EXCEPT !.step = s] \in Work
    BY DEF TypeOK, Work, Busy
  <1>2. QED BY <1>1 DEF TypeOK, GoTo

LEMMA IdleKeepsTypes ==
    ASSUME TypeOK, NEW c \in Coordinator, Idle(c)
    PROVE  work' \in [Coordinator -> Work \cup {None}]
  BY DEF TypeOK, Idle

LEMMA CoordinatorKeepsTypes ==
    ASSUME ConsultationInv, NEW c \in Coordinator,
           \/ Authorize(c) \/ EnsureRun(c) \/ ChildOrCollectionFails(c)
           \/ PeerForbidden(c) \/ SendNested(c) \/ PeerFailed(c)
           \/ Settle(c) \/ Release(c) \/ Refused(c) \/ Dies(c)
    PROVE  TypeOK'
  <1>1. TypeOK
    BY DEF ConsultationInv
  <1>2. /\ Busy(c) /\ work[c] \in Work /\ work[c].request \in Request
    <2>1. Busy(c)
      BY DEF Authorize, EnsureRun, ChildOrCollectionFails, PeerForbidden, SendNested,
             PeerFailed, Settle, Complete, SettleFailure, SettleInitialFailure,
             SettleWithReply, Release, Refused, Dies, Saves, At
    <2>2. QED BY <2>1, Holding
  <1>3. \A s \in {"available", "parked", "processed", "rejected"} : InState(s) \in Row
    BY DEF InState, Row
  <1>4. \A s \in {"available", "parked", "processed", "rejected"} :
          [inbox EXCEPT ![work[c].request] = InState(s)] \in [Request -> Row]
    BY <1>1, <1>3 DEF TypeOK
  <1>5. CASE Authorize(c)
    <2>1. work' \in [Coordinator -> Work \cup {None}]
      BY <1>1, <1>2, <1>5, GoToKeepsTypes, IdleKeepsTypes DEF Authorize, Step
    <2>2. QED BY <1>1, <1>4, <1>5, <2>1 DEF Authorize, TypeOK
  <1>6. CASE EnsureRun(c)
    <2>1. CASE UNCHANGED run /\ GoTo(c, "reject")
      <3>1. work' \in [Coordinator -> Work \cup {None}]
        BY <1>1, <1>2, <2>1, GoToKeepsTypes DEF Step
      <3>2. QED BY <1>1, <1>6, <2>1, <3>1 DEF EnsureRun, TypeOK
    <2>2. CASE ~(UNCHANGED run /\ GoTo(c, "reject"))
      <3>1. PICK r : r = IF run[work[c].request] = None THEN NewRun ELSE run[work[c].request]
        OBVIOUS
      <3>2. PICK s : s = NextStep(r, work[c].overdue)
        OBVIOUS
      <3>3. /\ run' = [run EXCEPT ![work[c].request] = r]
            /\ work' = [work EXCEPT ![c].step = s, ![c].run = r, ![c].current = TRUE]
        BY <1>6, <2>2, <3>1, <3>2 DEF EnsureRun
      <3>4. r \in Run
        BY <1>1, <1>2, <3>1, ConsultationAssumption DEF NewRun, Run, RunState, TypeOK
      <3>5. s \in Step
        BY <1>2, <3>2, <3>4, NextStepFits DEF Work, Step
      <3>6. work' \in [Coordinator -> Work \cup {None}]
        <4>1. work[c] \in Work /\ work \in [Coordinator -> Work \cup {None}]
          BY <1>1, <1>2 DEF TypeOK
        <4>2. [work[c] EXCEPT !.step = s, !.run = r, !.current = TRUE] \in Work
          BY <1>2, <3>4, <3>5 DEF Work
        <4>3. work' = [work EXCEPT ![c] = [work[c] EXCEPT !.step = s, !.run = r, !.current = TRUE]]
          BY <3>3, <4>1
        <4>4. QED BY <4>1, <4>2, <4>3
      <3>7. QED BY <1>1, <1>6, <3>3, <3>4, <3>6 DEF EnsureRun, TypeOK
    <2>3. QED BY <2>1, <2>2
  <1>7. CASE ChildOrCollectionFails(c) \/ PeerForbidden(c) \/ PeerFailed(c)
    <2>1. GoTo(c, "fail")
      BY <1>7 DEF ChildOrCollectionFails, PeerForbidden, PeerFailed
    <2>2. work' \in [Coordinator -> Work \cup {None}]
      BY <1>1, <1>2, <2>1, GoToKeepsTypes DEF Step
    <2>3. QED BY <1>1, <1>7, <2>2 DEF ChildOrCollectionFails, PeerForbidden, PeerFailed, TypeOK
  <1>8. CASE SendNested(c)
    <2>1. PICK q, r : q = work[c].request /\ r = work[c].run
      OBVIOUS
    <2>2. /\ r.peer \in Topic /\ task[q] \in Envelope
      BY <1>8, <2>1, Sending
    <2>3. [topic |-> r.peer, ancestry |-> task[q].ancestry \cup {r.peer}] \in Envelope
      BY <2>2 DEF Envelope
    <2>4. task' \in [Request -> Envelope \cup {None}]
      BY <1>1, <1>8, <2>1, <2>3 DEF SendNested, TypeOK
    <2>5. work' \in [Coordinator -> Work \cup {None}]
      BY <1>1, <1>2, <1>8, GoToKeepsTypes DEF SendNested, Step
    <2>6. QED BY <1>1, <1>8, <2>4, <2>5 DEF SendNested, TypeOK
  <1>9. CASE Settle(c)
    <2>1. ASSUME At(c, "answer")
          PROVE  work[c].run.evidence \in SUBSET Round
      BY <1>2, <2>1, Holding DEF At, Run
    <2>2. PICK state \in {"processed", "rejected"}, result \in Outcome :
            \E step \in Step : SettleWithReply(c, step, state, result)
      <3>1. CASE Complete(c)
        <4>1. [outcome |-> "completed", evidence |-> work[c].run.evidence] \in Outcome
          BY <2>1, <3>1 DEF Complete, SettleWithReply, Outcome
        <4>2. QED BY <3>1, <4>1 DEF Complete, Step
      <3>2. CASE SettleFailure(c) \/ SettleInitialFailure(c)
        <4>1. [outcome |-> "rejected", evidence |-> {}] \in Outcome
          BY DEF Outcome
        <4>2. QED BY <3>2, <4>1 DEF SettleFailure, SettleInitialFailure, Step
      <3>3. QED BY <1>9, <3>1, <3>2 DEF Settle
    <2>3. work' \in [Coordinator -> Work \cup {None}]
      BY <1>1, <2>2, IdleKeepsTypes DEF SettleWithReply
    <2>4. reply' \in [Request -> Outcome \cup {None}]
      BY <1>1, <2>2 DEF SettleWithReply, TypeOK
    <2>5. QED BY <1>1, <1>4, <2>2, <2>3, <2>4 DEF SettleWithReply, TypeOK
  <1>10. CASE Release(c) \/ Refused(c) \/ Dies(c)
    <2>1. work' \in [Coordinator -> Work \cup {None}]
      BY <1>1, <1>10, IdleKeepsTypes DEF Release, Refused, Dies
    <2>2. faults' \in Nat /\ inbox' \in [Request -> Row]
      BY <1>1, <1>4, <1>10 DEF Release, Refused, Dies, TypeOK
    <2>3. QED BY <1>1, <1>10, <2>1, <2>2 DEF Release, Refused, Dies, TypeOK
  <1>11. QED BY <1>5, <1>6, <1>7, <1>8, <1>9, <1>10

LEMMA ClaimKeepsTypes ==
    ASSUME ConsultationInv, NEW c \in Coordinator, NEW q \in Request, Claim(c, q)
    PROVE  TypeOK'
  <1>1. TypeOK
    BY DEF ConsultationInv
  <1>2. \A p \in Request : Swept(p) \in Row /\ inbox[p] \in Row
    BY <1>1 DEF TypeOK, Swept, InState, Row
  <1>3. [state |-> "claimed", owner |-> c, lapsed |-> FALSE] \in Row
    BY DEF Row
  <1>4. inbox' \in [Request -> Row]
    BY <1>2, <1>3 DEF Claim
  <1>5. [step |-> "claimed", request |-> q, run |-> None, current |-> FALSE,
         lapsed |-> FALSE, overdue |-> overdue[q]] \in Work
    BY <1>1 DEF Work, Step, TypeOK
  <1>6. work' \in [Coordinator -> Work \cup {None}]
    BY <1>1, <1>5 DEF Claim, TypeOK
  <1>7. QED BY <1>1, <1>4, <1>6 DEF Claim, TypeOK

LEMMA EnvironmentKeepsTypes ==
    ASSUME TypeOK, NEW q \in Request,
           \/ Deliver(q) \/ AnsweredElsewhere(q) \/ DeliverResult(q) \/ ResultCollides(q)
           \/ Decide(q) \/ Lapse(q) \/ DeadlinePasses(q) \/ BecomesDue(q)
    PROVE  TypeOK'
  <1>1. InState("available") \in Row
    BY DEF InState, Row
  <1>2. CASE Deliver(q) \/ Decide(q)
    BY <1>1, <1>2 DEF Deliver, Decide, TypeOK
  <1>3. CASE AnsweredElsewhere(q)
    <2>1. PICK o \in {"completed", "rejected"} :
            reply' = [reply EXCEPT ![q] = [outcome |-> o, evidence |-> {}]]
      BY <1>3 DEF AnsweredElsewhere
    <2>2. [outcome |-> o, evidence |-> {}] \in Outcome
      BY DEF Outcome
    <2>3. QED BY <1>3, <2>1, <2>2 DEF AnsweredElsewhere, TypeOK
  <1>4. CASE DeliverResult(q) \/ ResultCollides(q)
    BY <1>4 DEF DeliverResult, ResultCollides, TypeOK
  <1>5. CASE Lapse(q)
    <2>0. inbox[q] \in Row
      BY DEF TypeOK
    <2>1. [inbox[q] EXCEPT !.lapsed = TRUE] \in Row
      BY <2>0 DEF Row
    <2>2. inbox' \in [Request -> Row] /\ faults' \in Nat
      BY <1>5, <2>1 DEF Lapse, TypeOK
    <2>3. QED BY <1>5, <2>2 DEF Lapse, TypeOK
  <1>6. CASE DeadlinePasses(q) \/ BecomesDue(q)
    BY <1>6 DEF DeadlinePasses, BecomesDue, TypeOK
  <1>7. QED BY <1>2, <1>3, <1>4, <1>5, <1>6

-----------------------------------------------------------------------------
(* The invariant holds for ever.                                           *)

LEMMA InitialFits == Init => ConsultationInv
  <1>1. SUFFICES ASSUME Init PROVE ConsultationInv
    OBVIOUS
  <1>2. Root \in Request /\ Len(Root) = 0 /\ Root = <<>>
    BY RootIsARequest DEF Root
  <1>3. TypeOK
    <2>1. [topic |-> RootTopic, ancestry |-> {RootTopic}] \in Envelope
      BY ConsultationAssumption DEF Envelope
    <2>2. InState("absent") \in Row
      BY DEF InState, Row
    <2>3. QED BY <1>1, <2>1, <2>2 DEF Init, TypeOK
  <1>4. ASSUME NEW q \in Request
        PROVE  RowFits(q) /\ ProcessedFits(q)
    BY <1>1 DEF Init, RowFits, ProcessedFits, InState
  <1>5. ASSUME NEW q \in Request
        PROVE  TaskFits(q)
    <2>1. CASE q # Root
      BY <1>1, <2>1 DEF Init, TaskFits
    <2>2. CASE q = Root
      <3>1. SubSeq(Root, 1, 0) = Root
        BY <1>2
      <3>2. /\ task[Root].topic \in task[Root].ancestry
            /\ task[Root] # None
        <4>1. task[Root] = [topic |-> RootTopic, ancestry |-> {RootTopic}]
          BY <1>1, <1>2 DEF Init
        <4>2. task[Root] \in Envelope
          BY <4>1, ConsultationAssumption DEF Envelope
        <4>3. QED BY <4>1, <4>2, NoneAssumption
      <3>3. Len(q) = 0 /\ SubSeq(q, 1, 0) = q
        BY <1>2, <2>2, <3>1
      <3>4. (\A d \in 0 .. 0 : d = 0) /\ (\A d \in 0 .. 0 - 1 : FALSE)
        OBVIOUS
      <3>5. QED BY <2>2, <3>2, <3>3, <3>4 DEF TaskFits
    <2>3. QED BY <2>1, <2>2
  <1>6. ASSUME NEW q \in Request
        PROVE  NestedFits(q)
    <2>1. SUFFICES ASSUME NEW r \in Round, Append(q, r) \in Request PROVE task[Append(q, r)] = None
      BY DEF NestedFits
    <2>2. q \in Seq(Round)
      BY RequestsAreSequences
    <2>3. Len(Append(q, r)) = Len(q) + 1 /\ Len(q) \in Nat
      BY <2>2
    <2>4. Append(q, r) # Root
      BY <1>2, <2>3
    <2>5. QED BY <1>1, <2>1, <2>4 DEF Init
  <1>7. ASSUME NEW c \in Coordinator
        PROVE  ~Busy(c)
    BY <1>1 DEF Init, Busy
  <1>8. QED BY <1>3, <1>4, <1>5, <1>6, <1>7 DEF ConsultationInv, OwnerFits, Owns, WorksOn

LEMMA StepPreserves == ConsultationInv /\ [Next]_vars => ConsultationInv'
  <1>1. SUFFICES ASSUME ConsultationInv, [Next]_vars PROVE ConsultationInv'
    OBVIOUS
  <1>2. CASE UNCHANGED vars
    BY <1>1, <1>2
      DEF vars, ConsultationInv, TypeOK, TaskFits, RowFits, ProcessedFits, NestedFits, WorkFits,
          OwnerFits, Owns, WorksOn, Busy, StepFits, RunFits, ReadEarlier, Answered
  <1>3. ASSUME NEW c \in Coordinator, NEW q \in Request, Claim(c, q)
        PROVE  ConsultationInv'
    BY <1>1, <1>3, ClaimKeepsTypes, ClaimPreserves
  <1>4. ASSUME NEW c \in Coordinator, CoordinatorStep(c) \/ Dies(c)
        PROVE  ConsultationInv'
    <2>1. CASE \/ ChildAnswers(c) \/ ChildAsksForEvidence(c)
               \/ \E t \in Topic : ChildAsksForPeer(c, t)
      <3>1. SavesSoundly(c)
        BY <1>1, <2>1, ChildSavesSoundly
      <3>2. UNCHANGED <<task, inbox, overdue, due, reply, returned, faults>>
        BY <2>1 DEF ChildAnswers, ChildAsksForEvidence, ChildAsksForPeer
      <3>3. QED BY <1>1, <3>1, <3>2, SaveKeepsTypes, SavePreserves
    <2>2. CASE \/ CollectEvidence(c) \/ SaveNested(c) \/ NoResultYet(c)
               \/ PeerAnswered(c) \/ SaveFailed(c)
      <3>1. SavesSoundly(c)
        BY <1>1, <2>2, OthersSaveSoundly
      <3>2. /\ UNCHANGED <<task, inbox, overdue, reply, returned, faults>>
            /\ UNCHANGED due \/ due' = [due EXCEPT ![work[c].request] = FALSE]
        BY <2>2 DEF CollectEvidence, SaveNested, NoResultYet, PeerAnswered, SaveFailed
      <3>3. QED BY <1>1, <3>1, <3>2, SaveKeepsTypes, SavePreserves
    <2>3. CASE \/ Authorize(c) \/ (EnsureRun(c) /\ UNCHANGED run /\ GoTo(c, "reject"))
               \/ ChildOrCollectionFails(c) \/ PeerForbidden(c) \/ PeerFailed(c)
               \/ Release(c) \/ Refused(c) \/ Dies(c)
      <3>1. Quiet
        BY <1>1, <2>3, CoordinatorIsQuiet
      <3>2. TypeOK'
        BY <1>1, <2>3, CoordinatorKeepsTypes
      <3>3. QED BY <1>1, <3>1, <3>2, QuietPreserves
    <2>4. CASE EnsureRun(c) /\ ~(UNCHANGED run /\ GoTo(c, "reject"))
      BY <1>1, <2>4, CoordinatorKeepsTypes, EnsureRunPreserves
    <2>5. CASE SendNested(c)
      BY <1>1, <2>5, CoordinatorKeepsTypes, SendNestedPreserves
    <2>6. CASE Settle(c)
      BY <1>1, <2>6, CoordinatorKeepsTypes, SettlePreserves
    <2>7. QED BY <1>4, <2>1, <2>2, <2>3, <2>4, <2>5, <2>6 DEF CoordinatorStep
  <1>5. ASSUME NEW q \in Request,
               \/ Deliver(q) \/ DeliverResult(q) \/ ResultCollides(q) \/ Decide(q)
               \/ Lapse(q) \/ DeadlinePasses(q) \/ BecomesDue(q)
        PROVE  ConsultationInv'
    <2>1. TypeOK'
      BY <1>1, <1>5, EnvironmentKeepsTypes DEF ConsultationInv
    <2>2. QED BY <1>1, <1>5, <2>1, EnvironmentIsQuiet, QuietPreserves
  <1>6. ASSUME NEW q \in Request, AnsweredElsewhere(q)
        PROVE  ConsultationInv'
    <2>1. TypeOK'
      BY <1>1, <1>6, EnvironmentKeepsTypes DEF ConsultationInv
    <2>2. QED BY <1>1, <1>6, <2>1, AnsweredElsewherePreserves
  <1>7. QED BY <1>1, <1>2, <1>3, <1>4, <1>5, <1>6 DEF Next

(* ConsultationInv is an invariant of every consultation: the types and    *)
(* what ties the runs, the claims and the results of two nodes together.   *)
THEOREM ConsultationInvariant == Spec => []ConsultationInv
  BY InitialFits, StepPreserves, PTL DEF Spec

(* Every variable keeps a value of its kind, whatever the coordinators of  *)
(* both nodes, the bridge and the operator do.                             *)
THEOREM ConsultationTypeCorrect == Spec => []TypeOK
  <1>1. ConsultationInv => TypeOK
    BY DEF ConsultationInv
  <1>2. QED BY <1>1, ConsultationInvariant, PTL

(* The answer that settled a request is that of its run, and the run stays *)
(* completed: stale versions, lapsed claims and passed deadlines of any    *)
(* number of coordinators do not turn it over.                             *)
THEOREM AnswersMatchRuns == Spec => []AnswerMatchesRun
  <1>1. ConsultationInv => AnswerMatchesRun
    BY DEF ConsultationInv, ProcessedFits, AnswerMatchesRun
  <1>2. QED BY <1>1, ConsultationInvariant, PTL

(* Each round of a run asks the peer at most one thing, the one the run    *)
(* recorded, however often its step is repeated after a death.             *)
THEOREM OneTaskARound == Spec => []OneTaskPerRound
  <1>1. ConsultationInv => OneTaskPerRound
    BY DEF ConsultationInv, NestedFits, OneTaskPerRound
  <1>2. QED BY <1>1, ConsultationInvariant, PTL

(* No request is asked again below itself, to any depth and from either    *)
(* of the two nodes: the ancestry travels with the task.                   *)
THEOREM ConsultationsDoNotCycle == Spec => []NoCycle
  <1>1. ConsultationInv => NoCycle
    <2>1. SUFFICES ASSUME ConsultationInv, NEW q \in Request, task[q] # None,
                          NEW d \in 0 .. Len(q) - 1
                   PROVE  /\ task[SubSeq(q, 1, d)] # None
                          /\ task[SubSeq(q, 1, d)].topic # task[q].topic
      BY DEF NoCycle
    <2>2. TaskFits(q) /\ d \in 0 .. Len(q)
      BY <2>1, RequestsAreSequences DEF ConsultationInv
    <2>3. QED BY <2>1, <2>2 DEF TaskFits
  <1>2. QED BY <1>1, ConsultationInvariant, PTL

-----------------------------------------------------------------------------
(* A consultation is an inquiry.                                           *)

LEMMA InitialMaps == Init => Abstract!Init
  <1>1. SUFFICES ASSUME Init PROVE Abstract!Init
    OBVIOUS
  <1>2. [topic |-> RootTopic, ancestry |-> {RootTopic}] # None
    BY ConsultationAssumption, NoneAssumption DEF Envelope
  <1>3. QED BY <1>1, <1>2 DEF Init, Abstract!Init, Status, Basis, Root

LEMMA SendNestedMaps ==
    ASSUME ConsultationInv, NEW c \in Coordinator, SendNested(c)
    PROVE  [Abstract!Next]_(Abstract!inquiryvars)
  <1>1. PICK q, r : q = work[c].request /\ r = work[c].run
    OBVIOUS
  <1>2. /\ q \in Request /\ r.round \in Round /\ Append(q, r.round) \in Request
        /\ task[q] \in Envelope /\ r.peer \in Topic
    BY <1>1, Sending
  <1>3. PICK n \in Request : n = Append(q, r.round)
    BY <1>2
  <1>4. PICK e : e = [topic |-> r.peer, ancestry |-> task[q].ancestry \cup {r.peer}]
    OBVIOUS
  <1>5. /\ task[n] \in {None, e} /\ task' = [task EXCEPT ![n] = e] /\ reply' = reply
        /\ e # None /\ task[q] # None /\ task \in [Request -> Envelope \cup {None}]
    <2>1. e \in Envelope
      BY <1>2, <1>4 DEF Envelope
    <2>2. QED BY <1>1, <1>2, <1>3, <1>4, <2>1, NoneAssumption
            DEF SendNested, ConsultationInv, TypeOK
  <1>6. Basis' = Basis
    BY <1>5 DEF Basis
  <1>7. CASE task[n] = e
    <2>1. task' = task
      BY <1>5, <1>7
    <2>2. Status' = Status
      BY <1>5, <2>1 DEF Status
    <2>3. QED BY <1>6, <2>2 DEF Abstract!inquiryvars
  <1>8. CASE task[n] = None
    <2>1. reply[n] = None
      BY <1>8 DEF ConsultationInv, RowFits
    <2>2. Status[n] = "absent" /\ Status[q] # "absent"
      BY <1>2, <1>5, <1>8 DEF Status
    <2>3. Status' = [Status EXCEPT ![n] = "open"]
      BY <1>5, <2>1 DEF Status
    <2>4. Abstract!Ask(q, r.round)
      BY <1>2, <1>3, <1>6, <2>2, <2>3 DEF Abstract!Ask
    <2>5. QED BY <1>2, <2>4 DEF Abstract!Next
  <1>9. QED BY <1>5, <1>7, <1>8

(* A reply given where there was none.                                     *)
LEMMA ReplyMaps ==
    ASSUME ConsultationInv, NEW q \in Request, NEW result \in Outcome,
           task[q] # None, reply[q] = None, task' = task,
           reply' = [reply EXCEPT ![q] = result],
           result.outcome = "completed" => \A r \in result.evidence : Answered(q, r),
           result.outcome = "rejected" => result.evidence = {}
    PROVE  Abstract!Next
  <1>1. result # None /\ reply \in [Request -> Outcome \cup {None}]
    BY NoneAssumption DEF ConsultationInv, TypeOK
  <1>2. Status[q] = "open"
    BY DEF Status
  <1>3. Basis' = [Basis EXCEPT ![q] = result.evidence]
    BY <1>1 DEF Basis
  <1>4. CASE result.outcome = "completed"
    <2>1. Status' = [Status EXCEPT ![q] = "answered"]
      BY <1>1, <1>4 DEF Status
    <2>2. \A r \in result.evidence : Append(q, r) \in Request /\ Status[Append(q, r)] = "answered"
      BY <1>4 DEF Answered, Status
    <2>3. Abstract!Answer(q, result.evidence)
      BY <1>2, <1>3, <2>1, <2>2 DEF Abstract!Answer
    <2>4. result.evidence \in SUBSET Round
      BY DEF Outcome
    <2>5. QED BY <2>3, <2>4 DEF Abstract!Next
  <1>5. CASE result.outcome = "rejected"
    <2>1. Status' = [Status EXCEPT ![q] = "refused"]
      BY <1>1, <1>5 DEF Status
    <2>2. Basis[q] = {} /\ Basis' = Basis
      BY <1>3, <1>5 DEF Basis
    <2>3. Abstract!Refuse(q)
      BY <1>2, <2>1, <2>2 DEF Abstract!Refuse
    <2>4. QED BY <2>3 DEF Abstract!Next
  <1>6. QED BY <1>4, <1>5 DEF Outcome

LEMMA SettleMaps ==
    ASSUME ConsultationInv, NEW c \in Coordinator, Settle(c)
    PROVE  Abstract!Next
  <1>1. PICK step, result :
          /\ At(c, step) /\ task' = task /\ reply' = [reply EXCEPT ![work[c].request] = result]
          /\ \/ /\ step = "answer"
                /\ result = [outcome |-> "completed", evidence |-> work[c].run.evidence]
             \/ result = [outcome |-> "rejected", evidence |-> {}]
    BY DEF Settle, Complete, SettleFailure, SettleInitialFailure, SettleWithReply
  <1>2. PICK q \in Request : q = work[c].request
    BY <1>1, Holding DEF At
  <1>3. task[q] # None /\ reply[q] = None
    BY <1>2, CoordinatorKeepsTypes, SettlePreserves
  <1>4. step = "answer" =>
          work[c].run.evidence \subseteq Round /\ \A r \in work[c].run.evidence : Answered(q, r)
    BY <1>1, <1>2, Holding DEF At, Run, RunFits
  <1>5. result \in Outcome
    BY <1>1, <1>4 DEF Outcome
  <1>6. QED BY <1>1, <1>2, <1>3, <1>4, <1>5, ReplyMaps

LEMMA StepMaps == ConsultationInv /\ [Next]_vars => [Abstract!Next]_(Abstract!inquiryvars)
  <1>1. SUFFICES ASSUME ConsultationInv, [Next]_vars
                 PROVE  [Abstract!Next]_(Abstract!inquiryvars)
    OBVIOUS
  <1>2. CASE UNCHANGED <<task, reply>>
    BY <1>2 DEF Status, Basis, Abstract!inquiryvars
  <1>3. ASSUME NEW c \in Coordinator, SendNested(c)
        PROVE  [Abstract!Next]_(Abstract!inquiryvars)
    BY <1>1, <1>3, SendNestedMaps
  <1>4. ASSUME NEW c \in Coordinator, Settle(c)
        PROVE  Abstract!Next
    BY <1>1, <1>4, SettleMaps
  <1>5. ASSUME NEW q \in Request, AnsweredElsewhere(q)
        PROVE  Abstract!Next
    <2>1. PICK o \in {"completed", "rejected"} :
            reply' = [reply EXCEPT ![q] = [outcome |-> o, evidence |-> {}]]
      BY <1>5 DEF AnsweredElsewhere
    <2>2. [outcome |-> o, evidence |-> {}] \in Outcome
      BY DEF Outcome
    <2>3. task' = task /\ task[q] # None /\ reply[q] = None
      BY <1>5 DEF AnsweredElsewhere
    <2>4. QED BY <1>1, <2>1, <2>2, <2>3, ReplyMaps
  <1>6. ASSUME NEW c \in Coordinator, NEW q \in Request, Claim(c, q)
        PROVE  UNCHANGED <<task, reply>>
    BY <1>6 DEF Claim
  <1>7. ASSUME NEW c \in Coordinator, CoordinatorStep(c) \/ Dies(c),
               ~SendNested(c), ~Settle(c)
        PROVE  UNCHANGED <<task, reply>>
    BY <1>7 DEF CoordinatorStep, Dies, Authorize, EnsureRun, ChildAnswers, ChildAsksForEvidence,
                ChildAsksForPeer, CollectEvidence, ChildOrCollectionFails, PeerForbidden,
                SaveNested, NoResultYet, PeerFailed, PeerAnswered, SaveFailed, Release, Refused
  <1>8. ASSUME NEW q \in Request,
               \/ Deliver(q) \/ DeliverResult(q) \/ ResultCollides(q) \/ Decide(q)
               \/ Lapse(q) \/ DeadlinePasses(q) \/ BecomesDue(q)
        PROVE  UNCHANGED <<task, reply>>
    BY <1>8 DEF Deliver, DeliverResult, ResultCollides, Decide, Lapse, DeadlinePasses, BecomesDue
  <1>9. CASE UNCHANGED vars
    BY <1>2, <1>9 DEF vars
  <1>10. QED BY <1>1, <1>2, <1>3, <1>4, <1>5, <1>6, <1>7, <1>8, <1>9 DEF Next

(* The consultations of two nodes implement Inquiry: each request is       *)
(* answered or refused at most once, and an answer rests only on answers   *)
(* the peer gave to the tasks of its own run.                              *)
THEOREM ConsultationImplementsInquiry == Spec => ImplementsInquiry
  BY InitialMaps, StepMaps, ConsultationInvariant, PTL
    DEF Spec, ImplementsInquiry, Abstract!Spec
=============================================================================
