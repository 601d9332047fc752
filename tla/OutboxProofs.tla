---------------------------- MODULE OutboxProofs ----------------------------
(* Theorems about Outbox, for every value of its constants.                *)
EXTENDS Outbox, TLAPS

USE DEF Final, RowState

-----------------------------------------------------------------------------
(* The operators on rows.                                                  *)

LEMMA RetryDelayType ==
    ASSUME NEW n \in Nat \ {0} PROVE RetryDelay(n) \in Nat
  BY OutboxAssumption DEF RetryDelay, Least

LEMMA SweptType ==
    ASSUME NEW r \in Row PROVE Swept(r) \in Row
  BY DEF Swept, Row

LEMMA SettledType ==
    ASSUME NEW r \in Row, NEW s \in RowState
    PROVE  Settled(r, s) \in Row
  BY DEF Settled, Row

LEMMA RetriedType ==
    ASSUME TypeOK, NEW r \in Row PROVE Retried(r) \in Row
  <1>1. r.attempts \in Nat /\ now \in Nat
    BY DEF Row, TypeOK
  <1>2. RetryDelay(r.attempts + 1) \in Nat
    BY <1>1, RetryDelayType
  <1>3. now + RetryDelay(r.attempts + 1) \in Nat /\ r.attempts + 1 \in Nat
    BY <1>1, <1>2
  <1>4. QED BY <1>3 DEF Retried, Row

LEMMA QuarantinedType ==
    ASSUME NEW r \in Row PROVE Quarantined(r) \in Row
  <1>1. Settled(r, "quarantined") \in Row
    BY SettledType
  <1>2. r.attempts + 1 \in Nat
    BY DEF Row
  <1>3. QED BY <1>1, <1>2 DEF Quarantined, Row

(* A sweep changes no final and no absent row and keeps every operation.   *)
LEMMA SweptFacts ==
    ASSUME NEW r \in Row
    PROVE  /\ r.state \in Final \cup {"absent"} => Swept(r) = r
           /\ Swept(r).op = r.op
           /\ Swept(r).state # r.state => Swept(r).state \in {"pending", "expired"}
           /\ Swept(r).state = "sent" => r.state = "sent"
  BY DEF Swept, Overdue, Lapsed, Row

-----------------------------------------------------------------------------
(* What a worker knows while it sends.                                     *)
SendingOK ==
    \A w \in Worker :
        /\ worker[w].phase \in {"new", "idle", "dead"} => worker[w].batch = {}
        /\ worker[w].phase = "sending" =>
               worker[w].current \in worker[w].batch /\ handed[worker[w].current] > 0
        /\ worker[w].acked => worker[w].phase = "sending" /\ worker[w].current \in accepted

(* An update under the lease is one of two outcomes for row and worker.    *)
LEMMA UpdateHeldFacts ==
    ASSUME TypeOK, SendingOK, NEW w \in Worker, NEW m \in Id, NEW row \in Row,
           m \in worker[w].batch, UpdateHeld(w, m, row)
    PROVE  /\ TypeOK' /\ SendingOK'
           /\ UNCHANGED <<handed, accepted, now>>
           /\ outbox' \in [Id -> Row]
           /\ \A k \in Id : k # m => outbox'[k] = outbox[k]
           /\ outbox'[m] # outbox[m] => HoldsLease(w, m) /\ outbox'[m] = row
           /\ \A v \in Worker : v # w => worker'[v] = worker[v]
           /\ worker'[w].batch \subseteq worker[w].batch \ {m}
           /\ worker'[w].phase \in {"idle", "batch"}
  <1>1. /\ outbox' \in [Id -> Row]
        /\ \A k \in Id : k # m => outbox'[k] = outbox[k]
        /\ outbox'[m] # outbox[m] => HoldsLease(w, m) /\ outbox'[m] = row
    BY DEF UpdateHeld, TypeOK
  <1>2. UNCHANGED <<handed, accepted, now>>
    BY DEF UpdateHeld
  <1>3. /\ worker' \in [Worker -> Local]
        /\ \A v \in Worker : v # w => worker'[v] = worker[v]
        /\ worker'[w].batch \subseteq worker[w].batch \ {m}
        /\ worker'[w].phase \in {"idle", "batch"}
        /\ worker'[w].phase = "idle" => worker'[w].batch = {}
        /\ ~worker'[w].acked
    <2>1. CASE ContinueBatch(w, m)
      BY <2>1 DEF ContinueBatch, TypeOK, Local
    <2>2. CASE AbortCycle(w)
      BY <2>2 DEF AbortCycle, Stopped, TypeOK, Local
    <2>3. QED BY <2>1, <2>2 DEF UpdateHeld
  <1>4. TypeOK'
    BY <1>1, <1>2, <1>3 DEF TypeOK
  <1>5. SendingOK'
    BY <1>2, <1>3 DEF SendingOK
  <1>6. QED BY <1>1, <1>2, <1>3, <1>4, <1>5

-----------------------------------------------------------------------------
(* Every row an update under the lease may write.                          *)
Outcomes(r) == {Settled(r, "sent"), Retried(r), Quarantined(r)}

LEMMA OutcomesType ==
    ASSUME TypeOK, NEW r \in Row, NEW row \in Outcomes(r)
    PROVE  row \in Row /\ row.op = r.op /\ row.state \in {"pending"} \cup Final
  <1>1. CASE row = Settled(r, "sent")
    <2>1. Settled(r, "sent").op = r.op /\ Settled(r, "sent").state = "sent"
      BY DEF Settled, Row
    <2>2. QED BY <1>1, <2>1, SettledType
  <1>2. CASE row = Retried(r)
    <2>1. Retried(r).op = r.op /\ Retried(r).state = "pending"
      BY DEF Retried, Row
    <2>2. QED BY <1>2, <2>1, RetriedType
  <1>3. CASE row = Quarantined(r)
    BY <1>3, QuarantinedType DEF Quarantined, Settled, Row
  <1>4. QED BY <1>1, <1>2, <1>3 DEF Outcomes

(* The steps that settle, retry or quarantine an item, seen as one kind:   *)
(* which row they write, and that "sent" needs the answer of the broker.   *)
Finishes(w, m, row) ==
    /\ m \in worker[w].batch
    /\ row \in Outcomes(outbox[m])
    /\ row.state = "sent" => m \in accepted
    /\ UpdateHeld(w, m, row)

LEMMA FinishingSteps ==
    ASSUME TypeOK, SendingOK, NEW w \in Worker,
           \/ \E m \in Id : QuarantineUnauthorized(w, m) \/ SignRejects(w, m)
           \/ SendSucceeds(w) \/ SendFailsForNow(w) \/ SendFailsForGood(w)
    PROVE  \E m \in Id : \E row \in Row : Finishes(w, m, row)
  <1>0. \A m \in Id : outbox[m] \in Row
    BY DEF TypeOK
  <1>s. \A r \in Row : Retried(r).state = "pending" /\ Quarantined(r).state = "quarantined"
    BY DEF Retried, Quarantined, Settled, Row
  <1>t. \A m \in Id : Outcomes(outbox[m]) \subseteq Row
    BY <1>0, OutcomesType
  <1>1. CASE \E m \in Id : QuarantineUnauthorized(w, m)
    <2>1. PICK m \in Id : QuarantineUnauthorized(w, m)
      BY <1>1
    <2>2. Finishes(w, m, Quarantined(outbox[m]))
      BY <1>0, <1>s, <2>1 DEF QuarantineUnauthorized, NextItem, Finishes, Outcomes
    <2>3. QED BY <1>t, <2>2 DEF Finishes
  <1>2. CASE \E m \in Id : SignRejects(w, m)
    <2>1. PICK m \in Id : SignRejects(w, m)
      BY <1>2
    <2>2. Finishes(w, m, Retried(outbox[m]))
      BY <1>0, <1>s, <2>1 DEF SignRejects, NextItem, Finishes, Outcomes
    <2>3. QED BY <1>t, <2>2 DEF Finishes
  <1>3. CASE SendSucceeds(w) \/ SendFailsForNow(w) \/ SendFailsForGood(w)
    <2> DEFINE m == worker[w].current
    <2>1. worker[w].phase = "sending" /\ m \in worker[w].batch /\ m \in Id
      BY <1>3 DEF SendSucceeds, SendReturned, SendFailsForNow, SendFailsForGood,
                  SendingOK, TypeOK, Local
    <2>2. CASE SendSucceeds(w)
      <3>1. Finishes(w, m, Settled(outbox[m], "sent"))
        BY <2>1, <2>2 DEF SendSucceeds, SendReturned, SendingOK, Finishes, Outcomes
      <3>2. QED BY <1>t, <2>1, <3>1 DEF Finishes
    <2>3. CASE SendFailsForNow(w)
      <3>1. Finishes(w, m, Retried(outbox[m]))
        BY <1>0, <1>s, <2>1, <2>3 DEF SendFailsForNow, Finishes, Outcomes
      <3>2. QED BY <1>t, <2>1, <3>1 DEF Finishes
    <2>4. CASE SendFailsForGood(w)
      <3>1. Finishes(w, m, Quarantined(outbox[m]))
        BY <1>0, <1>s, <2>1, <2>4 DEF SendFailsForGood, Finishes, Outcomes
      <3>2. QED BY <1>t, <2>1, <3>1 DEF Finishes
    <2>5. QED BY <1>3, <2>2, <2>3, <2>4
  <1>4. QED BY <1>1, <1>2, <1>3

(* Next, with the finishing steps gathered.                                *)
LEMMA StepCases ==
    ASSUME TypeOK, SendingOK, [Next]_vars
    PROVE  \/ \E m \in Id, op \in Operation, v \in Validity : Enqueue(m, op, v)
           \/ \E w \in Worker, chosen \in SUBSET Id : LeaseBatch(w, chosen)
           \/ \E w \in Worker, m \in Id : BeginSend(w, m)
           \/ \E w \in Worker, m \in Id, row \in Row : Finishes(w, m, row)
           \/ \E w \in Worker : BrokerAcknowledges(w) \/ Start(w) \/ Crash(w)
           \/ \E m \in Id : BrokerAcceptsUnseen(m)
           \/ Tick
           \/ UNCHANGED vars
  <1>1. CASE \E w \in Worker : WorkerStep(w)
    BY <1>1, FinishingSteps DEF WorkerStep
  <1>2. QED BY <1>1 DEF Next

-----------------------------------------------------------------------------
(* Type correctness, with what a worker knows while it sends.              *)

LEMMA InitType == Init => TypeOK /\ SendingOK
  <1> SUFFICES ASSUME Init PROVE TypeOK /\ SendingOK
    OBVIOUS
  <1>1. NoRow \in Row
    BY DEF NoRow, Row
  <1>2. Stopped("new") \in Local
    BY DEF Stopped, Local
  <1>3. QED BY <1>1, <1>2 DEF Init, TypeOK, SendingOK, Stopped

LEMMA NextType ==
    ASSUME TypeOK, SendingOK, [Next]_vars PROVE TypeOK' /\ SendingOK'
  <1>1. CASE \E m \in Id, op \in Operation, v \in Validity : Enqueue(m, op, v)
    <2>1. PICK m \in Id, op \in Operation, v \in Validity : Enqueue(m, op, v)
      BY <1>1
    <2>2. now + v.instant \in Nat /\ now + v.text \in Nat
      BY OutboxAssumption DEF TypeOK
    <2>3. outbox'[m] \in Row
      BY <2>1, <2>2 DEF Enqueue, NoRow, Row, TypeOK
    <2>4. QED BY <2>1, <2>3 DEF Enqueue, TypeOK, SendingOK
  <1>2. CASE \E w \in Worker, chosen \in SUBSET Id : LeaseBatch(w, chosen)
    <2>1. PICK w \in Worker, chosen \in SUBSET Id : LeaseBatch(w, chosen)
      BY <1>2
    <2>2. now + LeaseSeconds \in Nat
      BY OutboxAssumption DEF TypeOK
    <2>3. \A m \in Id : Swept(outbox[m]) \in Row
      BY SweptType DEF TypeOK
    <2>4. \A m \in Id : outbox'[m] \in Row
      BY <2>1, <2>2, <2>3 DEF LeaseBatch, Row
    <2>5. outbox' \in [Id -> Row]
      BY <2>1, <2>4 DEF LeaseBatch
    <2>a. /\ worker[w].current \in Id \cup {None} /\ worker[w].acked \in BOOLEAN
          /\ worker \in [Worker -> Local]
      BY DEF TypeOK, Local
    <2>b. PICK p \in {"idle", "batch"} :
            /\ worker' = [worker EXCEPT ![w].phase = p, ![w].batch = chosen]
            /\ p = "idle" => chosen = {}
      BY <2>1 DEF LeaseBatch
    <2>c. [worker[w] EXCEPT !.phase = p, !.batch = chosen] \in Local
      BY <2>a DEF Local
    <2>6. worker' \in [Worker -> Local]
      BY <2>a, <2>b, <2>c
    <2>d. worker[w].phase = "idle" /\ handed' = handed /\ accepted' = accepted
      BY <2>1 DEF LeaseBatch
    <2>e. /\ worker'[w].phase = p /\ worker'[w].batch = chosen /\ ~worker'[w].acked
          /\ \A v \in Worker : v # w => worker'[v] = worker[v]
      BY <2>a, <2>b, <2>d DEF SendingOK, Local
    <2>7. SendingOK'
      <3> SUFFICES ASSUME NEW v \in Worker
                   PROVE  /\ worker'[v].phase \in {"new", "idle", "dead"} => worker'[v].batch = {}
                          /\ worker'[v].phase = "sending" =>
                                 /\ worker'[v].current \in worker'[v].batch
                                 /\ handed'[worker'[v].current] > 0
                          /\ worker'[v].acked => /\ worker'[v].phase = "sending"
                                                 /\ worker'[v].current \in accepted'
        BY DEF SendingOK
      <3>1. CASE v = w
        BY <2>b, <2>e, <3>1
      <3>2. CASE v # w
        BY <2>d, <2>e, <3>2 DEF SendingOK
      <3>3. QED BY <3>1, <3>2
    <2>8. QED BY <2>1, <2>5, <2>6, <2>7 DEF LeaseBatch, TypeOK
  <1>3. CASE \E w \in Worker, m \in Id : BeginSend(w, m)
    <2>1. PICK w \in Worker, m \in Id : BeginSend(w, m)
      BY <1>3
    <2>2. m \in worker[w].batch
      BY <2>1 DEF BeginSend, NextItem
    <2>a. worker[w].batch \in SUBSET Id /\ worker[w].acked \in BOOLEAN
      BY DEF TypeOK, Local
    <2>b. [worker[w] EXCEPT !.phase = "sending", !.current = m] \in Local
      BY <2>a DEF TypeOK, Local
    <2>c. /\ worker' = [worker EXCEPT ![w].phase = "sending", ![w].current = m]
          /\ worker \in [Worker -> Local]
      BY <2>1 DEF BeginSend, TypeOK
    <2>3. worker' \in [Worker -> Local]
      BY <2>b, <2>c
    <2>4. handed' \in [Id -> Nat] /\ handed'[m] > 0
      BY <2>1 DEF BeginSend, TypeOK
    <2>5. TypeOK'
      BY <2>1, <2>3, <2>4 DEF BeginSend, TypeOK
    <2>6. \A k \in Id : handed[k] > 0 => handed'[k] > 0
      BY <2>1 DEF BeginSend, TypeOK
    <2>7. SendingOK'
      BY <2>1, <2>2, <2>4, <2>6 DEF BeginSend, TypeOK, Local, SendingOK
    <2>8. QED BY <2>5, <2>7
  <1>4. CASE \E w \in Worker, m \in Id, row \in Row : Finishes(w, m, row)
    BY <1>4, UpdateHeldFacts DEF Finishes
  <1>5. CASE \E w \in Worker : BrokerAcknowledges(w)
    <2>1. PICK w \in Worker : BrokerAcknowledges(w)
      BY <1>5
    <2>2. worker[w].current \in Id
      BY <2>1 DEF BrokerAcknowledges, SendingOK, TypeOK, Local
    <2>3. worker' \in [Worker -> Local]
      BY <2>1 DEF BrokerAcknowledges, TypeOK, Local
    <2>4. TypeOK'
      BY <2>1, <2>2, <2>3 DEF BrokerAcknowledges, TypeOK
    <2>5. SendingOK'
      BY <2>1 DEF BrokerAcknowledges, TypeOK, Local, SendingOK
    <2>6. QED BY <2>4, <2>5
  <1>6. CASE \E w \in Worker : Start(w) \/ Crash(w)
    <2>1. PICK w \in Worker : Start(w) \/ Crash(w)
      BY <1>6
    <2>2. /\ worker'[w] \in {Stopped("idle"), Stopped("dead")}
          /\ worker' = [worker EXCEPT ![w] = worker'[w]]
          /\ UNCHANGED <<outbox, handed, accepted, now>>
      BY <2>1 DEF Start, Crash, TypeOK
    <2>3. \A p \in {"idle", "dead"} : Stopped(p) \in Local
      BY DEF Stopped, Local
    <2>4. TypeOK'
      BY <2>2, <2>3 DEF TypeOK
    <2>5. SendingOK'
      BY <2>2 DEF TypeOK, Stopped, SendingOK
    <2>6. QED BY <2>4, <2>5
  <1>7. CASE \E m \in Id : BrokerAcceptsUnseen(m)
    BY <1>7 DEF BrokerAcceptsUnseen, TypeOK, SendingOK
  <1>8. CASE Tick
    BY <1>8 DEF Tick, TypeOK, SendingOK
  <1>9. CASE UNCHANGED vars
    BY <1>9 DEF vars, TypeOK, SendingOK
  <1>10. QED
    BY <1>1, <1>2, <1>3, <1>4, <1>5, <1>6, <1>7, <1>8, <1>9, StepCases

(* Every variable holds a value of its kind, and a worker that awaits a    *)
(* send works on an item of its batch that it has handed over.             *)
THEOREM TypeCorrect == Spec => [](TypeOK /\ SendingOK)
  <1>1. TypeOK /\ SendingOK /\ [Next]_vars => (TypeOK /\ SendingOK)'
    BY NextType
  <1>2. QED BY InitType, <1>1, PTL DEF Spec

-----------------------------------------------------------------------------
(* What happens to a row in one step: the facts behind the safety results. *)

LEMMA RowSteps ==
    ASSUME TypeOK, SendingOK, [Next]_vars, NEW m \in Id
    PROVE  /\ outbox[m].state \in Final => outbox'[m] = outbox[m]
           /\ outbox[m].state # "absent" => outbox'[m].op = outbox[m].op
           /\ outbox'[m].state = "sent" /\ outbox[m].state # "sent" =>
                  m \in accepted /\ outbox[m].state = "leased"
           /\ accepted \subseteq accepted'
  <1>0. outbox[m] \in Row
    BY DEF TypeOK
  <1>1. CASE \E k \in Id, op \in Operation, v \in Validity : Enqueue(k, op, v)
    BY <1>1 DEF Enqueue, NoRow, TypeOK
  <1>2. CASE \E w \in Worker, chosen \in SUBSET Id : LeaseBatch(w, chosen)
    <2>1. PICK w \in Worker, chosen \in SUBSET Id : LeaseBatch(w, chosen)
      BY <1>2
    <2>2. /\ Swept(outbox[m]) \in Row
          /\ outbox[m].state \in Final \cup {"absent"} => Swept(outbox[m]) = outbox[m]
          /\ Swept(outbox[m]).op = outbox[m].op
          /\ Swept(outbox[m]).state = "sent" => outbox[m].state = "sent"
      BY <1>0, SweptType, SweptFacts
    <2>3. CASE m \in chosen
      <3>1. Swept(outbox[m]).state = "pending"
        BY <2>1, <2>3 DEF LeaseBatch, OldestFirst, Due
      <3>2. /\ outbox'[m].state = "leased" /\ outbox'[m].op = outbox[m].op
        BY <2>1, <2>2, <2>3 DEF LeaseBatch, Row
      <3>3. outbox[m].state \notin Final
        BY <2>2, <3>1
      <3>4. QED BY <2>1, <3>2, <3>3 DEF LeaseBatch
    <2>4. CASE m \notin chosen
      BY <2>1, <2>2, <2>4 DEF LeaseBatch
    <2>5. QED BY <2>3, <2>4
  <1>3. CASE \E w \in Worker, k \in Id, row \in Row : Finishes(w, k, row)
    <2>1. PICK w \in Worker, k \in Id, row \in Row : Finishes(w, k, row)
      BY <1>3
    <2>2. /\ UNCHANGED accepted
          /\ m # k => outbox'[m] = outbox[m]
          /\ outbox'[k] # outbox[k] => outbox[k].state = "leased" /\ outbox'[k] = row
      BY <2>1, UpdateHeldFacts DEF Finishes, HoldsLease
    <2>3. row.op = outbox[k].op /\ (row.state = "sent" => k \in accepted)
      BY <2>1, OutcomesType DEF Finishes, TypeOK
    <2>4. QED BY <2>2, <2>3
  <1>4. CASE UNCHANGED outbox /\ accepted \subseteq accepted'
    BY <1>4
  <1>5. QED
    BY <1>1, <1>2, <1>3, <1>4, StepCases
       DEF BeginSend, BrokerAcknowledges, Start, Crash, BrokerAcceptsUnseen, Tick, vars

-----------------------------------------------------------------------------
(* A row reads sent only if the broker has taken its message.              *)
THEOREM SentIsAccepted == Spec => []SentWasAccepted
  <1>1. Init => SentWasAccepted
    BY DEF Init, NoRow, SentWasAccepted
  <1>2. TypeOK /\ SendingOK /\ SentWasAccepted /\ [Next]_vars => SentWasAccepted'
    <2> SUFFICES ASSUME TypeOK, SendingOK, SentWasAccepted, [Next]_vars, NEW m \in Id,
                        outbox'[m].state = "sent"
                 PROVE  m \in accepted'
      BY DEF SentWasAccepted
    <2>1. QED BY RowSteps DEF SentWasAccepted
  <1>3. QED BY <1>1, <1>2, TypeCorrect, PTL DEF Spec

(* Sent, quarantined and expired rows never change again, with any number  *)
(* of workers.                                                             *)
THEOREM FinalRowsStay == Spec => FinalStaysFinal
  <1>1. TypeOK /\ SendingOK /\ [Next]_vars =>
            \A m \in Id : outbox[m].state \in Final => outbox'[m] = outbox[m]
    BY RowSteps
  <1>2. QED BY <1>1, TypeCorrect, PTL DEF Spec, FinalStaysFinal

-----------------------------------------------------------------------------
(* With the process lock there is one live worker, and nobody else touches *)
(* the rows it has leased: its invariant is inductive only together.       *)
OneLive == ExclusiveLock => \A v, w \in Live : v = w

LeaseInv == TypeOK /\ SendingOK /\ OneLive /\ BatchIsLeased

LEMMA LeaseInvStep == LeaseInv /\ [Next]_vars => LeaseInv'
  <1> SUFFICES ASSUME LeaseInv, [Next]_vars, ExclusiveLock
               PROVE  /\ \A v, w \in Live' : v = w
                      /\ \A w \in Live' : \A m \in worker'[w].batch : HoldsLease(w, m)'
    BY NextType DEF LeaseInv, OneLive, BatchIsLeased
  <1>0. /\ TypeOK /\ SendingOK
        /\ \A v, w \in Live : v = w
        /\ \A w \in Live : \A m \in worker[w].batch : HoldsLease(w, m)
    BY DEF LeaseInv, OneLive, BatchIsLeased
  <1>1. CASE \E k \in Id, op \in Operation, v \in Validity : Enqueue(k, op, v)
    BY <1>0, <1>1 DEF Enqueue, Live, HoldsLease, TypeOK, Local
  <1>2. CASE \E w \in Worker, chosen \in SUBSET Id : LeaseBatch(w, chosen)
    <2>1. PICK w \in Worker, chosen \in SUBSET Id : LeaseBatch(w, chosen)
      BY <1>2
    <2>2. Live = {w} /\ Live' = {w}
      BY <1>0, <2>1 DEF LeaseBatch, Live, TypeOK, Local
    <2>3. worker'[w].batch = chosen
      BY <1>0, <2>1 DEF LeaseBatch, TypeOK, Local
    <2>4. \A m \in chosen : outbox'[m].state = "leased" /\ outbox'[m].owner = w
      <3>1. \A m \in chosen : Swept(outbox[m]) \in Row
        BY <1>0, SweptType DEF TypeOK
      <3>2. QED BY <2>1, <3>1 DEF LeaseBatch, Row
    <2>5. QED BY <2>2, <2>3, <2>4 DEF HoldsLease
  <1>3. CASE \E w \in Worker, m \in Id : BeginSend(w, m)
    BY <1>0, <1>3 DEF BeginSend, Live, HoldsLease, TypeOK, Local
  <1>4. CASE \E w \in Worker, m \in Id, row \in Row : Finishes(w, m, row)
    <2>1. PICK w \in Worker, m \in Id, row \in Row : Finishes(w, m, row)
      BY <1>4
    <2>2. /\ \A k \in Id : k # m => outbox'[k] = outbox[k]
          /\ \A v \in Worker : v # w => worker'[v] = worker[v]
          /\ worker'[w].batch \subseteq worker[w].batch \ {m}
          /\ worker'[w].phase \in {"idle", "batch"}
      BY <1>0, <2>1, UpdateHeldFacts DEF Finishes
    <2>3. w \in Live
      BY <1>0, <2>1 DEF Finishes, SendingOK, Live, TypeOK, Local
    <2>4. Live = {w} /\ Live' = {w}
      BY <1>0, <2>2, <2>3 DEF Live
    <2>5. worker[w].batch \subseteq Id
      BY <1>0 DEF TypeOK, Local
    <2>6. QED BY <1>0, <2>2, <2>4, <2>5 DEF HoldsLease
  <1>5. CASE \E w \in Worker : BrokerAcknowledges(w)
    BY <1>0, <1>5 DEF BrokerAcknowledges, Live, HoldsLease, TypeOK, Local
  <1>6. CASE \E w \in Worker : Start(w)
    BY <1>0, <1>6 DEF Start, LockFree, Live, HoldsLease, TypeOK, Stopped
  <1>7. CASE \E w \in Worker : Crash(w)
    BY <1>0, <1>7 DEF Crash, Live, HoldsLease, TypeOK, Stopped
  <1>8. CASE UNCHANGED <<outbox, worker>>
    BY <1>0, <1>8 DEF Live, HoldsLease
  <1>9. QED
    BY <1>0, <1>1, <1>2, <1>3, <1>4, <1>5, <1>6, <1>7, <1>8, StepCases
       DEF BrokerAcceptsUnseen, Tick, vars

LEMMA LeaseInvariant == Spec => []LeaseInv
  <1>1. Init => LeaseInv
    <2> SUFFICES ASSUME Init PROVE OneLive /\ BatchIsLeased
      BY InitType DEF LeaseInv
    <2>1. Live = {}
      BY DEF Init, Live, Stopped
    <2>2. QED BY <2>1 DEF OneLive, BatchIsLeased
  <1>2. QED BY <1>1, LeaseInvStep, PTL DEF Spec

(* Under the process lock everything in the hands of a live worker is      *)
(* leased to it.                                                           *)
THEOREM BatchStaysLeased == Spec => []BatchIsLeased
  BY LeaseInvariant, PTL DEF LeaseInv

(* Under the process lock a final row is never handed over again.          *)
LEMMA HandedWhileLeased ==
    ASSUME LeaseInv, [Next]_vars, ExclusiveLock, NEW m \in Id, handed'[m] # handed[m]
    PROVE  /\ outbox[m].state = "leased" /\ UNCHANGED <<outbox, accepted>>
           /\ handed' = [handed EXCEPT ![m] = @ + 1]
  <1>1. PICK w \in Worker, k \in Id : BeginSend(w, k)
    BY StepCases, UpdateHeldFacts
       DEF LeaseInv, Enqueue, LeaseBatch, Finishes, BrokerAcknowledges, Start, Crash,
           BrokerAcceptsUnseen, Tick, vars
  <1>2. k = m
    BY <1>1 DEF BeginSend, LeaseInv, TypeOK
  <1>3. w \in Live /\ k \in worker[w].batch
    BY <1>1 DEF BeginSend, NextItem, Live
  <1>4. QED BY <1>1, <1>2, <1>3 DEF LeaseInv, BatchIsLeased, HoldsLease, BeginSend

THEOREM FinalIsNotSentAgain == Spec => NoSendOnceFinal
  <1>1. LeaseInv /\ [Next]_vars =>
          (ExclusiveLock =>
             \A m \in Id : outbox[m].state \in Final => handed'[m] = handed[m])
    BY HandedWhileLeased
  <1>2. QED BY <1>1, LeaseInvariant, PTL DEF Spec, NoSendOnceFinal

-----------------------------------------------------------------------------
(* Refinement.                                                             *)

LEMMA StatusOf ==
    ASSUME NEW m \in Id
    PROVE  Status[m] = IF outbox[m].state \in {"pending", "leased"}
                         THEN "queued" ELSE outbox[m].state
  BY DEF Status

LEMMA InitRefines == Init => Abstract!Init
  BY DEF Init, NoRow, Status, Abstract!Init

(* A step that hands nothing over, in which every row keeps its status or  *)
(* moves from queued to an outcome, is a resolution or a stutter.          *)
LEMMA ResolvingStep ==
    ASSUME TypeOK, TypeOK', UNCHANGED <<handed, accepted>>,
           \A m \in Id : \/ Status'[m] = Status[m]
                        \/ /\ Status[m] = "queued" /\ Status'[m] \in Final
                           /\ Status'[m] = "sent" => m \in accepted
    PROVE  Abstract!Next
  <1>1. \A m \in Id : outbox'[m].state \in RowState
    BY DEF TypeOK, Row
  <1>2. Status' \in [Id -> {"absent", "queued", "sent", "quarantined", "expired"}]
    BY <1>1 DEF Status
  <1>3. Abstract!Resolve
    BY <1>2 DEF Abstract!Resolve, Abstract!Outcome
  <1>4. QED BY <1>3 DEF Abstract!Next

LEMMA StepRefines ==
    ASSUME ExclusiveLock, LeaseInv, LeaseInv', [Next]_vars
    PROVE  [Abstract!Next]_(Abstract!dsvars)
  <1>0. TypeOK /\ SendingOK /\ TypeOK'
    BY DEF LeaseInv
  <1>1. CASE \E k \in Id, op \in Operation, v \in Validity : Enqueue(k, op, v)
    <2>1. PICK k \in Id, op \in Operation, v \in Validity : Enqueue(k, op, v)
      BY <1>1
    <2>2. /\ outbox[k].state = "absent" /\ outbox'[k].state = "pending"
          /\ \A m \in Id : m # k => outbox'[m] = outbox[m]
      BY <1>0, <2>1 DEF Enqueue, NoRow, TypeOK
    <2>3. Status[k] = "absent" /\ Status' = [Status EXCEPT ![k] = "queued"]
      BY <2>2 DEF Status
    <2>4. Abstract!Submit(k)
      BY <2>1, <2>3 DEF Enqueue, Abstract!Submit
    <2>5. QED BY <2>4 DEF Abstract!Next
  <1>2. CASE \E w \in Worker, chosen \in SUBSET Id : LeaseBatch(w, chosen)
    <2>1. PICK w \in Worker, chosen \in SUBSET Id : LeaseBatch(w, chosen)
      BY <1>2
    <2>2. ASSUME NEW m \in Id
          PROVE  Status'[m] = Status[m] \/ (Status[m] = "queued" /\ Status'[m] = "expired")
      <3>1. outbox[m] \in Row /\ Swept(outbox[m]) \in Row
        BY <1>0, SweptType DEF TypeOK
      <3>2. \/ outbox'[m].state = outbox[m].state
            \/ /\ outbox[m].state \in {"pending", "leased"}
               /\ outbox'[m].state \in {"pending", "leased", "expired"}
        <4>1. CASE m \in chosen
          <5>1. Swept(outbox[m]).state = "pending"
            BY <2>1, <4>1 DEF LeaseBatch, OldestFirst, Due
          <5>2. outbox[m].state \in {"pending", "leased"}
            BY <3>1, <5>1, SweptFacts DEF Row
          <5>3. QED BY <2>1, <3>1, <4>1, <5>2 DEF LeaseBatch, Row
        <4>2. CASE m \notin chosen
          <5>1. outbox'[m] = Swept(outbox[m])
            BY <2>1, <4>2 DEF LeaseBatch
          <5>2. QED BY <3>1, <5>1, SweptFacts DEF Row
        <4>3. QED BY <4>1, <4>2
      <3>3. QED BY <3>2 DEF Status
    <2>3. UNCHANGED <<handed, accepted>>
      BY <2>1 DEF LeaseBatch
    <2>4. QED BY <1>0, <2>2, <2>3, ResolvingStep
  <1>3. CASE \E w \in Worker, m \in Id : BeginSend(w, m)
    <2>1. PICK w \in Worker, m \in Id : BeginSend(w, m)
      BY <1>3
    <2>2. handed'[m] # handed[m]
      BY <1>0, <2>1 DEF BeginSend, TypeOK
    <2>3. /\ outbox[m].state = "leased" /\ UNCHANGED <<outbox, accepted>>
          /\ handed' = [handed EXCEPT ![m] = @ + 1]
      BY <2>2, HandedWhileLeased
    <2>4. Abstract!HandOver(m)
      BY <2>3 DEF Status, Abstract!HandOver
    <2>5. QED BY <2>4 DEF Abstract!Next
  <1>4. CASE \E w \in Worker, m \in Id, row \in Row : Finishes(w, m, row)
    <2>1. PICK w \in Worker, m \in Id, row \in Row : Finishes(w, m, row)
      BY <1>4
    <2>2. row.state \in {"pending"} \cup Final
      BY <1>0, <2>1, OutcomesType DEF Finishes, TypeOK
    <2>3. /\ UNCHANGED <<handed, accepted>>
          /\ \A k \in Id : k # m => outbox'[k] = outbox[k]
          /\ outbox'[m] # outbox[m] => outbox[m].state = "leased" /\ outbox'[m] = row
      BY <1>0, <2>1, UpdateHeldFacts DEF Finishes, HoldsLease
    <2>4. \A k \in Id : \/ Status'[k] = Status[k]
                       \/ /\ Status[k] = "queued" /\ Status'[k] \in Final
                          /\ Status'[k] = "sent" => k \in accepted
      BY <2>1, <2>2, <2>3 DEF Finishes, Status
    <2>5. QED BY <1>0, <2>3, <2>4, ResolvingStep
  <1>5. CASE \E w \in Worker : BrokerAcknowledges(w)
    <2>1. PICK w \in Worker : BrokerAcknowledges(w)
      BY <1>5
    <2>2. worker[w].current \in Id /\ handed[worker[w].current] > 0
      BY <1>0, <2>1 DEF BrokerAcknowledges, SendingOK, TypeOK, Local
    <2>3. Abstract!Arrive(worker[w].current)
      BY <2>1, <2>2 DEF BrokerAcknowledges, Status, Abstract!Arrive
    <2>4. QED BY <2>2, <2>3 DEF Abstract!Next
  <1>6. CASE \E m \in Id : BrokerAcceptsUnseen(m)
    BY <1>6 DEF BrokerAcceptsUnseen, Status, Abstract!Arrive, Abstract!Next
  <1>7. CASE UNCHANGED <<outbox, handed, accepted>>
    BY <1>7 DEF Status, Abstract!dsvars
  <1>8. QED
    BY <1>0, <1>1, <1>2, <1>3, <1>4, <1>5, <1>6, <1>7, StepCases
       DEF Start, Crash, Tick, vars

(* Under the process lock the outbox implements the durable sender.        *)
THEOREM OutboxImplementsDurableSend ==
    ASSUME ExclusiveLock PROVE Spec => ImplementsDurableSend
  <1>1. LeaseInv /\ LeaseInv' /\ [Next]_vars => [Abstract!Next]_(Abstract!dsvars)
    BY StepRefines
  <1>2. QED
    BY <1>1, InitRefines, LeaseInvariant, PTL DEF Spec, ImplementsDurableSend, Abstract!Spec
=============================================================================
