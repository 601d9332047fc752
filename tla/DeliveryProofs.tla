-------------------------- MODULE DeliveryProofs ---------------------------
(* Theorems about Delivery, for every value of its constants.              *)
EXTENDS Delivery, TLAPS

-----------------------------------------------------------------------------
(* The inductive invariant.                                                *)

Carried ==
    \A c \in Copy : copies[c].state # "absent" => copies[c].env \in Envelope

(* What the receiver has in hand belongs to its session and is not         *)
(* completed; while it holds the lock nobody else settles it.              *)
Hands ==
    \A c \in receiver.batch :
        /\ copies[c].state \in {"active", "dead"}
        /\ SessionOf(c) = receiver.session
        /\ HoldsSession => copies[c].state = "active" /\ copies[c].taken

StoredIsHandled ==
    receiver.phase = "stored" =>
        \A c \in Copy : Handling(c) => inbox[IdOf(c)] = copies[c].env

QuarantinedAreStored == \A i \in quarantined : inbox[i] \in Envelope

DeliveryInv ==
    /\ TypeOK /\ Carried /\ Hands /\ StoredIsHandled /\ QuarantinedAreStored
    /\ CompletedIsStored /\ CollisionLeavesBoth

-----------------------------------------------------------------------------
(* Type correctness.                                                       *)

LEMMA BackType ==
    ASSUME NEW r \in CopyRecord
    PROVE  /\ Redelivered(r) \in CopyRecord /\ Released(r) \in CopyRecord
           /\ Redelivered(r).env = r.env /\ Released(r).env = r.env
           /\ Released(r).state = r.state
           /\ Redelivered(r).state \in {r.state, "dead"}
  <1>1. Released(r) \in CopyRecord /\ Released(r).env = r.env
            /\ Released(r).state = r.state
    BY DEF CopyRecord, Released
  <1> DEFINE Q(st, n) == [r EXCEPT !.taken = FALSE, !.count = n, !.state = st]
  <1>2. \A st \in {r.state, "dead"} : \A n \in Nat :
            Q(st, n) \in CopyRecord /\ Q(st, n).env = r.env /\ Q(st, n).state = st
    BY DEF CopyRecord
  <1>3. r.count + 1 \in Nat
    BY DEF CopyRecord
  <1>4. Redelivered(r) = Q("dead", r.count + 1) \/ Redelivered(r) = Q(r.state, r.count + 1)
    BY DEF Redelivered
  <1> HIDE DEF Q
  <1>5. QED BY <1>1, <1>2, <1>3, <1>4

LEMMA RecordUpdates ==
    ASSUME NEW r \in CopyRecord
    PROVE  /\ [r EXCEPT !.taken = TRUE] \in CopyRecord
           /\ [r EXCEPT !.overdue = TRUE] \in CopyRecord
           /\ \A s \in {"completed", "dead"} :
                  /\ [r EXCEPT !.state = s] \in CopyRecord
                  /\ [r EXCEPT !.state = s, !.taken = FALSE] \in CopyRecord
  BY DEF CopyRecord

LEMMA HandBackType ==
    ASSUME TypeOK, NEW s, NEW counts, HandBack(s, counts)
    PROVE  copies' \in [Copy -> CopyRecord]
  BY BackType DEF TypeOK, HandBack

LEMMA LoopType ==
    ASSUME TypeOK, NEW c \in Copy, NextMessage(c) \/ AbortCycle
    PROVE  receiver' \in Receiver
  BY DEF TypeOK, Receiver, NextMessage, AbortCycle

LEMMA SettleType ==
    ASSUME TypeOK, NEW c \in Copy, NEW s \in {"completed", "dead"},
           Settle(c, s) \/ UNCHANGED copies
    PROVE  copies' \in [Copy -> CopyRecord]
  <1>1. CASE UNCHANGED copies
    BY <1>1 DEF TypeOK
  <1>2. CASE Settle(c, s)
    <2>1. copies' = [copies EXCEPT ![c] = [@ EXCEPT !.state = s, !.taken = FALSE]]
      BY <1>2 DEF Settle
    <2>2. QED BY <2>1, RecordUpdates DEF TypeOK
  <1>3. QED BY <1>1, <1>2

LEMMA TypeStep == TypeOK /\ Carried /\ Hands /\ [Next]_vars => TypeOK'
  <1> SUFFICES ASSUME TypeOK, Carried, Hands, [Next]_vars PROVE TypeOK'
    OBVIOUS
  <1>1. ASSUME NEW s \in Session, AcceptSession(s) PROVE TypeOK'
    BY <1>1 DEF TypeOK, AcceptSession, Receiver, Idle
  <1>2. ASSUME NEW chosen \in SUBSET Copy, ReceiveMessages(chosen) PROVE TypeOK'
    <2>1. copies' \in [Copy -> CopyRecord]
      BY <1>2, RecordUpdates DEF TypeOK, ReceiveMessages
    <2>2. receiver' \in Receiver
      BY <1>2 DEF TypeOK, ReceiveMessages, Receiver
    <2>3. QED BY <1>2, <2>1, <2>2 DEF TypeOK, ReceiveMessages
  <1>3. ASSUME NEW c \in Copy, RejectUnverified(c) \/ DeadLetterCollision(c)
        PROVE  TypeOK'
    BY <1>3, LoopType, SettleType
       DEF TypeOK, RejectUnverified, DeadLetterCollision, DeadLetter
  <1>4. ASSUME NEW c \in Copy, Complete(c) PROVE TypeOK'
    BY <1>4, LoopType, SettleType DEF TypeOK, Complete
  <1>5. ASSUME NEW c \in Copy, PersistFails(c) PROVE TypeOK'
    <2>1. copies' \in [Copy -> CopyRecord]
      BY <1>5, BackType DEF TypeOK, PersistFails
    <2>2. QED BY <1>5, <2>1, LoopType DEF TypeOK, PersistFails
  <1>6. ASSUME NEW c \in Copy, Persist(c) PROVE TypeOK'
    <2>1. receiver' \in Receiver
      BY <1>6 DEF TypeOK, Persist, Receiver
    <2>2. copies[c].env \in Envelope \cup {None}
      BY DEF TypeOK, CopyRecord
    <2>3. inbox' \in [Id -> Envelope \cup {None}]
      BY <1>6, <2>2 DEF TypeOK, Persist
    <2>4. IdOf(c) \in Id
      BY <1>6, DeliveryAssumption DEF Persist, Handling, Hands, Carried, IdOf
    <2>5. quarantined' \subseteq Id
      BY <1>6, <2>4 DEF TypeOK, Persist
    <2>6. QED BY <1>6, <2>1, <2>3, <2>5 DEF TypeOK, Persist
  <1>7. CASE CloseReceiver
    BY <1>7, HandBackType DEF TypeOK, CloseReceiver, Receiver, Idle
  <1>8. CASE CloseFails
    BY <1>8 DEF TypeOK, CloseFails, Receiver, Idle
  <1>9. ASSUME NEW c \in Copy, NEW e \in Envelope, Arrive(c, e) PROVE TypeOK'
    <2>1. [NoCopy EXCEPT !.state = "active", !.env = e] \in CopyRecord
      BY DEF NoCopy, CopyRecord
    <2>2. QED BY <1>9, <2>1 DEF TypeOK, Arrive
  <1>10. ASSUME NEW c \in Copy, Lapse(c) \/ Expire(c) PROVE TypeOK'
    <2>1. copies[c] \in CopyRecord
      BY DEF TypeOK
    <2>2. CASE Lapse(c)
      <3>1. copies' = [copies EXCEPT ![c] = [copies[c] EXCEPT !.overdue = TRUE]]
        BY <2>2 DEF Lapse
      <3>2. QED BY <2>1, <2>2, <3>1, RecordUpdates DEF TypeOK, Lapse
    <2>3. CASE Expire(c)
      BY <2>1, <2>3, RecordUpdates DEF TypeOK, Expire
    <2>4. QED BY <1>10, <2>2, <2>3
  <1>11. ASSUME NEW s \in Session, LockLapses(s) PROVE TypeOK'
    <2>1. copies' \in [Copy -> CopyRecord]
      BY <1>11, HandBackType DEF LockLapses
    <2>2. faults' \in Nat
      BY <1>11 DEF TypeOK, LockLapses
    <2>3. QED BY <1>11, <2>1, <2>2 DEF TypeOK, LockLapses
  <1>12. CASE Crash
    BY <1>12 DEF TypeOK, Crash, Receiver, Idle
  <1>13. CASE UNCHANGED vars
    BY <1>13 DEF TypeOK, vars
  <1>14. QED
    BY <1>1, <1>2, <1>3, <1>4, <1>5, <1>6, <1>7, <1>8, <1>9, <1>10, <1>11, <1>12, <1>13
       DEF Next, ReceiverStep, BrokerStep, HandleMessage

-----------------------------------------------------------------------------
(* What one step may do to the copies and to the inbox.                    *)

Quiet(c) ==
    /\ copies'[c].env = copies[c].env
    /\ \/ copies'[c].state = copies[c].state
       \/ copies[c].state = "active" /\ copies'[c].state = "dead"

Arrives(c) ==
    /\ copies[c].state = "absent" /\ copies'[c].state = "active"
    /\ copies'[c].env \in Envelope

Finishes(c) ==
    /\ copies[c].state = "active" /\ copies'[c].state = "completed"
    /\ copies'[c].env = copies[c].env /\ inbox[IdOf(c)] = copies[c].env

AloneArrives(c)  == Arrives(c) /\ \A k \in Copy \ {c} : copies'[k] = copies[k]
AloneFinishes(c) == Finishes(c) /\ \A k \in Copy \ {c} : copies'[k] = copies[k]

CopiesEffect ==
    \/ \A c \in Copy : Quiet(c)
    \/ \E c \in Copy : AloneArrives(c) \/ AloneFinishes(c)

(* A copy that waits in the subscription or is dead-lettered, with another *)
(* content than the row of its identifier.                                 *)
Witness(c, i) ==
    /\ copies[c].state \in {"active", "dead"}
    /\ IdOf(c) = i /\ copies[c].env # inbox[i] /\ inbox[i] \in Envelope
    /\ Profile[copies[c].env].origin = Profile[inbox[i]].origin

Effect ==
    /\ CopiesEffect
    /\ \A i \in Id : inbox[i] # None => inbox'[i] = inbox[i]
    /\ \A i \in quarantined' \ quarantined : \E c \in Copy : Witness(c, i)

LEMMA HandBackEffect ==
    ASSUME TypeOK, NEW s, NEW counts, HandBack(s, counts), NEW c \in Copy
    PROVE  Quiet(c)
  <1>1. copies[c] \in CopyRecord
    BY DEF TypeOK
  <1>2. CASE c \notin Pending(s) \/ ~copies[c].taken
    BY <1>2 DEF HandBack, Quiet
  <1>3. CASE c \in Pending(s) /\ copies[c].taken
    <2>1. copies'[c] = Redelivered(copies[c]) \/ copies'[c] = Released(copies[c])
      BY <1>3 DEF HandBack
    <2>2. QED BY <1>1, <1>3, <2>1, BackType DEF Quiet, Pending
  <1>4. QED BY <1>2, <1>3

(* A settlement settles the copy in hand, which the lock keeps active.     *)
LEMMA SettleEffect ==
    ASSUME DeliveryInv, NEW c \in Copy, Handling(c), NEW s \in {"completed", "dead"},
           Settle(c, s)
    PROVE  /\ copies[c].state = "active" /\ copies'[c].state = s
           /\ copies'[c].env = copies[c].env
           /\ \A k \in Copy \ {c} : copies'[k] = copies[k]
  <1>1. copies[c] \in CopyRecord
    BY DEF DeliveryInv, TypeOK
  <1>2. copies[c].state = "active"
    BY DEF DeliveryInv, Hands, Handling, Settle
  <1>3. QED BY <1>1, <1>2 DEF Settle, DeliveryInv, TypeOK, CopyRecord

LEMMA StepCopies == DeliveryInv /\ [Next]_vars => CopiesEffect
  <1> SUFFICES ASSUME DeliveryInv, [Next]_vars PROVE CopiesEffect
    OBVIOUS
  <1>a. \A c \in Copy : copies[c] \in CopyRecord
    BY DEF DeliveryInv, TypeOK
  <1>b. UNCHANGED copies => CopiesEffect
    BY DEF Quiet, CopiesEffect
  <1>1. ASSUME NEW chosen \in SUBSET Copy, ReceiveMessages(chosen) PROVE CopiesEffect
    BY <1>1, <1>a DEF ReceiveMessages, CopyRecord, Quiet, CopiesEffect
  <1>2. ASSUME NEW c \in Copy, RejectUnverified(c) \/ DeadLetterCollision(c)
        PROVE  CopiesEffect
    <2>1. Handling(c) /\ (Settle(c, "dead") \/ UNCHANGED copies)
      BY <1>2 DEF RejectUnverified, DeadLetterCollision, DeadLetter
    <2>2. QED BY <2>1, <1>b, SettleEffect DEF Quiet, CopiesEffect
  <1>3. ASSUME NEW c \in Copy, Complete(c) PROVE CopiesEffect
    <2>1. Handling(c) /\ inbox[IdOf(c)] = copies[c].env
              /\ (Settle(c, "completed") \/ UNCHANGED copies)
      BY <1>3 DEF Complete, DeliveryInv, StoredIsHandled
    <2>2. QED BY <2>1, <1>b, SettleEffect DEF Finishes, AloneFinishes, CopiesEffect
  <1>4. ASSUME NEW c \in Copy, PersistFails(c) PROVE CopiesEffect
    <2>1. CASE UNCHANGED copies
      BY <2>1, <1>b
    <2>2. CASE HoldsSession /\ copies' = [copies EXCEPT ![c] = Redelivered(@)]
      <3>1. copies[c].state = "active"
        BY <1>4, <2>2 DEF PersistFails, Handling, DeliveryInv, Hands
      <3>2. copies'[c] = Redelivered(copies[c]) /\ \A k \in Copy \ {c} : copies'[k] = copies[k]
        BY <2>2 DEF DeliveryInv, TypeOK
      <3>3. Quiet(c)
        BY <3>1, <3>2, <1>a, BackType DEF Quiet
      <3>4. QED BY <3>2, <3>3 DEF Quiet, CopiesEffect
    <2>3. QED BY <1>4, <2>1, <2>2 DEF PersistFails
  <1>5. CASE CloseReceiver
    BY <1>5, HandBackEffect DEF CloseReceiver, DeliveryInv, CopiesEffect
  <1>6. ASSUME NEW c \in Copy, NEW e \in Envelope, Arrive(c, e) PROVE CopiesEffect
    <2>1. AloneArrives(c)
      BY <1>6 DEF Arrive, NoCopy, AloneArrives, Arrives, DeliveryInv, TypeOK
    <2>2. QED BY <2>1 DEF CopiesEffect
  <1>7. ASSUME NEW c \in Copy, Lapse(c) PROVE CopiesEffect
    BY <1>7, <1>a DEF Lapse, CopyRecord, DeliveryInv, TypeOK, Quiet, CopiesEffect
  <1>8. ASSUME NEW c \in Copy, Expire(c) PROVE CopiesEffect
    BY <1>8, <1>a DEF Expire, CopyRecord, DeliveryInv, TypeOK, Quiet, CopiesEffect
  <1>9. ASSUME NEW s \in Session, LockLapses(s) PROVE CopiesEffect
    BY <1>9, HandBackEffect DEF LockLapses, DeliveryInv, CopiesEffect
  <1>10. CASE \/ UNCHANGED vars \/ Crash \/ CloseFails
              \/ \E s \in Session : AcceptSession(s)
              \/ \E c \in Copy : Persist(c)
    BY <1>10, <1>b DEF vars, Crash, CloseFails, AcceptSession, Persist
  <1>11. QED
    BY <1>1, <1>2, <1>3, <1>4, <1>5, <1>6, <1>7, <1>8, <1>9, <1>10
       DEF Next, ReceiverStep, BrokerStep, HandleMessage

LEMMA RowsOutsidePersist ==
    ASSUME [Next]_vars, ~\E c \in Copy : Persist(c)
    PROVE  UNCHANGED <<inbox, quarantined>>
  BY DEF vars, Next, ReceiverStep, BrokerStep, HandleMessage, AcceptSession,
         ReceiveMessages, RejectUnverified, PersistFails, Complete, DeadLetterCollision,
         DeadLetter, CloseReceiver, CloseFails, Crash, Arrive, Lapse, Expire, LockLapses

LEMMA StepEffect == DeliveryInv /\ [Next]_vars => Effect
  <1> SUFFICES ASSUME DeliveryInv, [Next]_vars PROVE Effect
    OBVIOUS
  <1>1. ASSUME NEW c \in Copy, Persist(c)
        PROVE  /\ \A i \in Id : inbox[i] # None => inbox'[i] = inbox[i]
               /\ \A i \in quarantined' \ quarantined : Witness(c, i)
    <2>1. c \in receiver.batch /\ copies[c].state \in {"active", "dead"}
      BY <1>1 DEF Persist, Handling, DeliveryInv, Hands
    <2>2. IdOf(c) \in Id
      BY <2>1, DeliveryAssumption DEF DeliveryInv, Carried, IdOf
    <2>3. QED BY <1>1, <2>1, <2>2 DEF Persist, Witness, DeliveryInv, TypeOK
  <1>2. QED BY <1>1, StepCopies, RowsOutsidePersist DEF Effect

(* What the effect says of one copy.                                       *)
CopyEffect(c) ==
    /\ copies[c].state # "absent" =>
           copies'[c].env = copies[c].env /\ copies'[c].state # "absent"
    /\ copies[c].state = "absent" /\ copies'[c].state # "absent" =>
           copies'[c].env \in Envelope
    /\ copies'[c].state = "completed" =>
           \/ copies[c].state = "completed"
           \/ copies[c].state = "active" /\ inbox[IdOf(c)] = copies[c].env

LEMMA EffectOnCopy ==
    ASSUME Effect, NEW c \in Copy
    PROVE  CopyEffect(c)
  <1>1. CASE Quiet(c)
    BY <1>1 DEF Quiet, CopyEffect
  <1>2. CASE Arrives(c)
    BY <1>2 DEF Arrives, CopyEffect
  <1>3. CASE Finishes(c)
    BY <1>3 DEF Finishes, CopyEffect
  <1>4. CASE copies'[c] = copies[c]
    BY <1>4 DEF CopyEffect
  <1>5. QED
    BY <1>1, <1>2, <1>3, <1>4 DEF Effect, CopiesEffect, AloneArrives, AloneFinishes

-----------------------------------------------------------------------------
(* The parts of the invariant that follow from the effect of a step.       *)

LEMMA CopiesPreserved ==
    ASSUME DeliveryInv, Effect
    PROVE  /\ Carried' /\ CompletedIsStored'
           /\ \A c \in Copy : copies[c].state # "absent" => IdOf(c)' = IdOf(c) /\ IdOf(c) \in Id
  <1>1. Carried'
    BY EffectOnCopy DEF Carried, CopyEffect, DeliveryInv
  <1>2. \A c \in Copy : copies[c].state # "absent" => IdOf(c)' = IdOf(c) /\ IdOf(c) \in Id
    BY DeliveryAssumption, EffectOnCopy DEF IdOf, CopyEffect, DeliveryInv, Carried
  <1>3. ASSUME NEW c \in Copy, copies'[c].state = "completed"
        PROVE  inbox'[IdOf(c)'] = copies'[c].env
    <2>1. copies[c].state # "absent" /\ inbox[IdOf(c)] = copies[c].env
      BY <1>3, EffectOnCopy DEF CopyEffect, DeliveryInv, CompletedIsStored
    <2>2. copies[c].env # None /\ copies'[c].env = copies[c].env
      BY <2>1, DeliveryAssumption, EffectOnCopy DEF CopyEffect, DeliveryInv, Carried
    <2>3. QED BY <1>2, <2>1, <2>2 DEF Effect
  <1>4. QED BY <1>1, <1>2, <1>3 DEF CompletedIsStored

LEMMA ConflictsPreserved ==
    ASSUME DeliveryInv, TypeOK', Effect
    PROVE  QuarantinedAreStored' /\ CollisionLeavesBoth'
  <1>1. ASSUME NEW i \in quarantined' PROVE i \in Id /\ \E c \in Copy : Witness(c, i)
    <2>1. CASE i \in quarantined
      BY <2>1 DEF DeliveryInv, CollisionLeavesBoth, QuarantinedAreStored, TypeOK, Witness
    <2>2. CASE i \notin quarantined
      BY <1>1, <2>2 DEF Effect, TypeOK
    <2>3. QED BY <2>1, <2>2
  <1>2. ASSUME NEW i \in Id, NEW c \in Copy, Witness(c, i)
        PROVE  Witness(c, i)'
    <2>1. inbox'[i] = inbox[i]
      BY <1>2, DeliveryAssumption DEF Witness, Effect
    <2>2. copies'[c].env = copies[c].env /\ IdOf(c)' = i
      BY <1>2, CopiesPreserved, EffectOnCopy DEF Witness, CopyEffect
    <2>3. copies'[c].state \in {"active", "dead"}
      <3>1. copies'[c].state \notin {"absent", "completed"}
        BY <1>2, EffectOnCopy DEF Witness, CopyEffect
      <3>2. copies'[c] \in CopyRecord
        BY DEF TypeOK
      <3>3. QED BY <3>1, <3>2 DEF CopyRecord
    <2>4. QED BY <1>2, <2>1, <2>2, <2>3 DEF Witness
  <1>3. ASSUME NEW i \in quarantined' PROVE \E c \in Copy : Witness(c, i)'
    BY <1>1, <1>2, <1>3
  <1>4. QED
    BY <1>3 DEF QuarantinedAreStored, CollisionLeavesBoth, Witness

(* What is in hand stays so while the receiver is somewhere else.          *)
LEMMA HandsKept ==
    ASSUME DeliveryInv, TypeOK', Effect, receiver' = receiver,
           \A c \in receiver.batch : copies'[c].state \in {copies[c].state, "dead"},
           \A c \in receiver.batch :
               HoldsSession' => HoldsSession /\ copies'[c].taken = copies[c].taken
                                    /\ copies'[c].state = copies[c].state
    PROVE  Hands'
  <1> SUFFICES ASSUME NEW c \in receiver.batch
               PROVE  /\ copies'[c].state \in {"active", "dead"}
                      /\ SessionOf(c)' = receiver.session
                      /\ HoldsSession' => copies'[c].state = "active" /\ copies'[c].taken
    BY DEF Hands
  <1>1. c \in Copy /\ copies[c].state \in {"active", "dead"}
    BY DEF DeliveryInv, TypeOK, Receiver, Hands
  <1>2. copies'[c].env = copies[c].env /\ copies'[c].state # "absent"
    BY <1>1, EffectOnCopy DEF CopyEffect
  <1>3. SessionOf(c)' = SessionOf(c) /\ SessionOf(c) = receiver.session
    BY <1>2 DEF SessionOf, DeliveryInv, Hands
  <1>4. HoldsSession' => copies'[c].state = "active" /\ copies'[c].taken
    BY DEF DeliveryInv, Hands
  <1>5. QED BY <1>1, <1>2, <1>3, <1>4

LEMMA StoredKept ==
    ASSUME DeliveryInv, Effect, receiver' = receiver, inbox' = inbox
    PROVE  StoredIsHandled'
  <1> SUFFICES ASSUME receiver.phase = "stored", NEW c \in Copy, Handling(c)
               PROVE  inbox[IdOf(c)'] = copies'[c].env
    BY DEF StoredIsHandled, Handling
  <1>1. copies[c].state # "absent" /\ inbox[IdOf(c)] = copies[c].env
    BY DEF DeliveryInv, Hands, Handling, StoredIsHandled
  <1>2. QED BY <1>1, CopiesPreserved, EffectOnCopy DEF CopyEffect

(* After NextMessage or AbortCycle the rest of the batch is untouched.     *)
LEMMA LoopGoesOn ==
    ASSUME DeliveryInv, NEW c \in Copy, NextMessage(c) \/ AbortCycle,
           locked' = locked, \A k \in Copy \ {c} : copies'[k] = copies[k]
    PROVE  Hands' /\ StoredIsHandled'
  <1>1. receiver'.phase = "batch" /\ receiver'.session = receiver.session
            /\ receiver'.batch \subseteq receiver.batch \ {c}
    BY DEF NextMessage, AbortCycle, DeliveryInv, TypeOK, Receiver
  <1>2. receiver.batch \subseteq Copy /\ HoldsSession' = HoldsSession
    BY <1>1 DEF DeliveryInv, TypeOK, Receiver, HoldsSession
  <1>3. ASSUME NEW k \in receiver'.batch
        PROVE  k \in receiver.batch /\ copies'[k] = copies[k] /\ SessionOf(k)' = SessionOf(k)
    BY <1>1, <1>2 DEF SessionOf
  <1>4. QED BY <1>1, <1>2, <1>3 DEF Hands, StoredIsHandled, DeliveryInv

(* Nothing in hand.                                                        *)
LEMMA EmptyHands ==
    ASSUME receiver'.batch = {}, receiver'.phase # "stored"
    PROVE  Hands' /\ StoredIsHandled'
  BY DEF Hands, StoredIsHandled

LEMMA OtherCopies ==
    ASSUME DeliveryInv, NEW c \in Copy, NEW s,
           Settle(c, s) \/ UNCHANGED copies
    PROVE  \A k \in Copy \ {c} : copies'[k] = copies[k]
  BY DEF DeliveryInv, TypeOK, Settle

LEMMA HandsStep == DeliveryInv /\ [Next]_vars => Hands' /\ StoredIsHandled'
  <1> SUFFICES ASSUME DeliveryInv, [Next]_vars PROVE Hands' /\ StoredIsHandled'
    OBVIOUS
  <1>t. TypeOK' /\ Effect
    BY TypeStep, StepEffect DEF DeliveryInv
  <1>b. receiver.batch \subseteq Copy /\ receiver \in Receiver
            /\ \A c \in Copy : copies[c] \in CopyRecord
    BY DEF DeliveryInv, TypeOK, Receiver
  <1>k. ASSUME UNCHANGED <<copies, receiver, inbox>>, locked' \subseteq locked
        PROVE  Hands' /\ StoredIsHandled'
    <2>1. HoldsSession' => HoldsSession
      BY <1>k DEF HoldsSession
    <2>2. QED BY <1>t, <1>k, <2>1, HandsKept, StoredKept
  <1>1. ASSUME NEW s \in Session, AcceptSession(s) PROVE Hands' /\ StoredIsHandled'
    BY <1>1, EmptyHands DEF AcceptSession, Idle
  <1>2. ASSUME NEW chosen \in SUBSET Copy, ReceiveMessages(chosen)
        PROVE  Hands' /\ StoredIsHandled'
    <2>1. receiver'.phase = "batch" /\ receiver'.batch = chosen
              /\ receiver'.session = receiver.session
      BY <1>2, <1>b DEF ReceiveMessages, Receiver
    <2>2. ASSUME NEW c \in chosen
          PROVE  copies[c].state = "active" /\ SessionOf(c) = receiver.session
      BY <1>2 DEF ReceiveMessages, FirstOnes, Pending
    <2>3. ASSUME NEW c \in chosen
          PROVE  /\ copies'[c].state = copies[c].state /\ copies'[c].env = copies[c].env
                 /\ copies'[c].taken
      BY <1>2, <1>b DEF ReceiveMessages, CopyRecord
    <2>4. QED BY <2>1, <2>2, <2>3 DEF Hands, StoredIsHandled, SessionOf
  <1>3. ASSUME NEW c \in Copy, RejectUnverified(c) \/ DeadLetterCollision(c)
        PROVE  Hands' /\ StoredIsHandled'
    <2>1. DeadLetter(c)
      BY <1>3 DEF RejectUnverified, DeadLetterCollision
    <2>2. QED BY <2>1, OtherCopies, LoopGoesOn DEF DeadLetter
  <1>4. ASSUME NEW c \in Copy, Complete(c) PROVE Hands' /\ StoredIsHandled'
    BY <1>4, OtherCopies, LoopGoesOn DEF Complete
  <1>5. ASSUME NEW c \in Copy, PersistFails(c) PROVE Hands' /\ StoredIsHandled'
    <2>1. \A k \in Copy \ {c} : copies'[k] = copies[k]
      BY <1>5 DEF PersistFails, DeliveryInv, TypeOK
    <2>2. QED BY <1>5, <2>1, LoopGoesOn DEF PersistFails
  <1>6. ASSUME NEW c \in Copy, Persist(c) PROVE Hands' /\ StoredIsHandled'
    <2>1. UNCHANGED <<copies, locked>> /\ receiver'.batch = receiver.batch
              /\ receiver'.session = receiver.session
      BY <1>6, <1>b DEF Persist, Receiver
    <2>2. Hands'
      BY <2>1 DEF Hands, DeliveryInv, HoldsSession, SessionOf
    <2>3. ASSUME receiver'.phase = "stored", NEW k \in Copy, Handling(k)'
          PROVE  inbox'[IdOf(k)] = copies[k].env
      <3>1. k = c
        BY <1>6, <2>1, <2>3, DeliveryAssumption DEF Persist, Handling
      <3>2. IdOf(c) \in Id
        BY <1>6, DeliveryAssumption DEF Persist, Handling, DeliveryInv, Hands, Carried, IdOf
      <3>3. inbox' = [inbox EXCEPT ![IdOf(c)] = copies[c].env]
        BY <1>6, <1>b, <2>3 DEF Persist, Receiver
      <3>4. QED BY <3>1, <3>2, <3>3 DEF DeliveryInv, TypeOK
    <2>4. StoredIsHandled'
      BY <2>1, <2>3 DEF StoredIsHandled, IdOf
    <2>5. QED BY <2>2, <2>4
  <1>7. CASE CloseReceiver \/ CloseFails \/ Crash
    <2>1. receiver' = Idle \/ receiver' = [Idle EXCEPT !.phase = "refusing"]
      BY <1>7 DEF CloseReceiver, CloseFails, Crash
    <2>2. receiver'.batch = {} /\ receiver'.phase # "stored"
      BY <2>1 DEF Idle
    <2>3. QED BY <2>2, EmptyHands
  <1>8. ASSUME NEW c \in Copy, NEW e \in Envelope, Arrive(c, e)
        PROVE  Hands' /\ StoredIsHandled'
    <2>1. \A k \in receiver.batch : copies'[k] = copies[k]
      BY <1>8, <1>b DEF Arrive, DeliveryInv, Hands, TypeOK
    <2>2. UNCHANGED <<receiver, inbox, locked>>
      BY <1>8 DEF Arrive
    <2>3. QED BY <1>t, <2>1, <2>2, HandsKept, StoredKept DEF HoldsSession
  <1>9. ASSUME NEW c \in Copy, Lapse(c) PROVE Hands' /\ StoredIsHandled'
    <2>1. \A k \in Copy : copies'[k].state = copies[k].state /\ copies'[k].taken = copies[k].taken
      BY <1>9, <1>b DEF Lapse, CopyRecord, DeliveryInv, TypeOK
    <2>2. UNCHANGED <<receiver, inbox, locked>>
      BY <1>9 DEF Lapse
    <2>3. QED BY <1>t, <1>b, <2>1, <2>2, HandsKept, StoredKept DEF HoldsSession
  <1>10. ASSUME NEW c \in Copy, Expire(c) PROVE Hands' /\ StoredIsHandled'
    <2>1. ~copies[c].taken /\ UNCHANGED <<receiver, inbox, locked>>
      BY <1>10 DEF Expire
    <2>2. \A k \in Copy : k = c \/ copies'[k] = copies[k]
      BY <1>10 DEF Expire, DeliveryInv, TypeOK
    <2>3. copies'[c].state = "dead"
      BY <1>10, <1>b DEF Expire, DeliveryInv, TypeOK, CopyRecord
    <2>4. HoldsSession => c \notin receiver.batch
      BY <2>1 DEF DeliveryInv, Hands
    <2>5. QED BY <1>t, <1>b, <2>1, <2>2, <2>3, <2>4, HandsKept, StoredKept DEF HoldsSession
  <1>11. ASSUME NEW s \in Session, LockLapses(s) PROVE Hands' /\ StoredIsHandled'
    <2>1. UNCHANGED <<receiver, inbox>> /\ locked' = locked \ {s}
      BY <1>11 DEF LockLapses
    <2>2. HoldsSession' => HoldsSession /\ s # receiver.session
      BY <2>1 DEF HoldsSession
    <2>3. ASSUME NEW c \in receiver.batch, s # receiver.session
          PROVE  copies'[c] = copies[c]
      <3>1. SessionOf(c) # s
        BY <2>3 DEF DeliveryInv, Hands
      <3>2. QED BY <1>11, <1>b, <3>1 DEF LockLapses, HandBack, Pending
    <2>4. ASSUME NEW c \in receiver.batch
          PROVE  copies'[c].state \in {copies[c].state, "dead"}
      <3>1. \/ copies'[c] = copies[c] \/ copies'[c] = Redelivered(copies[c])
        BY <1>11, <1>b DEF LockLapses, HandBack
      <3>2. QED BY <1>b, <3>1, BackType
    <2>5. QED BY <1>t, <2>1, <2>2, <2>3, <2>4, HandsKept, StoredKept
  <1>12. CASE UNCHANGED vars
    BY <1>12, <1>k DEF vars
  <1>13. QED
    BY <1>1, <1>2, <1>3, <1>4, <1>5, <1>6, <1>7, <1>8, <1>9, <1>10, <1>11, <1>12
       DEF Next, ReceiverStep, BrokerStep, HandleMessage

LEMMA DeliveryInvHolds == Spec => []DeliveryInv
  <1>1. Init => DeliveryInv
    <2>1. Init => TypeOK
      BY DEF Init, TypeOK, NoCopy, CopyRecord, Receiver, Idle
    <2>2. QED
      BY <2>1 DEF Init, DeliveryInv, Carried, Hands, StoredIsHandled, QuarantinedAreStored,
                  CompletedIsStored, CollisionLeavesBoth, NoCopy, Idle
  <1>2. DeliveryInv /\ [Next]_vars => DeliveryInv'
    <2> SUFFICES ASSUME DeliveryInv, [Next]_vars PROVE DeliveryInv'
      OBVIOUS
    <2>1. TypeOK' /\ Effect
      BY TypeStep, StepEffect DEF DeliveryInv
    <2>2. QED
      BY <2>1, HandsStep, CopiesPreserved, ConflictsPreserved DEF DeliveryInv
  <1>3. QED BY <1>1, <1>2, PTL DEF Spec

-----------------------------------------------------------------------------
(* Every variable holds a value of its kind: in particular a batch holds   *)
(* copies of this subscription, and a row the envelope of a peer.          *)
THEOREM DeliveryTypeCorrect == Spec => []TypeOK
  <1>1. DeliveryInv => TypeOK
    BY DEF DeliveryInv
  <1>2. QED BY <1>1, DeliveryInvHolds, PTL

(* Persist before complete: whatever locks, answers and processes are lost *)
(* on the way, a completed copy has its very message in the inbox.         *)
THEOREM CompletedCopiesAreStored == Spec => []CompletedIsStored
  <1>1. DeliveryInv => CompletedIsStored
    BY DEF DeliveryInv
  <1>2. QED BY <1>1, DeliveryInvHolds, PTL

(* A quarantined row never loses its counterpart to a completion.          *)
THEOREM CollisionsLeaveBoth == Spec => []CollisionLeavesBoth
  <1>1. DeliveryInv => CollisionLeavesBoth
    BY DEF DeliveryInv
  <1>2. QED BY <1>1, DeliveryInvHolds, PTL

-----------------------------------------------------------------------------
(* Refinement.                                                             *)

LEMMA StatusOf ==
    ASSUME TypeOK, NEW c \in Copy
    PROVE  /\ Status[c] = "absent" <=> copies[c].state = "absent"
           /\ Status[c] = "waiting" <=> copies[c].state = "active"
           /\ Status[c] = "finished" <=> copies[c].state = "completed"
           /\ Status[c] = "refused" <=> copies[c].state = "dead"
  <1>1. copies[c].state \in {"absent", "active", "completed", "dead"}
    BY DEF TypeOK, CopyRecord
  <1>2. QED BY <1>1 DEF Status, StatusName

LEMMA StatusAfter ==
    /\ Status' = [c \in Copy |-> StatusName[copies'[c].state]]
    /\ \A c \in Copy : Status'[c] = StatusName[copies'[c].state]
  BY DEF Status

LEMMA StatusStays ==
    ASSUME TypeOK, TypeOK', NEW c \in Copy, copies'[c].state = copies[c].state
    PROVE  Status'[c] = Status[c]
  BY StatusAfter DEF Status

(* Several copies at once may be dead-lettered, or nothing visible changes.*)
LEMMA QuietImplements ==
    ASSUME TypeOK, TypeOK', \A c \in Copy : Quiet(c), inbox' = inbox
    PROVE  Abstract!Next
  <1> DEFINE C == {c \in Copy : copies[c].state = "active" /\ copies'[c].state = "dead"}
  <1>1. Content' = Content
    BY DEF Content, Quiet
  <1>2. \A c \in C : Status[c] = "waiting"
    BY StatusOf
  <1>3. ASSUME NEW c \in Copy
        PROVE  Status'[c] = IF c \in C THEN "refused" ELSE Status[c]
    BY StatusStays, StatusAfter DEF Quiet, StatusName
  <1>4. Status' = [c \in Copy |-> IF c \in C THEN "refused" ELSE Status[c]]
    BY <1>3, StatusAfter DEF Status
  <1>5. Abstract!Refuse(C)
    BY <1>1, <1>2, <1>4 DEF Abstract!Refuse
  <1>6. C \in SUBSET Copy
    OBVIOUS
  <1>7. QED BY <1>5, <1>6 DEF Abstract!Next

LEMMA StepImplements ==
    ASSUME DeliveryInv, DeliveryInv', [Next]_vars
    PROVE  [Abstract!Next]_(Abstract!alovars)
  <1> USE DEF DeliveryInv
  <1>1. CASE \E c \in Copy : Persist(c)
    <2>1. PICK c \in Copy : Persist(c)
      BY <1>1
    <2>2. copies' = copies /\ Status' = Status /\ Content' = Content
      BY <2>1 DEF Persist, Status, Content
    <2>3. c \in receiver.batch /\ copies[c].state # "absent" /\ copies[c].env \in Envelope
      BY <2>1 DEF Persist, Handling, Hands, Carried
    <2>4. Status[c] # "absent" /\ Content[c] = copies[c].env
      BY <2>3, StatusOf DEF Content
    <2>5. [e \in Envelope |-> Profile[e].id][Content[c]] = IdOf(c) /\ IdOf(c) \in Id
      BY <2>3, <2>4, DeliveryAssumption DEF IdOf
    <2>6. CASE inbox[IdOf(c)] = None
      <3>1. inbox' = [inbox EXCEPT ![IdOf(c)] = Content[c]]
        BY <2>1, <2>4, <2>6 DEF Persist
      <3>2. Abstract!Store(c)
        BY <2>2, <2>4, <2>5, <2>6, <3>1 DEF Abstract!Store
      <3>3. QED BY <3>2 DEF Abstract!Next
    <2>7. CASE inbox[IdOf(c)] # None
      <3>1. inbox' = inbox
        BY <2>1, <2>5, <2>7 DEF Persist, TypeOK
      <3>2. QED BY <2>2, <3>1 DEF Abstract!alovars
    <2>8. QED BY <2>6, <2>7
  <1>2. CASE ~\E c \in Copy : Persist(c)
    <2>1. inbox' = inbox
      BY <1>2, RowsOutsidePersist
    <2>2. CASE \A c \in Copy : Quiet(c)
      BY <2>1, <2>2, QuietImplements
    <2>3. ASSUME NEW c \in Copy, AloneFinishes(c)
          PROVE  Abstract!Next
      <3>1. Content' = Content
        BY <2>3 DEF Content, AloneFinishes, Finishes
      <3>2. copies[c].env \in Envelope
        BY <2>3 DEF AloneFinishes, Finishes, Carried
      <3>3. inbox[[e \in Envelope |-> Profile[e].id][Content[c]]] = Content[c]
        BY <2>3, <3>2 DEF AloneFinishes, Finishes, Content, IdOf
      <3>4. Status[c] = "waiting"
        BY <2>3, StatusOf DEF AloneFinishes, Finishes
      <3>5. Status'[c] = "finished"
        BY <2>3, StatusAfter DEF AloneFinishes, Finishes, StatusName
      <3>6. \A k \in Copy \ {c} : Status'[k] = Status[k]
        BY <2>3, StatusStays DEF AloneFinishes
      <3>7. Status' = [Status EXCEPT ![c] = "finished"]
        BY <3>5, <3>6, StatusAfter DEF Status
      <3>8. Abstract!Finish(c)
        BY <2>1, <3>1, <3>3, <3>4, <3>7 DEF Abstract!Finish
      <3>9. QED BY <3>8 DEF Abstract!Next
    <2>4. ASSUME NEW c \in Copy, AloneArrives(c)
          PROVE  Abstract!Next
      <3>1. PICK e \in Envelope : copies'[c].env = e
        BY <2>4 DEF AloneArrives, Arrives
      <3>2. Content' = [Content EXCEPT ![c] = e]
        BY <2>4, <3>1 DEF Content, AloneArrives
      <3>3. Status[c] = "absent"
        BY <2>4, StatusOf DEF AloneArrives, Arrives
      <3>4. Status'[c] = "waiting"
        BY <2>4, StatusAfter DEF AloneArrives, Arrives, StatusName
      <3>5. \A k \in Copy \ {c} : Status'[k] = Status[k]
        BY <2>4, StatusStays DEF AloneArrives
      <3>6. Status' = [Status EXCEPT ![c] = "waiting"]
        BY <3>4, <3>5, StatusAfter DEF Status
      <3>7. Abstract!Accept(c, e)
        BY <2>1, <3>2, <3>3, <3>6 DEF Abstract!Accept
      <3>8. QED BY <3>7 DEF Abstract!Next
    <2>5. QED BY <2>2, <2>3, <2>4, StepCopies DEF CopiesEffect
  <1>3. QED BY <1>1, <1>2

(* The inbound lane implements the channel that loses nothing.             *)
THEOREM DeliveryImplementsAtLeastOnce == Spec => ImplementsAtLeastOnce
  <1>1. Init => Abstract!Init
    <2> SUFFICES ASSUME Init PROVE Abstract!Init
      OBVIOUS
    <2>1. \A c \in Copy : copies[c].state = "absent" /\ copies[c].env = None
      BY DEF Init, NoCopy
    <2>2. Status = [c \in Copy |-> "absent"] /\ Content = [c \in Copy |-> None]
      BY <2>1 DEF Status, StatusName, Content
    <2>3. QED BY <2>2 DEF Init, Abstract!Init
  <1>2. DeliveryInv /\ DeliveryInv' /\ [Next]_vars => [Abstract!Next]_(Abstract!alovars)
    BY StepImplements
  <1>3. QED
    BY <1>1, <1>2, DeliveryInvHolds, PTL DEF Spec, ImplementsAtLeastOnce, Abstract!Spec
=============================================================================
