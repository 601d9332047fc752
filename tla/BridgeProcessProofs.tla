------------------------ MODULE BridgeProcessProofs -------------------------
(* Theorems about BridgeProcess, for every value of its constants.         *)
EXTENDS BridgeProcess, TLAPS

USE DEF Place, Starting, Working, Leaving, Gone

-----------------------------------------------------------------------------
(* Type correctness.                                                       *)

LEMMA StepType ==
    ASSUME TypeOK, NEW p \in Process
    PROVE  /\ \A i \in Pid : Start(p, i) => TypeOK'
           /\ Acquire(p) => TypeOK'
           /\ OpenRuntime(p) => TypeOK'
           /\ Signal(p) => TypeOK'
           /\ Shutdown(p) => TypeOK'
           /\ Crash(p) => TypeOK'
           /\ \A l \in Lane :
                  LaneBegins(p, l) \/ LaneReturns(p, l) \/ LaneRejects(p, l) => TypeOK'
  <1> USE DEF TypeOK, Goto, lockVars, runVars
  <1>1. ASSUME NEW i \in Pid, Start(p, i) PROVE TypeOK'
    BY <1>1 DEF Start
  <1>2. CASE OpenExclusively(p)
    BY <1>2 DEF OpenExclusively
  <1>3. CASE WriteRecord(p)
    BY <1>3 DEF WriteRecord
  <1>4. CASE ReadRecord(p)
    BY <1>4 DEF ReadRecord
  <1>5. CASE CheckHolder(p)
    BY <1>5 DEF CheckHolder
  <1>6. CASE UnlinkStale(p)
    BY <1>6 DEF UnlinkStale, RobbedBy
  <1>7. CASE OpenRuntime(p)
    <2>0. \A e \in [Lane -> {"idle", "ended"}] :
            [lane EXCEPT ![p] = e] \in [Process -> [Lane -> {"idle", "busy", "ended"}]]
      OBVIOUS
    <2>a. \/ lane' = lane
          \/ lane' = [lane EXCEPT ![p] = [l \in Lane |->
                                  IF pc'[p] = "running" THEN "idle" ELSE "ended"]]
      BY <1>7 DEF OpenRuntime
    <2>1. lane' \in [Process -> [Lane -> {"idle", "busy", "ended"}]]
      BY <2>0, <2>a
    <2>2. open' \in [Process -> SUBSET {"database", "transport"}]
      BY <1>7 DEF OpenRuntime
    <2>3. pc' \in [Process -> Place]
      BY <1>7 DEF OpenRuntime
    <2>4. QED BY <1>7, <2>1, <2>2, <2>3 DEF OpenRuntime
  <1>8. CASE Signal(p)
    BY <1>8 DEF Signal
  <1>9. CASE TransportClosed(p)
    BY <1>9 DEF TransportClosed
  <1>10. CASE CloseDeadline(p)
    BY <1>10 DEF CloseDeadline
  <1>11. CASE ReadOwnRecord(p)
    BY <1>11 DEF ReadOwnRecord
  <1>12. CASE UnlinkOwn(p)
    BY <1>12 DEF UnlinkOwn, RobbedBy
  <1>13. CASE Exit(p)
    BY <1>13 DEF Exit
  <1>14. CASE Crash(p)
    BY <1>14 DEF Crash
  <1>15. ASSUME NEW l \in Lane,
                LaneBegins(p, l) \/ LaneReturns(p, l) \/ LaneRejects(p, l)
         PROVE  TypeOK'
    <2>0. \A e \in {"idle", "busy", "ended"} :
            [lane EXCEPT ![p][l] = e] \in [Process -> [Lane -> {"idle", "busy", "ended"}]]
      OBVIOUS
    <2>a. \E e \in {"idle", "busy", "ended"} : lane' = [lane EXCEPT ![p][l] = e]
      BY <1>15 DEF LaneBegins, LaneReturns, LaneRejects
    <2>1. lane' \in [Process -> [Lane -> {"idle", "busy", "ended"}]]
      BY <2>0, <2>a
    <2>2. pc' \in [Process -> Place]
      BY <1>15 DEF LaneBegins, LaneReturns, LaneRejects
    <2>3. UNCHANGED <<pid, foreign, lockVars, seen, retried, aborted, open>>
      BY <1>15 DEF LaneBegins, LaneReturns, LaneRejects
    <2>4. QED BY <2>1, <2>2, <2>3
  <1>16. QED
    BY <1>1, <1>2, <1>3, <1>4, <1>5, <1>6, <1>7, <1>8, <1>9, <1>10, <1>11, <1>12,
       <1>13, <1>14, <1>15 DEF Acquire, Shutdown

LEMMA TypeInductive == TypeOK /\ [Next]_vars => TypeOK'
  <1>1. ASSUME TypeOK, NEW i \in Pid, ForeignProgram(i) PROVE TypeOK'
    BY <1>1 DEF ForeignProgram, TypeOK, lockVars, runVars
  <1>2. ASSUME TypeOK, UNCHANGED vars PROVE TypeOK'
    BY <1>2 DEF TypeOK, vars, lockVars, runVars
  <1>3. QED BY <1>1, <1>2, StepType DEF Next

LEMMA TypeInitial == Init => TypeOK
  BY DEF Init, TypeOK

(* Every variable holds a value of its kind.                               *)
THEOREM TypeCorrect == Spec => []TypeOK
  BY TypeInitial, TypeInductive, PTL DEF Spec

-----------------------------------------------------------------------------
(* Mutual exclusion, when starts do not overlap.                           *)

OneStart ==
    \A p, q \in Process : pc[p] \in Starting /\ pc[q] \in Starting => p = q

HoldersHaveTheFile == \A p \in Process : pc[p] \in Holding => lockFile = p

(* What a start has read is about the file that is there, if one is.       *)
ReadIsCurrent ==
    \A p \in Process : pc[p] = "check" /\ lockFile # None => seen[p] = pid[lockFile]

(* What a start is about to remove belongs to nobody.                      *)
StaleIsStale ==
    \A p \in Process : pc[p] = "unlink" /\ lockFile # None => pc[lockFile] \notin Holding

LockInv ==
    /\ TypeOK /\ OneStart /\ HoldersHaveTheFile
    /\ ReadIsCurrent /\ StaleIsStale

(* A step that moves one process, whose place keeps what it held, and      *)
(* leaves the lock alone.                                                  *)
LEMMA QuietStep ==
    ASSUME LockInv, NEW p \in Process,
           UNCHANGED <<pid, lockFile, seen>>,
           \A q \in Process \ {p} : pc'[q] = pc[q],
           pc'[p] \in Starting => pc[p] \in Starting,
           pc'[p] \in Holding => pc[p] \in Holding,
           pc'[p] \in {"check", "unlink"} => pc'[p] = pc[p]
    PROVE  /\ OneStart' /\ HoldersHaveTheFile'
           /\ ReadIsCurrent' /\ StaleIsStale'
  <1> USE DEF LockInv
  <1>1. OneStart'
    BY DEF OneStart
  <1>2. HoldersHaveTheFile'
    BY DEF HoldersHaveTheFile
  <1>4. ReadIsCurrent'
    BY DEF ReadIsCurrent
  <1>5. ASSUME NEW q \in Process, pc'[q] = "unlink", lockFile' # None
        PROVE  pc'[lockFile'] \notin Holding
    <2>1. pc[q] = "unlink" /\ lockFile \in Process
      BY <1>5 DEF TypeOK
    <2>2. QED BY <1>5, <2>1 DEF StaleIsStale
  <1>6. QED BY <1>1, <1>2, <1>4, <1>5 DEF StaleIsStale

LEMMA AcquireKeepsLock ==
    ASSUME LockInv, NEW p \in Process, Acquire(p)
    PROVE  /\ OneStart' /\ HoldersHaveTheFile'
           /\ ReadIsCurrent' /\ StaleIsStale'
  <1> USE DEF LockInv
  <1>0. TypeOK
    OBVIOUS
  <1>1. pid' = pid /\ pc[p] \in Starting
             /\ \A q \in Process \ {p} : pc'[q] = pc[q]
    BY DEF Acquire, OpenExclusively, WriteRecord, ReadRecord, CheckHolder, UnlinkStale,
           Goto, TypeOK, runVars, lockVars
  <1>2. \A q \in Process \ {p} : pc[q] \notin Starting
    BY <1>1 DEF OneStart
  <1>3. OneStart'
    BY <1>1, <1>2 DEF OneStart
  <1>4. CASE OpenExclusively(p)
    <2>1. CASE lockFile = None
      <3>1. \A q \in Process : pc[q] \notin Holding
        BY <2>1, BridgeProcessAssumption DEF HoldersHaveTheFile
      <3>2. lockFile' = p /\ pc'[p] = "write"
        BY <1>4, <2>1 DEF OpenExclusively, Goto, TypeOK
      <3>3. QED
        BY <1>1, <1>2, <1>3, <3>1, <3>2 DEF HoldersHaveTheFile, ReadIsCurrent, StaleIsStale
    <2>2. CASE lockFile # None
      <3>1. UNCHANGED <<lockFile, seen>> /\ pc'[p] = "read"
        BY <1>4, <2>2 DEF OpenExclusively, Goto, TypeOK
      <3>2. QED BY <1>1, <3>1, QuietStep DEF Holding
    <2>3. QED BY <2>1, <2>2
  <1>5. CASE WriteRecord(p)
    <2>1. UNCHANGED <<lockFile, seen>> /\ pc'[p] = "acquired" /\ pc[p] = "write"
      BY <1>5 DEF WriteRecord, Goto, TypeOK
    <2>2. QED BY <1>1, <2>1, QuietStep DEF Holding
  <1>6. CASE ReadRecord(p)
    <2>1. lockFile' = lockFile /\ pc[p] = "read"
      BY <1>6 DEF ReadRecord, Goto, lockVars
    <2>2. pc'[p] \in {"check", "refused"}
      BY <1>6 DEF ReadRecord, Goto, TypeOK
    <2>3. pc'[p] = "check" => seen'[p] = pid[lockFile]
      BY <1>6, <2>2 DEF ReadRecord, Goto, TypeOK
    <2>4. HoldersHaveTheFile'
      BY <1>1, <2>1, <2>2 DEF HoldersHaveTheFile, Holding
    <2>5. ReadIsCurrent'
      BY <1>1, <1>2, <2>1, <2>3 DEF ReadIsCurrent
    <2>6. StaleIsStale'
      BY <1>1, <1>2, <2>2 DEF StaleIsStale
    <2>7. QED BY <1>3, <2>4, <2>5, <2>6
  <1>7. CASE CheckHolder(p)
    <2>1. UNCHANGED <<lockFile, seen>> /\ pc[p] = "check"
      BY <1>7 DEF CheckHolder, Goto, lockVars
    <2>2. pc'[p] = "refused" \/ (pc'[p] = "unlink" /\ ~ProcessAlive(seen[p]))
      BY <1>7 DEF CheckHolder, Goto, TypeOK
    <2>3. HoldersHaveTheFile'
      BY <1>1, <2>1, <2>2 DEF HoldersHaveTheFile, Holding
    <2>4. ReadIsCurrent'
      BY <1>1, <1>2, <2>2 DEF ReadIsCurrent
    <2>5. ASSUME pc'[p] = "unlink", lockFile # None
          PROVE  pc'[lockFile] \notin Holding
      <3>1. ~Alive(lockFile) /\ lockFile \in Process
        BY <2>1, <2>2, <2>5 DEF ProcessAlive, ReadIsCurrent, TypeOK
      <3>2. pc[lockFile] \in Gone \cup {"off"} /\ lockFile # p
        BY <2>1, <3>1 DEF Alive
      <3>3. QED BY <1>1, <3>1, <3>2 DEF Holding
    <2>6. StaleIsStale'
      BY <1>1, <1>2, <2>1, <2>5 DEF StaleIsStale
    <2>7. QED BY <1>3, <2>3, <2>4, <2>6
  <1>8. CASE UnlinkStale(p)
    <2>1. lockFile' = None /\ pc[p] = "unlink"
      BY <1>8 DEF UnlinkStale, Goto
    <2>2. pc'[p] \in {"open", "refused"}
      BY <1>8 DEF UnlinkStale, Goto, TypeOK
    <2>3. \A q \in Process : pc[q] \notin Holding
      BY <2>1, BridgeProcessAssumption DEF HoldersHaveTheFile, StaleIsStale
    <2>4. HoldersHaveTheFile'
      BY <1>1, <2>2, <2>3 DEF HoldersHaveTheFile, Holding
    <2>5. ReadIsCurrent' /\ StaleIsStale'
      BY <2>1 DEF ReadIsCurrent, StaleIsStale
    <2>6. QED BY <1>3, <2>4, <2>5
  <1>9. QED BY <1>4, <1>5, <1>6, <1>7, <1>8 DEF Acquire

LEMMA LockInductive ==
    ASSUME ~ConcurrentStarts
    PROVE  LockInv /\ [Next]_vars => LockInv'
  <1> SUFFICES ASSUME LockInv, [Next]_vars
               PROVE  /\ OneStart' /\ HoldersHaveTheFile'
                      /\ ReadIsCurrent' /\ StaleIsStale'
    BY TypeInductive DEF LockInv
  <1> DEFINE Goal == /\ OneStart' /\ HoldersHaveTheFile'
                     /\ ReadIsCurrent' /\ StaleIsStale'
  <1>0. TypeOK /\ HoldersHaveTheFile
    BY DEF LockInv
  <1>1. ASSUME NEW p \in Process, NEW i \in Pid, Start(p, i) PROVE Goal
    <2>1. /\ UNCHANGED <<lockFile, seen>> /\ pc'[p] = "open" /\ pc[p] = "off"
          /\ \A q \in Process \ {p} : pc'[q] = pc[q] /\ pid'[q] = pid[q]
          /\ \A q \in Process : pc[q] \notin Starting
      BY <1>0, <1>1 DEF Start, Goto, TypeOK, lockVars, runVars
    <2>2. OneStart' /\ HoldersHaveTheFile'
      BY <1>0, <2>1 DEF OneStart, HoldersHaveTheFile, Holding
    <2>3. ReadIsCurrent' /\ StaleIsStale'
      BY <2>1 DEF ReadIsCurrent, StaleIsStale
    <2>4. QED BY <2>2, <2>3
  <1>2. ASSUME NEW p \in Process, Acquire(p) PROVE Goal
    BY <1>2, AcquireKeepsLock
  <1>3. ASSUME NEW p \in Process, OpenRuntime(p) PROVE Goal
    <2>1. /\ UNCHANGED <<pid, lockFile, seen>> /\ pc[p] = "acquired"
          /\ pc'[p] \in {"releasing", "running", "closing"}
          /\ \A q \in Process \ {p} : pc'[q] = pc[q]
      BY <1>0, <1>3 DEF OpenRuntime, Goto, TypeOK, lockVars
    <2>2. QED BY <2>1, QuietStep DEF Holding
  <1>4. ASSUME NEW p \in Process, Signal(p) PROVE Goal
    <2>1. /\ UNCHANGED <<pid, lockFile, seen>> /\ pc[p] = "running"
          /\ pc'[p] = "closing" /\ \A q \in Process \ {p} : pc'[q] = pc[q]
      BY <1>0, <1>4 DEF Signal, Goto, TypeOK, lockVars
    <2>2. QED BY <2>1, QuietStep DEF Holding
  <1>5. ASSUME NEW p \in Process, Shutdown(p) PROVE Goal
    <2>1. CASE UnlinkOwn(p)
      <3>1. pc[p] = "unlinkOwn" /\ pc'[p] = "exiting" /\ lockFile' = None
                /\ pid' = pid /\ seen' = seen /\ \A q \in Process \ {p} : pc'[q] = pc[q]
        BY <1>0, <2>1 DEF UnlinkOwn, Goto, TypeOK, runVars
      <3>2. \A q \in Process \ {p} : pc[q] \notin Holding
        BY <1>0, <3>1 DEF HoldersHaveTheFile, Holding
      <3>3. OneStart' /\ HoldersHaveTheFile'
        BY <1>0, <3>1, <3>2 DEF LockInv, OneStart, HoldersHaveTheFile, Holding
      <3>4. ReadIsCurrent' /\ StaleIsStale'
        BY <3>1 DEF ReadIsCurrent, StaleIsStale
      <3>5. QED BY <3>3, <3>4
    <2>2. CASE TransportClosed(p) \/ CloseDeadline(p)
      <3>1. /\ UNCHANGED <<pid, lockFile, seen>> /\ pc[p] = "closing"
            /\ pc'[p] = "releasing" /\ \A q \in Process \ {p} : pc'[q] = pc[q]
        BY <1>0, <2>2 DEF TransportClosed, CloseDeadline, Goto, TypeOK, lockVars, runVars
      <3>2. QED BY <3>1, QuietStep DEF Holding
    <2>3. CASE ReadOwnRecord(p)
      <3>1. /\ UNCHANGED <<pid, lockFile, seen>> /\ pc[p] = "releasing"
            /\ pc'[p] \in {"unlinkOwn", "exiting"}
            /\ \A q \in Process \ {p} : pc'[q] = pc[q]
        BY <1>0, <2>3 DEF ReadOwnRecord, Goto, TypeOK, lockVars, runVars
      <3>2. QED BY <3>1, QuietStep DEF Holding
    <2>4. CASE Exit(p)
      <3>1. /\ UNCHANGED <<pid, lockFile, seen>> /\ pc'[p] = "ended"
            /\ \A q \in Process \ {p} : pc'[q] = pc[q]
        BY <1>0, <2>4 DEF Exit, Goto, TypeOK, lockVars
      <3>2. QED BY <3>1, QuietStep DEF Holding
    <2>5. QED BY <1>5, <2>1, <2>2, <2>3, <2>4 DEF Shutdown
  <1>6. ASSUME NEW p \in Process, Crash(p) PROVE Goal
    <2>1. /\ UNCHANGED <<pid, lockFile, seen>> /\ pc'[p] = "dead"
          /\ \A q \in Process \ {p} : pc'[q] = pc[q]
      BY <1>0, <1>6 DEF Crash, TypeOK, lockVars
    <2>2. QED BY <2>1, QuietStep DEF Holding
  <1>7. ASSUME NEW p \in Process, NEW l \in Lane,
               LaneBegins(p, l) \/ LaneReturns(p, l) \/ LaneRejects(p, l)
        PROVE  Goal
    <2>0. pc' = pc \/ pc' = [pc EXCEPT ![p] = IF @ = "running" THEN "closing" ELSE @]
      BY <1>7 DEF LaneBegins, LaneReturns, LaneRejects
    <2>1. /\ UNCHANGED <<pid, lockFile, seen>>
          /\ pc'[p] = pc[p] \/ (pc[p] = "running" /\ pc'[p] = "closing")
          /\ \A q \in Process \ {p} : pc'[q] = pc[q]
      BY <1>0, <1>7, <2>0 DEF LaneBegins, LaneReturns, LaneRejects, TypeOK, lockVars
    <2>2. QED BY <2>1, QuietStep DEF Holding
  <1>8. CASE UNCHANGED <<pc, pid, lockFile, seen>>
    BY <1>8 DEF LockInv, OneStart, HoldersHaveTheFile, ReadIsCurrent,
                StaleIsStale
  <1>9. QED
    BY <1>1, <1>2, <1>3, <1>4, <1>5, <1>6, <1>7, <1>8
       DEF Next, ForeignProgram, vars, lockVars, runVars

LEMMA LockInitial == Init => LockInv
  BY TypeInitial
     DEF Init, LockInv, OneStart, HoldersHaveTheFile, ReadIsCurrent,
         StaleIsStale, Holding

(* When starts do not overlap, nobody takes the lock file of a worker from *)
(* under it.                                                               *)
THEOREM LockIsHeld ==
    ASSUME ~ConcurrentStarts
    PROVE  Spec => []WorkersHoldTheLock
  <1>1. LockInv => WorkersHoldTheLock
    BY DEF LockInv, HoldersHaveTheFile, WorkersHoldTheLock, Holding
  <1>2. QED BY <1>1, LockInitial, LockInductive, PTL DEF Spec

-----------------------------------------------------------------------------
(* The open transports, whatever starts overlap and closes hang.           *)

UnlessRobbed == \A p \in Process : pc[p] \in Holding /\ p \notin robbed => lockFile = p

OpenWhileRunning ==
    \A p \in Process :
        "transport" \in open[p] => pc[p] \in {"running", "closing"} \cup Leaving

TransportInv == TypeOK /\ UnlessRobbed /\ OpenWhileRunning

(* A step that moves one process, opens no transport, leaves the lock      *)
(* alone, and by which no process comes to rely on the lock.               *)
LEMMA QuietMove ==
    ASSUME TransportInv, NEW p \in Process,
           UNCHANGED <<lockFile, robbed>>,
           \A q \in Process \ {p} : pc'[q] = pc[q] /\ open'[q] = open[q],
           pc'[p] \in Holding => pc[p] \in Holding,
           "transport" \in open'[p] => pc'[p] \in {"running", "closing"} \cup Leaving
    PROVE  UnlessRobbed' /\ OpenWhileRunning'
  BY DEF TransportInv, UnlessRobbed, OpenWhileRunning

(* A removal of the lock file by a process that holds it no longer.        *)
LEMMA RemovalRobs ==
    ASSUME TransportInv, NEW p \in Process,
           robbed' = robbed \cup RobbedBy(p),
           \A q \in Process \ {p} : pc'[q] = pc[q] /\ open'[q] = open[q],
           pc'[p] \notin Holding,
           "transport" \in open'[p] => pc'[p] \in {"running", "closing"} \cup Leaving
    PROVE  UnlessRobbed' /\ OpenWhileRunning'
  <1> USE DEF TransportInv
  <1>1. ASSUME NEW q \in Process, pc'[q] \in Holding, q \notin robbed'
        PROVE  FALSE
    <2>1. q # p /\ pc[q] \in Holding /\ q \notin robbed
      BY <1>1
    <2>2. q = lockFile
      BY <2>1 DEF UnlessRobbed
    <2>3. q \in RobbedBy(p)
      BY <2>1, <2>2 DEF RobbedBy
    <2>4. QED BY <1>1, <2>3
  <1>2. OpenWhileRunning'
    BY DEF OpenWhileRunning
  <1>3. QED BY <1>1, <1>2 DEF UnlessRobbed

LEMMA TransportInductive == TransportInv /\ [Next]_vars => TransportInv'
  <1> SUFFICES ASSUME TransportInv, [Next]_vars
               PROVE  UnlessRobbed' /\ OpenWhileRunning'
    BY TypeInductive DEF TransportInv
  <1> DEFINE Goal == UnlessRobbed' /\ OpenWhileRunning'
  <1>0. TypeOK /\ OpenWhileRunning
    BY DEF TransportInv
  <1> USE DEF Goto, lockVars, runVars
  <1>1. ASSUME NEW p \in Process, NEW i \in Pid, Start(p, i) PROVE Goal
    <2>1. /\ UNCHANGED <<lockFile, robbed, open>> /\ pc[p] = "off" /\ pc'[p] = "open"
          /\ \A q \in Process \ {p} : pc'[q] = pc[q]
      BY <1>0, <1>1 DEF Start, TypeOK
    <2>2. QED BY <1>0, <2>1, QuietMove DEF Holding, OpenWhileRunning
  <1>2. ASSUME NEW p \in Process, OpenExclusively(p), lockFile = None PROVE Goal
    <2>1. /\ lockFile' = p /\ robbed' = robbed /\ open' = open
          /\ pc[p] = "open" /\ pc'[p] = "write"
          /\ \A q \in Process \ {p} : pc'[q] = pc[q]
      BY <1>0, <1>2 DEF OpenExclusively, TypeOK
    <2>2. \A q \in Process : q # lockFile
      BY <1>2, BridgeProcessAssumption
    <2>3. UnlessRobbed'
      BY <2>1, <2>2 DEF TransportInv, UnlessRobbed
    <2>4. OpenWhileRunning'
      BY <1>0, <2>1 DEF OpenWhileRunning
    <2>5. QED BY <2>3, <2>4
  <1>3. ASSUME NEW p \in Process,
               \/ OpenExclusively(p) /\ lockFile # None
               \/ WriteRecord(p) \/ ReadRecord(p) \/ CheckHolder(p)
        PROVE  Goal
    <2>1. /\ UNCHANGED <<lockFile, robbed, open>>
          /\ \A q \in Process \ {p} : pc'[q] = pc[q]
      BY <1>0, <1>3 DEF OpenExclusively, WriteRecord, ReadRecord, CheckHolder, TypeOK
    <2>2. pc[p] \in Starting /\ (pc'[p] \in Holding => pc[p] = "write")
      BY <1>0, <1>3
         DEF OpenExclusively, WriteRecord, ReadRecord, CheckHolder, TypeOK, Holding
    <2>3. QED BY <1>0, <2>1, <2>2, QuietMove DEF Holding, OpenWhileRunning
  <1>4. ASSUME NEW p \in Process, UnlinkStale(p) PROVE Goal
    <2>1. /\ robbed' = robbed \cup RobbedBy(p) /\ open' = open
          /\ pc[p] = "unlink" /\ pc'[p] \in {"open", "refused"}
          /\ \A q \in Process \ {p} : pc'[q] = pc[q]
      BY <1>0, <1>4 DEF UnlinkStale, TypeOK
    <2>2. QED BY <1>0, <2>1, RemovalRobs DEF Holding, OpenWhileRunning
  <1>5. ASSUME NEW p \in Process, OpenRuntime(p) PROVE Goal
    <2>1. /\ UNCHANGED <<lockFile, robbed>>
          /\ pc[p] = "acquired" /\ pc'[p] \in {"releasing", "running", "closing"}
          /\ \A q \in Process \ {p} : pc'[q] = pc[q] /\ open'[q] = open[q]
      BY <1>0, <1>5 DEF OpenRuntime, TypeOK
    <2>2. QED BY <2>1, QuietMove DEF Holding
  <1>6. ASSUME NEW p \in Process, Signal(p) PROVE Goal
    <2>1. /\ UNCHANGED <<lockFile, robbed, open>> /\ pc[p] = "running"
          /\ pc'[p] = "closing" /\ \A q \in Process \ {p} : pc'[q] = pc[q]
      BY <1>0, <1>6 DEF Signal, TypeOK
    <2>2. QED BY <2>1, QuietMove DEF Holding
  <1>7. ASSUME NEW p \in Process,
               TransportClosed(p) \/ CloseDeadline(p) \/ ReadOwnRecord(p)
        PROVE  Goal
    <2>1. /\ UNCHANGED <<lockFile, robbed>>
          /\ pc[p] \in {"closing", "releasing"} /\ pc'[p] \in Leaving
          /\ \A q \in Process \ {p} : pc'[q] = pc[q] /\ open'[q] = open[q]
      BY <1>0, <1>7 DEF TransportClosed, CloseDeadline, ReadOwnRecord, TypeOK
    <2>2. QED BY <2>1, QuietMove DEF Holding
  <1>8. ASSUME NEW p \in Process, UnlinkOwn(p) PROVE Goal
    <2>1. /\ robbed' = robbed \cup RobbedBy(p) /\ open' = open /\ pc'[p] = "exiting"
          /\ \A q \in Process \ {p} : pc'[q] = pc[q]
      BY <1>0, <1>8 DEF UnlinkOwn, TypeOK
    <2>2. QED BY <2>1, RemovalRobs DEF Holding
  <1>9. ASSUME NEW p \in Process, Exit(p) \/ Crash(p) PROVE Goal
    <2>1. /\ UNCHANGED <<lockFile, robbed>>
          /\ pc'[p] \in {"ended", "dead"} /\ open'[p] = {}
          /\ \A q \in Process \ {p} : pc'[q] = pc[q] /\ open'[q] = open[q]
      BY <1>0, <1>9 DEF Exit, Crash, TypeOK
    <2>2. QED BY <2>1, QuietMove DEF Holding
  <1>10. ASSUME NEW p \in Process, NEW l \in Lane,
                LaneBegins(p, l) \/ LaneReturns(p, l) \/ LaneRejects(p, l)
         PROVE  Goal
    <2>0. pc' = pc \/ pc' = [pc EXCEPT ![p] = IF @ = "running" THEN "closing" ELSE @]
      BY <1>10 DEF LaneBegins, LaneReturns, LaneRejects
    <2>1. /\ UNCHANGED <<lockFile, robbed, open>>
          /\ pc'[p] = pc[p] \/ (pc[p] = "running" /\ pc'[p] = "closing")
          /\ \A q \in Process \ {p} : pc'[q] = pc[q]
      BY <1>0, <1>10, <2>0 DEF LaneBegins, LaneReturns, LaneRejects, TypeOK
    <2>2. QED BY <1>0, <2>1, QuietMove DEF Holding, OpenWhileRunning
  <1>11. CASE UNCHANGED <<pc, lockFile, robbed, open>>
    BY <1>11 DEF TransportInv, UnlessRobbed, OpenWhileRunning
  <1>12. QED
    BY <1>1, <1>2, <1>3, <1>4, <1>5, <1>6, <1>7, <1>8, <1>9, <1>10, <1>11
       DEF Next, Acquire, Shutdown, ForeignProgram, vars

(* Whatever starts overlap, crash and hang, two processes have transports  *)
(* open at once only if one of them waited in vain for the close of its    *)
(* own, or if a lock file was removed from under one of them.              *)
THEOREM TransportsAreExclusive == Spec => []TransportsExclusive
  <1>1. Init => TransportInv
    BY TypeInitial DEF Init, TransportInv, UnlessRobbed, OpenWhileRunning, Holding
  <1>2. TransportInv => TransportsExclusive
    BY DEF TransportInv, UnlessRobbed, OpenWhileRunning, TransportsExclusive, Holding
  <1>3. QED BY <1>1, <1>2, TransportInductive, PTL DEF Spec

(* When starts do not overlap, no lock file is removed from under anybody: *)
(* only a transport that does not close in time can then be open beside    *)
(* another one.                                                            *)
THEOREM NobodyIsRobbed ==
    ASSUME ~ConcurrentStarts
    PROVE  Spec => [](robbed = {})
  <1>1. Init => robbed = {}
    BY DEF Init
  <1>2. LockInv /\ robbed = {} /\ [Next]_vars => (robbed = {})'
    <2> SUFFICES ASSUME LockInv, robbed = {}, [Next]_vars
                 PROVE  robbed' = {}
      OBVIOUS
    <2>1. ASSUME NEW p \in Process, UnlinkStale(p) PROVE RobbedBy(p) = {}
      <3>1. pc[p] = "unlink"
        BY <2>1 DEF UnlinkStale, Goto
      <3>2. \A q \in Process : q = lockFile => pc[q] \notin Holding
        BY <3>1, BridgeProcessAssumption DEF LockInv, StaleIsStale
      <3>3. QED BY <3>2 DEF RobbedBy
    <2>2. ASSUME NEW p \in Process, UnlinkOwn(p) PROVE RobbedBy(p) = {}
      <3>1. lockFile = p
        BY <2>2 DEF UnlinkOwn, Goto, LockInv, HoldersHaveTheFile, Holding
      <3>2. QED BY <3>1 DEF RobbedBy
    <2>3. ASSUME NEW p \in Process, UnlinkStale(p) \/ UnlinkOwn(p) PROVE robbed' = {}
      BY <2>1, <2>2, <2>3 DEF UnlinkStale, UnlinkOwn
    <2>4. CASE robbed' = robbed
      BY <2>4
    <2>5. QED
      BY <2>3, <2>4
         DEF Next, Start, Acquire, OpenExclusively, WriteRecord, ReadRecord, CheckHolder,
             OpenRuntime, Signal, Shutdown, TransportClosed, CloseDeadline,
             ReadOwnRecord, Exit, Crash, LaneBegins, LaneReturns, LaneRejects,
             ForeignProgram, vars, lockVars, runVars
  <1>3. QED BY <1>1, <1>2, LockInitial, LockInductive, PTL DEF Spec
=============================================================================
