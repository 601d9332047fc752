---------------------------- MODULE BridgeProcess ---------------------------
(***************************************************************************)
(* The bridge worker's process: src/bridge/process-lock.ts (the machine-   *)
(* wide lock), src/bridge/index.ts (start and shutdown) and                *)
(* src/bridge/runtime.ts (the two lanes and the bounded close).            *)
(*                                                                         *)
(* A step is one file system call, or one stretch of a process's own code  *)
(* between two awaits.  Processes share only the lock file, the table of   *)
(* process identifiers, and the broker their transports are open to.       *)
(* A lock file is named by the process that created it, so that a file     *)
(* created under the same path by a later process is another one.          *)
(***************************************************************************)
EXTENDS Naturals, FiniteSets

CONSTANTS
    Process,           \* starts of the worker (bound: each runs once)
    Pid,               \* process identifiers (bound: reused once free)
    None,              \* no file, no identifier
    CrashPoint,        \* places of the program at which a process may die
    ConcurrentStarts   \* may a start begin while another one is acquiring?

Lane     == {"outbound", "inbound"}
Starting == {"open", "write", "read", "check", "unlink"}
Working  == {"acquired", "running", "closing"}
Gone     == {"refused", "ended", "dead"}
(* Where a process relies on the lock file being its own, and where it has *)
(* given up waiting for the close of its transport.                        *)
Holding  == {"write", "releasing", "unlinkOwn"} \cup Working
Leaving  == {"releasing", "unlinkOwn", "exiting"}
Place    == {"off"} \cup Starting \cup Working
                \cup Leaving \cup Gone

ASSUME BridgeProcessAssumption ==
    /\ None \notin Process \cup Pid
    /\ CrashPoint \subseteq Place \ (Gone \cup {"off"})
    /\ ConcurrentStarts \in BOOLEAN

VARIABLES
    pc,        \* pc[p]: where process p is
    pid,       \* pid[p]: its identifier, kept after its death in its record
    foreign,   \* identifiers of unrelated live programs
    lockFile,  \* the file under lockPath, by its creator, or None
    written,   \* the processes whose lock file holds their record
    robbed,    \* history: those whose lock file another one removed
    seen,      \* seen[p]: the identifier p read from the record
    retried,   \* the processes in the second round of the acquire loop
    lane,      \* lane[p][l]: state of each loop of runBridgeLoops
    aborted,   \* the processes whose AbortController has fired
    open       \* open[p]: which of database and transport p has open

lockVars == <<lockFile, written, robbed>>
runVars  == <<lane, aborted, open>>
vars     == <<pc, pid, foreign, lockVars, seen, retried, runVars>>

Alive(p) == pc[p] \notin Gone \cup {"off"}

(* defaultProcessAlive.                                                    *)
ProcessAlive(i) == i \in foreign \/ \E p \in Process : Alive(p) /\ pid[p] = i

Goto(p, from, to) == pc[p] = from /\ pc' = [pc EXCEPT ![p] = to]

-----------------------------------------------------------------------------
(* acquireBridgeProcessLock.                                               *)

Start(p, i) ==
    /\ Goto(p, "off", "open")
    /\ ~ProcessAlive(i)
    /\ ConcurrentStarts \/ \A q \in Process : pc[q] \notin Starting
    /\ pid' = [pid EXCEPT ![p] = i]
    /\ UNCHANGED <<foreign, lockVars, seen, retried, runVars>>

(* openSync(lockPath, "wx") creates the file or fails with EEXIST.         *)
OpenExclusively(p) ==
    /\ \/ /\ lockFile = None
          /\ Goto(p, "open", "write")
          /\ lockFile' = p
       \/ /\ lockFile # None
          /\ Goto(p, "open", "read")
          /\ lockFile' = lockFile
    /\ UNCHANGED <<pid, foreign, written, robbed, seen, retried, runVars>>

WriteRecord(p) ==
    /\ Goto(p, "write", "acquired")
    /\ written' = written \cup {p}
    /\ UNCHANGED <<pid, foreign, lockFile, robbed, seen, retried, runVars>>

(* readLockRecord: a missing or an empty file is unreadable, and throws.   *)
ReadRecordUnvalidated(p) ==
    /\ lockFile # None
    /\ Goto(p, "read", "check")
    /\ seen' = [seen EXCEPT ![p] =
           IF lockFile \in written THEN pid[lockFile] ELSE "undefined"]
    /\ UNCHANGED <<pid, foreign, lockVars, retried, runVars>>

ReadRecord(p) ==
    /\ \/ /\ lockFile \in written
          /\ Goto(p, "read", "check")
          /\ seen' = [seen EXCEPT ![p] = pid[lockFile]]
       \/ /\ lockFile \notin written
          /\ Goto(p, "read", "refused")
          /\ seen' = seen
    /\ UNCHANGED <<pid, foreign, lockVars, retried, runVars>>

CheckHolderNever(p) ==
    /\ Goto(p, "check", "unlink")
    /\ UNCHANGED <<pid, foreign, lockVars, seen, retried, runVars>>

CheckHolder(p) ==
    /\ \/ ProcessAlive(seen[p]) /\ Goto(p, "check", "refused")
       \/ ~ProcessAlive(seen[p]) /\ Goto(p, "check", "unlink")
    /\ UNCHANGED <<pid, foreign, lockVars, seen, retried, runVars>>

(* Removing the file of a process that relies on it robs that process.     *)
RobbedBy(p) == {q \in Process \ {p} : q = lockFile /\ pc[q] \in Holding}

(* unlinkSync removes whatever is under the path by now; without a file it *)
(* throws.  The loop has two rounds.                                       *)
UnlinkStale(p) ==
    /\ \/ lockFile # None /\ p \notin retried /\ Goto(p, "unlink", "open")
       \/ (lockFile = None \/ p \in retried) /\ Goto(p, "unlink", "refused")
    /\ lockFile' = None
    /\ retried' = retried \cup {p}
    /\ robbed' = robbed \cup RobbedBy(p)
    /\ UNCHANGED <<pid, foreign, written, seen, runVars>>

-----------------------------------------------------------------------------
(* bridge/index.ts and runBridgeLoops.                                     *)

(* The database opens, then the transport; the first heartbeat may fail.   *)
OpenRuntime(p) ==
    /\ \/ /\ Goto(p, "acquired", "releasing")
          /\ UNCHANGED <<lane, open>>
       \/ /\ Goto(p, "acquired", "running") \/ Goto(p, "acquired", "closing")
          /\ open' = [open EXCEPT ![p] = {"database", "transport"}]
          /\ lane' = [lane EXCEPT ![p] = [l \in Lane |->
                         IF pc'[p] = "running" THEN "idle" ELSE "ended"]]
    /\ UNCHANGED <<pid, foreign, lockVars, seen, retried, aborted>>

(* The loop of a lane: it ends when the signal is aborted, and works with  *)
(* its own broker client whatever the other lane is waiting for.           *)
LaneBeginsAlternating(p, l) ==
    /\ Alive(p) /\ lane[p][l] = "idle"
    /\ \A other \in Lane : lane[p][other] # "busy"
    /\ lane' = [lane EXCEPT ![p][l] = IF p \in aborted THEN "ended" ELSE "busy"]
    /\ UNCHANGED <<pc, pid, foreign, lockVars, seen, retried, aborted, open>>

LaneBegins(p, l) ==
    /\ Alive(p) /\ lane[p][l] = "idle"
    /\ lane' = [lane EXCEPT ![p][l] = IF p \in aborted THEN "ended" ELSE "busy"]
    /\ UNCHANGED <<pc, pid, foreign, lockVars, seen, retried, aborted, open>>

(* A cycle returns, or its failure is recorded in the open database.       *)
LaneReturns(p, l) ==
    /\ Alive(p) /\ lane[p][l] = "busy"
    /\ "database" \in open[p]
    /\ lane' = [lane EXCEPT ![p][l] = "idle"]
    /\ UNCHANGED <<pc, pid, foreign, lockVars, seen, retried, aborted, open>>

(* A failure whose heartbeat fails too rejects the loop.  The first one    *)
(* ends runBridgeLoops; the other lane goes on, for nothing aborts it.     *)
LaneRejects(p, l) ==
    /\ Alive(p) /\ lane[p][l] = "busy"
    /\ lane' = [lane EXCEPT ![p][l] = "ended"]
    /\ pc' = [pc EXCEPT ![p] = IF @ = "running" THEN "closing" ELSE @]
    /\ UNCHANGED <<pid, foreign, lockVars, seen, retried, aborted, open>>

(* SIGINT or SIGTERM: runBridgeLoops returns, lanes in an await go on.     *)
Signal(p) ==
    /\ Goto(p, "running", "closing")
    /\ aborted' = aborted \cup {p}
    /\ UNCHANGED <<pid, foreign, lockVars, seen, retried, lane, open>>

(* closeTransportWithin: the database is closed only after the transport.  *)
TransportClosed(p) ==
    /\ Goto(p, "closing", "releasing")
    /\ open' = [open EXCEPT ![p] = {}]
    /\ UNCHANGED <<pid, foreign, lockVars, seen, retried, lane, aborted>>

CloseDeadlineMissing(p) ==
    FALSE /\ UNCHANGED vars

CloseDeadline(p) ==
    /\ Goto(p, "closing", "releasing")
    /\ UNCHANGED <<pid, foreign, lockVars, seen, retried, runVars>>

-----------------------------------------------------------------------------
(* releaseOwnedLock, then the end of the process: by process.exit if the   *)
(* transport is still open, otherwise when both loops have ended.          *)

ReadOwnRecord(p) ==
    /\ \/ lockFile = p /\ lockFile \in written /\ Goto(p, "releasing", "unlinkOwn")
       \/ ~(lockFile = p /\ lockFile \in written) /\ Goto(p, "releasing", "exiting")
    /\ UNCHANGED <<pid, foreign, lockVars, seen, retried, runVars>>

UnlinkOwn(p) ==
    /\ Goto(p, "unlinkOwn", "exiting")
    /\ lockFile' = None
    /\ robbed' = robbed \cup RobbedBy(p)
    /\ UNCHANGED <<pid, foreign, written, seen, retried, runVars>>

Exit(p) ==
    /\ "transport" \in open[p] \/ \A l \in Lane : lane[p][l] = "ended"
    /\ Goto(p, "exiting", "ended")
    /\ open' = [open EXCEPT ![p] = {}]
    /\ lane' = [lane EXCEPT ![p] = [l \in Lane |-> "ended"]]
    /\ UNCHANGED <<pid, foreign, lockVars, seen, retried, aborted>>

-----------------------------------------------------------------------------
(* What the code does not control.                                         *)

Crash(p) ==
    /\ pc[p] \in CrashPoint
    /\ pc' = [pc EXCEPT ![p] = "dead"]
    /\ open' = [open EXCEPT ![p] = {}]
    /\ lane' = [lane EXCEPT ![p] = [l \in Lane |-> "ended"]]
    /\ UNCHANGED <<pid, foreign, lockVars, seen, retried, aborted>>

(* Another program gets a free identifier, or ends.                        *)
ForeignProgram(i) ==
    /\ \/ ~ProcessAlive(i) /\ foreign' = foreign \cup {i}
       \/ i \in foreign /\ foreign' = foreign \ {i}
    /\ UNCHANGED <<pc, pid, lockVars, seen, retried, runVars>>

Init ==
    /\ pc = [p \in Process |-> "off"]
    /\ pid = [p \in Process |-> None]
    /\ foreign = {}
    /\ lockFile = None /\ written = {} /\ robbed = {}
    /\ seen = [p \in Process |-> None]
    /\ retried = {}
    /\ lane = [p \in Process |-> [l \in Lane |-> "ended"]]
    /\ aborted = {}
    /\ open = [p \in Process |-> {}]

Acquire(p) ==
    \/ OpenExclusively(p) \/ WriteRecord(p) \/ ReadRecord(p)
    \/ CheckHolder(p) \/ UnlinkStale(p)

Shutdown(p) ==
    \/ TransportClosed(p) \/ CloseDeadline(p)
    \/ ReadOwnRecord(p) \/ UnlinkOwn(p) \/ Exit(p)

Next ==
    \/ \E p \in Process :
           \/ \E i \in Pid : Start(p, i)
           \/ Acquire(p) \/ OpenRuntime(p) \/ Signal(p) \/ Shutdown(p) \/ Crash(p)
           \/ \E l \in Lane : LaneBegins(p, l) \/ LaneReturns(p, l) \/ LaneRejects(p, l)
    \/ \E i \in Pid : ForeignProgram(i)

Spec == Init /\ [][Next]_vars

(* The event loop runs what is ready.  A session accept may hang as long   *)
(* as its transport is open, and so may the close of the transport.        *)
Fairness ==
    \A p \in Process :
        /\ WF_vars(Acquire(p) \/ OpenRuntime(p))
        /\ WF_vars(CloseDeadline(p) \/ ReadOwnRecord(p) \/ UnlinkOwn(p) \/ Exit(p))
        /\ \A l \in Lane :
               /\ WF_vars(LaneBegins(p, l))
               /\ WF_vars((l = "outbound" \/ "transport" \notin open[p])
                              /\ (LaneReturns(p, l) \/ LaneRejects(p, l)))

FairSpec == Spec /\ Fairness

-----------------------------------------------------------------------------
(* Every variable holds a value of its kind.                               *)
TypeOK ==
    /\ pc \in [Process -> Place]
    /\ pid \in [Process -> Pid \cup {None}] /\ foreign \subseteq Pid
    /\ lockFile \in Process \cup {None} /\ written \subseteq Process
    /\ robbed \subseteq Process
    /\ seen \in [Process -> Pid \cup {None}]
    /\ retried \subseteq Process /\ aborted \subseteq Process
    /\ lane \in [Process -> [Lane -> {"idle", "busy", "ended"}]]
    /\ open \in [Process -> SUBSET {"database", "transport"}]

(* A worker has its lock for as long as it works: whatever other processes *)
(* start, stop, die or reuse an identifier, nobody takes the file of a     *)
(* worker from under it.                                                   *)
WorkersHoldTheLock ==
    \A p \in Process : pc[p] \in Working => lockFile = p

(* Exactly one bridge transport worker may run for each machine identity   *)
(* (docs/architecture.md).                                                 *)
OneWorker == Cardinality({p \in Process : pc[p] \in Working}) <= 1

(* Two processes have transports open at once only if one of them gave up  *)
(* waiting for the close of its transport and has released its lock, or is *)
(* about to, or if somebody removed the lock file of one from under it.    *)
TransportsExclusive ==
    \A p, q \in Process :
        "transport" \in open[p] /\ "transport" \in open[q] =>
            \/ p = q
            \/ \E r \in {p, q} : pc[r] \in Leaving \/ r \in robbed

(* Once a shutdown began the process ends, even if the transport never     *)
(* closes and a lane never returns from the broker.                        *)
ShutdownEnds == \A p \in Process : pc[p] = "closing" ~> pc[p] \in Gone

(* The outbound lane keeps working while the inbound lane hangs in a       *)
(* session accept.                                                         *)
OutboundNotStarved ==
    \A p \in Process :
        pc[p] = "running" ~> pc[p] # "running" \/ lane[p]["outbound"] = "busy"
=============================================================================
