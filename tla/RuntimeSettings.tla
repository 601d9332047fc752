--------------------------- MODULE RuntimeSettings ---------------------------
(***************************************************************************)
(* The commands that configure an onboarded node, the transactions in      *)
(* which they change its settings, and what an interrupted command, a      *)
(* failing disk or a hand leaves behind:                                   *)
(* src/onboarding/runtime-settings.ts, src/setup/local-profile.ts and      *)
(* runOnboard and runForegroundRuntime of src/cli/index.ts.                *)
(***************************************************************************)
EXTENDS Onboarding, FiniteSets

CONSTANTS
    MaxTroubles,    \* deaths, failures and changes by hand (bound)
    MaxEdits        \* changes by hand among them (bound)

ASSUME RuntimeSettingsAssumption == MaxTroubles \in Nat /\ MaxEdits \in Nat

VARIABLES
    tx,             \* tx[a]: the transaction file of artifact a
    aside,          \* the settings that writeExactJson moved aside
    registration,   \* the MCP registration in the dedicated Codex home
    faults,         \* deaths and failures so far
    touched         \* what a hand has changed

vars == <<manifest, key, file, database, proc, history,
          tx, aside, registration, faults, touched>>

world == <<faults, touched>>

Trouble == faults + Cardinality(touched) < MaxTroubles

Transacted == {"dispatcher_projects", "runtime_settings"}

Transaction(a) == [previous : Content(a) \cup {None}, target : Content(a)]

ASSUME TransactionAssumption ==
    \A a \in Transacted : None \notin Transaction(a) /\ Partial \notin Transaction(a)

Base == [transport |-> None, dispatcher |-> None, mcp |-> FALSE]

Nothing == [key |-> None, peers |-> [p \in Peer |-> None],
            transport |-> None, dispatcher |-> None, mcp |-> FALSE]

-----------------------------------------------------------------------------
(* readRuntimeSettings: recoverArtifactTransaction for the projects, then  *)
(* for the settings, then the settings themselves.                         *)

Reads == Run("peek") \/ Run("read")

Unfinished == {a \in Transacted : tx[a] # None}

First(S) == IF "dispatcher_projects" \in S THEN "dispatcher_projects" ELSE "runtime_settings"

(* The artifact is the new one, or is still the old one.                   *)
Forward(a) == tx[a] # Partial /\ file[a] = tx[a].target

Unchanged(a) == tx[a] # Partial /\ file[a] = tx[a].previous /\ manifest.hash[a] = file[a]

RecoverHash ==
    LET a == First(Unfinished) IN
    /\ Reads /\ Unfinished # {} /\ Forward(a) /\ manifest.hash[a] # file[a]
    /\ Record(a)
    /\ UNCHANGED <<key, file, database, proc, history, tx, aside, registration, world>>

(* A first write that never came to its file leaves nothing.               *)
NeverWritten(a) == tx[a] # Partial /\ file[a] = None /\ tx[a].previous = None

RecoverTransaction ==
    LET a == First(Unfinished) IN
    /\ Reads /\ Unfinished # {}
    /\ \/ Forward(a) /\ manifest.hash[a] = file[a]
       \/ ~Forward(a) /\ file[a] # None /\ Unchanged(a)
       \/ NeverWritten(a)
    /\ tx' = [tx EXCEPT ![a] = None]
    /\ UNCHANGED <<manifest, key, file, database, proc, history, aside, registration, world>>

CannotRecover ==
    LET a == First(Unfinished) IN
    /\ Reads /\ Unfinished # {}
    /\ ~Forward(a) /\ ~(file[a] # None /\ Unchanged(a)) /\ ~NeverWritten(a)
    /\ Refuse
    /\ UNCHANGED <<manifest, key, file, database, tx, aside, registration, world>>

(* validateSettingsBindings.                                               *)
Bound(s) ==
    /\ s.transport # None => database /\ file["profile"] = s.transport
    /\ s.dispatcher # None =>
           /\ file["dispatcher_projects"] = s.dispatcher
           /\ manifest.hash["dispatcher_projects"] = s.dispatcher

WithoutHash ==
    LET found == file["runtime_settings"] IN
    IF found = None THEN Base ELSE IF Bound(found) THEN found ELSE None

(* What is read, None if it is refused.                                    *)
Readable ==
    LET found == file["runtime_settings"]
        known == manifest.hash["runtime_settings"] IN
    IF found = None THEN (IF known = None THEN Base ELSE None)
    ELSE IF known = found /\ Bound(found) THEN found ELSE None

ReadSettings ==
    /\ Reads /\ Unfinished = {}
    /\ \/ Readable = None /\ Refuse
       \/ /\ Readable # None /\ Run("peek")
          /\ IF Readable.dispatcher = None THEN Refuse ELSE GoTo("resume")
       \/ /\ Readable # None /\ Run("read")
          /\ proc' = [proc EXCEPT !.step = proc.command.name, !.settings = Readable]
          /\ UNCHANGED history
    /\ UNCHANGED <<manifest, key, file, database, tx, aside, registration, world>>

(* status has been printed.                                                *)
StatusEnds ==
    /\ Run("status") /\ Stop
    /\ UNCHANGED <<manifest, key, file, database, tx, aside, registration, world>>

-----------------------------------------------------------------------------
(* writeArtifactTransaction.                                               *)

Begin(a, content) ==
    /\ tx[a] = None
    /\ tx' = [tx EXCEPT ![a] = [previous |-> manifest.hash[a], target |-> content]]
    /\ proc' = [proc EXCEPT !.step = "write", !.artifact = a, !.content = content]
    /\ UNCHANGED history

Found == file[proc.artifact]

Replaces == proc.artifact = "runtime_settings"

(* writeExactJson moves a file aside before it renames the new one to it;  *)
(* writeNewOrExactJson never replaces one.                                 *)
WriteArtifact ==
    /\ Run("write")
    /\ \/ Found = proc.content /\ GoTo("hash") /\ UNCHANGED <<file, aside>>
       \/ Found = None /\ Write(proc.artifact, proc.content) /\ GoTo("hash") /\ UNCHANGED aside
       \/ /\ Found \notin {None, proc.content} /\ Replaces
          /\ aside' = Found /\ Write(proc.artifact, None) /\ GoTo("swap")
       \/ /\ Found \notin {None, proc.content} /\ ~Replaces
          /\ Refuse /\ UNCHANGED <<file, aside>>
    /\ UNCHANGED <<manifest, key, database, tx, registration, world>>

SwapArtifact ==
    /\ Run("swap")
    /\ Write(proc.artifact, proc.content) /\ aside' = None
    /\ GoTo("hash")
    /\ UNCHANGED <<manifest, key, database, tx, registration, world>>

RecordArtifact ==
    /\ Run("hash")
    /\ Record(proc.artifact)
    /\ GoTo("remove")
    /\ UNCHANGED <<key, file, database, tx, aside, registration, world>>

Told ==
    IF Name("transport") THEN [history.reported EXCEPT !.transport = proc.command.input]
    ELSE IF Name("dispatcher") THEN [history.reported EXCEPT !.dispatcher = proc.command.input]
    ELSE [history.reported EXCEPT !.mcp = TRUE]

RemoveTransaction ==
    /\ Run("remove")
    /\ tx' = [tx EXCEPT ![proc.artifact] = None]
    /\ IF proc.artifact = "dispatcher_projects" THEN GoTo("update") ELSE Accept(Told)
    /\ UNCHANGED <<manifest, key, file, database, aside, registration, world>>

(* updateSettings.                                                         *)
Updated ==
    IF Name("transport") THEN [Readable EXCEPT !.transport = proc.command.input]
    ELSE IF Name("dispatcher") THEN [Readable EXCEPT !.dispatcher = proc.command.input]
    ELSE [Readable EXCEPT !.mcp = TRUE]

(* The command has just read what updateSettings reads again.              *)
UpdateSettings ==
    /\ Run("update")
    /\ Begin("runtime_settings", Updated)
    /\ UNCHANGED <<manifest, key, file, database, aside, registration, world>>

-----------------------------------------------------------------------------
(* configureTransport with setupLocalProfile.                              *)

OtherTransport == proc.settings.transport \notin {None, proc.command.input}

ProfileExists == file["profile"] # None /\ database

ProfileFits == file["profile"] = proc.command.input /\ database

ConfigureTransport ==
    /\ Run("transport")
    /\ \/ OtherTransport /\ Refuse /\ UNCHANGED database
       \/ ~OtherTransport /\ ProfileFits /\ GoTo("record profile") /\ UNCHANGED database
       \/ /\ ~OtherTransport /\ file["profile"] = None /\ ~database
          /\ database' = TRUE /\ GoTo("profile")
       \/ /\ ~OtherTransport /\ ~ProfileFits /\ ~(file["profile"] = None /\ ~database)
          /\ Refuse /\ UNCHANGED database
    /\ UNCHANGED <<manifest, key, file, tx, aside, registration, world>>

WriteProfile ==
    /\ Run("profile")
    /\ Write("profile", proc.command.input)
    /\ GoTo("record profile")
    /\ UNCHANGED <<manifest, key, database, tx, aside, registration, world>>

RecordProfile ==
    /\ Run("record profile")
    /\ Record("profile")
    /\ IF proc.settings.transport # None THEN Accept(Told) ELSE GoTo("update")
    /\ UNCHANGED <<key, file, database, tx, aside, registration, world>>

-----------------------------------------------------------------------------
(* configureDispatcher, after prepareDispatcherAuthentication.             *)

LogInFirst ==
    /\ Run("read") /\ Name("dispatcher") /\ Stop
    /\ UNCHANGED <<manifest, key, file, database, tx, aside, registration, world>>

ConfigureDispatcher ==
    LET s == proc.settings
        d == proc.command.input IN
    /\ Run("dispatcher")
    /\ \/ s.transport = None /\ Refuse /\ UNCHANGED tx
       \/ /\ s.dispatcher # None /\ UNCHANGED tx
          /\ IF s.dispatcher = d /\ file["dispatcher_projects"] = d THEN Accept(Told) ELSE Refuse
       \/ s.transport # None /\ s.dispatcher = None /\ Begin("dispatcher_projects", d)
    /\ UNCHANGED <<manifest, key, file, database, aside, registration, world>>

-----------------------------------------------------------------------------
(* configureMcp: codex mcp get, codex mcp add and what they say.           *)

ConfigureMcp ==
    LET s == proc.settings IN
    /\ Run("mcp")
    /\ \/ /\ s.transport = None \/ s.dispatcher = None \/ registration = "other"
             \/ (registration = "none" /\ s.mcp)
          /\ Refuse /\ UNCHANGED registration
       \/ /\ s.transport # None /\ s.dispatcher # None /\ registration = "ours"
          /\ IF s.mcp THEN Accept(Told) ELSE GoTo("update")
          /\ UNCHANGED registration
       \/ /\ s.transport # None /\ s.dispatcher # None /\ registration = "none" /\ ~s.mcp
          /\ registration' = "ours" /\ GoTo("update")
    /\ UNCHANGED <<manifest, key, file, database, tx, aside, world>>

(* verify with verifyMcpRegistration, and runForegroundRuntime.            *)
Verify ==
    LET s == proc.settings IN
    /\ Run("verify")
    /\ IF manifest.status = "complete" /\ s.transport # None /\ s.dispatcher # None /\ s.mcp
         THEN IF registration = "ours" THEN Accept(history.reported) ELSE Refuse
         ELSE Stop
    /\ UNCHANGED <<manifest, key, file, database, tx, aside, registration, world>>

(* The bridge starts with a transport, the dispatcher with both settings.  *)
StartRuntime ==
    LET s == proc.settings IN
    /\ Run("runtime")
    /\ \/ (s.transport = None \/ s.dispatcher = None) /\ Refuse
       \/ s.transport # None /\ Accept(history.reported)
    /\ UNCHANGED <<manifest, key, file, database, tx, aside, registration, world>>

-----------------------------------------------------------------------------
(* The operator, the faults and the hand.                                  *)

FirstStep ==
    [start |-> "manifest", export |-> "export", import |-> "import",
     status |-> "report", transport |-> "resume", dispatcher |-> "resume",
     mcp |-> "peek", verify |-> "resume", runtime |-> "resume"]

(* Only start gets along without a manifest.                               *)
Enter(c) ==
    LET again == IF history.interrupted = c THEN c ELSE None IN
    /\ proc = None
    /\ IF manifest = None /\ c.name # "start"
         THEN /\ history' = [history EXCEPT !.interrupted = again, !.verdict = "refused"]
              /\ UNCHANGED proc
         ELSE /\ history' = [history EXCEPT !.interrupted = again, !.verdict = "none"]
              /\ proc' = [command |-> c, step |-> FirstStep[c.name], settings |-> None,
                          artifact |-> None, content |-> None]
    /\ UNCHANGED <<manifest, key, file, database, tx, aside, registration, world>>

(* The steps that come after every check a command makes of its request.   *)
Committed == {"key", "enrollment", "canonical", "record identity", "enroll",
              "record membership", "profile", "record profile", "update", "write",
              "swap", "hash", "remove"}

Promised ==
    /\ proc.step \in Committed
    /\ Run("write") => Replaces \/ Found \in {None, proc.content}

Interrupts(verdict) ==
    /\ proc # None /\ Trouble
    /\ faults' = faults + 1 /\ UNCHANGED touched
    /\ proc' = None
    /\ history' = [history EXCEPT !.verdict = verdict,
                                  !.interrupted = IF Promised THEN proc.command ELSE @]

(* writeManifestAtomic is about to write.                                  *)
WritesManifest ==
    \/ proc.step \in {"record identity", "enroll", "record membership", "record profile", "hash"}
    \/ Run("resume") /\ manifest.status # Status
    \/ Reads /\ Unfinished # {} /\ Forward(First(Unfinished))

WritesNew == Run("write") /\ ~Replaces /\ Found = None

(* writeFileSync leaves a part of the file.                                *)
PartlyWritten ==
    \/ Run("enrollment") /\ Write("local_enrollment", Partial) /\ UNCHANGED tx
    \/ Run("profile") /\ Write("profile", Partial) /\ UNCHANGED tx
    \/ WritesNew /\ Write(proc.artifact, Partial) /\ UNCHANGED tx
    \/ Run("update") /\ tx' = [tx EXCEPT !["runtime_settings"] = Partial] /\ UNCHANGED file
    \/ /\ Run("dispatcher") /\ proc.settings.transport # None /\ proc.settings.dispatcher = None
       /\ tx' = [tx EXCEPT !["dispatcher_projects"] = Partial] /\ UNCHANGED file

(* writeAtomic may have given the file it replaces the name of a backup.   *)
Dies ==
    /\ Interrupts("died")
    /\ \/ UNCHANGED <<manifest, key, file, tx>>
       \/ PartlyWritten /\ UNCHANGED <<manifest, key>>
       \/ Run("key") /\ key' = Partial /\ UNCHANGED <<manifest, file, tx>>
       \/ Run("canonical") /\ Write("local_enrollment", None) /\ UNCHANGED <<manifest, key, tx>>
       \/ WritesManifest /\ manifest' = None /\ UNCHANGED <<key, file, tx>>
    /\ UNCHANGED <<database, aside, registration>>

(* A call throws.  generateNodeIdentity removes the key, setupLocalProfile *)
(* the database, and writeExactJson puts the old settings back.            *)
Fails ==
    /\ Interrupts("failed")
    /\ key' \in IF Run("key") THEN {None, Partial}
                ELSE IF Run("enrollment") THEN {None} ELSE {key}
    /\ database' = (database /\ ~Run("profile"))
    /\ \/ /\ Run("swap") /\ Write("runtime_settings", aside) /\ aside' = None
          /\ UNCHANGED tx
       \/ ~Run("swap") /\ UNCHANGED <<file, aside, tx>>
       \/ PartlyWritten /\ UNCHANGED aside
    /\ UNCHANGED <<manifest, registration>>

Forget == history' = [history EXCEPT !.verdict = "none"]

(* A hand changes every thing once at most.                                *)
Touches(a) ==
    /\ proc = None /\ a \notin touched /\ Cardinality(touched) < MaxEdits /\ Trouble
    /\ touched' = touched \cup {a} /\ Forget
    /\ UNCHANGED <<manifest, key, database, proc, tx, aside, faults>>

Changes(a, content) == Touches(a) /\ Write(a, content) /\ UNCHANGED registration

ByHand ==
    \/ \E a \in Artifact : file[a] # None /\ Changes(a, None)
    \/ \E p \in Peer, k \in PeerKey : Changes(p, k)
    \/ \E m \in [Peer -> PeerKey] : Changes("membership", m)
    \/ \E t \in Transport : Changes("profile", t)
    \/ \E d \in Dispatcher : Changes("dispatcher_projects", d)
    \/ \E s \in Settings : Changes("runtime_settings", s)

Unregisters ==
    /\ Touches("registration")
    /\ registration' \in {"none", "other"} \ {registration}
    /\ UNCHANGED file

(* The file that was moved aside is put back.                              *)
PutBack ==
    /\ proc = None /\ aside # None /\ file["runtime_settings"] = None
    /\ Write("runtime_settings", aside) /\ aside' = None /\ Forget
    /\ UNCHANGED <<manifest, key, database, proc, tx, registration, world>>

Init ==
    /\ manifest = None /\ key = None /\ file = [a \in Artifact |-> None]
    /\ database = FALSE /\ proc = None
    /\ history = [interrupted |-> None, verdict |-> "none", made |-> {},
                  reported |-> Nothing]
    /\ tx = [a \in Transacted |-> None] /\ aside = None /\ registration = "none"
    /\ faults = 0 /\ touched = {}

Onboards == OnboardingStep /\ UNCHANGED <<tx, aside, registration, world>>

SettingsStep ==
    \/ RecoverHash \/ RecoverTransaction \/ CannotRecover \/ ReadSettings \/ StatusEnds
    \/ ConfigureTransport \/ WriteProfile \/ RecordProfile
    \/ LogInFirst \/ ConfigureDispatcher \/ ConfigureMcp \/ Verify \/ StartRuntime
    \/ UpdateSettings \/ WriteArtifact \/ SwapArtifact \/ RecordArtifact \/ RemoveTransaction

Next ==
    \/ \E c \in Command : Enter(c)
    \/ Onboards \/ SettingsStep
    \/ Dies \/ Fails
    \/ ByHand \/ Unregisters \/ PutBack

Spec == Init /\ [][Next]_vars

-----------------------------------------------------------------------------
Step == {"manifest", "identity", "key", "enrollment", "canonical", "record identity",
         "export", "import", "enroll", "membership", "record membership", "resume",
         "report", "status", "peek", "read", "transport", "profile", "record profile",
         "dispatcher", "mcp", "verify", "runtime", "update", "write", "swap", "hash",
         "remove"}

(* The types of the variables.                                             *)
TypeOK ==
    /\ \/ manifest = None
       \/ /\ manifest.status \in {"pending", "blocked", "complete"}
          /\ manifest.local \in OwnKey \cup {None}
          /\ manifest.enrolled \in [Peer -> PeerKey \cup {None}]
          /\ \A a \in Artifact : manifest.hash[a] \in Content(a) \cup {None}
    /\ key \in OwnKey \cup {Partial, None}
    /\ \A a \in Artifact : file[a] \in Content(a) \cup {Partial, None}
    /\ database \in BOOLEAN
    /\ proc # None =>
           /\ proc.command \in Command /\ proc.step \in Step
           /\ proc.settings \in Settings \cup {None}
           /\ \/ proc.artifact = None /\ proc.content = None
              \/ proc.artifact \in Transacted /\ proc.content \in Content(proc.artifact)
    /\ history \in [interrupted : Command \cup {None},
                    verdict : {"none", "accepted", "refused", "died", "failed"},
                    made : SUBSET OwnKey,
                    reported : [key : OwnKey \cup {None}, peers : [Peer -> PeerKey \cup {None}],
                                transport : Transport \cup {None},
                                dispatcher : Dispatcher \cup {None}, mcp : BOOLEAN]]
    /\ \A a \in Transacted : tx[a] \in Transaction(a) \cup {Partial, None}
    /\ aside \in Settings \cup {None}
    /\ registration \in {"none", "ours", "other"}
    /\ faults \in 0 .. MaxTroubles
    /\ touched \subseteq Artifact \cup {"registration"} /\ Cardinality(touched) <= MaxEdits

(* export-enrollment hands out a key that the peers will trust: from then  *)
(* on no command, failure, death or change of another file makes the node  *)
(* own another key, or its manifest know another.                          *)
ExportedKeyStays ==
    LET exported == history.reported.key IN
    exported # None =>
        /\ key = exported
        /\ Local \in {None, [key |-> exported, canonical |-> TRUE]}
        /\ manifest = None \/ manifest.local \in {None, exported}

(* A command that found the onboarding complete and has read the settings. *)
ReliesOnState == proc # None /\ proc.settings # None /\ ~Name("status") /\ ~Name("verify")

(* The setting is the one that was told, or gone with the settings file    *)
(* that a hand has removed, or another one after a hand has changed the    *)
(* artifact the setting is about too.                                      *)
Keeps(now, told, gone, about) ==
    told # gone =>
        now = told \/ ("runtime_settings" \in touched /\ (now = gone \/ about \in touched))

AgreesWith(now, told) ==
    /\ Keeps(now.transport, told.transport, None, "profile")
    /\ Keeps(now.dispatcher, told.dispatcher, None, "dispatcher_projects")
    /\ Keeps(now.mcp, told.mcp, FALSE, "registration")

(* What a command told the operator is what every later command goes by,   *)
(* or it refuses: no death, failure, repetition, recovery or change by     *)
(* hand makes a runtime start, or a command configure, from other settings *)
(* or, unless a hand has changed its copy, from another key of a peer.     *)
ReportedStateHolds ==
    LET told == history.reported IN
    ReliesOnState =>
        /\ AgreesWith(proc.settings, told)
        /\ \A p \in Peer \ touched :
               told.peers[p] # None => manifest.enrolled[p] = told.peers[p]

RerunRefused == history.interrupted # None /\ history.verdict = "refused"

(* What a death or an error leaves behind that the code does not repair.   *)
HalfDone ==
    \/ manifest = None
    \/ key = Partial \/ Local = Partial \/ (key # None /\ Local = None)
    \/ file["profile"] = Partial \/ (database /\ file["profile"] = None)
    \/ \E a \in Transacted : tx[a] = Partial \/ file[a] = Partial
    \/ manifest.hash["runtime_settings"] \notin {None, file["runtime_settings"]}

(* A command that was interrupted after its checks, and is given again, is *)
(* refused only for one of the reasons HalfDone names: everything else     *)
(* that a death or an error leaves behind is picked up where it ended.     *)
RefusedRerunsAreTorn == RerunRefused /\ touched = {} => HalfDone

(* docs/npm-first-onboarding.md: "Every onboarding command is resumable.   *)
(* An exact rerun validates and reuses existing state."                    *)
EveryRerunAccepted == ~RerunRefused
=============================================================================
