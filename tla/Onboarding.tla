----------------------------- MODULE Onboarding -----------------------------
(***************************************************************************)
(* The files of one onboarding root and the commands that make a node of   *)
(* it: src/onboarding/index.ts, src/security/node-identity.ts and          *)
(* runOnboard of src/cli/index.ts.  RuntimeSettings continues this module  *)
(* with the commands that configure the node.                              *)
(*                                                                         *)
(* One command runs at a time.  Each of its steps makes at most one change *)
(* of the disk and then goes on with what it reads; it may die or meet an  *)
(* error before any of them.  A hash stands for the content it was taken   *)
(* of, a key pair for its two halves.                                      *)
(***************************************************************************)
EXTENDS Naturals

CONSTANTS
    Peer,           \* authorized_node_ids
    OwnKey,         \* key pairs this node may generate
    PeerKey,        \* public keys in the enrollments of peers
    Transport,      \* transport configurations
    Dispatcher,     \* dispatcher configurations
    None,           \* no file, hash, key or value
    Partial         \* a file whose writer died halfway

ASSUME OnboardingAssumption ==
    /\ Peer \cap {"local_enrollment", "membership", "profile",
                  "runtime_settings", "dispatcher_projects"} = {}
    /\ None \notin OwnKey \cup PeerKey \cup Transport \cup Dispatcher
    /\ Partial \notin OwnKey \cup PeerKey \cup Transport \cup Dispatcher \cup {None}

VARIABLES
    manifest,       \* onboarding-manifest.json
    key,            \* node-identity.pkcs8.pem
    file,           \* file[a]: the content of artifact a
    database,       \* whether bridge.sqlite3 is there
    proc,           \* the command that runs
    history         \* what the commands told the operator

(* A peer stands for the copy of its enrollment.                           *)
Artifact == {"local_enrollment", "membership", "profile",
             "runtime_settings", "dispatcher_projects"} \cup Peer

Settings == [transport : Transport \cup {None}, dispatcher : Dispatcher \cup {None},
             mcp : BOOLEAN]

(* What artifact a may contain.                                            *)
Content(a) ==
    CASE a = "local_enrollment" -> [key : OwnKey, canonical : BOOLEAN]
      [] a = "membership" -> [Peer -> PeerKey]
      [] a = "profile" -> Transport
      [] a = "runtime_settings" -> Settings
      [] a = "dispatcher_projects" -> Dispatcher
      [] OTHER -> PeerKey

Contents == UNION {Content(a) : a \in Artifact}

(* What a manifest may be.                                                 *)
Manifest == [status : {"pending", "blocked", "complete"}, local : OwnKey \cup {None},
             enrolled : [Peer -> PeerKey \cup {None}],
             hash : [Artifact -> Contents \cup {None}]]

ASSUME NoneAssumption == None \notin Settings /\ None \notin Manifest

NewManifest == [status |-> "pending", local |-> None,
                enrolled |-> [p \in Peer |-> None], hash |-> [a \in Artifact |-> None]]

Plain(n) == [name |-> n, peer |-> None, input |-> None]

Command ==
    {Plain(n) : n \in {"start", "export", "status", "mcp", "verify", "runtime"}}
        \cup [name : {"import"}, peer : Peer, input : PeerKey]
        \cup [name : {"transport"}, peer : {None}, input : Transport]
        \cup [name : {"dispatcher"}, peer : {None}, input : Dispatcher]

Run(step) == proc # None /\ proc.step = step

Name(n) == proc.command.name = n

GoTo(step) == proc' = [proc EXCEPT !.step = step] /\ UNCHANGED history

(* The command throws and exits with 1.                                    *)
Refuse == proc' = None /\ history' = [history EXCEPT !.verdict = "refused"]

(* The command exits with 1 but has told what is left to do.               *)
Stop == proc' = None /\ UNCHANGED history

(* The command tells of its success: reported is what it told.             *)
Accept(reported) ==
    /\ proc' = None
    /\ history' = [history EXCEPT !.interrupted = None, !.verdict = "accepted",
                                  !.reported = reported]

Record(a) == manifest' = [manifest EXCEPT !.hash[a] = file[a]]

Write(a, content) == file' = [file EXCEPT ![a] = content]

-----------------------------------------------------------------------------
(* start: startOnboarding and generateOnboardingIdentity.                  *)

CreateManifest ==
    /\ Run("manifest")
    /\ manifest' = IF manifest = None THEN NewManifest ELSE manifest
    /\ GoTo("identity")
    /\ UNCHANGED <<key, file, database>>

Local == file["local_enrollment"]

EnrollmentMissing == Local = None

NoIdentity == key = None /\ Local = None

(* The enrollment is readable, belongs to the private key and, if the      *)
(* manifest knows one, is that.                                            *)
IdentityAgrees ==
    /\ key \in OwnKey /\ Local \notin {None, Partial}
    /\ Local.key = key /\ manifest.local \in {None, key}

AdoptIdentity ==
    /\ Run("identity") /\ ~NoIdentity
    /\ \/ ~IdentityAgrees /\ Refuse
       \/ IdentityAgrees /\ ~Local.canonical /\ GoTo("canonical")
       \/ /\ IdentityAgrees /\ Local.canonical
          /\ IF manifest.local # None /\ manifest.hash["local_enrollment"] = Local
               THEN Accept(history.reported)
               ELSE GoTo("record identity")
    /\ UNCHANGED <<manifest, key, file, database>>

GenerateIdentity ==
    /\ Run("identity") /\ NoIdentity
    /\ GoTo("key")
    /\ UNCHANGED <<manifest, key, file, database>>

(* generateKeyPairSync never returns a key twice.                          *)
WriteKey ==
    /\ Run("key")
    /\ \E k \in OwnKey \ history.made :
         /\ key' = k
         /\ history' = [history EXCEPT !.made = @ \cup {k}]
    /\ proc' = [proc EXCEPT !.step = "enrollment"]
    /\ UNCHANGED <<manifest, file, database>>

WriteEnrollment ==
    /\ Run("enrollment")
    /\ Write("local_enrollment", [key |-> key, canonical |-> FALSE])
    /\ GoTo("canonical")
    /\ UNCHANGED <<manifest, key, database>>

WriteCanonical ==
    /\ Run("canonical")
    /\ Write("local_enrollment", [key |-> key, canonical |-> TRUE])
    /\ GoTo("record identity")
    /\ UNCHANGED <<manifest, key, database>>

RecordIdentity ==
    /\ Run("record identity")
    /\ manifest' = [manifest EXCEPT !.local = key, !.hash["local_enrollment"] = Local]
    /\ Accept(history.reported)
    /\ UNCHANGED <<key, file, database>>

-----------------------------------------------------------------------------
(* export-enrollment.                                                      *)

Export ==
    /\ Run("export")
    /\ IF /\ manifest.local # None /\ IdentityAgrees /\ Local.canonical
          /\ manifest.hash["local_enrollment"] = Local
         THEN Accept([history.reported EXCEPT !.key = key])
         ELSE Refuse
    /\ UNCHANGED <<manifest, key, file, database>>

-----------------------------------------------------------------------------
(* import-peer: importPublicEnrollment, then writeMembershipPolicy once    *)
(* every peer is known, then resumeOnboarding.                             *)

Imported == proc.command.peer

Enrollment == proc.command.input

(* Another key than before, or the key of another peer.  That it is the    *)
(* key of this node is left out.                                           *)
EnrollmentConflicts ==
    \/ manifest.enrolled[Imported] \notin {None, Enrollment}
    \/ \E p \in Peer \ {Imported} : manifest.enrolled[p] = Enrollment

KeepsCopy ==
    /\ file[Imported] = Enrollment /\ manifest.enrolled[Imported] # None
    /\ manifest.hash[Imported] = Enrollment

AdoptsRecordedCopy ==
    /\ file[Imported] = Enrollment /\ manifest.enrolled[Imported] = None
    /\ manifest.hash[Imported] = Enrollment

(* A copy that an interrupted import has left.                             *)
AdoptsCopy ==
    /\ file[Imported] = Enrollment /\ manifest.enrolled[Imported] = None
    /\ manifest.hash[Imported] = None

WritesCopy ==
    /\ file[Imported] = None /\ manifest.enrolled[Imported] = None
    /\ manifest.hash[Imported] = None

ImportPeer ==
    /\ Run("import")
    /\ \/ (EnrollmentConflicts \/ ~(KeepsCopy \/ AdoptsCopy \/ WritesCopy))
             /\ Refuse /\ UNCHANGED file
       \/ ~EnrollmentConflicts /\ KeepsCopy /\ GoTo("membership") /\ UNCHANGED file
       \/ ~EnrollmentConflicts /\ AdoptsCopy /\ GoTo("enroll") /\ UNCHANGED file
       \/ ~EnrollmentConflicts /\ WritesCopy /\ GoTo("enroll") /\ Write(Imported, Enrollment)
    /\ UNCHANGED <<manifest, key, database>>

RecordPeer ==
    /\ Run("enroll")
    /\ manifest' = [manifest EXCEPT !.enrolled[Imported] = Enrollment,
                                    !.hash[Imported] = file[Imported]]
    /\ GoTo("membership")
    /\ UNCHANGED <<key, file, database>>

AllEnrolled == \A p \in Peer : manifest.enrolled[p] # None

(* buildMembershipPolicy: the enrollments the manifest holds.              *)
Policy == manifest.enrolled

WriteMembership ==
    LET found == file["membership"]
        known == manifest.hash["membership"] IN
    /\ Run("membership")
    /\ \/ ~AllEnrolled /\ GoTo("resume") /\ UNCHANGED file
       \/ AllEnrolled /\ found = Policy /\ known = Policy /\ GoTo("resume") /\ UNCHANGED file
       \/ AllEnrolled /\ found = Policy /\ known = None /\ GoTo("record membership") /\ UNCHANGED file
       \/ AllEnrolled /\ found = None /\ known = None /\ GoTo("record membership") /\ Write("membership", Policy)
       \/ /\ AllEnrolled /\ ~(found = Policy /\ known \in {None, Policy})
          /\ ~(found = None /\ known = None)
          /\ Refuse /\ UNCHANGED file
    /\ UNCHANGED <<manifest, key, database>>

RecordMembership ==
    /\ Run("record membership")
    /\ Record("membership")
    /\ GoTo("resume")
    /\ UNCHANGED <<key, file, database>>

-----------------------------------------------------------------------------
(* statusOnboarding and resumeOnboarding.                                  *)

HashesMatch == \A a \in Artifact : manifest.hash[a] \in {None, file[a]}

CopiesMatch == \A p \in Peer : file[p] \in {None, manifest.enrolled[p]}

(* No issue is found.                                                      *)
Intact ==
    /\ HashesMatch /\ CopiesMatch
    /\ file["membership"] \in {None, Policy}
    /\ manifest.status = "complete" =>
           \A a \in {"local_enrollment", "membership"} \cup Peer : file[a] # None
    /\ manifest.hash["runtime_settings"] # None => file["profile"] # None /\ database
    /\ manifest.local # None => IdentityAgrees /\ Local.canonical

Status ==
    IF ~Intact THEN "blocked"
    ELSE IF manifest.local # None /\ AllEnrolled
            /\ \A a \in {"local_enrollment", "membership"} \cup Peer : file[a] # None
         THEN "complete" ELSE "pending"

(* requireCompleteOnboarding, import-peer's last call, verify.             *)
Resume ==
    /\ Run("resume")
    /\ manifest' = [manifest EXCEPT !.status = Status]
    /\ IF Name("import")
         THEN Accept([history.reported EXCEPT !.peers[Imported] = Enrollment])
         ELSE IF Name("verify") \/ Status = "complete" THEN GoTo("read") ELSE Refuse
    /\ UNCHANGED <<key, file, database>>

ReportStatus ==
    /\ Run("report")
    /\ IF Intact THEN GoTo("read") ELSE Stop
    /\ UNCHANGED <<manifest, key, file, database>>

OnboardingStep ==
    \/ CreateManifest \/ AdoptIdentity \/ GenerateIdentity \/ WriteKey
    \/ WriteEnrollment \/ WriteCanonical \/ RecordIdentity
    \/ Export
    \/ ImportPeer \/ RecordPeer \/ WriteMembership \/ RecordMembership
    \/ Resume \/ ReportStatus
=============================================================================
