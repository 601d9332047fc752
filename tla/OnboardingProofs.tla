--------------------------- MODULE OnboardingProofs ---------------------------
(* Theorems about Onboarding and RuntimeSettings, for every value of their *)
(* constants.                                                              *)
EXTENDS RuntimeSettings, FiniteSetTheorems, TLAPS

-----------------------------------------------------------------------------
(* The inductive invariant.  First the types, as sets of values.           *)

Reported == [key : OwnKey \cup {None}, peers : [Peer -> PeerKey \cup {None}],
             transport : Transport \cup {None}, dispatcher : Dispatcher \cup {None},
             mcp : BOOLEAN]

Histories == [interrupted : Command \cup {None},
              verdict : {"none", "accepted", "refused", "died", "failed"},
              made : SUBSET OwnKey, reported : Reported]

Processes == [command : Command, step : Step, settings : Settings \cup {None},
              artifact : Transacted \cup {None}, content : Dispatcher \cup Settings \cup {None}]

IsManifest(m) ==
    /\ m = [status |-> m.status, local |-> m.local, enrolled |-> m.enrolled, hash |-> m.hash]
    /\ m.status \in {"pending", "blocked", "complete"}
    /\ m.local \in OwnKey \cup {None}
    /\ m.enrolled \in [Peer -> PeerKey \cup {None}]
    /\ m.hash = [a \in Artifact |-> m.hash[a]]
    /\ \A a \in Artifact : m.hash[a] \in Content(a) \cup {None}

ManifestFits == manifest = None \/ IsManifest(manifest)

FileFits ==
    /\ file = [a \in Artifact |-> file[a]]
    /\ \A a \in Artifact : file[a] \in Content(a) \cup {Partial, None}

TransactionsFit ==
    /\ tx = [a \in Transacted |-> tx[a]]
    /\ \A a \in Transacted : tx[a] \in Transaction(a) \cup {Partial, None}

RestFits ==
    /\ key \in OwnKey \cup {Partial, None}
    /\ database \in BOOLEAN
    /\ aside \in Settings \cup {None}
    /\ registration \in {"none", "ours", "other"}

HistoryFits == history \in Histories

TroubleFits ==
    /\ faults \in 0 .. MaxTroubles
    /\ touched \subseteq Artifact \cup {"registration"}
    /\ IsFiniteSet(touched) /\ Cardinality(touched) <= MaxEdits

Typed == ManifestFits /\ FileFits /\ TransactionsFit /\ RestFits /\ HistoryFits /\ TroubleFits

(* What is on the disk goes with what was reported: a hash that the        *)
(* manifest knows, the two sides of a transaction, and the absence of the  *)
(* settings unless a transaction that replaces them is unfinished.         *)
Trusted(s) == AgreesWith(s, history.reported)

HashTrusted ==
    manifest # None /\ manifest.hash["runtime_settings"] # None =>
        Trusted(manifest.hash["runtime_settings"])

TransactionTrusted ==
    tx["runtime_settings"] \notin {None, Partial} =>
        /\ Trusted(tx["runtime_settings"].target)
        /\ tx["runtime_settings"].previous = None => Trusted(Base)

Replacing ==
    \/ tx["runtime_settings"] = Partial
    \/ tx["runtime_settings"] # None /\ tx["runtime_settings"].previous # None

AbsenceTrusted == file["runtime_settings"] = None => Trusted(Base) \/ Replacing

FilesTrusted ==
    LET told == history.reported IN
    /\ told.transport # None => file["profile"] = told.transport \/ "profile" \in touched
    /\ told.dispatcher # None =>
           file["dispatcher_projects"] = told.dispatcher \/ "dispatcher_projects" \in touched
    /\ \A p \in Peer \ touched : told.peers[p] # None => file[p] = told.peers[p]

DiskTrusted == HashTrusted /\ TransactionTrusted /\ AbsenceTrusted /\ FilesTrusted

(* Then what a command knows at each of its steps.                         *)
Writing == {"write", "swap", "hash", "remove"}

Configuring == {"transport", "profile", "record profile", "dispatcher", "mcp", "update"}

Serving == Writing \cup Configuring \cup {"status", "verify", "runtime"}

Stable(s) ==
    \/ /\ file["runtime_settings"] = None /\ manifest.hash["runtime_settings"] = None
       /\ s = Base
    \/ /\ file["runtime_settings"] # None /\ file["runtime_settings"] = s
       /\ manifest.hash["runtime_settings"] = s /\ Bound(s)

IdentityFits ==
    /\ Run("key") => NoIdentity
    /\ Run("enrollment") \/ Run("canonical") \/ Run("record identity") => key \in OwnKey
    /\ Run("enrollment") => Local = None /\ history.reported.key = None
    /\ Run("record identity") => Local \in Content("local_enrollment")

ImportFits ==
    /\ proc.step \in {"import", "enroll", "membership", "record membership"} => Name("import")
    /\ Name("import") /\ proc.step \in {"enroll", "membership", "record membership", "resume"} =>
           file[Imported] = Enrollment
    /\ Run("record membership") => file["membership"] \in [Peer -> PeerKey]

NamesFit ==
    /\ Run("report") \/ Run("status") => Name("status")
    /\ Run("peek") \/ Run("mcp") => Name("mcp")
    /\ Run("resume") =>
           proc.command.name \in {"import", "transport", "dispatcher", "mcp", "verify", "runtime"}
    /\ Run("read") =>
           proc.command.name \in {"status", "transport", "dispatcher", "mcp", "verify", "runtime"}
    /\ Run("transport") \/ Run("profile") \/ Run("record profile") => Name("transport")
    /\ Run("dispatcher") => Name("dispatcher")
    /\ proc.step \in Writing \cup {"update"} =>
           proc.command.name \in {"transport", "dispatcher", "mcp"}

SettingsFit ==
    /\ proc.step \in Serving => proc.settings \in Settings /\ Trusted(proc.settings)
    /\ proc.step \notin Serving => proc.settings = None
    /\ proc.step \in Serving \cup {"read"} /\ ~Name("status") /\ ~Name("verify") =>
           \A p \in Peer : manifest.enrolled[p] = file[p]

ConfigurationFits ==
    /\ proc.step \in Configuring => Stable(proc.settings) /\ tx["runtime_settings"] = None
    /\ Run("profile") => file["profile"] = None /\ proc.settings.transport = None
    /\ Name("transport") /\ proc.step \in Writing \cup {"record profile", "update"} =>
           /\ file["profile"] = proc.command.input
           /\ proc.settings.transport \in {None, proc.command.input}
    /\ Name("dispatcher") /\ proc.step \in Writing \cup {"update"} =>
           /\ proc.settings.dispatcher = None
           /\ Run("update") \/ proc.artifact = "runtime_settings" =>
                  file["dispatcher_projects"] = proc.command.input

WritingFits ==
    proc.step \in Writing =>
        /\ proc.artifact \in Transacted /\ proc.content \in Content(proc.artifact)
        /\ proc.artifact = "dispatcher_projects" =>
               /\ Name("dispatcher") /\ proc.content = proc.command.input
               /\ Stable(proc.settings) /\ tx["runtime_settings"] = None
        /\ proc.artifact = "runtime_settings" =>
               /\ tx["runtime_settings"] \in Transaction("runtime_settings")
               /\ tx["runtime_settings"].target = proc.content
               /\ AgreesWith(proc.content, Told)
               /\ Run("write") => file["runtime_settings"] = tx["runtime_settings"].previous
        /\ Run("swap") =>
               /\ proc.artifact = "runtime_settings"
               /\ tx["runtime_settings"].previous # None
        /\ Run("hash") \/ Run("remove") => file[proc.artifact] = proc.content
        /\ Run("remove") => manifest.hash[proc.artifact] = proc.content

ProcFits ==
    proc # None =>
        /\ proc \in Processes
        /\ \/ proc.artifact = None /\ proc.content = None
           \/ proc.artifact \in Transacted /\ proc.content \in Content(proc.artifact)
        /\ ~Run("manifest") => manifest # None
        /\ IdentityFits /\ ImportFits /\ NamesFit
        /\ SettingsFit /\ ConfigurationFits /\ WritingFits

OnboardingInv == Typed /\ DiskTrusted /\ ProcFits /\ ExportedKeyStays

-----------------------------------------------------------------------------
(* What the artifacts may contain, and what a command consists of.         *)

LEMMA ContentOf ==
    /\ Content("local_enrollment") = [key : OwnKey, canonical : BOOLEAN]
    /\ Content("membership") = [Peer -> PeerKey]
    /\ Content("profile") = Transport
    /\ Content("runtime_settings") = Settings
    /\ Content("dispatcher_projects") = Dispatcher
    /\ \A p \in Peer : Content(p) = PeerKey
BY OnboardingAssumption DEF Content

LEMMA CommandParts ==
    ASSUME NEW c \in Command
    PROVE  /\ c.name \in {"start", "export", "import", "status", "transport", "dispatcher",
                          "mcp", "verify", "runtime"}
           /\ c.name = "import" => c.peer \in Peer /\ c.input \in PeerKey
           /\ c.name = "transport" => c.input \in Transport
           /\ c.name = "dispatcher" => c.input \in Dispatcher
BY DEF Command, Plain

(* None and Partial are no keys and no configurations.                     *)
LEMMA NoneIsNothing ==
    /\ None \notin OwnKey /\ None \notin PeerKey /\ None \notin Transport
    /\ None \notin Dispatcher /\ None \notin Settings
    /\ Partial \notin OwnKey /\ Partial \notin PeerKey /\ Partial \notin Transport
    /\ Partial \notin Dispatcher /\ Partial # None
    /\ None \notin Transaction("runtime_settings") /\ Partial \notin Transaction("runtime_settings")
    /\ None \notin Transaction("dispatcher_projects")
    /\ Partial \notin Transaction("dispatcher_projects")
BY OnboardingAssumption, NoneAssumption, TransactionAssumption DEF Transacted

LEMMA NoneIsNoManifest ==
    ASSUME NEW m, IsManifest(m)
    PROVE  m # None
<1>1. \A a \in Artifact : Content(a) \subseteq Contents
  BY DEF Contents
<1>2. m.hash \in [Artifact -> Contents \cup {None}]
  BY <1>1 DEF IsManifest
<1>3. m \in Manifest
  BY <1>2 DEF IsManifest, Manifest
<1> QED BY <1>3, NoneAssumption

LEMMA PeersAreArtifacts ==
    /\ Peer \subseteq Artifact
    /\ \A p \in Peer : p \notin {"local_enrollment", "membership", "profile",
                                 "runtime_settings", "dispatcher_projects"}
    /\ {"local_enrollment", "membership", "profile", "runtime_settings",
        "dispatcher_projects"} \subseteq Artifact
BY OnboardingAssumption DEF Artifact

(* How a command ends and goes on.                                         *)
LEMMA Ends ==
    ASSUME HistoryFits, Refuse \/ Stop \/ Accept(history.reported)
    PROVE  HistoryFits' /\ proc' = None /\ history'.reported = history.reported
BY DEF HistoryFits, Histories, Refuse, Stop, Accept

LEMMA Tells ==
    ASSUME HistoryFits, NEW r \in Reported, Accept(r)
    PROVE  HistoryFits' /\ proc' = None /\ history'.reported = r
BY DEF HistoryFits, Histories, Accept

LEMMA Goes ==
    ASSUME ProcFits, proc # None, NEW s \in Step, GoTo(s)
    PROVE  /\ proc' \in Processes /\ proc'.step = s
           /\ proc'.command = proc.command /\ proc'.settings = proc.settings
           /\ proc'.artifact = proc.artifact /\ proc'.content = proc.content
           /\ history' = history
BY DEF ProcFits, Processes, GoTo

(* What keeps the types of the variables, one conjunct at a time.          *)
LEMMA TypesStay ==
    /\ ManifestFits /\ manifest' = manifest => ManifestFits'
    /\ FileFits /\ file' = file => FileFits'
    /\ TransactionsFit /\ tx' = tx => TransactionsFit'
    /\ RestFits /\ UNCHANGED <<key, database, aside, registration>> => RestFits'
    /\ HistoryFits /\ history' = history => HistoryFits'
    /\ TroubleFits /\ UNCHANGED world => TroubleFits'
<1>1. ManifestFits /\ manifest' = manifest => ManifestFits'
  BY DEF ManifestFits, IsManifest
<1>2. FileFits /\ file' = file => FileFits'
  BY DEF FileFits
<1>3. TransactionsFit /\ tx' = tx => TransactionsFit'
  BY DEF TransactionsFit
<1>4. RestFits /\ UNCHANGED <<key, database, aside, registration>> => RestFits'
  BY DEF RestFits
<1>5. HistoryFits /\ history' = history => HistoryFits'
  BY DEF HistoryFits
<1>6. TroubleFits /\ UNCHANGED world => TroubleFits'
  BY DEF TroubleFits, world
<1> QED BY <1>1, <1>2, <1>3, <1>4, <1>5, <1>6

(* What was told of the settings stays; a hand may have changed more.      *)
ToldStays ==
    /\ touched \subseteq touched'
    /\ history'.reported.transport = history.reported.transport
    /\ history'.reported.dispatcher = history.reported.dispatcher
    /\ history'.reported.mcp = history.reported.mcp

LEMMA TrustStays ==
    ASSUME ToldStays, NEW s, Trusted(s)
    PROVE  Trusted(s)'
BY DEF ToldStays, Trusted, AgreesWith, Keeps

(* So the parts of DiskTrusted stay, each with what it is about.           *)
LEMMA HashStays ==
    ASSUME HashTrusted, ToldStays,
           manifest' # None /\ manifest'.hash["runtime_settings"] # None =>
               /\ manifest # None
               /\ manifest'.hash["runtime_settings"] = manifest.hash["runtime_settings"]
    PROVE  HashTrusted'
BY DEF HashTrusted, ToldStays, Trusted, AgreesWith, Keeps

LEMMA HashKnown ==
    ASSUME NEW s, Trusted(s), ToldStays, manifest'.hash["runtime_settings"] = s
    PROVE  HashTrusted'
BY DEF HashTrusted, ToldStays, Trusted, AgreesWith, Keeps

LEMMA TransactionStays ==
    ASSUME TransactionTrusted, ToldStays,
           tx'["runtime_settings"] \in {tx["runtime_settings"], None, Partial}
    PROVE  TransactionTrusted'
<1>1. Trusted(Base) => Trusted(Base)'
  BY DEF ToldStays, Trusted, AgreesWith, Keeps, Base
<1>2. CASE tx'["runtime_settings"] \in {None, Partial}
  BY <1>2 DEF TransactionTrusted
<1>3. CASE tx'["runtime_settings"] = tx["runtime_settings"]
  <2>1. Trusted(tx["runtime_settings"].target) => Trusted(tx["runtime_settings"].target)'
    BY <1>3 DEF ToldStays, Trusted, AgreesWith, Keeps
  <2> QED BY <1>1, <1>3, <2>1 DEF TransactionTrusted
<1> QED BY <1>2, <1>3

LEMMA AbsenceStays ==
    ASSUME AbsenceTrusted, ToldStays,
           file'["runtime_settings"] = None =>
               /\ file["runtime_settings"] = None
               /\ tx'["runtime_settings"] \in {tx["runtime_settings"], Partial}
    PROVE  AbsenceTrusted'
<1>1. Trusted(Base) => Trusted(Base)'
  BY DEF ToldStays, Trusted, AgreesWith, Keeps, Base
<1> QED BY <1>1 DEF AbsenceTrusted, Replacing

LEMMA BaseKnown ==
    ASSUME ToldStays, file'["runtime_settings"] = None => Trusted(Base)
    PROVE  AbsenceTrusted'
<1>1. Trusted(Base) => Trusted(Base)'
  BY DEF ToldStays, Trusted, AgreesWith, Keeps, Base
<1> QED BY <1>1 DEF AbsenceTrusted

LEMMA FilesStay ==
    ASSUME FilesTrusted, history'.reported = history.reported, touched \subseteq touched',
           \A a \in {"profile", "dispatcher_projects"} \cup Peer :
               file'[a] = file[a] \/ file[a] = None \/ a \in touched'
    PROVE  FilesTrusted'
BY DEF FilesTrusted

LEMMA DiskStays ==
    ASSUME DiskTrusted, history'.reported = history.reported, touched \subseteq touched',
           manifest' # None /\ manifest'.hash["runtime_settings"] # None =>
               /\ manifest # None
               /\ manifest'.hash["runtime_settings"] = manifest.hash["runtime_settings"],
           tx'["runtime_settings"] \in {tx["runtime_settings"], Partial},
           file'["runtime_settings"] = None => file["runtime_settings"] = None,
           \A a \in {"profile", "dispatcher_projects"} \cup Peer :
               file'[a] = file[a] \/ file[a] = None \/ a \in touched'
    PROVE  DiskTrusted'
<1>1. ToldStays
  BY DEF ToldStays
<1> QED BY <1>1, HashStays, TransactionStays, AbsenceStays, FilesStay DEF DiskTrusted

(* Nothing on the disk and nothing reported changes.                       *)
LEMMA QuietStep ==
    ASSUME OnboardingInv, HistoryFits', ProcFits', history'.reported = history.reported,
           UNCHANGED <<manifest, key, file, database, tx, aside, registration, world>>
    PROVE  OnboardingInv'
<1>1. Typed'
  BY TypesStay DEF OnboardingInv, Typed, world
<1>2. DiskTrusted'
  BY DiskStays DEF OnboardingInv, world
<1>3. ExportedKeyStays'
  BY DEF OnboardingInv, ExportedKeyStays, Local
<1> QED BY <1>1, <1>2, <1>3 DEF OnboardingInv

(* A command that ends without a word changes nothing.                     *)
LEMMA EndingStep ==
    ASSUME OnboardingInv, Refuse \/ Stop \/ Accept(history.reported),
           UNCHANGED <<manifest, key, file, database, tx, aside, registration, world>>
    PROVE  OnboardingInv'
<1>1. HistoryFits' /\ proc' = None /\ history'.reported = history.reported
  BY Ends DEF OnboardingInv, Typed
<1>2. ProcFits'
  BY <1>1 DEF ProcFits
<1> QED BY <1>1, <1>2, QuietStep

-----------------------------------------------------------------------------
(* The steps of start.                                                     *)

LEMMA CreateManifestKeeps ==
    ASSUME OnboardingInv, CreateManifest, UNCHANGED <<tx, aside, registration, world>>
    PROVE  OnboardingInv'
<1> USE NoneIsNothing
<1>1. /\ proc' \in Processes /\ proc'.step = "identity" /\ proc'.command = proc.command
      /\ proc'.settings = proc.settings /\ proc'.artifact = proc.artifact
      /\ proc'.content = proc.content /\ history' = history
  BY Goes DEF OnboardingInv, CreateManifest, Run, Step
<1>2. /\ IsManifest(manifest') /\ manifest' # None
      /\ manifest # None => manifest' = manifest
  BY NoneIsNoManifest
     DEF CreateManifest, NewManifest, IsManifest, OnboardingInv, Typed, ManifestFits
<1>3. manifest = None => /\ manifest'.local = None
                         /\ manifest'.hash["runtime_settings"] = None
  BY PeersAreArtifacts DEF CreateManifest, NewManifest
<1>4. Typed'
  <2>1. ManifestFits'
    BY <1>2 DEF ManifestFits
  <2> QED BY <1>1, <2>1, TypesStay DEF OnboardingInv, Typed, world, CreateManifest
<1>5. DiskTrusted'
  BY <1>1, <1>2, <1>3, DiskStays DEF OnboardingInv, world, CreateManifest
<1>6. ProcFits'
  BY <1>1, <1>2 DEF OnboardingInv, CreateManifest, ProcFits, IdentityFits, ImportFits, NamesFit,
         SettingsFit, ConfigurationFits, WritingFits, Run, Name, Serving, Configuring, Writing
<1>7. ExportedKeyStays'
  BY <1>1, <1>2, <1>3 DEF OnboardingInv, CreateManifest, ExportedKeyStays, Local
<1> QED BY <1>4, <1>5, <1>6, <1>7 DEF OnboardingInv

LEMMA AdoptIdentityKeeps ==
    ASSUME OnboardingInv, AdoptIdentity, UNCHANGED <<tx, aside, registration, world>>
    PROVE  OnboardingInv'
<1>1. CASE Refuse \/ Accept(history.reported)
  BY <1>1, EndingStep DEF AdoptIdentity
<1>2. CASE IdentityAgrees /\ \E s \in {"canonical", "record identity"} :
               GoTo(s) /\ (s = "record identity" => Local.canonical)
  <2>1. PICK s \in {"canonical", "record identity"} : GoTo(s)
    BY <1>2
  <2>2. /\ proc' \in Processes /\ proc'.step = s /\ proc'.command = proc.command
        /\ proc'.settings = proc.settings /\ proc'.artifact = proc.artifact
        /\ proc'.content = proc.content /\ history' = history
    BY <2>1, Goes DEF OnboardingInv, AdoptIdentity, Run, Step
  <2>3. key \in OwnKey /\ Local \in Content("local_enrollment")
    BY <1>2, PeersAreArtifacts DEF IdentityAgrees, OnboardingInv, Typed, FileFits, Local
  <2>4. ProcFits'
    BY <2>2, <2>3 DEF OnboardingInv, AdoptIdentity, ProcFits, IdentityFits, ImportFits, NamesFit,
         SettingsFit, ConfigurationFits, WritingFits, Run, Name, Serving, Configuring, Writing,
         Local, IsManifest
  <2> QED BY <2>2, <2>4, QuietStep DEF OnboardingInv, Typed, HistoryFits, AdoptIdentity
<1> QED BY <1>1, <1>2 DEF AdoptIdentity

LEMMA GenerateIdentityKeeps ==
    ASSUME OnboardingInv, GenerateIdentity, UNCHANGED <<tx, aside, registration, world>>
    PROVE  OnboardingInv'
<1>1. /\ proc' \in Processes /\ proc'.step = "key" /\ proc'.command = proc.command
      /\ proc'.settings = proc.settings /\ proc'.artifact = proc.artifact
      /\ proc'.content = proc.content /\ history' = history
  BY Goes DEF OnboardingInv, GenerateIdentity, Run, Step
<1>2. ProcFits'
  BY <1>1 DEF OnboardingInv, GenerateIdentity, NoIdentity, Local, ProcFits, IdentityFits, ImportFits,
       NamesFit, SettingsFit, ConfigurationFits, WritingFits, Run, Name, Serving, Configuring,
       Writing, IsManifest
<1> QED BY <1>1, <1>2, QuietStep DEF OnboardingInv, Typed, HistoryFits, GenerateIdentity

LEMMA WriteKeyKeeps ==
    ASSUME OnboardingInv, WriteKey, UNCHANGED <<tx, aside, registration, world>>
    PROVE  OnboardingInv'
<1> USE NoneIsNothing
<1>1. PICK k \in OwnKey \ history.made :
          key' = k /\ history' = [history EXCEPT !.made = @ \cup {k}]
  BY DEF WriteKey
<1>2. HistoryFits' /\ history'.reported = history.reported
  BY <1>1 DEF OnboardingInv, Typed, HistoryFits, Histories
<1>3. history.reported.key = None /\ Local = None
  <2>1. key = None /\ NoIdentity
    BY DEF OnboardingInv, ProcFits, IdentityFits, Run, WriteKey, NoIdentity
  <2>2. history.reported.key \in OwnKey \cup {None}
    BY DEF OnboardingInv, Typed, HistoryFits, Histories, Reported
  <2> QED BY <2>1, <2>2 DEF OnboardingInv, ExportedKeyStays, NoIdentity
<1>4. /\ proc' \in Processes /\ proc'.step = "enrollment" /\ proc'.command = proc.command
      /\ proc'.settings = proc.settings /\ proc'.artifact = proc.artifact
      /\ proc'.content = proc.content
  BY DEF OnboardingInv, ProcFits, Processes, WriteKey, Run, Step
<1>5. Typed'
  <2>1. RestFits'
    BY <1>1 DEF OnboardingInv, Typed, RestFits, WriteKey
  <2> QED BY <1>2, <2>1, TypesStay DEF OnboardingInv, Typed, world, WriteKey
<1>6. DiskTrusted'
  BY <1>2, DiskStays DEF OnboardingInv, world, WriteKey
<1>7. ProcFits'
  BY <1>1, <1>2, <1>3, <1>4 DEF OnboardingInv, WriteKey, ProcFits, IdentityFits, ImportFits, NamesFit,
         SettingsFit, ConfigurationFits, WritingFits, Run, Name, Serving, Configuring, Writing,
         IsManifest, Local
<1>8. ExportedKeyStays'
  BY <1>2, <1>3 DEF ExportedKeyStays
<1> QED BY <1>5, <1>6, <1>7, <1>8 DEF OnboardingInv

(* One file is written.                                                    *)
LEMMA Writes ==
    ASSUME Typed, NEW a \in Artifact, NEW c \in Content(a) \cup {Partial, None}, Write(a, c),
           HistoryFits', aside' \in Settings \cup {None},
           UNCHANGED <<manifest, key, database, tx, registration, world>>
    PROVE  /\ Typed' /\ file'[a] = c
           /\ \A b \in Artifact \ {a} : file'[b] = file[b]
<1>1. FileFits' /\ file'[a] = c /\ \A b \in Artifact \ {a} : file'[b] = file[b]
  BY DEF Typed, FileFits, Write
<1>2. RestFits'
  BY DEF Typed, RestFits
<1>3. Typed'
  BY <1>1, <1>2, TypesStay DEF Typed, world
<1> QED BY <1>1, <1>3

(* The files that the settings are about stay, and so does what the        *)
(* manifest and the transactions say of the settings.                      *)
LEMMA OtherFile ==
    ASSUME DiskTrusted, history'.reported = history.reported, UNCHANGED <<tx, world>>,
           manifest' # None => /\ manifest # None
                               /\ manifest'.hash["runtime_settings"]
                                      = manifest.hash["runtime_settings"],
           \A a \in {"profile", "runtime_settings", "dispatcher_projects"} \cup Peer :
               file'[a] = file[a]
    PROVE  DiskTrusted'
BY DiskStays DEF world

LEMMA WriteEnrollmentKeeps ==
    ASSUME OnboardingInv, WriteEnrollment, UNCHANGED <<tx, aside, registration, world>>
    PROVE  OnboardingInv'
<1> USE NoneIsNothing
<1>1. /\ proc' \in Processes /\ proc'.step = "canonical" /\ proc'.command = proc.command
      /\ proc'.settings = proc.settings /\ proc'.artifact = proc.artifact
      /\ proc'.content = proc.content /\ history' = history
  BY Goes DEF OnboardingInv, WriteEnrollment, Run, Step
<1>2. key \in OwnKey /\ history.reported.key = None
  BY DEF OnboardingInv, ProcFits, IdentityFits, Run, WriteEnrollment
<1>3. [key |-> key, canonical |-> FALSE] \in Content("local_enrollment")
  BY <1>2, ContentOf
<1>4. /\ Typed' /\ file'["local_enrollment"] = [key |-> key, canonical |-> FALSE]
      /\ \A b \in Artifact \ {"local_enrollment"} : file'[b] = file[b]
  BY <1>1, <1>3, Writes, PeersAreArtifacts
     DEF WriteEnrollment, OnboardingInv, Typed, HistoryFits, RestFits
<1>5. DiskTrusted'
  BY <1>1, <1>4, OtherFile, PeersAreArtifacts DEF WriteEnrollment, OnboardingInv, Typed
<1>6. ProcFits'
  BY <1>1, <1>2 DEF OnboardingInv, WriteEnrollment, ProcFits, IdentityFits, ImportFits, NamesFit,
         SettingsFit, ConfigurationFits, WritingFits, Run, Name, Serving, Configuring, Writing,
         IsManifest
<1>7. ExportedKeyStays'
  BY <1>1, <1>2 DEF ExportedKeyStays
<1> QED BY <1>4, <1>5, <1>6, <1>7 DEF OnboardingInv

LEMMA WriteCanonicalKeeps ==
    ASSUME OnboardingInv, WriteCanonical, UNCHANGED <<tx, aside, registration, world>>
    PROVE  OnboardingInv'
<1> USE NoneIsNothing
<1> DEFINE enrollment == [key |-> key, canonical |-> TRUE]
<1>1. /\ proc' \in Processes /\ proc'.step = "record identity" /\ proc'.command = proc.command
      /\ proc'.settings = proc.settings /\ proc'.artifact = proc.artifact
      /\ proc'.content = proc.content /\ history' = history
  BY Goes DEF OnboardingInv, WriteCanonical, Run, Step
<1>2. key \in OwnKey
  BY DEF OnboardingInv, ProcFits, IdentityFits, Run, WriteCanonical
<1>3. enrollment \in Content("local_enrollment")
  BY <1>2, ContentOf
<1>4. /\ Typed' /\ file'["local_enrollment"] = enrollment
      /\ \A b \in Artifact \ {"local_enrollment"} : file'[b] = file[b]
  BY <1>1, <1>3, Writes, PeersAreArtifacts
     DEF WriteCanonical, OnboardingInv, Typed, HistoryFits, RestFits
<1>5. DiskTrusted'
  BY <1>1, <1>4, OtherFile, PeersAreArtifacts DEF WriteCanonical, OnboardingInv, Typed
<1>6. ProcFits'
  BY <1>1, <1>2, <1>3, <1>4
     DEF OnboardingInv, WriteCanonical, ProcFits, IdentityFits, ImportFits, NamesFit, SettingsFit,
         ConfigurationFits, WritingFits, Run, Name, Serving, Configuring, Writing, IsManifest, Local
<1>7. ExportedKeyStays'
  BY <1>1, <1>4 DEF ExportedKeyStays, OnboardingInv, WriteCanonical, Local
<1> QED BY <1>4, <1>5, <1>6, <1>7 DEF OnboardingInv

(* A hash of the manifest is set, and maybe more of it.                    *)
LEMMA Records ==
    ASSUME Typed, NEW a \in Artifact, IsManifest(manifest'), HistoryFits',
           manifest # None, manifest'.hash = [manifest.hash EXCEPT ![a] = file[a]],
           UNCHANGED <<key, file, database, tx, aside, registration, world>>
    PROVE  /\ Typed'
           /\ \A b \in Artifact \ {a} : manifest'.hash[b] = manifest.hash[b]
<1>1. Typed'
  <2>1. ManifestFits'
    BY DEF ManifestFits
  <2> QED BY <2>1, TypesStay DEF Typed, world
<1> QED BY <1>1 DEF Typed, ManifestFits, IsManifest

LEMMA RecordIdentityKeeps ==
    ASSUME OnboardingInv, RecordIdentity, UNCHANGED <<tx, aside, registration, world>>
    PROVE  OnboardingInv'
<1> USE NoneIsNothing
<1>1. HistoryFits' /\ proc' = None /\ history'.reported = history.reported
  BY Ends DEF OnboardingInv, Typed, RecordIdentity
<1>2. key \in OwnKey /\ Local \in Content("local_enrollment") /\ IsManifest(manifest)
  BY DEF OnboardingInv, ProcFits, IdentityFits, RecordIdentity, Run, Typed, ManifestFits
<1>3. /\ manifest # None /\ IsManifest(manifest') /\ manifest'.local = key
      /\ manifest'.hash = [manifest.hash EXCEPT !["local_enrollment"] = file["local_enrollment"]]
  BY <1>2, PeersAreArtifacts
     DEF RecordIdentity, IsManifest, Local, OnboardingInv, ProcFits, Run, Typed, ManifestFits
<1>4. /\ Typed'
      /\ \A b \in Artifact \ {"local_enrollment"} : manifest'.hash[b] = manifest.hash[b]
  BY <1>1, <1>3, Records, PeersAreArtifacts DEF OnboardingInv, RecordIdentity
<1>5. DiskTrusted'
  BY <1>1, <1>3, <1>4, OtherFile, PeersAreArtifacts DEF RecordIdentity, OnboardingInv
<1>6. ProcFits' /\ ExportedKeyStays'
  BY <1>1, <1>2, <1>3 DEF ExportedKeyStays, OnboardingInv, RecordIdentity, ProcFits, Local
<1> QED BY <1>4, <1>5, <1>6 DEF OnboardingInv

-----------------------------------------------------------------------------
(* export-enrollment and import-peer.                                      *)

LEMMA ExportKeeps ==
    ASSUME OnboardingInv, Export, UNCHANGED <<tx, aside, registration, world>>
    PROVE  OnboardingInv'
<1> USE NoneIsNothing
<1> DEFINE told == [history.reported EXCEPT !.key = key]
<1>1. CASE Refuse
  BY <1>1, EndingStep DEF Export
<1>2. CASE /\ manifest.local # None /\ IdentityAgrees /\ Local.canonical
           /\ Accept(told)
  <2>1. told \in Reported /\ told.key = key
    BY <1>2 DEF OnboardingInv, Typed, HistoryFits, Histories, Reported, IdentityAgrees
  <2>2. HistoryFits' /\ proc' = None /\ history'.reported = told
    BY <1>2, <2>1, Tells DEF OnboardingInv, Typed
  <2>3. Local = [key |-> key, canonical |-> TRUE] /\ manifest.local \in {None, key}
    <3>1. Local \in [key : OwnKey, canonical : BOOLEAN]
      BY <1>2, ContentOf, PeersAreArtifacts
         DEF IdentityAgrees, OnboardingInv, Typed, FileFits, Local
    <3> QED BY <1>2, <3>1 DEF IdentityAgrees
  <2>4. Typed'
    BY <2>2, TypesStay DEF OnboardingInv, Typed, world, Export
  <2>5. DiskTrusted'
    <3>1. /\ told.transport = history.reported.transport
          /\ told.dispatcher = history.reported.dispatcher
          /\ told.mcp = history.reported.mcp /\ told.peers = history.reported.peers
      BY DEF OnboardingInv, Typed, HistoryFits, Histories, Reported
    <3> HIDE DEF told
    <3>2. ToldStays
      BY <2>2, <3>1 DEF ToldStays, world
    <3>3. FilesTrusted'
      BY <2>2, <3>1 DEF OnboardingInv, DiskTrusted, FilesTrusted, world, Export
    <3> QED
      BY <3>2, <3>3, HashStays, TransactionStays, AbsenceStays
         DEF OnboardingInv, DiskTrusted, Export
  <2>6. ExportedKeyStays'
    BY <2>1, <2>2, <2>3 DEF ExportedKeyStays, Export, Local
  <2> QED BY <2>2, <2>4, <2>5, <2>6 DEF OnboardingInv, ProcFits
<1> QED BY <1>1, <1>2 DEF Export

LEMMA ImportPeerKeeps ==
    ASSUME OnboardingInv, ImportPeer, UNCHANGED <<tx, aside, registration, world>>
    PROVE  OnboardingInv'
<1> USE NoneIsNothing
<1>1. Imported \in Peer /\ Enrollment \in PeerKey /\ Name("import")
  BY CommandParts DEF OnboardingInv, ProcFits, Processes, ImportFits, ImportPeer, Run, Name,
       Imported, Enrollment
<1>2. CASE Refuse /\ UNCHANGED file
  BY <1>2, EndingStep DEF ImportPeer
<1>3. CASE file' = file /\ file[Imported] = Enrollment
               /\ \E s \in {"membership", "enroll"} : GoTo(s)
  <2>1. PICK s \in {"membership", "enroll"} : GoTo(s)
    BY <1>3
  <2>2. /\ proc' \in Processes /\ proc'.step = s /\ proc'.command = proc.command
        /\ proc'.settings = proc.settings /\ proc'.artifact = proc.artifact
        /\ proc'.content = proc.content /\ history' = history
    BY <2>1, Goes DEF OnboardingInv, ImportPeer, Run, Step
  <2>3. ProcFits'
    BY <1>1, <1>3, <2>2 DEF OnboardingInv, ImportPeer, ProcFits, IdentityFits, ImportFits,
         NamesFit, SettingsFit, ConfigurationFits, WritingFits, Run, Name, Serving, Configuring,
         Writing, Imported, Enrollment
  <2> QED BY <1>3, <2>2, <2>3, QuietStep DEF OnboardingInv, Typed, HistoryFits, ImportPeer
<1>4. CASE GoTo("enroll") /\ Write(Imported, Enrollment) /\ file[Imported] = None
  <2>1. /\ proc' \in Processes /\ proc'.step = "enroll" /\ proc'.command = proc.command
        /\ proc'.settings = proc.settings /\ proc'.artifact = proc.artifact
        /\ proc'.content = proc.content /\ history' = history
    BY <1>4, Goes DEF OnboardingInv, ImportPeer, Run, Step
  <2>2. /\ Typed' /\ file'[Imported] = Enrollment
        /\ \A b \in Artifact \ {Imported} : file'[b] = file[b]
    BY <1>1, <1>4, <2>1, Writes, ContentOf, PeersAreArtifacts
       DEF ImportPeer, OnboardingInv, Typed, HistoryFits, RestFits
  <2>3. DiskTrusted'
    <3>1. \A a \in {"profile", "runtime_settings", "dispatcher_projects"} : file'[a] = file[a]
      BY <1>1, <2>2, PeersAreArtifacts
    <3>2. \A p \in Peer : file'[p] = file[p] \/ file[p] = None
      BY <1>4, <2>2, PeersAreArtifacts
    <3> QED
      BY <2>1, <3>1, <3>2, DiskStays DEF OnboardingInv, world, ImportPeer
  <2>4. ProcFits'
    BY <1>1, <2>1, <2>2 DEF OnboardingInv, ImportPeer, ProcFits, IdentityFits, ImportFits,
         NamesFit, SettingsFit, ConfigurationFits, WritingFits, Run, Name, Serving, Configuring,
         Writing, Imported, Enrollment
  <2>5. ExportedKeyStays'
    BY <1>1, <2>1, <2>2, PeersAreArtifacts DEF OnboardingInv, ExportedKeyStays, ImportPeer, Local
  <2> QED BY <2>2, <2>3, <2>4, <2>5 DEF OnboardingInv
<1> QED BY <1>2, <1>3, <1>4 DEF ImportPeer, KeepsCopy, AdoptsCopy, WritesCopy

LEMMA RecordPeerKeeps ==
    ASSUME OnboardingInv, RecordPeer, UNCHANGED <<tx, aside, registration, world>>
    PROVE  OnboardingInv'
<1> USE NoneIsNothing
<1>1. /\ Imported \in Peer /\ Enrollment \in PeerKey /\ Name("import")
      /\ file[Imported] = Enrollment /\ manifest # None /\ IsManifest(manifest)
  BY CommandParts DEF OnboardingInv, ProcFits, Processes, ImportFits, RecordPeer, Run, Name,
       Imported, Enrollment, Typed, ManifestFits
<1>2. /\ proc' \in Processes /\ proc'.step = "membership" /\ proc'.command = proc.command
      /\ proc'.settings = proc.settings /\ proc'.artifact = proc.artifact
      /\ proc'.content = proc.content /\ history' = history
  BY Goes DEF OnboardingInv, RecordPeer, Run, Step
<1>3. /\ IsManifest(manifest') /\ manifest'.local = manifest.local
      /\ manifest'.hash = [manifest.hash EXCEPT ![Imported] = file[Imported]]
  BY <1>1, PeersAreArtifacts, ContentOf DEF RecordPeer, IsManifest
<1>4. Typed' /\ \A b \in Artifact \ {Imported} : manifest'.hash[b] = manifest.hash[b]
  BY <1>1, <1>2, <1>3, Records, PeersAreArtifacts
     DEF OnboardingInv, Typed, HistoryFits, RecordPeer
<1>5. DiskTrusted'
  BY <1>1, <1>2, <1>4, OtherFile, PeersAreArtifacts DEF OnboardingInv, RecordPeer
<1>6. ProcFits'
  BY <1>1, <1>2, <1>3, NoneIsNoManifest
     DEF OnboardingInv, RecordPeer, ProcFits, IdentityFits, ImportFits, NamesFit, SettingsFit,
         ConfigurationFits, WritingFits, Run, Name, Serving, Configuring, Writing, Imported,
         Enrollment
<1>7. ExportedKeyStays'
  BY <1>1, <1>2, <1>3 DEF OnboardingInv, ExportedKeyStays, RecordPeer, Local
<1> QED BY <1>4, <1>5, <1>6, <1>7 DEF OnboardingInv

LEMMA WriteMembershipKeeps ==
    ASSUME OnboardingInv, WriteMembership, UNCHANGED <<tx, aside, registration, world>>
    PROVE  OnboardingInv'
<1> USE NoneIsNothing
<1>1. /\ Imported \in Peer /\ Name("import") /\ file[Imported] = Enrollment
      /\ manifest # None /\ IsManifest(manifest)
  BY CommandParts DEF OnboardingInv, ProcFits, Processes, ImportFits, WriteMembership, Run, Name,
       Imported, Enrollment, Typed, ManifestFits
<1>2. CASE Refuse /\ UNCHANGED file
  BY <1>2, EndingStep DEF WriteMembership
<1>3. AllEnrolled => Policy \in [Peer -> PeerKey]
  BY <1>1 DEF AllEnrolled, Policy, IsManifest
<1>4. CASE /\ file' = file
           /\ \/ GoTo("resume")
              \/ GoTo("record membership") /\ file["membership"] \in [Peer -> PeerKey]
  <2>1. PICK s \in {"resume", "record membership"} :
            GoTo(s) /\ (s = "record membership" => file["membership"] \in [Peer -> PeerKey])
    BY <1>4
  <2>2. /\ proc' \in Processes /\ proc'.step = s /\ proc'.command = proc.command
        /\ proc'.settings = proc.settings /\ proc'.artifact = proc.artifact
        /\ proc'.content = proc.content /\ history' = history
    BY <2>1, Goes DEF OnboardingInv, WriteMembership, Run, Step
  <2>3. ProcFits'
    BY <1>1, <1>4, <2>1, <2>2 DEF OnboardingInv, WriteMembership, ProcFits, IdentityFits, ImportFits,
         NamesFit, SettingsFit, ConfigurationFits, WritingFits, Run, Name, Serving, Configuring,
         Writing, Imported, Enrollment
  <2> QED BY <1>4, <2>2, <2>3, QuietStep DEF OnboardingInv, Typed, HistoryFits, WriteMembership
<1>5. CASE AllEnrolled /\ GoTo("record membership") /\ Write("membership", Policy)
  <2>1. /\ proc' \in Processes /\ proc'.step = "record membership" /\ proc'.command = proc.command
        /\ proc'.settings = proc.settings /\ proc'.artifact = proc.artifact
        /\ proc'.content = proc.content /\ history' = history
    BY <1>5, Goes DEF OnboardingInv, WriteMembership, Run, Step
  <2>2. /\ Typed' /\ file'["membership"] = Policy
        /\ \A b \in Artifact \ {"membership"} : file'[b] = file[b]
    BY <1>3, <1>5, <2>1, Writes, ContentOf, PeersAreArtifacts
       DEF WriteMembership, OnboardingInv, Typed, HistoryFits, RestFits
  <2>3. DiskTrusted'
    BY <2>1, <2>2, OtherFile, PeersAreArtifacts DEF OnboardingInv, WriteMembership
  <2>4. ProcFits'
    <3>1. IdentityFits' /\ NamesFit'
      BY <2>1 DEF IdentityFits, NamesFit, Run, Writing
    <3>2. ImportFits'
      <4>1. file'[Imported] = file[Imported] /\ Imported' = Imported /\ Enrollment' = Enrollment
        BY <1>1, <2>1, <2>2, PeersAreArtifacts DEF Imported, Enrollment
      <4> QED BY <1>1, <1>3, <1>5, <2>1, <2>2, <4>1 DEF ImportFits, Run, Name
    <3>3. SettingsFit'
      BY <2>1 DEF OnboardingInv, WriteMembership, ProcFits, SettingsFit, Run, Serving, Configuring,
         Writing
    <3>4. ConfigurationFits' /\ WritingFits'
      BY <2>1 DEF ConfigurationFits, WritingFits, Run, Configuring, Writing
    <3> QED
      BY <1>1, <2>1, <3>1, <3>2, <3>3, <3>4 DEF OnboardingInv, WriteMembership, ProcFits, Run
  <2>5. ExportedKeyStays'
    BY <2>1, <2>2, PeersAreArtifacts DEF OnboardingInv, ExportedKeyStays, WriteMembership, Local
  <2> QED BY <2>2, <2>3, <2>4, <2>5 DEF OnboardingInv
<1> QED BY <1>2, <1>3, <1>4, <1>5 DEF WriteMembership

LEMMA RecordMembershipKeeps ==
    ASSUME OnboardingInv, RecordMembership, UNCHANGED <<tx, aside, registration, world>>
    PROVE  OnboardingInv'
<1>1. /\ file["membership"] \in [Peer -> PeerKey] /\ Name("import")
      /\ file[Imported] = Enrollment /\ manifest # None /\ IsManifest(manifest)
  BY DEF OnboardingInv, ProcFits, ImportFits, RecordMembership, Run, Name, Typed, ManifestFits
<1>2. /\ proc' \in Processes /\ proc'.step = "resume" /\ proc'.command = proc.command
      /\ proc'.settings = proc.settings /\ proc'.artifact = proc.artifact
      /\ proc'.content = proc.content /\ history' = history
  BY Goes DEF OnboardingInv, RecordMembership, Run, Step
<1>3. /\ IsManifest(manifest') /\ manifest'.local = manifest.local
      /\ manifest'.hash = [manifest.hash EXCEPT !["membership"] = file["membership"]]
  BY <1>1, PeersAreArtifacts, ContentOf DEF RecordMembership, Record, IsManifest
<1>4. Typed' /\ \A b \in Artifact \ {"membership"} : manifest'.hash[b] = manifest.hash[b]
  BY <1>1, <1>2, <1>3, Records, PeersAreArtifacts
     DEF OnboardingInv, Typed, HistoryFits, RecordMembership
<1>5. DiskTrusted'
  BY <1>1, <1>2, <1>4, OtherFile, PeersAreArtifacts DEF OnboardingInv, RecordMembership
<1>6. ProcFits'
  BY <1>1, <1>2, <1>3, NoneIsNoManifest
     DEF OnboardingInv, RecordMembership, ProcFits, IdentityFits, ImportFits, NamesFit, SettingsFit,
         ConfigurationFits, WritingFits, Run, Name, Serving, Configuring, Writing, Imported,
         Enrollment
<1>7. ExportedKeyStays'
  BY <1>1, <1>2, <1>3 DEF OnboardingInv, ExportedKeyStays, RecordMembership, Local
<1> QED BY <1>4, <1>5, <1>6, <1>7 DEF OnboardingInv

(* The manifest gets another status.                                       *)
LEMMA NewStatus ==
    ASSUME OnboardingInv, manifest # None, manifest' = [manifest EXCEPT !.status = Status]
    PROVE  /\ IsManifest(manifest') /\ manifest' # None /\ manifest'.local = manifest.local
           /\ manifest'.hash = manifest.hash /\ manifest'.enrolled = manifest.enrolled
<1>1. Status \in {"pending", "blocked", "complete"}
  BY DEF Status
<1>2. /\ IsManifest(manifest') /\ manifest'.local = manifest.local
      /\ manifest'.hash = manifest.hash /\ manifest'.enrolled = manifest.enrolled
  BY <1>1 DEF OnboardingInv, Typed, ManifestFits, IsManifest
<1> QED BY <1>2, NoneIsNoManifest

LEMMA ResumeKeeps ==
    ASSUME OnboardingInv, Resume, UNCHANGED <<tx, aside, registration, world>>
    PROVE  OnboardingInv'
<1> USE NoneIsNothing
<1> DEFINE told == [history.reported EXCEPT !.peers[Imported] = Enrollment]
<1>1. manifest # None /\ manifest' = [manifest EXCEPT !.status = Status]
  BY DEF OnboardingInv, ProcFits, Resume, Run
<1>2. /\ IsManifest(manifest') /\ manifest' # None /\ manifest'.local = manifest.local
      /\ manifest'.hash = manifest.hash /\ manifest'.enrolled = manifest.enrolled
  BY <1>1, NewStatus
<1>3. HistoryFits' => Typed'
  <2>1. ManifestFits'
    BY <1>2 DEF ManifestFits
  <2> QED BY <2>1, TypesStay DEF OnboardingInv, Typed, world, Resume
<1>4. CASE Name("import") /\ Accept(told)
  <2>1. Imported \in Peer /\ Enrollment \in PeerKey /\ file[Imported] = Enrollment
    BY <1>4, CommandParts DEF OnboardingInv, ProcFits, Processes, ImportFits, Run, Name,
         Imported, Enrollment, Resume
  <2>2. /\ told \in Reported /\ told.key = history.reported.key
        /\ told.transport = history.reported.transport
        /\ told.dispatcher = history.reported.dispatcher
        /\ told.mcp = history.reported.mcp
        /\ told.peers = [history.reported.peers EXCEPT ![Imported] = Enrollment]
        /\ \A p \in Peer : told.peers[p] = IF p = Imported THEN Enrollment
                                           ELSE history.reported.peers[p]
    BY <2>1 DEF OnboardingInv, Typed, HistoryFits, Histories, Reported
  <2> HIDE DEF told
  <2>3. HistoryFits' /\ proc' = None /\ history'.reported = told
    BY <1>4, <2>2, Tells DEF OnboardingInv, Typed
  <2>4. DiskTrusted'
    <3>1. ToldStays
      BY <2>2, <2>3 DEF ToldStays, world
    <3>2. FilesTrusted'
      BY <2>1, <2>2, <2>3 DEF OnboardingInv, DiskTrusted, FilesTrusted, world, Resume
    <3> QED
      BY <1>1, <1>2, <3>1, <3>2, HashStays, TransactionStays, AbsenceStays
         DEF OnboardingInv, DiskTrusted, Resume
  <2>5. ExportedKeyStays'
    BY <1>1, <1>2, <2>2, <2>3 DEF OnboardingInv, ExportedKeyStays, Resume, Local
  <2> QED BY <1>3, <2>3, <2>4, <2>5 DEF OnboardingInv, ProcFits
<1>5. CASE Refuse \/ (~Name("import") /\ GoTo("read") /\ (Name("verify") \/ Status = "complete"))
  <2>1. HistoryFits' /\ history'.reported = history.reported
    BY <1>5, Ends DEF OnboardingInv, Typed, HistoryFits, GoTo
  <2>2. DiskTrusted'
    BY <1>1, <1>2, <2>1, OtherFile DEF OnboardingInv, Resume
  <2>3. ExportedKeyStays'
    BY <1>1, <1>2, <2>1 DEF OnboardingInv, ExportedKeyStays, Resume, Local
  <2>4. ProcFits'
    <3>1. CASE Refuse
      BY <3>1 DEF Refuse, ProcFits
    <3>2. CASE GoTo("read") /\ ~Name("import") /\ (Name("verify") \/ Status = "complete")
      <4>1. /\ proc' \in Processes /\ proc'.step = "read" /\ proc'.command = proc.command
            /\ proc'.settings = proc.settings /\ proc'.artifact = proc.artifact
            /\ proc'.content = proc.content /\ history' = history
        BY <3>2, Goes DEF OnboardingInv, Resume, Run, Step
      <4>2. Status = "complete" => \A p \in Peer : manifest.enrolled[p] = file[p]
        BY DEF Status, Intact, CopiesMatch
      <4> QED
        BY <1>2, <3>2, <4>1, <4>2
           DEF OnboardingInv, Resume, ProcFits, IdentityFits, ImportFits, NamesFit, SettingsFit,
             ConfigurationFits, WritingFits, Run, Name, Serving, Configuring, Writing
    <3> QED BY <1>5, <3>1, <3>2
  <2> QED BY <1>3, <2>1, <2>2, <2>3, <2>4 DEF OnboardingInv
<1> QED BY <1>4, <1>5 DEF Resume

LEMMA ReportStatusKeeps ==
    ASSUME OnboardingInv, ReportStatus, UNCHANGED <<tx, aside, registration, world>>
    PROVE  OnboardingInv'
<1>1. CASE Stop
  BY <1>1, EndingStep DEF ReportStatus
<1>2. CASE GoTo("read")
  <2>1. /\ proc' \in Processes /\ proc'.step = "read" /\ proc'.command = proc.command
        /\ proc'.settings = proc.settings /\ proc'.artifact = proc.artifact
        /\ proc'.content = proc.content /\ history' = history
    BY <1>2, Goes DEF OnboardingInv, ReportStatus, Run, Step
  <2>2. ProcFits'
    BY <2>1 DEF OnboardingInv, ReportStatus, ProcFits, IdentityFits, ImportFits, NamesFit,
         SettingsFit, ConfigurationFits, WritingFits, Run, Name, Serving, Configuring, Writing
  <2> QED BY <2>1, <2>2, QuietStep DEF OnboardingInv, Typed, HistoryFits, ReportStatus
<1> QED BY <1>1, <1>2 DEF ReportStatus

-----------------------------------------------------------------------------
(* The steps that read the settings.                                       *)

LEMMA FirstIsUnfinished ==
    ASSUME OnboardingInv, Unfinished # {}
    PROVE  /\ First(Unfinished) \in Transacted /\ First(Unfinished) \in Artifact
           /\ tx[First(Unfinished)] \in Transaction(First(Unfinished)) \cup {Partial}
BY PeersAreArtifacts DEF OnboardingInv, Typed, TransactionsFit, Unfinished, First, Transacted

LEMMA RecoverHashKeeps ==
    ASSUME OnboardingInv, RecoverHash
    PROVE  OnboardingInv'
<1> DEFINE a == First(Unfinished)
<1>1. /\ a \in Transacted /\ a \in Artifact /\ tx[a] \in Transaction(a) \cup {Partial}
  BY FirstIsUnfinished DEF RecoverHash
<1>2. Forward(a) /\ Record(a) /\ Reads
  BY DEF RecoverHash
<1> HIDE DEF a
<1>3. file[a] = tx[a].target /\ file[a] \in Content(a)
  BY <1>1, <1>2 DEF Forward, Transaction
<1>4. manifest # None /\ IsManifest(manifest)
  BY <1>2 DEF OnboardingInv, ProcFits, Reads, Run, Typed, ManifestFits
<1>5. /\ IsManifest(manifest') /\ manifest'.local = manifest.local
      /\ manifest'.enrolled = manifest.enrolled
      /\ manifest'.hash = [manifest.hash EXCEPT ![a] = file[a]]
  BY <1>1, <1>2, <1>3, <1>4 DEF Record, IsManifest
<1>6. /\ Typed' /\ \A b \in Artifact \ {a} : manifest'.hash[b] = manifest.hash[b]
      /\ manifest'.hash[a] = file[a]
  BY <1>1, <1>4, <1>5, Records DEF OnboardingInv, Typed, HistoryFits, RecoverHash, IsManifest
<1>7. DiskTrusted'
  <2>1. CASE a = "runtime_settings"
    <3>1. Trusted(file[a])
      BY <1>1, <1>2, <1>3, <2>1, NoneIsNothing
         DEF OnboardingInv, DiskTrusted, TransactionTrusted, Forward
    <3>2. ToldStays
      BY DEF ToldStays, world, RecoverHash
    <3>3. HashTrusted'
      BY <1>6, <2>1, <3>1, <3>2, HashKnown
    <3> QED
      BY <3>2, <3>3, TransactionStays, AbsenceStays, FilesStay
         DEF OnboardingInv, DiskTrusted, world, RecoverHash
  <2>2. CASE a # "runtime_settings"
    BY <1>4, <1>6, <2>2, OtherFile, PeersAreArtifacts DEF OnboardingInv, RecoverHash
  <2> QED BY <2>1, <2>2
<1>8. ProcFits'
  BY <1>2, <1>5, NoneIsNoManifest
     DEF OnboardingInv, RecoverHash, ProcFits, IdentityFits, ImportFits, NamesFit, SettingsFit,
       ConfigurationFits, WritingFits, Run, Name, Serving, Configuring, Writing, Reads
<1>9. ExportedKeyStays'
  BY <1>4, <1>5 DEF OnboardingInv, ExportedKeyStays, RecoverHash, Local
<1> QED BY <1>6, <1>7, <1>8, <1>9 DEF OnboardingInv

(* A transaction is gone or begins, and may be written in part.            *)
LEMMA SetsTransaction ==
    ASSUME Typed, NEW a \in Transacted, NEW t \in Transaction(a) \cup {Partial, None},
           tx' = [tx EXCEPT ![a] = t], HistoryFits', TroubleFits',
           UNCHANGED <<manifest, key, file, database, aside, registration>>
    PROVE  /\ Typed' /\ tx'[a] = t
           /\ \A b \in Transacted \ {a} : tx'[b] = tx[b]
<1>1. TransactionsFit' /\ tx'[a] = t /\ \A b \in Transacted \ {a} : tx'[b] = tx[b]
  BY DEF Typed, TransactionsFit
<1>2. Typed'
  BY <1>1, TypesStay DEF Typed
<1> QED BY <1>1, <1>2

LEMMA RecoverTransactionKeeps ==
    ASSUME OnboardingInv, RecoverTransaction
    PROVE  OnboardingInv'
<1> USE NoneIsNothing
<1> DEFINE a == First(Unfinished)
<1>1. /\ a \in Transacted /\ a \in Artifact /\ tx[a] \in Transaction(a) \cup {Partial}
  BY FirstIsUnfinished DEF RecoverTransaction
<1>2. /\ Reads
      /\ Forward(a) \/ file[a] # None \/ NeverWritten(a)
      /\ tx' = [tx EXCEPT ![a] = None]
  BY DEF RecoverTransaction
<1> HIDE DEF a
<1>3. HistoryFits' /\ TroubleFits'
  BY DEF OnboardingInv, Typed, HistoryFits, TroubleFits, world, RecoverTransaction
<1>4. Typed' /\ tx'[a] = None /\ \A b \in Transacted \ {a} : tx'[b] = tx[b]
  BY <1>1, <1>2, <1>3, SetsTransaction DEF OnboardingInv, RecoverTransaction
<1>5. DiskTrusted'
  <2>1. CASE a = "runtime_settings"
    <3>1. file[a] = None => Trusted(Base)
      <4>1. ~Forward(a) \/ file[a] # None
        BY <1>1, <2>1, ContentOf DEF Forward, Transaction
      <4> QED
        BY <1>1, <1>2, <2>1, <4>1 DEF OnboardingInv, DiskTrusted, TransactionTrusted, NeverWritten
    <3>2. ToldStays
      BY DEF ToldStays, world, RecoverTransaction
    <3>3. AbsenceTrusted'
      BY <2>1, <3>1, <3>2, BaseKnown DEF RecoverTransaction
    <3> QED
      BY <1>4, <2>1, <3>2, <3>3, HashStays, TransactionStays, FilesStay
         DEF OnboardingInv, DiskTrusted, world, RecoverTransaction
  <2>2. CASE a # "runtime_settings"
    <3>1. tx'["runtime_settings"] = tx["runtime_settings"]
      BY <1>4, <2>2 DEF Transacted
    <3> QED
      BY <3>1, DiskStays DEF OnboardingInv, world, RecoverTransaction
  <2> QED BY <2>1, <2>2
<1>6. ProcFits'
  BY <1>2 DEF OnboardingInv, RecoverTransaction, ProcFits, IdentityFits, ImportFits, NamesFit,
     SettingsFit, ConfigurationFits, WritingFits, Run, Name, Serving, Configuring, Writing, Reads
<1>7. ExportedKeyStays'
  BY DEF OnboardingInv, ExportedKeyStays, RecoverTransaction, Local
<1> QED BY <1>4, <1>5, <1>6, <1>7 DEF OnboardingInv

LEMMA CannotRecoverKeeps ==
    ASSUME OnboardingInv, CannotRecover
    PROVE  OnboardingInv'
BY EndingStep DEF CannotRecover

(* What is read is what the disk holds and goes with what was reported.    *)
LEMMA ReadableIsTrusted ==
    ASSUME OnboardingInv, manifest # None, Unfinished = {}, Readable # None
    PROVE  Readable \in Settings /\ Stable(Readable) /\ Trusted(Readable)
<1> USE NoneIsNothing
<1>1. file["runtime_settings"] \in Settings \cup {None, Partial}
      /\ manifest.hash["runtime_settings"] \in Settings \cup {None}
  BY PeersAreArtifacts, ContentOf DEF OnboardingInv, Typed, FileFits, ManifestFits, IsManifest
<1>2. tx["runtime_settings"] = None
  BY DEF Unfinished, Transacted
<1>3. Base \in Settings
  BY DEF Base, Settings
<1>4. CASE file["runtime_settings"] = None /\ manifest.hash["runtime_settings"] = None
  <2>1. Readable = Base
    BY <1>4 DEF Readable
  <2>2. Trusted(Base)
    BY <1>2, <1>4 DEF OnboardingInv, DiskTrusted, AbsenceTrusted, Replacing
  <2> QED BY <1>3, <1>4, <2>1, <2>2 DEF Stable
<1>5. CASE /\ file["runtime_settings"] # None
           /\ manifest.hash["runtime_settings"] = file["runtime_settings"]
           /\ Bound(file["runtime_settings"])
  <2>1. Readable = file["runtime_settings"]
    BY <1>5 DEF Readable
  <2> QED BY <1>1, <1>5, <2>1 DEF Stable, OnboardingInv, DiskTrusted, HashTrusted
<1> QED BY <1>4, <1>5 DEF Readable

LEMMA ReadSettingsKeeps ==
    ASSUME OnboardingInv, ReadSettings
    PROVE  OnboardingInv'
<1> USE NoneIsNothing
<1>1. CASE Refuse
  BY <1>1, EndingStep DEF ReadSettings
<1>2. CASE Run("peek") /\ GoTo("resume")
  <2>1. /\ proc' \in Processes /\ proc'.step = "resume" /\ proc'.command = proc.command
        /\ proc'.settings = proc.settings /\ proc'.artifact = proc.artifact
        /\ proc'.content = proc.content /\ history' = history
    BY <1>2, Goes DEF OnboardingInv, Run, Step
  <2>2. ProcFits'
    BY <1>2, <2>1 DEF OnboardingInv, ReadSettings, ProcFits, IdentityFits, ImportFits, NamesFit,
       SettingsFit, ConfigurationFits, WritingFits, Run, Name, Serving, Configuring, Writing
  <2> QED BY <2>1, <2>2, QuietStep DEF OnboardingInv, Typed, HistoryFits, ReadSettings
<1>3. CASE /\ Readable # None /\ Run("read") /\ history' = history
           /\ proc' = [proc EXCEPT !.step = proc.command.name, !.settings = Readable]
  <2>1. manifest # None /\ Unfinished = {}
    BY <1>3 DEF OnboardingInv, ProcFits, ReadSettings, Run
  <2>2. Readable \in Settings /\ Stable(Readable) /\ Trusted(Readable)
    BY <1>3, <2>1, ReadableIsTrusted
  <2>3. proc.command.name \in {"status", "transport", "dispatcher", "mcp", "verify", "runtime"}
    BY <1>3 DEF OnboardingInv, ProcFits, NamesFit, Run
  <2>4. /\ proc' \in Processes /\ proc'.step = proc.command.name /\ proc'.command = proc.command
        /\ proc'.settings = Readable /\ proc'.artifact = proc.artifact
        /\ proc'.content = proc.content
    BY <1>3, <2>2, <2>3 DEF OnboardingInv, ProcFits, Processes, Run, Step
  <2>5. tx["runtime_settings"] = None
    BY <2>1 DEF Unfinished, Transacted
  <2>6. Stable(proc.settings)' /\ Trusted(proc.settings)'
    BY <1>3, <2>2, <2>4 DEF Stable, Bound, Trusted, AgreesWith, Keeps, world, ReadSettings, Base
  <2>7. ProcFits'
    BY <1>3, <2>1, <2>2, <2>3, <2>4, <2>5, <2>6
       DEF OnboardingInv, ReadSettings, ProcFits, IdentityFits, ImportFits, NamesFit,
       SettingsFit, ConfigurationFits, WritingFits, Run, Name, Serving, Configuring, Writing
  <2> QED BY <1>3, <2>7, QuietStep DEF OnboardingInv, Typed, HistoryFits, ReadSettings
<1> QED BY <1>1, <1>2, <1>3 DEF ReadSettings

LEMMA StatusEndsKeeps ==
    ASSUME OnboardingInv, StatusEnds \/ LogInFirst
    PROVE  OnboardingInv'
BY EndingStep DEF StatusEnds, LogInFirst

-----------------------------------------------------------------------------
(* The steps that write the settings and the projects.                     *)

(* What a command is about to tell.                                        *)
LEMMA ToldParts ==
    ASSUME OnboardingInv, proc # None,
           proc.command.name \in {"transport", "dispatcher", "mcp"}
    PROVE  /\ Told \in Reported
           /\ Told.key = history.reported.key /\ Told.peers = history.reported.peers
           /\ Told.transport = IF Name("transport") THEN proc.command.input
                               ELSE history.reported.transport
           /\ Told.dispatcher = IF Name("dispatcher") THEN proc.command.input
                                ELSE history.reported.dispatcher
           /\ Told.mcp = IF Name("mcp") THEN TRUE ELSE history.reported.mcp
<1>1. /\ Name("transport") => proc.command.input \in Transport
      /\ Name("dispatcher") => proc.command.input \in Dispatcher
  BY CommandParts DEF OnboardingInv, ProcFits, Processes, Name
<1> QED BY <1>1 DEF OnboardingInv, Typed, HistoryFits, Histories, Reported, Told, Name

(* A command tells what the settings it leaves say.                        *)
LEMMA TellsSettings ==
    ASSUME OnboardingInv, proc # None,
           proc.command.name \in {"transport", "dispatcher", "mcp"},
           Name("transport") => file["profile"] = proc.command.input,
           Name("dispatcher") => file["dispatcher_projects"] = proc.command.input,
           NEW s \in Settings, AgreesWith(s, Told), file["runtime_settings"] = s,
           manifest # None, manifest.hash["runtime_settings"] = s,
           IsManifest(manifest'), manifest'.local = manifest.local,
           manifest'.hash["runtime_settings"] = s,
           tx["runtime_settings"] = None \/ tx'["runtime_settings"] = None,
           tx' = tx \/ tx' = [tx EXCEPT !["runtime_settings"] = None],
           Accept(Told),
           UNCHANGED <<key, file, database, aside, registration, world>>
    PROVE  OnboardingInv'
<1> USE NoneIsNothing
<1>1. /\ Told \in Reported
      /\ Told.key = history.reported.key /\ Told.peers = history.reported.peers
      /\ Told.transport = IF Name("transport") THEN proc.command.input
                          ELSE history.reported.transport
      /\ Told.dispatcher = IF Name("dispatcher") THEN proc.command.input
                           ELSE history.reported.dispatcher
  BY ToldParts
<1>2. HistoryFits' /\ proc' = None /\ history'.reported = Told
  BY <1>1, Tells DEF OnboardingInv, Typed
<1>3. TransactionsFit' /\ tx'["runtime_settings"] = None
  BY DEF OnboardingInv, Typed, TransactionsFit, Transacted
<1>4. Typed'
  <2>1. ManifestFits'
    BY DEF ManifestFits
  <2> QED BY <1>2, <1>3, <2>1, TypesStay DEF OnboardingInv, Typed, world
<1>5. HashTrusted' /\ TransactionTrusted' /\ AbsenceTrusted'
  BY <1>2, <1>3 DEF HashTrusted, TransactionTrusted, AbsenceTrusted, Trusted, AgreesWith, Keeps, world
<1>6. FilesTrusted'
  BY <1>1, <1>2 DEF OnboardingInv, DiskTrusted, FilesTrusted, world
<1>7. ExportedKeyStays'
  BY <1>1, <1>2 DEF OnboardingInv, ExportedKeyStays, Local
<1> QED BY <1>2, <1>4, <1>5, <1>6, <1>7 DEF OnboardingInv, DiskTrusted, ProcFits

(* updateSettings changes the setting the command is about and no other.   *)
LEMMA UpdatedAgrees ==
    ASSUME OnboardingInv, Run("update")
    PROVE  /\ Updated \in Settings /\ Trusted(Updated) /\ AgreesWith(Updated, Told)
           /\ file["runtime_settings"] = manifest.hash["runtime_settings"]
           /\ manifest.hash["runtime_settings"] = None => Trusted(Base)
<1> USE NoneIsNothing
<1> DEFINE s == proc.settings
<1>1. /\ proc # None /\ s \in Settings /\ Stable(s) /\ Trusted(s)
      /\ proc.command.name \in {"transport", "dispatcher", "mcp"}
      /\ Name("transport") =>
             file["profile"] = proc.command.input /\ s.transport \in {None, proc.command.input}
      /\ Name("dispatcher") =>
             file["dispatcher_projects"] = proc.command.input /\ s.dispatcher = None
  BY DEF OnboardingInv, ProcFits, SettingsFit, ConfigurationFits, NamesFit, Run, Serving,
     Configuring, Writing
<1>2. Readable = s
  BY <1>1 DEF Readable, Stable
<1>3. /\ Name("transport") => proc.command.input \in Transport
      /\ Name("dispatcher") => proc.command.input \in Dispatcher
  BY <1>1, CommandParts DEF OnboardingInv, ProcFits, Processes, Name
<1>4. /\ Updated \in Settings
      /\ Updated.transport = IF Name("transport") THEN proc.command.input ELSE s.transport
      /\ Updated.dispatcher = IF Name("dispatcher") THEN proc.command.input ELSE s.dispatcher
      /\ Updated.mcp = IF Name("mcp") THEN TRUE ELSE s.mcp
  BY <1>1, <1>2, <1>3 DEF Updated, Settings, Name
<1>5. /\ Told.transport = IF Name("transport") THEN proc.command.input
                          ELSE history.reported.transport
      /\ Told.dispatcher = IF Name("dispatcher") THEN proc.command.input
                           ELSE history.reported.dispatcher
      /\ Told.mcp = IF Name("mcp") THEN TRUE ELSE history.reported.mcp
  BY <1>1, ToldParts
<1> HIDE DEF s
<1>6. Trusted(Updated)
  <2> DEFINE told == history.reported
  <2>1. /\ told.transport # None =>
               file["profile"] = told.transport \/ "profile" \in touched
        /\ told.dispatcher # None =>
               file["dispatcher_projects"] = told.dispatcher \/ "dispatcher_projects" \in touched
    BY DEF OnboardingInv, DiskTrusted, FilesTrusted
  <2>2. /\ Keeps(s.transport, told.transport, None, "profile")
        /\ Keeps(s.dispatcher, told.dispatcher, None, "dispatcher_projects")
        /\ Keeps(s.mcp, told.mcp, FALSE, "registration")
    BY <1>1 DEF Trusted, AgreesWith
  <2> HIDE DEF told
  <2>3. Keeps(Updated.transport, told.transport, None, "profile")
    BY <1>1, <1>4, <2>1, <2>2 DEF Keeps
  <2>4. Keeps(Updated.dispatcher, told.dispatcher, None, "dispatcher_projects")
    BY <1>1, <1>4, <2>1, <2>2 DEF Keeps
  <2>5. Keeps(Updated.mcp, told.mcp, FALSE, "registration")
    <3>1. told.mcp \in BOOLEAN
      BY DEF told, OnboardingInv, Typed, HistoryFits, Histories, Reported
    <3> QED BY <1>4, <2>2, <3>1 DEF Keeps
  <2> QED BY <2>3, <2>4, <2>5 DEF Trusted, AgreesWith, told
<1>7. AgreesWith(Updated, Told)
  BY <1>1, <1>4, <1>5 DEF Trusted, AgreesWith, Keeps
<1>8. /\ file["runtime_settings"] = manifest.hash["runtime_settings"]
      /\ manifest.hash["runtime_settings"] = None => Trusted(Base)
  BY <1>1 DEF Stable
<1> QED BY <1>4, <1>6, <1>7, <1>8

LEMMA UpdateSettingsKeeps ==
    ASSUME OnboardingInv, UpdateSettings
    PROVE  OnboardingInv'
<1> USE NoneIsNothing
<1> DEFINE t == [previous |-> manifest.hash["runtime_settings"], target |-> Updated]
<1>1. /\ Updated \in Settings /\ Trusted(Updated) /\ AgreesWith(Updated, Told)
      /\ file["runtime_settings"] = manifest.hash["runtime_settings"]
      /\ manifest.hash["runtime_settings"] = None => Trusted(Base)
  BY UpdatedAgrees DEF UpdateSettings
<1>2. /\ Run("update") /\ proc # None /\ manifest # None /\ history' = history
      /\ tx' = [tx EXCEPT !["runtime_settings"] = t]
      /\ proc' = [proc EXCEPT !.step = "write", !.artifact = "runtime_settings",
                              !.content = Updated]
  BY DEF UpdateSettings, Begin, OnboardingInv, ProcFits, Run
<1>3. t \in Transaction("runtime_settings")
  BY <1>1, <1>2, ContentOf, PeersAreArtifacts
     DEF Transaction, OnboardingInv, Typed, ManifestFits, IsManifest
<1>4. HistoryFits' /\ TroubleFits'
  BY <1>2 DEF OnboardingInv, Typed, HistoryFits, TroubleFits, world, UpdateSettings
<1>5. Typed' /\ tx'["runtime_settings"] = t
  BY <1>2, <1>3, <1>4, SetsTransaction DEF OnboardingInv, UpdateSettings, Transacted
<1>6. DiskTrusted'
  <2>1. /\ tx'["runtime_settings"].target = Updated
        /\ tx'["runtime_settings"].previous = manifest.hash["runtime_settings"]
    BY <1>5
  <2> HIDE DEF t
  <2>2. TransactionTrusted'
    BY <1>1, <1>2, <2>1 DEF TransactionTrusted, Trusted, AgreesWith, Keeps, world, UpdateSettings, Base
  <2>3. ToldStays
    BY <1>2 DEF ToldStays, world, UpdateSettings
  <2>4. HashTrusted' /\ FilesTrusted'
    BY <1>2, <2>3, HashStays, FilesStay DEF OnboardingInv, DiskTrusted, world, UpdateSettings
  <2>5. AbsenceTrusted'
    BY <1>1, <2>3, BaseKnown DEF UpdateSettings
  <2> QED BY <2>2, <2>4, <2>5 DEF DiskTrusted
<1>7. ProcFits'
  <2>1. /\ proc' \in Processes /\ proc'.step = "write" /\ proc'.command = proc.command
        /\ proc'.settings = proc.settings /\ proc'.artifact = "runtime_settings"
        /\ proc'.content = Updated
    BY <1>1, <1>2 DEF OnboardingInv, ProcFits, Processes, Step, Transacted
  <2>2. Told' = Told
    BY <1>2, <2>1 DEF Told, Name
  <2>3. AgreesWith(proc.content, Told)'
    BY <1>1, <2>1, <2>2 DEF AgreesWith, Keeps, world, UpdateSettings
  <2>4. Trusted(proc.settings)'
    BY <1>2, <2>1 DEF OnboardingInv, ProcFits, SettingsFit, Serving, Configuring, Run, Trusted,
       AgreesWith, Keeps, world, UpdateSettings
  <2> HIDE DEF t
  <2>5. tx'["runtime_settings"].target = Updated
        /\ file["runtime_settings"] = tx'["runtime_settings"].previous
    BY <1>1, <1>5 DEF t
  <2> QED
    BY <1>1, <1>2, <1>3, <1>5, <2>1, <2>3, <2>4, <2>5, ContentOf
       DEF OnboardingInv, UpdateSettings, ProcFits, IdentityFits, ImportFits, NamesFit,
       SettingsFit, ConfigurationFits, WritingFits, Run, Name, Serving, Configuring, Writing,
       Transacted
<1>8. ExportedKeyStays'
  BY <1>2 DEF OnboardingInv, ExportedKeyStays, UpdateSettings, Local
<1> QED BY <1>5, <1>6, <1>7, <1>8 DEF OnboardingInv

(* What a command knows while it writes.                                   *)
LEMMA WritingKnows ==
    ASSUME OnboardingInv, proc # None, proc.step \in Writing
    PROVE  /\ proc \in Processes /\ manifest # None /\ IsManifest(manifest)
           /\ proc.artifact \in Transacted /\ proc.artifact \in Artifact
           /\ proc.content \in Content(proc.artifact) /\ proc.content # None
           /\ proc.artifact = "dispatcher_projects" =>
                  /\ Name("dispatcher") /\ proc.settings.dispatcher = None
                  /\ Stable(proc.settings) /\ tx["runtime_settings"] = None
           /\ proc.artifact = "runtime_settings" =>
                  /\ proc.content \in Settings
                  /\ tx["runtime_settings"] \in Transaction("runtime_settings")
                  /\ tx["runtime_settings"].target = proc.content
                  /\ AgreesWith(proc.content, Told)
           /\ proc.settings \in Settings /\ Trusted(proc.settings)
<1>1. /\ proc \in Processes /\ manifest # None
      /\ proc.artifact \in Transacted
      /\ proc.content \in Content(proc.artifact)
  BY NoneIsNothing DEF OnboardingInv, ProcFits, WritingFits, Run, Writing, Transacted
<1>2. IsManifest(manifest) /\ proc.artifact \in Artifact
  BY <1>1, PeersAreArtifacts DEF OnboardingInv, Typed, ManifestFits, Transacted
<1>3. proc.content # None
  BY <1>1, NoneIsNothing, ContentOf DEF Transacted
<1> QED
  BY <1>1, <1>2, <1>3, ContentOf
     DEF OnboardingInv, ProcFits, WritingFits, ConfigurationFits, SettingsFit, Serving, Writing, Run

LEMMA WriteArtifactKeeps ==
    ASSUME OnboardingInv, WriteArtifact
    PROVE  OnboardingInv'
<1> USE NoneIsNothing
<1> DEFINE a == proc.artifact
           c == proc.content
<1>1. /\ proc # None /\ Run("write") /\ manifest # None /\ a \in Transacted /\ a \in Artifact
      /\ c \in Content(a) /\ c # None
      /\ a = "dispatcher_projects" =>
             /\ Name("dispatcher") /\ proc.settings.dispatcher = None
             /\ Stable(proc.settings) /\ tx["runtime_settings"] = None
      /\ a = "runtime_settings" =>
             /\ c \in Settings
             /\ tx["runtime_settings"] \in Transaction("runtime_settings")
             /\ tx["runtime_settings"].target = c
             /\ AgreesWith(c, Told)
             /\ file["runtime_settings"] = tx["runtime_settings"].previous
      /\ proc.settings \in Settings /\ Trusted(proc.settings)
  <2>1. proc # None /\ Run("write")
    BY DEF WriteArtifact, Run
  <2>2. a = "runtime_settings" => file["runtime_settings"] = tx["runtime_settings"].previous
    BY <2>1 DEF OnboardingInv, ProcFits, WritingFits, Writing, Run
  <2> QED BY <2>1, <2>2, WritingKnows DEF Run, Writing
<1>2. CASE Refuse /\ UNCHANGED <<file, aside>>
  BY <1>2, EndingStep DEF WriteArtifact
<1>3. CASE Found = c /\ GoTo("hash") /\ UNCHANGED <<file, aside>>
  <2>1. /\ proc' \in Processes /\ proc'.step = "hash" /\ proc'.command = proc.command
        /\ proc'.settings = proc.settings /\ proc'.artifact = a
        /\ proc'.content = c /\ history' = history
    BY <1>1, <1>3, Goes DEF OnboardingInv, Step
  <2>2. Told' = Told
    BY <2>1 DEF Told, Name
  <2>3. /\ a = "runtime_settings" => AgreesWith(proc.content, Told)'
        /\ a = "dispatcher_projects" => Stable(proc.settings)'
        /\ Trusted(proc.settings)'
    BY <1>1, <1>3, <2>1, <2>2
       DEF AgreesWith, Keeps, Trusted, Stable, Bound, world, WriteArtifact, Base
  <2>4. ProcFits'
    BY <1>1, <1>3, <2>1, <2>3 DEF OnboardingInv, WriteArtifact, ProcFits, IdentityFits, ImportFits,
       NamesFit, SettingsFit, ConfigurationFits, WritingFits, Run, Name, Serving, Configuring,
       Writing, Found
  <2> QED BY <1>3, <2>1, <2>4, QuietStep DEF OnboardingInv, Typed, HistoryFits, WriteArtifact
<1>4. CASE Found = None /\ Write(a, c) /\ GoTo("hash") /\ UNCHANGED aside
  <2>1. /\ proc' \in Processes /\ proc'.step = "hash" /\ proc'.command = proc.command
        /\ proc'.settings = proc.settings /\ proc'.artifact = a
        /\ proc'.content = c /\ history' = history
    BY <1>1, <1>4, Goes DEF OnboardingInv, Step
  <2>2. /\ Typed' /\ file'[a] = c
        /\ \A b \in Artifact \ {a} : file'[b] = file[b]
    BY <1>1, <1>4, <2>1, Writes DEF WriteArtifact, OnboardingInv, Typed, HistoryFits, RestFits
  <2>3. DiskTrusted'
    <3>1. file[a] = None /\ a \in {"runtime_settings", "dispatcher_projects"}
      BY <1>1, <1>4 DEF Found, Transacted
    <3>2. file'["profile"] = file["profile"] /\ \A p \in Peer : file'[p] = file[p]
      BY <2>2, <3>1, PeersAreArtifacts
    <3>3. /\ file'["runtime_settings"] # None \/ file'["runtime_settings"] = file["runtime_settings"]
          /\ file["dispatcher_projects"] = None
             \/ file'["dispatcher_projects"] = file["dispatcher_projects"]
      BY <1>1, <2>2, <3>1, PeersAreArtifacts
    <3> QED
      BY <2>1, <3>2, <3>3, DiskStays DEF OnboardingInv, world, WriteArtifact
  <2>4. ProcFits'
    <3>1. Told' = Told
      BY <2>1 DEF Told, Name
    <3>2. /\ a = "runtime_settings" => AgreesWith(proc.content, Told)'
          /\ Trusted(proc.settings)'
      BY <1>1, <1>4, <2>1, <3>1 DEF AgreesWith, Keeps, Trusted, world, WriteArtifact
    <3>3. a = "dispatcher_projects" => Stable(proc.settings)'
      BY <1>1, <2>1, <2>2, PeersAreArtifacts DEF Stable, Bound, WriteArtifact, Base
    <3>4. /\ file'["profile"] = file["profile"]
          /\ \A p \in Peer : file'[p] = file[p]
          /\ a = "runtime_settings" => file'["dispatcher_projects"] = file["dispatcher_projects"]
      BY <1>1, <2>2, PeersAreArtifacts DEF Transacted
    <3>5. a = "dispatcher_projects" => c = proc.command.input
      BY <1>1 DEF OnboardingInv, ProcFits, WritingFits, Writing, Run
    <3>6. ConfigurationFits'
      BY <1>1, <1>4, <2>1, <3>3, <3>4
         DEF OnboardingInv, ProcFits, ConfigurationFits, Run, Name, Configuring, Writing, Transacted
    <3>7. WritingFits'
      BY <1>1, <1>4, <2>1, <2>2, <3>2, <3>3, <3>5
         DEF OnboardingInv, WriteArtifact, WritingFits, Run, Name, Writing, Transacted
    <3>8. SettingsFit'
      BY <1>1, <1>4, <2>1, <3>2, <3>4
         DEF OnboardingInv, WriteArtifact, ProcFits, SettingsFit, Run, Name, Serving, Configuring,
             Writing
    <3> QED
      BY <1>1, <2>1, <3>6, <3>7, <3>8
         DEF OnboardingInv, WriteArtifact, ProcFits, IdentityFits, ImportFits, NamesFit, Run, Name,
             Writing
  <2>5. ExportedKeyStays'
    BY <1>1, <2>1, <2>2, PeersAreArtifacts
       DEF OnboardingInv, ExportedKeyStays, WriteArtifact, Local, Transacted
  <2> QED BY <2>2, <2>3, <2>4, <2>5 DEF OnboardingInv
<1>5. CASE /\ Found \notin {None, c} /\ Replaces
           /\ aside' = Found /\ Write(a, None) /\ GoTo("swap")
  <2>1. /\ proc' \in Processes /\ proc'.step = "swap" /\ proc'.command = proc.command
        /\ proc'.settings = proc.settings /\ proc'.artifact = a
        /\ proc'.content = c /\ history' = history
    BY <1>1, <1>5, Goes DEF OnboardingInv, Step
  <2>2. /\ a = "runtime_settings" /\ Found = tx["runtime_settings"].previous
        /\ Found \in Settings
    BY <1>1, <1>5, ContentOf DEF Found, Replaces, Transaction
  <2>3. /\ Typed' /\ file'[a] = None
        /\ \A b \in Artifact \ {a} : file'[b] = file[b]
    BY <1>1, <1>5, <2>1, <2>2, Writes DEF WriteArtifact, OnboardingInv, Typed, HistoryFits
  <2>4. /\ file'["profile"] = file["profile"] /\ \A p \in Peer : file'[p] = file[p]
        /\ file'["dispatcher_projects"] = file["dispatcher_projects"]
        /\ file'["local_enrollment"] = file["local_enrollment"]
    BY <2>2, <2>3, PeersAreArtifacts
  <2>5. DiskTrusted'
    <3>1. ToldStays
      BY <2>1 DEF ToldStays, world, WriteArtifact
    <3>2. AbsenceTrusted'
      BY <1>1, <2>2 DEF AbsenceTrusted, Replacing, WriteArtifact
    <3> QED
      BY <2>1, <2>4, <3>1, <3>2, HashStays, TransactionStays, FilesStay
         DEF OnboardingInv, DiskTrusted, world, WriteArtifact
  <2>6. ProcFits'
    <3>1. Told' = Told
      BY <2>1 DEF Told, Name
    <3>2. AgreesWith(proc.content, Told)' /\ Trusted(proc.settings)'
      BY <1>1, <2>1, <2>2, <3>1 DEF AgreesWith, Keeps, Trusted, world, WriteArtifact
    <3> QED
      BY <1>1, <1>5, <2>1, <2>2, <2>4, <3>2
         DEF OnboardingInv, WriteArtifact, ProcFits, IdentityFits,
         ImportFits, NamesFit, SettingsFit, ConfigurationFits, WritingFits, Run, Name, Serving,
         Configuring, Writing, Transacted
  <2>7. ExportedKeyStays'
    BY <2>1, <2>4 DEF OnboardingInv, ExportedKeyStays, WriteArtifact, Local
  <2> QED BY <2>3, <2>5, <2>6, <2>7 DEF OnboardingInv
<1> QED BY <1>2, <1>3, <1>4, <1>5 DEF WriteArtifact

LEMMA SwapArtifactKeeps ==
    ASSUME OnboardingInv, SwapArtifact
    PROVE  OnboardingInv'
<1> USE NoneIsNothing
<1> DEFINE c == proc.content
<1>1. /\ proc # None /\ Run("swap") /\ manifest # None
      /\ proc.artifact = "runtime_settings" /\ c \in Settings
      /\ AgreesWith(c, Told) /\ proc.settings \in Settings /\ Trusted(proc.settings)
  <2>1. proc # None /\ Run("swap")
    BY DEF SwapArtifact, Run
  <2>2. proc.artifact = "runtime_settings"
    BY <2>1 DEF OnboardingInv, ProcFits, WritingFits, Writing, Run
  <2> QED BY <2>1, <2>2, WritingKnows DEF Run, Writing
<1>2. Write("runtime_settings", c) /\ aside' = None /\ GoTo("hash")
  BY <1>1 DEF SwapArtifact
<1>3. /\ proc' \in Processes /\ proc'.step = "hash" /\ proc'.command = proc.command
      /\ proc'.settings = proc.settings /\ proc'.artifact = proc.artifact
      /\ proc'.content = c /\ history' = history
  BY <1>1, <1>2, Goes DEF OnboardingInv, Step
<1>4. /\ Typed' /\ file'["runtime_settings"] = c
      /\ \A b \in Artifact \ {"runtime_settings"} : file'[b] = file[b]
  BY <1>1, <1>2, <1>3, Writes, ContentOf, PeersAreArtifacts
     DEF SwapArtifact, OnboardingInv, Typed, HistoryFits
<1>5. /\ file'["profile"] = file["profile"]
      /\ \A p \in Peer : file'[p] = file[p]
      /\ file'["dispatcher_projects"] = file["dispatcher_projects"]
      /\ file'["local_enrollment"] = file["local_enrollment"]
  BY <1>4, PeersAreArtifacts
<1>6. DiskTrusted'
  BY <1>1, <1>3, <1>4, <1>5, DiskStays DEF OnboardingInv, world, SwapArtifact
<1>7. ProcFits'
  <2>1. Told' = Told
    BY <1>3 DEF Told, Name
  <2>2. AgreesWith(proc.content, Told)' /\ Trusted(proc.settings)'
    BY <1>1, <1>3, <2>1 DEF AgreesWith, Keeps, Trusted, world, SwapArtifact
  <2> QED
    BY <1>1, <1>3, <1>4, <1>5, <2>2
       DEF OnboardingInv, SwapArtifact, ProcFits, IdentityFits, ImportFits, NamesFit, SettingsFit,
       ConfigurationFits, WritingFits, Run, Name, Serving, Configuring, Writing
<1>8. ExportedKeyStays'
  BY <1>3, <1>5 DEF OnboardingInv, ExportedKeyStays, SwapArtifact, Local
<1> QED BY <1>4, <1>6, <1>7, <1>8 DEF OnboardingInv

LEMMA RecordArtifactKeeps ==
    ASSUME OnboardingInv, RecordArtifact
    PROVE  OnboardingInv'
<1> USE NoneIsNothing
<1> DEFINE a == proc.artifact
           c == proc.content
<1>1. /\ proc # None /\ Run("hash") /\ manifest # None /\ IsManifest(manifest)
      /\ a \in Transacted /\ a \in Artifact /\ c \in Content(a) /\ file[a] = c
      /\ a = "dispatcher_projects" =>
             /\ Name("dispatcher") /\ proc.settings.dispatcher = None
             /\ Stable(proc.settings) /\ tx["runtime_settings"] = None
      /\ a = "runtime_settings" =>
             /\ c \in Settings
             /\ tx["runtime_settings"] \in Transaction("runtime_settings")
             /\ tx["runtime_settings"].target = c
             /\ AgreesWith(c, Told)
      /\ proc.settings \in Settings /\ Trusted(proc.settings)
  <2>1. proc # None /\ Run("hash")
    BY DEF RecordArtifact, Run
  <2>2. file[a] = c
    BY <2>1 DEF OnboardingInv, ProcFits, WritingFits, Writing, Run
  <2> QED BY <2>1, <2>2, WritingKnows DEF Run, Writing
<1>2. Record(a) /\ GoTo("remove")
  BY <1>1 DEF RecordArtifact
<1>3. /\ proc' \in Processes /\ proc'.step = "remove" /\ proc'.command = proc.command
      /\ proc'.settings = proc.settings /\ proc'.artifact = a
      /\ proc'.content = c /\ history' = history
  BY <1>1, <1>2, Goes DEF OnboardingInv, Step
<1>4. /\ IsManifest(manifest') /\ manifest'.local = manifest.local
      /\ manifest'.enrolled = manifest.enrolled
      /\ manifest'.hash = [manifest.hash EXCEPT ![a] = file[a]]
  BY <1>1, <1>2 DEF Record, IsManifest
<1>5. Typed' /\ \A b \in Artifact \ {a} : manifest'.hash[b] = manifest.hash[b]
  BY <1>1, <1>3, <1>4, Records DEF OnboardingInv, Typed, HistoryFits, RecordArtifact
<1>6. manifest'.hash[a] = c
  BY <1>1, <1>4 DEF IsManifest
<1>7. DiskTrusted'
  <2>1. CASE a = "runtime_settings"
    <3>1. Trusted(c)
      BY <1>1, <2>1 DEF OnboardingInv, DiskTrusted, TransactionTrusted
    <3>2. ToldStays
      BY <1>3 DEF ToldStays, world, RecordArtifact
    <3>3. HashTrusted'
      BY <1>6, <2>1, <3>1, <3>2, HashKnown
    <3> QED
      BY <1>3, <3>2, <3>3, TransactionStays, AbsenceStays, FilesStay
         DEF OnboardingInv, DiskTrusted, world, RecordArtifact
  <2>2. CASE a # "runtime_settings"
    BY <1>1, <1>3, <1>5, <2>2, OtherFile, PeersAreArtifacts DEF OnboardingInv, RecordArtifact
  <2> QED BY <2>1, <2>2
<1>8. ProcFits'
  <2>1. Told' = Told
    BY <1>3 DEF Told, Name
  <2>2. /\ a = "runtime_settings" => AgreesWith(proc.content, Told)'
        /\ Trusted(proc.settings)'
    BY <1>1, <1>3, <2>1 DEF AgreesWith, Keeps, Trusted, world, RecordArtifact
  <2>3. a = "dispatcher_projects" => Stable(proc.settings)'
    BY <1>1, <1>3, <1>5, PeersAreArtifacts DEF Stable, Bound, RecordArtifact, Base
  <2> QED
    BY <1>1, <1>3, <1>4, <1>6, <2>2, <2>3, NoneIsNoManifest
       DEF OnboardingInv, RecordArtifact, ProcFits, IdentityFits, ImportFits, NamesFit, SettingsFit,
       ConfigurationFits, WritingFits, Run, Name, Serving, Configuring, Writing
<1>9. ExportedKeyStays'
  BY <1>1, <1>3, <1>4 DEF OnboardingInv, ExportedKeyStays, RecordArtifact, Local
<1> QED BY <1>5, <1>7, <1>8, <1>9 DEF OnboardingInv

LEMMA RemoveTransactionKeeps ==
    ASSUME OnboardingInv, RemoveTransaction
    PROVE  OnboardingInv'
<1> USE NoneIsNothing
<1> DEFINE a == proc.artifact
           c == proc.content
<1>1. /\ proc # None /\ Run("remove") /\ manifest # None /\ IsManifest(manifest)
      /\ a \in Transacted /\ a \in Artifact /\ c \in Content(a)
      /\ file[a] = c /\ manifest.hash[a] = c
      /\ a = "dispatcher_projects" =>
             /\ Name("dispatcher") /\ proc.settings.dispatcher = None
             /\ Stable(proc.settings) /\ tx["runtime_settings"] = None
             /\ c = proc.command.input
      /\ a = "runtime_settings" => c \in Settings /\ AgreesWith(c, Told)
      /\ proc.settings \in Settings /\ Trusted(proc.settings)
      /\ proc.command.name \in {"transport", "dispatcher", "mcp"}
  <2>1. proc # None /\ Run("remove")
    BY DEF RemoveTransaction, Run
  <2>2. file[a] = c /\ manifest.hash[a] = c
        /\ (a = "dispatcher_projects" => c = proc.command.input)
        /\ proc.command.name \in {"transport", "dispatcher", "mcp"}
    BY <2>1 DEF OnboardingInv, ProcFits, WritingFits, NamesFit, Writing, Run
  <2> QED BY <2>1, <2>2, WritingKnows DEF Run, Writing
<1>2. tx' = [tx EXCEPT ![a] = None]
  BY <1>1 DEF RemoveTransaction
<1>3. CASE a = "dispatcher_projects" /\ GoTo("update")
  <2>1. /\ proc' \in Processes /\ proc'.step = "update" /\ proc'.command = proc.command
        /\ proc'.settings = proc.settings /\ proc'.artifact = a
        /\ proc'.content = c /\ history' = history
    BY <1>1, <1>3, Goes DEF OnboardingInv, Step
  <2>2. HistoryFits' /\ TroubleFits'
    BY <2>1 DEF OnboardingInv, Typed, HistoryFits, TroubleFits, world, RemoveTransaction
  <2>3. /\ Typed' /\ tx'[a] = None
        /\ \A b \in Transacted \ {a} : tx'[b] = tx[b]
    BY <1>1, <1>2, <2>2, SetsTransaction DEF OnboardingInv, RemoveTransaction
  <2>4. tx'["runtime_settings"] = tx["runtime_settings"]
    BY <1>3, <2>3 DEF Transacted
  <2>5. DiskTrusted'
    BY <2>1, <2>4, DiskStays DEF OnboardingInv, world, RemoveTransaction
  <2>6. ProcFits'
    <3>1. Stable(proc.settings)' /\ Trusted(proc.settings)'
      BY <1>1, <1>3, <2>1 DEF Stable, Bound, Trusted, AgreesWith, Keeps, world, RemoveTransaction, Base
    <3> QED
      BY <1>1, <1>3, <2>1, <2>4, <3>1
         DEF OnboardingInv, RemoveTransaction, ProcFits, IdentityFits, ImportFits, NamesFit,
         SettingsFit, ConfigurationFits, WritingFits, Run, Name, Serving, Configuring, Writing
  <2>7. ExportedKeyStays'
    BY <2>1 DEF OnboardingInv, ExportedKeyStays, RemoveTransaction, Local
  <2> QED BY <2>3, <2>5, <2>6, <2>7 DEF OnboardingInv
<1>4. CASE a = "runtime_settings" /\ Accept(Told)
  <2>1. /\ Name("transport") => file["profile"] = proc.command.input
        /\ Name("dispatcher") => file["dispatcher_projects"] = proc.command.input
    BY <1>1, <1>4 DEF OnboardingInv, ProcFits, ConfigurationFits, Writing, Run
  <2>2. tx'["runtime_settings"] = None
    BY <1>2, <1>4 DEF OnboardingInv, Typed, TransactionsFit, Transacted
  <2>3. /\ UNCHANGED <<key, file, database, aside, registration, world>>
        /\ manifest' = manifest
    BY DEF RemoveTransaction
  <2> QED BY <1>1, <1>2, <1>4, <2>1, <2>2, <2>3, TellsSettings
<1> QED BY <1>1, <1>3, <1>4 DEF RemoveTransaction, Transacted

-----------------------------------------------------------------------------
(* The steps that configure the transport.                                 *)

(* What a command knows once it has read the settings.                     *)
LEMMA ConfiguringKnows ==
    ASSUME OnboardingInv, proc # None, proc.step \in Configuring
    PROVE  /\ proc \in Processes /\ manifest # None /\ IsManifest(manifest)
           /\ proc.settings \in Settings /\ Trusted(proc.settings) /\ Stable(proc.settings)
           /\ tx["runtime_settings"] = None
           /\ Name("transport") => proc.command.input \in Transport
           /\ Name("dispatcher") => proc.command.input \in Dispatcher
           /\ \A p \in Peer : ~Name("status") /\ ~Name("verify") => manifest.enrolled[p] = file[p]
<1>1. proc \in Processes /\ manifest # None /\ IsManifest(manifest)
  BY DEF OnboardingInv, ProcFits, Run, Configuring, Typed, ManifestFits
<1>2. /\ Name("transport") => proc.command.input \in Transport
      /\ Name("dispatcher") => proc.command.input \in Dispatcher
  BY <1>1, CommandParts DEF Processes, Name
<1> QED
  BY <1>1, <1>2 DEF OnboardingInv, ProcFits, SettingsFit, ConfigurationFits, Serving

LEMMA ConfigureTransportKeeps ==
    ASSUME OnboardingInv, ConfigureTransport
    PROVE  OnboardingInv'
<1> USE NoneIsNothing
<1>1. /\ proc # None /\ Run("transport") /\ Name("transport")
      /\ Stable(proc.settings) /\ Trusted(proc.settings) /\ manifest # None
      /\ tx["runtime_settings"] = None
  <2>1. proc # None /\ Run("transport") /\ Name("transport")
    BY DEF ConfigureTransport, OnboardingInv, ProcFits, NamesFit, Run
  <2> QED BY <2>1, ConfiguringKnows DEF Run, Configuring
<1>2. CASE Refuse /\ UNCHANGED database
  BY <1>2, EndingStep DEF ConfigureTransport
<1>3. CASE ~OtherTransport /\ ProfileFits /\ GoTo("record profile") /\ UNCHANGED database
  <2>1. /\ proc' \in Processes /\ proc'.step = "record profile" /\ proc'.command = proc.command
        /\ proc'.settings = proc.settings /\ proc'.artifact = proc.artifact
        /\ proc'.content = proc.content /\ history' = history
    BY <1>1, <1>3, Goes DEF OnboardingInv, Step
  <2>2. Stable(proc.settings)' /\ Trusted(proc.settings)'
    BY <1>1, <1>3, <2>1
       DEF Stable, Bound, Trusted, AgreesWith, Keeps, world, ConfigureTransport, Base
  <2>3. ProcFits'
    BY <1>1, <1>3, <2>1, <2>2
       DEF OnboardingInv, ConfigureTransport, OtherTransport, ProfileFits, ProcFits, IdentityFits,
       ImportFits, NamesFit, SettingsFit, ConfigurationFits, WritingFits, Run, Name, Serving,
       Configuring, Writing
  <2> QED BY <1>3, <2>1, <2>3, QuietStep DEF OnboardingInv, Typed, HistoryFits, ConfigureTransport
<1>4. CASE /\ ~OtherTransport /\ file["profile"] = None /\ ~database
           /\ database' = TRUE /\ GoTo("profile")
  <2>1. /\ proc' \in Processes /\ proc'.step = "profile" /\ proc'.command = proc.command
        /\ proc'.settings = proc.settings /\ proc'.artifact = proc.artifact
        /\ proc'.content = proc.content /\ history' = history
    BY <1>1, <1>4, Goes DEF OnboardingInv, Step
  <2>2. proc.settings.transport = None
    BY <1>1, <1>4 DEF Stable, Bound, Base
  <2>3. Stable(proc.settings)' /\ Trusted(proc.settings)'
    BY <1>1, <2>1, <2>2
       DEF Stable, Bound, Trusted, AgreesWith, Keeps, world, ConfigureTransport, Base
  <2>4. ProcFits'
    BY <1>1, <1>4, <2>1, <2>2, <2>3
       DEF OnboardingInv, ConfigureTransport, ProcFits, IdentityFits,
       ImportFits, NamesFit, SettingsFit, ConfigurationFits, WritingFits, Run, Name, Serving,
       Configuring, Writing
  <2>5. Typed'
    <3>1. RestFits'
      BY <1>4 DEF OnboardingInv, Typed, RestFits, ConfigureTransport
    <3> QED BY <2>1, <3>1, TypesStay DEF OnboardingInv, Typed, world, ConfigureTransport
  <2>6. DiskTrusted'
    BY <2>1, DiskStays DEF OnboardingInv, world, ConfigureTransport
  <2>7. ExportedKeyStays'
    BY <2>1 DEF OnboardingInv, ExportedKeyStays, ConfigureTransport, Local
  <2> QED BY <2>4, <2>5, <2>6, <2>7 DEF OnboardingInv
<1> QED BY <1>2, <1>3, <1>4 DEF ConfigureTransport

LEMMA WriteProfileKeeps ==
    ASSUME OnboardingInv, WriteProfile
    PROVE  OnboardingInv'
<1> USE NoneIsNothing
<1> DEFINE t == proc.command.input
<1>1. /\ proc # None /\ Run("profile") /\ Name("transport") /\ t \in Transport
      /\ Stable(proc.settings) /\ Trusted(proc.settings) /\ manifest # None
      /\ tx["runtime_settings"] = None
      /\ file["profile"] = None /\ proc.settings.transport = None
  <2>1. proc # None /\ Run("profile") /\ Name("transport")
    BY DEF WriteProfile, OnboardingInv, ProcFits, NamesFit, Run
  <2>2. file["profile"] = None /\ proc.settings.transport = None
    BY <2>1 DEF OnboardingInv, ProcFits, ConfigurationFits, Run
  <2> QED BY <2>1, <2>2, ConfiguringKnows DEF Run, Configuring
<1>2. Write("profile", t) /\ GoTo("record profile")
  BY DEF WriteProfile
<1>3. /\ proc' \in Processes /\ proc'.step = "record profile" /\ proc'.command = proc.command
      /\ proc'.settings = proc.settings /\ proc'.artifact = proc.artifact
      /\ proc'.content = proc.content /\ history' = history
  BY <1>1, <1>2, Goes DEF OnboardingInv, Step
<1>4. /\ Typed' /\ file'["profile"] = t
      /\ \A b \in Artifact \ {"profile"} : file'[b] = file[b]
  BY <1>1, <1>2, <1>3, Writes, ContentOf, PeersAreArtifacts
     DEF WriteProfile, OnboardingInv, Typed, HistoryFits, RestFits
<1>5. /\ file'["runtime_settings"] = file["runtime_settings"]
      /\ \A p \in Peer : file'[p] = file[p]
      /\ file'["dispatcher_projects"] = file["dispatcher_projects"]
      /\ file'["local_enrollment"] = file["local_enrollment"]
  BY <1>4, PeersAreArtifacts
<1>6. DiskTrusted'
  BY <1>1, <1>3, <1>5, DiskStays DEF OnboardingInv, world, WriteProfile
<1>7. ProcFits'
  <2>1. Stable(proc.settings)' /\ Trusted(proc.settings)'
    BY <1>1, <1>3, <1>5 DEF Stable, Bound, Trusted, AgreesWith, Keeps, world, WriteProfile, Base
  <2> QED
    BY <1>1, <1>3, <1>4, <1>5, <2>1
       DEF OnboardingInv, WriteProfile, ProcFits, IdentityFits, ImportFits, NamesFit, SettingsFit,
       ConfigurationFits, WritingFits, Run, Name, Serving, Configuring, Writing
<1>8. ExportedKeyStays'
  BY <1>3, <1>5 DEF OnboardingInv, ExportedKeyStays, WriteProfile, Local
<1> QED BY <1>4, <1>6, <1>7, <1>8 DEF OnboardingInv

LEMMA RecordProfileKeeps ==
    ASSUME OnboardingInv, RecordProfile
    PROVE  OnboardingInv'
<1> USE NoneIsNothing
<1> DEFINE t == proc.command.input
           s == proc.settings
<1>1. /\ proc # None /\ Run("record profile") /\ Name("transport") /\ t \in Transport
      /\ s \in Settings /\ Stable(s) /\ Trusted(s)
      /\ tx["runtime_settings"] = None /\ manifest # None /\ IsManifest(manifest)
      /\ file["profile"] = t /\ s.transport \in {None, t}
      /\ \A p \in Peer : manifest.enrolled[p] = file[p]
  <2>1. proc # None /\ Run("record profile") /\ Name("transport")
    BY DEF RecordProfile, OnboardingInv, ProcFits, NamesFit, Run
  <2>2. file["profile"] = t /\ s.transport \in {None, t}
    BY <2>1 DEF OnboardingInv, ProcFits, ConfigurationFits, Run
  <2> QED BY <2>1, <2>2, ConfiguringKnows DEF Run, Configuring, Name
<1>2. /\ IsManifest(manifest') /\ manifest'.local = manifest.local
      /\ manifest'.enrolled = manifest.enrolled
      /\ manifest'.hash = [manifest.hash EXCEPT !["profile"] = file["profile"]]
      /\ manifest'.hash["runtime_settings"] = manifest.hash["runtime_settings"]
      /\ manifest'.hash["dispatcher_projects"] = manifest.hash["dispatcher_projects"]
  BY <1>1, ContentOf, PeersAreArtifacts DEF RecordProfile, Record, IsManifest
<1>3. CASE s.transport # None /\ Accept(Told)
  <2>1. file["runtime_settings"] = s /\ manifest.hash["runtime_settings"] = s
    <3>1. s # Base
      BY <1>3 DEF Base
    <3> QED BY <1>1, <3>1 DEF Stable
  <2>2. AgreesWith(s, Told)
    <3>1. /\ Told.transport = t
          /\ Told.dispatcher = history.reported.dispatcher
          /\ Told.mcp = history.reported.mcp
      BY <1>1, ToldParts DEF Name
    <3> QED BY <1>1, <1>3, <3>1 DEF AgreesWith, Keeps, Trusted
  <2>3. /\ UNCHANGED <<key, file, database, aside, registration, world>>
        /\ tx' = tx
    BY DEF RecordProfile
  <2> QED BY <1>1, <1>2, <1>3, <2>1, <2>2, <2>3, TellsSettings DEF Name
<1>4. CASE s.transport = None /\ GoTo("update")
  <2>1. /\ proc' \in Processes /\ proc'.step = "update" /\ proc'.command = proc.command
        /\ proc'.settings = proc.settings /\ proc'.artifact = proc.artifact
        /\ proc'.content = proc.content /\ history' = history
    BY <1>1, <1>4, Goes DEF OnboardingInv, Step
  <2>2. Typed'
    BY <1>1, <1>2, <2>1, Records, PeersAreArtifacts DEF OnboardingInv, Typed, HistoryFits, RecordProfile
  <2>3. DiskTrusted'
    BY <1>1, <1>2, <2>1, OtherFile DEF OnboardingInv, RecordProfile
  <2>4. ProcFits'
    <3>1. Stable(proc.settings)' /\ Trusted(proc.settings)'
      BY <1>1, <1>2, <2>1 DEF Stable, Bound, Trusted, AgreesWith, Keeps, world, RecordProfile, Base
    <3>2. IdentityFits' /\ ImportFits' /\ NamesFit'
      BY <1>1, <2>1 DEF IdentityFits, ImportFits, NamesFit, Run, Name, Writing
    <3>3. SettingsFit'
      BY <1>1, <1>2, <2>1, <3>1 DEF SettingsFit, RecordProfile, Serving, Configuring
    <3>4. ConfigurationFits'
      BY <1>1, <2>1, <3>1 DEF ConfigurationFits, RecordProfile, Run, Name
    <3>5. WritingFits'
      BY <2>1 DEF WritingFits, Writing
    <3> QED
      BY <1>1, <1>2, <2>1, <3>2, <3>3, <3>4, <3>5, NoneIsNoManifest
         DEF OnboardingInv, ProcFits, Run
  <2>5. ExportedKeyStays'
    BY <1>1, <1>2, <2>1 DEF OnboardingInv, ExportedKeyStays, RecordProfile, Local
  <2> QED BY <2>2, <2>3, <2>4, <2>5 DEF OnboardingInv
<1> QED BY <1>3, <1>4 DEF RecordProfile

-----------------------------------------------------------------------------
(* The steps that configure the dispatcher and the MCP server, and those   *)
(* that only look at the settings.                                         *)

LEMMA ConfigureDispatcherKeeps ==
    ASSUME OnboardingInv, ConfigureDispatcher
    PROVE  OnboardingInv'
<1> USE NoneIsNothing
<1> DEFINE s == proc.settings
           d == proc.command.input
           t == [previous |-> manifest.hash["dispatcher_projects"], target |-> d]
<1>1. /\ proc # None /\ Run("dispatcher") /\ Name("dispatcher") /\ d \in Dispatcher
      /\ s \in Settings /\ Stable(s) /\ Trusted(s)
      /\ tx["runtime_settings"] = None /\ manifest # None /\ IsManifest(manifest)
      /\ \A p \in Peer : manifest.enrolled[p] = file[p]
  <2>1. proc # None /\ Run("dispatcher") /\ Name("dispatcher")
    BY DEF ConfigureDispatcher, OnboardingInv, ProcFits, NamesFit, Run
  <2> QED BY <2>1, ConfiguringKnows DEF Run, Configuring, Name
<1>2. CASE Refuse /\ UNCHANGED tx
  BY <1>2, EndingStep DEF ConfigureDispatcher
<1>3. CASE /\ s.dispatcher # None /\ UNCHANGED tx /\ s.dispatcher = d
           /\ file["dispatcher_projects"] = d /\ Accept(Told)
  <2>1. file["runtime_settings"] = s /\ manifest.hash["runtime_settings"] = s
    <3>1. s # Base
      BY <1>3 DEF Base
    <3> QED BY <1>1, <3>1 DEF Stable
  <2>2. AgreesWith(s, Told)
    <3>1. /\ Told.transport = history.reported.transport /\ Told.dispatcher = d
          /\ Told.mcp = history.reported.mcp
      BY <1>1, ToldParts DEF Name
    <3> QED BY <1>1, <1>3, <3>1 DEF AgreesWith, Keeps, Trusted
  <2>3. /\ UNCHANGED <<key, file, database, aside, registration, world>>
        /\ tx' = tx /\ manifest' = manifest
    BY <1>3 DEF ConfigureDispatcher
  <2> QED BY <1>1, <1>3, <2>1, <2>2, <2>3, TellsSettings DEF Name
<1>4. CASE s.transport # None /\ s.dispatcher = None /\ Begin("dispatcher_projects", d)
  <2>1. /\ tx' = [tx EXCEPT !["dispatcher_projects"] = t] /\ history' = history
        /\ proc' = [proc EXCEPT !.step = "write", !.artifact = "dispatcher_projects",
                                !.content = d]
    BY <1>4 DEF Begin
  <2>2. t \in Transaction("dispatcher_projects")
    BY <1>1, ContentOf, PeersAreArtifacts DEF Transaction, IsManifest
  <2>3. HistoryFits' /\ TroubleFits'
    BY <2>1 DEF OnboardingInv, Typed, HistoryFits, TroubleFits, world, ConfigureDispatcher
  <2>4. /\ Typed'
        /\ \A b \in Transacted \ {"dispatcher_projects"} : tx'[b] = tx[b]
    BY <2>1, <2>2, <2>3, SetsTransaction DEF OnboardingInv, ConfigureDispatcher, Transacted
  <2>5. tx'["runtime_settings"] = tx["runtime_settings"]
    BY <2>4 DEF Transacted
  <2>6. DiskTrusted'
    BY <2>1, <2>5, DiskStays DEF OnboardingInv, world, ConfigureDispatcher
  <2>7. ProcFits'
    <3>1. /\ proc' \in Processes /\ proc'.step = "write" /\ proc'.command = proc.command
          /\ proc'.settings = s /\ proc'.artifact = "dispatcher_projects" /\ proc'.content = d
      BY <1>1, <2>1 DEF OnboardingInv, ProcFits, Processes, Step, Transacted
    <3>2. Stable(proc.settings)' /\ Trusted(proc.settings)'
      BY <1>1, <2>1, <3>1
         DEF Stable, Bound, Trusted, AgreesWith, Keeps, world, ConfigureDispatcher, Base
    <3> QED
      BY <1>1, <1>4, <2>5, <3>1, <3>2, ContentOf
         DEF OnboardingInv, ConfigureDispatcher, ProcFits, IdentityFits, ImportFits, NamesFit,
         SettingsFit, ConfigurationFits, WritingFits, Run, Name, Serving, Configuring, Writing,
         Transacted
  <2>8. ExportedKeyStays'
    BY <2>1 DEF OnboardingInv, ExportedKeyStays, ConfigureDispatcher, Local
  <2> QED BY <2>4, <2>6, <2>7, <2>8 DEF OnboardingInv
<1> QED BY <1>2, <1>3, <1>4 DEF ConfigureDispatcher

LEMMA ConfigureMcpKeeps ==
    ASSUME OnboardingInv, ConfigureMcp
    PROVE  OnboardingInv'
<1> USE NoneIsNothing
<1> DEFINE s == proc.settings
<1>1. /\ proc # None /\ Run("mcp") /\ Name("mcp")
      /\ s \in Settings /\ Stable(s) /\ Trusted(s)
      /\ tx["runtime_settings"] = None /\ manifest # None /\ IsManifest(manifest)
      /\ \A p \in Peer : manifest.enrolled[p] = file[p]
  <2>1. proc # None /\ Run("mcp") /\ Name("mcp")
    BY DEF ConfigureMcp, OnboardingInv, ProcFits, NamesFit, Run
  <2> QED BY <2>1, ConfiguringKnows DEF Run, Configuring, Name
<1>2. CASE Refuse /\ UNCHANGED registration
  BY <1>2, EndingStep DEF ConfigureMcp
<1>3. CASE s.mcp /\ s.transport # None /\ Accept(Told) /\ UNCHANGED registration
  <2>1. file["runtime_settings"] = s /\ manifest.hash["runtime_settings"] = s
    <3>1. s # Base
      BY <1>3 DEF Base
    <3> QED BY <1>1, <3>1 DEF Stable
  <2>2. AgreesWith(s, Told)
    <3>1. /\ Told.transport = history.reported.transport
          /\ Told.dispatcher = history.reported.dispatcher
          /\ Told.mcp = TRUE /\ s.mcp = TRUE
      BY <1>1, <1>3, ToldParts DEF Name, Settings
    <3> QED BY <1>1, <1>3, <3>1 DEF AgreesWith, Keeps, Trusted
  <2>3. /\ UNCHANGED <<key, file, database, aside, registration, world>>
        /\ tx' = tx /\ manifest' = manifest
    BY <1>3 DEF ConfigureMcp
  <2> QED BY <1>1, <1>3, <2>1, <2>2, <2>3, TellsSettings DEF Name
<1>4. CASE GoTo("update") /\ registration' \in {"ours", registration}
  <2>1. /\ proc' \in Processes /\ proc'.step = "update" /\ proc'.command = proc.command
        /\ proc'.settings = proc.settings /\ proc'.artifact = proc.artifact
        /\ proc'.content = proc.content /\ history' = history
    BY <1>1, <1>4, Goes DEF OnboardingInv, Step
  <2>2. Typed'
    <3>1. RestFits'
      BY <1>4 DEF OnboardingInv, Typed, RestFits, ConfigureMcp
    <3> QED BY <2>1, <3>1, TypesStay DEF OnboardingInv, Typed, world, ConfigureMcp
  <2>3. DiskTrusted'
    BY <2>1, DiskStays DEF OnboardingInv, world, ConfigureMcp
  <2>4. ProcFits'
    <3>1. Stable(proc.settings)' /\ Trusted(proc.settings)'
      BY <1>1, <2>1 DEF Stable, Bound, Trusted, AgreesWith, Keeps, world, ConfigureMcp, Base
    <3> QED
      BY <1>1, <1>4, <2>1, <3>1
         DEF OnboardingInv, ConfigureMcp, ProcFits, IdentityFits, ImportFits, NamesFit, SettingsFit,
         ConfigurationFits, WritingFits, Run, Name, Serving, Configuring, Writing
  <2>5. ExportedKeyStays'
    BY <2>1 DEF OnboardingInv, ExportedKeyStays, ConfigureMcp, Local
  <2> QED BY <2>2, <2>3, <2>4, <2>5 DEF OnboardingInv
<1> QED BY <1>2, <1>3, <1>4 DEF ConfigureMcp

LEMMA VerifyKeeps ==
    ASSUME OnboardingInv, Verify \/ StartRuntime
    PROVE  OnboardingInv'
BY EndingStep DEF Verify, StartRuntime

-----------------------------------------------------------------------------
(* The operator, the faults and the hand.                                  *)

LEMMA EnterKeeps ==
    ASSUME OnboardingInv, NEW c \in Command, Enter(c)
    PROVE  OnboardingInv'
<1> USE NoneIsNothing
<1>1. HistoryFits' /\ history'.reported = history.reported
  BY DEF Enter, OnboardingInv, Typed, HistoryFits, Histories
<1>2. ProcFits'
  <2>1. CASE proc' = None
    BY <2>1 DEF ProcFits
  <2>2. CASE /\ proc' = [command |-> c, step |-> FirstStep[c.name], settings |-> None,
                         artifact |-> None, content |-> None]
             /\ manifest # None \/ c.name = "start"
    <3>1. /\ c.name = "start" => FirstStep[c.name] = "manifest"
          /\ c.name = "export" => FirstStep[c.name] = "export"
          /\ c.name = "import" => FirstStep[c.name] = "import"
          /\ c.name = "status" => FirstStep[c.name] = "report"
          /\ c.name = "mcp" => FirstStep[c.name] = "peek"
          /\ c.name \in {"transport", "dispatcher", "verify", "runtime"} =>
                 FirstStep[c.name] = "resume"
      BY DEF FirstStep
    <3>2. /\ proc' \in Processes /\ proc'.step = FirstStep[c.name] /\ proc'.command = c
          /\ proc'.settings = None /\ proc'.artifact = None /\ proc'.content = None
          /\ FirstStep[c.name] \in {"manifest", "export", "import", "report", "peek", "resume"}
      BY <2>2, <3>1, CommandParts DEF Processes, Step
    <3> QED
      BY <2>2, <3>1, <3>2, CommandParts
         DEF Enter, ProcFits, IdentityFits, ImportFits, NamesFit, SettingsFit,
         ConfigurationFits, WritingFits, Run, Name, Serving, Configuring, Writing
  <2> QED BY <2>1, <2>2 DEF Enter
<1> QED BY <1>1, <1>2, QuietStep DEF Enter

(* An interrupted command leaves nothing but what is on the disk.          *)
LEMMA InterruptsLeaves ==
    ASSUME OnboardingInv, NEW v \in {"died", "failed"}, Interrupts(v)
    PROVE  /\ proc # None /\ HistoryFits' /\ TroubleFits' /\ ProcFits'
           /\ history'.reported = history.reported /\ touched' = touched
<1>1. /\ proc # None /\ proc' = None /\ touched' = touched /\ faults' = faults + 1
      /\ faults + Cardinality(touched) < MaxTroubles
  BY DEF Interrupts, Trouble
<1>2. HistoryFits' /\ history'.reported = history.reported
  <2>1. proc.command \in Command
    BY <1>1 DEF OnboardingInv, ProcFits, Processes
  <2> QED BY <2>1 DEF Interrupts, OnboardingInv, Typed, HistoryFits, Histories
<1>3. TroubleFits'
  <2>1. Cardinality(touched) \in Nat
    BY FS_CardinalityType DEF OnboardingInv, Typed, TroubleFits
  <2> QED
    BY <1>1, <2>1, RuntimeSettingsAssumption DEF OnboardingInv, Typed, TroubleFits
<1> QED BY <1>1, <1>2, <1>3 DEF ProcFits

(* Nothing is exported before the enrollment is there.                     *)
LEMMA NothingExported ==
    ASSUME OnboardingInv, Run("key") \/ Run("enrollment")
    PROVE  history.reported.key = None
<1>1. history.reported.key \in OwnKey \cup {None}
  BY DEF OnboardingInv, Typed, HistoryFits, Histories, Reported
<1> QED
  BY <1>1, NoneIsNothing
     DEF OnboardingInv, ProcFits, IdentityFits, NoIdentity, ExportedKeyStays, Run

(* What writeFileSync leaves of a file is nothing that was there before.   *)
LEMMA PartLeaves ==
    ASSUME OnboardingInv, proc # None, PartlyWritten, UNCHANGED <<manifest, touched>>,
           history'.reported = history.reported
    PROVE  /\ FileFits' /\ TransactionsFit' /\ DiskTrusted'
           /\ Local' = Local \/ history.reported.key = None
<1> USE NoneIsNothing
<1>1. CASE \E a \in {"local_enrollment", "profile", "dispatcher_projects"} :
               /\ a = "local_enrollment" => Run("enrollment")
               /\ file[a] = None /\ Write(a, Partial) /\ UNCHANGED tx
  <2>1. PICK a \in {"local_enrollment", "profile", "dispatcher_projects"} :
               /\ a = "local_enrollment" => Run("enrollment")
               /\ file[a] = None /\ Write(a, Partial) /\ UNCHANGED tx
    BY <1>1
  <2>2. a \in Artifact
    BY <2>1, PeersAreArtifacts
  <2>3. FileFits' /\ file'[a] = Partial /\ \A b \in Artifact \ {a} : file'[b] = file[b]
    BY <2>1, <2>2 DEF OnboardingInv, Typed, FileFits, Write
  <2>4. /\ file'["runtime_settings"] = file["runtime_settings"]
        /\ \A p \in Peer : file'[p] = file[p]
        /\ file["profile"] # None => file'["profile"] = file["profile"]
        /\ file["dispatcher_projects"] # None =>
               file'["dispatcher_projects"] = file["dispatcher_projects"]
    BY <2>1, <2>3, PeersAreArtifacts
  <2>5. DiskTrusted'
    <3>1. tx' = tx
      BY <2>1
    <3> QED BY <2>4, <3>1, DiskStays DEF OnboardingInv
  <2>6. Local' = Local \/ history.reported.key = None
    BY <2>1, <2>3, PeersAreArtifacts, NothingExported DEF Local
  <2> QED BY <2>1, <2>3, <2>5, <2>6 DEF OnboardingInv, Typed, TransactionsFit
<1>2. CASE UNCHANGED file /\ \E a \in Transacted : tx' = [tx EXCEPT ![a] = Partial]
  <2>1. TransactionsFit' /\ tx'["runtime_settings"] \in {Partial, tx["runtime_settings"]}
    BY <1>2 DEF OnboardingInv, Typed, TransactionsFit, Transacted
  <2>2. DiskTrusted'
    BY <1>2, <2>1, DiskStays DEF OnboardingInv
  <2> QED BY <1>2, <2>1, <2>2 DEF OnboardingInv, Typed, FileFits, Local
<1>3. CASE Run("enrollment") /\ Write("local_enrollment", Partial) /\ UNCHANGED tx
  BY <1>1, <1>3 DEF OnboardingInv, ProcFits, IdentityFits, Local
<1>4. CASE Run("profile") /\ Write("profile", Partial) /\ UNCHANGED tx
  BY <1>1, <1>4 DEF OnboardingInv, ProcFits, ConfigurationFits
<1>5. CASE WritesNew /\ Write(proc.artifact, Partial) /\ UNCHANGED tx
  <2>1. proc.artifact = "dispatcher_projects" /\ file[proc.artifact] = None
    BY <1>5 DEF WritesNew, Replaces, Found, OnboardingInv, ProcFits, WritingFits, Writing, Run,
       Transacted
  <2> QED BY <1>1, <1>5, <2>1
<1> QED BY <1>2, <1>3, <1>4, <1>5 DEF PartlyWritten, Transacted

LEMMA DiesKeeps ==
    ASSUME OnboardingInv, Dies
    PROVE  OnboardingInv'
<1> USE NoneIsNothing
<1>1. /\ proc # None /\ HistoryFits' /\ TroubleFits' /\ ProcFits'
      /\ history'.reported = history.reported /\ touched' = touched
  BY InterruptsLeaves DEF Dies
<1>2. UNCHANGED <<database, aside, registration>>
  BY DEF Dies
<1>3. CASE UNCHANGED <<manifest, file, tx>> /\ (key' = key \/ (Run("key") /\ key' = Partial))
  <2>1. Typed'
    <3>1. RestFits'
      BY <1>2, <1>3 DEF OnboardingInv, Typed, RestFits
    <3> QED BY <1>1, <1>2, <1>3, <3>1, TypesStay DEF OnboardingInv, Typed
  <2>2. DiskTrusted'
    BY <1>1, <1>3, DiskStays DEF OnboardingInv
  <2>3. ExportedKeyStays'
    BY <1>1, <1>3, NothingExported DEF OnboardingInv, ExportedKeyStays, Local
  <2> QED BY <1>1, <2>1, <2>2, <2>3 DEF OnboardingInv
<1>4. CASE PartlyWritten /\ UNCHANGED <<manifest, key>>
  <2>1. /\ FileFits' /\ TransactionsFit' /\ DiskTrusted'
        /\ Local' = Local \/ history.reported.key = None
    BY <1>1, <1>4, PartLeaves
  <2>2. Typed'
    BY <1>1, <1>2, <1>4, <2>1, TypesStay DEF OnboardingInv, Typed
  <2>3. ExportedKeyStays'
    BY <1>1, <1>4, <2>1 DEF OnboardingInv, ExportedKeyStays
  <2> QED BY <1>1, <2>1, <2>2, <2>3 DEF OnboardingInv
<1>5. CASE Write("local_enrollment", None) /\ UNCHANGED <<manifest, key, tx>>
  <2>1. /\ FileFits' /\ file'["local_enrollment"] = None
        /\ \A b \in Artifact \ {"local_enrollment"} : file'[b] = file[b]
    BY <1>5, PeersAreArtifacts DEF OnboardingInv, Typed, FileFits, Write
  <2>2. Typed'
    BY <1>1, <1>2, <1>5, <2>1, TypesStay DEF OnboardingInv, Typed
  <2>3. /\ file'["runtime_settings"] = file["runtime_settings"]
        /\ file'["profile"] = file["profile"]
        /\ file'["dispatcher_projects"] = file["dispatcher_projects"]
        /\ \A p \in Peer : file'[p] = file[p]
    BY <2>1, PeersAreArtifacts
  <2>4. DiskTrusted'
    BY <1>1, <1>5, <2>3, DiskStays DEF OnboardingInv
  <2>5. ExportedKeyStays'
    BY <1>1, <1>5, <2>1 DEF OnboardingInv, ExportedKeyStays, Local
  <2> QED BY <1>1, <2>2, <2>4, <2>5 DEF OnboardingInv
<1>6. CASE manifest' = None /\ UNCHANGED <<key, file, tx>>
  <2>1. Typed'
    <3>1. ManifestFits'
      BY <1>6 DEF ManifestFits
    <3> QED BY <1>1, <1>2, <1>6, <3>1, TypesStay DEF OnboardingInv, Typed
  <2>2. DiskTrusted'
    BY <1>1, <1>6, DiskStays DEF OnboardingInv
  <2>3. ExportedKeyStays'
    BY <1>1, <1>6 DEF OnboardingInv, ExportedKeyStays, Local
  <2> QED BY <1>1, <2>1, <2>2, <2>3 DEF OnboardingInv
<1> QED BY <1>3, <1>4, <1>5, <1>6 DEF Dies

LEMMA FailsKeeps ==
    ASSUME OnboardingInv, Fails
    PROVE  OnboardingInv'
<1> USE NoneIsNothing
<1>1. /\ proc # None /\ HistoryFits' /\ TroubleFits' /\ ProcFits'
      /\ history'.reported = history.reported /\ touched' = touched
  BY InterruptsLeaves DEF Fails
<1>2. /\ UNCHANGED <<manifest, registration>> /\ database' \in BOOLEAN
      /\ key' = key \/ ((Run("key") \/ Run("enrollment")) /\ key' \in {None, Partial})
  BY DEF Fails, OnboardingInv, Typed, RestFits
<1>3. CASE UNCHANGED <<file, aside, tx>>
  <2>1. Typed'
    <3>1. RestFits'
      BY <1>2, <1>3 DEF OnboardingInv, Typed, RestFits
    <3> QED BY <1>1, <1>2, <1>3, <3>1, TypesStay DEF OnboardingInv, Typed
  <2>2. DiskTrusted'
    BY <1>1, <1>2, <1>3, DiskStays DEF OnboardingInv
  <2>3. ExportedKeyStays'
    BY <1>1, <1>2, <1>3, NothingExported DEF OnboardingInv, ExportedKeyStays, Local
  <2> QED BY <1>1, <2>1, <2>2, <2>3 DEF OnboardingInv
<1>4. CASE PartlyWritten /\ UNCHANGED aside
  <2>1. /\ FileFits' /\ TransactionsFit' /\ DiskTrusted'
        /\ Local' = Local \/ history.reported.key = None
    BY <1>1, <1>2, <1>4, PartLeaves
  <2>2. Typed'
    <3>1. RestFits'
      BY <1>2, <1>4 DEF OnboardingInv, Typed, RestFits
    <3> QED BY <1>1, <1>2, <2>1, <3>1, TypesStay DEF OnboardingInv, Typed
  <2>3. ExportedKeyStays'
    BY <1>1, <1>2, <2>1, NothingExported DEF OnboardingInv, ExportedKeyStays
  <2> QED BY <1>1, <2>1, <2>2, <2>3 DEF OnboardingInv
<1>5. CASE Run("swap") /\ Write("runtime_settings", aside) /\ aside' = None /\ UNCHANGED tx
  <2>1. aside \in Content("runtime_settings") \cup {None} /\ "runtime_settings" \in Artifact
    BY ContentOf, PeersAreArtifacts DEF OnboardingInv, Typed, RestFits
  <2>2. FileFits' /\ \A b \in Artifact \ {"runtime_settings"} : file'[b] = file[b]
    BY <1>5, <2>1 DEF OnboardingInv, Typed, FileFits, Write
  <2>3. /\ file'["local_enrollment"] = file["local_enrollment"]
        /\ file'["profile"] = file["profile"]
        /\ file'["dispatcher_projects"] = file["dispatcher_projects"]
        /\ \A p \in Peer : file'[p] = file[p]
    BY <2>2, PeersAreArtifacts
  <2>4. Typed'
    <3>1. RestFits'
      BY <1>2, <1>5 DEF OnboardingInv, Typed, RestFits
    <3> QED BY <1>1, <1>2, <1>5, <2>2, <3>1, TypesStay DEF OnboardingInv, Typed
  <2>5. tx["runtime_settings"] \in Transaction("runtime_settings")
        /\ tx["runtime_settings"].previous # None
    BY <1>1, <1>5 DEF OnboardingInv, ProcFits, WritingFits, Writing, Run
  <2>6. DiskTrusted'
    <3>1. ToldStays
      BY <1>1 DEF ToldStays
    <3>2. AbsenceTrusted'
      BY <1>5, <2>5 DEF AbsenceTrusted, Replacing
    <3> QED
      BY <1>1, <1>2, <1>5, <2>3, <3>1, <3>2, HashStays, TransactionStays, FilesStay
         DEF OnboardingInv, DiskTrusted
  <2>7. ExportedKeyStays'
    BY <1>1, <1>2, <2>3, NothingExported DEF OnboardingInv, ExportedKeyStays, Local
  <2> QED BY <1>1, <2>4, <2>6, <2>7 DEF OnboardingInv
<1> QED BY <1>3, <1>4, <1>5 DEF Fails

LEMMA Forgets ==
    ASSUME HistoryFits, Forget
    PROVE  HistoryFits' /\ history'.reported = history.reported
BY DEF HistoryFits, Histories, Forget

LEMMA TouchesCounts ==
    ASSUME OnboardingInv, NEW a \in Artifact \cup {"registration"}, Touches(a)
    PROVE  /\ TroubleFits' /\ touched' = touched \cup {a}
           /\ HistoryFits' /\ history'.reported = history.reported /\ proc' = None
           /\ UNCHANGED <<manifest, key, database, tx, aside, faults>>
<1>1. /\ a \notin touched /\ Cardinality(touched) < MaxEdits /\ proc' = None
      /\ touched' = touched \cup {a} /\ Forget
      /\ UNCHANGED <<manifest, key, database, tx, aside, faults>>
  BY DEF Touches
<1>2. /\ IsFiniteSet(touched') /\ Cardinality(touched') = Cardinality(touched) + 1
      /\ Cardinality(touched) \in Nat
  BY <1>1, FS_AddElement, FS_CardinalityType DEF OnboardingInv, Typed, TroubleFits
<1>3. TroubleFits'
  BY <1>1, <1>2, RuntimeSettingsAssumption DEF OnboardingInv, Typed, TroubleFits
<1> QED BY <1>1, <1>3, Forgets DEF OnboardingInv, Typed

LEMMA ChangesKeeps ==
    ASSUME OnboardingInv, NEW a \in Artifact, NEW c \in Content(a) \cup {None}, Changes(a, c),
           a = "local_enrollment" => c = None
    PROVE  OnboardingInv'
<1> USE NoneIsNothing
<1>1. /\ TroubleFits' /\ touched' = touched \cup {a}
      /\ HistoryFits' /\ history'.reported = history.reported /\ proc' = None
      /\ UNCHANGED <<manifest, key, database, tx, aside, faults>>
      /\ Write(a, c) /\ registration' = registration
  BY TouchesCounts DEF Changes
<1>2. FileFits' /\ file'[a] = c /\ \A b \in Artifact \ {a} : file'[b] = file[b]
  BY <1>1 DEF OnboardingInv, Typed, FileFits, Write
<1>3. Typed'
  BY <1>1, <1>2, TypesStay DEF OnboardingInv, Typed
<1>4. DiskTrusted'
  <2> ToldStays
    BY <1>1 DEF ToldStays
  <2>1. HashTrusted' /\ TransactionTrusted'
    BY <1>1, HashStays, TransactionStays DEF OnboardingInv, DiskTrusted
  <2>2. AbsenceTrusted'
    <3>1. CASE a = "runtime_settings"
      BY <1>1, <3>1 DEF AbsenceTrusted, Trusted, AgreesWith, Keeps, Base
    <3>2. CASE a # "runtime_settings"
      <4>1. file'["runtime_settings"] = file["runtime_settings"]
        BY <1>2, <3>2, PeersAreArtifacts
      <4> QED
        BY <1>1, <4>1, AbsenceStays DEF OnboardingInv, DiskTrusted
    <3> QED BY <3>1, <3>2
  <2>3. FilesTrusted'
    <3>1. /\ "profile" \in touched' \/ file'["profile"] = file["profile"]
          /\ "dispatcher_projects" \in touched'
             \/ file'["dispatcher_projects"] = file["dispatcher_projects"]
          /\ \A p \in Peer \ touched' : file'[p] = file[p]
      BY <1>1, <1>2, PeersAreArtifacts
    <3> QED BY <1>1, <3>1, FilesStay DEF OnboardingInv, DiskTrusted
  <2> QED BY <2>1, <2>2, <2>3 DEF DiskTrusted
<1>5. ExportedKeyStays'
  <2>1. file'["local_enrollment"] \in {None, file["local_enrollment"]}
    BY <1>2, PeersAreArtifacts
  <2> QED BY <1>1, <2>1 DEF OnboardingInv, ExportedKeyStays, Local
<1> QED BY <1>1, <1>3, <1>4, <1>5 DEF OnboardingInv, ProcFits

LEMMA ByHandKeeps ==
    ASSUME OnboardingInv, ByHand
    PROVE  OnboardingInv'
<1>1. ASSUME NEW a \in Artifact, Changes(a, None)
      PROVE  OnboardingInv'
  BY <1>1, ChangesKeeps
<1>2. ASSUME NEW p \in Peer, NEW k \in PeerKey, Changes(p, k)
      PROVE  OnboardingInv'
  BY <1>2, ChangesKeeps, ContentOf, PeersAreArtifacts
<1>3. ASSUME NEW m \in [Peer -> PeerKey], Changes("membership", m)
      PROVE  OnboardingInv'
  BY <1>3, ChangesKeeps, ContentOf, PeersAreArtifacts
<1>4. ASSUME NEW t \in Transport, Changes("profile", t)
      PROVE  OnboardingInv'
  BY <1>4, ChangesKeeps, ContentOf, PeersAreArtifacts
<1>5. ASSUME NEW d \in Dispatcher, Changes("dispatcher_projects", d)
      PROVE  OnboardingInv'
  BY <1>5, ChangesKeeps, ContentOf, PeersAreArtifacts
<1>6. ASSUME NEW s \in Settings, Changes("runtime_settings", s)
      PROVE  OnboardingInv'
  BY <1>6, ChangesKeeps, ContentOf, PeersAreArtifacts
<1> QED BY <1>1, <1>2, <1>3, <1>4, <1>5, <1>6 DEF ByHand

LEMMA UnregistersKeeps ==
    ASSUME OnboardingInv, Unregisters
    PROVE  OnboardingInv'
<1>1. /\ TroubleFits' /\ touched' = touched \cup {"registration"}
      /\ HistoryFits' /\ history'.reported = history.reported /\ proc' = None
      /\ UNCHANGED <<manifest, key, database, tx, aside, faults, file>>
      /\ registration' \in {"none", "other"}
  BY TouchesCounts DEF Unregisters
<1>2. Typed'
  <2>1. RestFits'
    BY <1>1 DEF OnboardingInv, Typed, RestFits
  <2> QED BY <1>1, <2>1, TypesStay DEF OnboardingInv, Typed
<1>3. DiskTrusted'
  BY <1>1, DiskStays DEF OnboardingInv
<1>4. ExportedKeyStays'
  BY <1>1 DEF OnboardingInv, ExportedKeyStays, Local
<1> QED BY <1>1, <1>2, <1>3, <1>4 DEF OnboardingInv, ProcFits

LEMMA PutBackKeeps ==
    ASSUME OnboardingInv, PutBack
    PROVE  OnboardingInv'
<1> USE NoneIsNothing
<1>1. /\ aside \in Settings /\ Write("runtime_settings", aside) /\ aside' = None /\ proc' = None
      /\ HistoryFits' /\ history'.reported = history.reported
      /\ UNCHANGED <<manifest, key, database, tx, registration, world>>
  BY Forgets DEF PutBack, OnboardingInv, Typed, RestFits
<1>2. /\ Typed' /\ file'["runtime_settings"] = aside
      /\ \A b \in Artifact \ {"runtime_settings"} : file'[b] = file[b]
  BY <1>1, Writes, ContentOf, PeersAreArtifacts DEF OnboardingInv
<1>3. /\ file'["local_enrollment"] = file["local_enrollment"]
      /\ file'["profile"] = file["profile"]
      /\ file'["dispatcher_projects"] = file["dispatcher_projects"]
      /\ \A p \in Peer : file'[p] = file[p]
  BY <1>2, PeersAreArtifacts
<1>4. DiskTrusted'
  BY <1>1, <1>2, <1>3, DiskStays DEF OnboardingInv, world
<1>5. ExportedKeyStays'
  BY <1>1, <1>3 DEF OnboardingInv, ExportedKeyStays, Local
<1> QED BY <1>1, <1>2, <1>4, <1>5 DEF OnboardingInv, ProcFits

-----------------------------------------------------------------------------
LEMMA InitKeeps == Init => OnboardingInv
<1> SUFFICES ASSUME Init PROVE OnboardingInv
  OBVIOUS
<1> USE NoneIsNothing DEF Init
<1>1. IsFiniteSet(touched) /\ Cardinality(touched) = 0
  BY FS_EmptySet
<1>2. TroubleFits
  BY <1>1, RuntimeSettingsAssumption DEF TroubleFits
<1>3. Nothing \in Reported
  BY DEF Nothing, Reported
<1>4. HistoryFits
  BY <1>3 DEF HistoryFits, Histories
<1>5. ManifestFits /\ FileFits /\ TransactionsFit /\ RestFits
  BY DEF ManifestFits, FileFits, TransactionsFit, RestFits
<1>6. DiskTrusted
  BY PeersAreArtifacts
     DEF DiskTrusted, HashTrusted, TransactionTrusted, AbsenceTrusted, FilesTrusted, Trusted,
         AgreesWith, Keeps, Base, Nothing, Transacted
<1>7. ExportedKeyStays /\ ProcFits
  BY DEF ExportedKeyStays, ProcFits, Nothing
<1> QED BY <1>2, <1>4, <1>5, <1>6, <1>7 DEF OnboardingInv, Typed

LEMMA StepKeeps == OnboardingInv /\ [Next]_vars => OnboardingInv'
<1> SUFFICES ASSUME OnboardingInv, [Next]_vars PROVE OnboardingInv'
  OBVIOUS
<1>1. CASE UNCHANGED vars
  <2>1. UNCHANGED <<manifest, key, file, database, proc, history, tx, aside, registration, world>>
    BY <1>1 DEF vars, world
  <2>2. HistoryFits' /\ history'.reported = history.reported
    BY <2>1 DEF OnboardingInv, Typed, HistoryFits
  <2>3. ProcFits'
    <3> SUFFICES ASSUME proc # None PROVE ProcFits'
      BY <2>1 DEF ProcFits
    <3>1. IdentityFits'
      BY <2>1 DEF OnboardingInv, ProcFits, IdentityFits, NoIdentity, Local, Run
    <3>2. ImportFits'
      BY <2>1 DEF OnboardingInv, ProcFits, ImportFits, Run, Name, Imported, Enrollment
    <3>3. NamesFit'
      BY <2>1 DEF OnboardingInv, ProcFits, NamesFit, Run, Name
    <3>4. Told' = Told /\ Trusted(proc.settings)' = Trusted(proc.settings)
          /\ AgreesWith(proc.content, Told)' = AgreesWith(proc.content, Told)
      BY <2>1 DEF Told, Name, Trusted, AgreesWith, Keeps, world
    <3>5. Stable(proc.settings)' = Stable(proc.settings)
      BY <2>1 DEF Stable, Bound, Base
    <3>6. SettingsFit'
      BY <2>1, <3>4 DEF OnboardingInv, ProcFits, SettingsFit, Name
    <3>7. ConfigurationFits'
      BY <2>1, <3>5 DEF OnboardingInv, ProcFits, ConfigurationFits, Run, Name
    <3>8. WritingFits'
      BY <2>1, <3>4, <3>5 DEF OnboardingInv, ProcFits, WritingFits, Run, Name
    <3> QED
      BY <2>1, <3>1, <3>2, <3>3, <3>6, <3>7, <3>8 DEF OnboardingInv, ProcFits, Run
  <2> QED BY <2>1, <2>2, <2>3, QuietStep
<1>2. CASE Onboards
  <2>1. OnboardingStep /\ UNCHANGED <<tx, aside, registration, world>>
    BY <1>2 DEF Onboards
  <2> QED
    BY <2>1, CreateManifestKeeps, AdoptIdentityKeeps, GenerateIdentityKeeps, WriteKeyKeeps,
       WriteEnrollmentKeeps, WriteCanonicalKeeps, RecordIdentityKeeps, ExportKeeps,
       ImportPeerKeeps, RecordPeerKeeps, WriteMembershipKeeps, RecordMembershipKeeps,
       ResumeKeeps, ReportStatusKeeps DEF OnboardingStep
<1>3. CASE SettingsStep
  BY <1>3, RecoverHashKeeps, RecoverTransactionKeeps, CannotRecoverKeeps, ReadSettingsKeeps,
     StatusEndsKeeps, ConfigureTransportKeeps, WriteProfileKeeps, RecordProfileKeeps,
     ConfigureDispatcherKeeps, ConfigureMcpKeeps, VerifyKeeps, UpdateSettingsKeeps,
     WriteArtifactKeeps, SwapArtifactKeeps, RecordArtifactKeeps, RemoveTransactionKeeps
     DEF SettingsStep
<1>4. CASE \E c \in Command : Enter(c)
  BY <1>4, EnterKeeps
<1>5. CASE Dies \/ Fails \/ ByHand \/ Unregisters \/ PutBack
  BY <1>5, DiesKeeps, FailsKeeps, ByHandKeeps, UnregistersKeeps, PutBackKeeps
<1> QED BY <1>1, <1>2, <1>3, <1>4, <1>5 DEF Next

LEMMA OnboardingInvariant == Spec => []OnboardingInv
BY InitKeeps, StepKeeps, PTL DEF Spec

-----------------------------------------------------------------------------
(* Every variable keeps its type, whatever dies, fails or is changed.      *)
THEOREM OnboardingTypeCorrect == Spec => []TypeOK
<1>1. OnboardingInv => TypeOK
  <2> SUFFICES ASSUME OnboardingInv PROVE TypeOK
    OBVIOUS
  <2>1. ManifestFits /\ FileFits /\ TransactionsFit /\ RestFits /\ HistoryFits /\ TroubleFits
    BY DEF OnboardingInv, Typed
  <2>2. \/ manifest = None
        \/ /\ manifest.status \in {"pending", "blocked", "complete"}
           /\ manifest.local \in OwnKey \cup {None}
           /\ manifest.enrolled \in [Peer -> PeerKey \cup {None}]
           /\ \A a \in Artifact : manifest.hash[a] \in Content(a) \cup {None}
    BY <2>1 DEF ManifestFits, IsManifest
  <2>3. proc # None =>
            /\ proc.command \in Command /\ proc.step \in Step
            /\ proc.settings \in Settings \cup {None}
            /\ \/ proc.artifact = None /\ proc.content = None
               \/ proc.artifact \in Transacted /\ proc.content \in Content(proc.artifact)
    BY DEF OnboardingInv, ProcFits, Processes
  <2> QED
    BY <2>1, <2>2, <2>3
       DEF TypeOK, FileFits, TransactionsFit, RestFits, HistoryFits, Histories, Reported, TroubleFits
<1> QED BY <1>1, OnboardingInvariant, PTL

(* export-enrollment: once the key is handed out, neither a repetition of  *)
(* start nor a death, a failing disk or a hand gives the node another one. *)
THEOREM ExportedKeyIsKept == Spec => []ExportedKeyStays
<1>1. OnboardingInv => ExportedKeyStays
  BY DEF OnboardingInv
<1> QED BY <1>1, OnboardingInvariant, PTL

(* readRuntimeSettings with its recovery: what a command has told is what  *)
(* every later command configures from or starts with.                     *)
THEOREM ReportedStateIsKept == Spec => []ReportedStateHolds
<1>1. OnboardingInv => ReportedStateHolds
  <2> SUFFICES ASSUME OnboardingInv, ReliesOnState
               PROVE  /\ AgreesWith(proc.settings, history.reported)
                      /\ \A p \in Peer \ touched :
                             history.reported.peers[p] # None =>
                                 manifest.enrolled[p] = history.reported.peers[p]
    BY DEF ReportedStateHolds
  <2>1. SettingsFit /\ proc.step \in Serving
    BY DEF OnboardingInv, ProcFits, SettingsFit, ReliesOnState
  <2>2. AgreesWith(proc.settings, history.reported)
    BY <2>1 DEF SettingsFit, Trusted
  <2>3. \A p \in Peer : manifest.enrolled[p] = file[p]
    BY <2>1 DEF SettingsFit, ReliesOnState
  <2> QED BY <2>2, <2>3 DEF OnboardingInv, DiskTrusted, FilesTrusted
<1> QED BY <1>1, OnboardingInvariant, PTL

-----------------------------------------------------------------------------
(* A second inductive invariant, for a disk that no hand has changed: what *)
(* a repetition of an interrupted command finds there.                     *)

Enrollments == {"local_enrollment", "membership"} \cup Peer

Configured == {"profile", "dispatcher_projects", "runtime_settings"}

Configures == {"transport", "dispatcher", "mcp"}

(* The private key, the enrollment and the manifest are about one key.     *)
OwnedFits ==
    /\ Local \notin {None, Partial} => key = Local.key
    /\ manifest # None /\ manifest.local # None => key = manifest.local
    /\ manifest # None /\ manifest.hash["local_enrollment"] # None =>
           Local = manifest.hash["local_enrollment"] /\ Local.canonical
    /\ Run("enrollment") => manifest.local = None
    /\ Run("canonical") => manifest.hash["local_enrollment"] = None
    /\ Run("record identity") => Local.canonical

(* No other peer is enrolled with the key that is imported.                *)
Distinct(c) == \A p \in Peer \ {c.peer} : manifest.enrolled[p] # c.input

(* The manifest enrolls the peers as their copies say, and the membership  *)
(* file is made of all of them.                                            *)
PeersFit ==
    /\ manifest # None =>
           /\ \A p \in Peer : /\ manifest.enrolled[p] \in {None, file[p]}
                              /\ manifest.hash[p] = manifest.enrolled[p]
           /\ manifest.hash["membership"] \in {None, file["membership"]}
    /\ \A p \in Peer : file[p] # Partial
    /\ file["membership"] # None =>
           /\ \A p \in Peer : file[p] # None
           /\ file["membership"] = [p \in Peer |-> file[p]]
    /\ proc # None /\ proc.step \in {"enroll", "membership", "record membership"} =>
           Distinct(proc.command)

(* Settings that a file, the manifest or a transaction knows.              *)
Begun == tx["runtime_settings"] \notin {None, Partial}

Known(s) ==
    \/ s = file["runtime_settings"]
    \/ manifest # None /\ s = manifest.hash["runtime_settings"]
    \/ Begun /\ s \in {tx["runtime_settings"].previous, tx["runtime_settings"].target}

(* What the settings name is there.                                        *)
Anchored(s) ==
    /\ s.transport # None /\ s.transport = file["profile"]
    /\ s.dispatcher # None => s.dispatcher = file["dispatcher_projects"]
    /\ s.mcp => registration = "ours"

ConfiguredFits ==
    /\ manifest # None =>
           \A a \in {"profile", "dispatcher_projects"} : manifest.hash[a] \in {None, file[a]}
    /\ file["profile"] \notin {None, Partial} => database
    /\ file["runtime_settings"] \in Settings \cup {None}
    /\ registration # "other"
    /\ \A s \in Settings : Known(s) => Anchored(s)
    /\ aside # None =>
           /\ file["runtime_settings"] = None /\ Begun
           /\ aside = tx["runtime_settings"].previous

(* Which command is at which step, and what it has made sure of.           *)
Starting == {"manifest", "identity", "key", "enrollment", "canonical", "record identity"}

CommandFits ==
    proc # None =>
        /\ proc.step \in Starting => Name("start")
        /\ Run("export") => Name("export")
        /\ Run("verify") => Name("verify")
        /\ Run("runtime") => Name("runtime")
        /\ proc.step \in {"transport", "dispatcher", "mcp"} => Unfinished = {}
        /\ Run("profile") => database
        /\ Run("swap") => aside # None
        /\ proc.step \in Writing \cup {"update"} =>
               /\ ~Name("transport") => proc.settings.transport # None
               /\ Name("mcp") => proc.settings.dispatcher # None /\ registration = "ours"
               /\ Name("dispatcher") /\ (Run("update") \/ proc.artifact = "runtime_settings") =>
                      manifest.hash["dispatcher_projects"] = proc.command.input
               /\ proc.step \in Writing /\ proc.artifact = "dispatcher_projects" =>
                      /\ tx["dispatcher_projects"] \notin {None, Partial}
                      /\ tx["dispatcher_projects"].target = proc.content

(* What every command that configures the node relies on.                  *)
Enrolled ==
    /\ manifest.local # None /\ IdentityAgrees /\ Local.canonical
    /\ AllEnrolled
    /\ \A a \in {"membership"} \cup Peer : file[a] # None

(* What no exact repetition repairs.                                       *)
Stuck ==
    \/ manifest = None
    \/ file["profile"] = Partial \/ (database /\ file["profile"] = None /\ ~Run("profile"))
    \/ file["dispatcher_projects"] = Partial
    \/ \E a \in Transacted : tx[a] = Partial

(* The settings are what the manifest says, or what their transaction      *)
(* makes of them.                                                          *)
Recoverable(h, f, t) ==
    /\ t = None => f = h
    /\ t # None => \/ h = t.previous /\ f \in {t.previous, t.target, None}
                   \/ h = t.target /\ f = t.target

(* Command c finds what it has left, and nothing that it would refuse.     *)
Repeatable(c) ==
    LET h == manifest.hash["runtime_settings"]
        dp == tx["dispatcher_projects"] IN
    /\ Enrolled
    /\ \A s \in Settings : Known(s) /\ s.dispatcher # None =>
           manifest.hash["dispatcher_projects"] = s.dispatcher
    /\ Recoverable(h, file["runtime_settings"], tx["runtime_settings"])
    /\ c.name # "transport" => h # None
    /\ c.name # "dispatcher" => dp = None
    /\ c.name = "transport" => file["profile"] \in {None, c.input}
    /\ c.name = "dispatcher" =>
           /\ file["dispatcher_projects"] \in {None, c.input}
           /\ dp # None => /\ dp.target = c.input
                           /\ file["dispatcher_projects"] = None => dp.previous = None
    /\ c.name = "mcp" => \A s \in Settings : Known(s) => s.dispatcher # None

Held(c) == Stuck \/ Repeatable(c)

Past == {"profile", "record profile", "update", "swap", "hash", "remove"}

AfterChecks == proc # None /\ (proc.step \in Past \/ (Run("write") /\ Promised))

RerunsFit ==
    /\ history.verdict = "refused" => proc = None
    /\ proc # None /\ proc.step \in Serving \cup {"read"} /\ proc.command.name \in Configures =>
           Enrolled
    /\ \A c \in Command :
           /\ c # None /\ c = history.interrupted =>
                  /\ c.name \in {"start", "import"} \cup Configures
                  /\ proc # None => proc.command = c
                  /\ c.name = "import" =>
                         manifest = None \/ (file[c.peer] = c.input /\ Distinct(c))
                  /\ c.name \in Configures => Held(c)
           /\ AfterChecks /\ c = proc.command => Held(c)

Undisturbed == OwnedFits /\ PeersFit /\ ConfiguredFits /\ CommandFits /\ RerunsFit
                   /\ RefusedRerunsAreTorn

RerunInv == OnboardingInv /\ (touched = {} => Undisturbed)

-----------------------------------------------------------------------------
(* What an assignment to one file, one hash or one transaction does.       *)

LEMMA WroteFile ==
    ASSUME OnboardingInv, NEW a \in Artifact, NEW c, Write(a, c)
    PROVE  file'[a] = c /\ \A b \in Artifact \ {a} : file'[b] = file[b]
BY DEF OnboardingInv, Typed, FileFits, Write

LEMMA RecordedHash ==
    ASSUME OnboardingInv, manifest # None, NEW a \in Artifact, Record(a)
    PROVE  /\ manifest'.local = manifest.local /\ manifest'.enrolled = manifest.enrolled
           /\ manifest'.hash[a] = file[a]
           /\ \A b \in Artifact \ {a} : manifest'.hash[b] = manifest.hash[b]
BY DEF OnboardingInv, Typed, ManifestFits, IsManifest, Record

LEMMA SetTransaction ==
    ASSUME OnboardingInv, NEW a \in Transacted, NEW t, tx' = [tx EXCEPT ![a] = t]
    PROVE  tx'[a] = t /\ \A b \in Transacted \ {a} : tx'[b] = tx[b]
BY DEF OnboardingInv, Typed, TransactionsFit

(* What GoTo does to the command, whatever it is.                          *)
LEMMA GoesTo ==
    ASSUME OnboardingInv, proc # None, NEW s, GoTo(s)
    PROVE  /\ proc'.step = s /\ proc'.command = proc.command
           /\ proc'.settings = proc.settings /\ proc'.artifact = proc.artifact
           /\ proc'.content = proc.content /\ history' = history
BY DEF OnboardingInv, ProcFits, Processes, GoTo

LEMMA DiskTypes ==
    ASSUME OnboardingInv
    PROVE  /\ Local \in [key : OwnKey, canonical : BOOLEAN] \cup {None, Partial}
           /\ \A p \in Peer : file[p] \in PeerKey \cup {None, Partial}
           /\ file["profile"] \in Transport \cup {None, Partial}
           /\ file["dispatcher_projects"] \in Dispatcher \cup {None, Partial}
           /\ file["runtime_settings"] \in Settings \cup {None, Partial}
           /\ manifest # None =>
                  /\ manifest.local \in OwnKey \cup {None}
                  /\ manifest.enrolled \in [Peer -> PeerKey \cup {None}]
                  /\ manifest.hash["profile"] \in Transport \cup {None}
                  /\ manifest.hash["dispatcher_projects"] \in Dispatcher \cup {None}
                  /\ manifest.hash["runtime_settings"] \in Settings \cup {None}
           /\ \A a \in Transacted : tx[a] \in Transaction(a) \cup {Partial, None}
<1>1. /\ Local \in [key : OwnKey, canonical : BOOLEAN] \cup {None, Partial}
      /\ \A p \in Peer : file[p] \in PeerKey \cup {None, Partial}
      /\ file["profile"] \in Transport \cup {None, Partial}
      /\ file["dispatcher_projects"] \in Dispatcher \cup {None, Partial}
      /\ file["runtime_settings"] \in Settings \cup {None, Partial}
  BY ContentOf, PeersAreArtifacts DEF OnboardingInv, Typed, FileFits, Local
<1>2. manifest # None =>
          /\ manifest.local \in OwnKey \cup {None}
          /\ manifest.enrolled \in [Peer -> PeerKey \cup {None}]
          /\ manifest.hash["profile"] \in Transport \cup {None}
          /\ manifest.hash["dispatcher_projects"] \in Dispatcher \cup {None}
          /\ manifest.hash["runtime_settings"] \in Settings \cup {None}
  BY ContentOf, PeersAreArtifacts DEF OnboardingInv, Typed, ManifestFits, IsManifest
<1>3. \A a \in Transacted : tx[a] \in Transaction(a) \cup {Partial, None}
  BY DEF OnboardingInv, Typed, TransactionsFit
<1> QED BY <1>1, <1>2, <1>3

-----------------------------------------------------------------------------
(* The steps that leave the enrollments alone, and those that leave the    *)
(* configuration alone.                                                    *)

IdentityKept ==
    /\ key' = key /\ \A a \in Enrollments : file'[a] = file[a]
    /\ manifest' # None =>
           /\ manifest # None
           /\ manifest'.local = manifest.local /\ manifest'.enrolled = manifest.enrolled
           /\ \A a \in Enrollments : manifest'.hash[a] = manifest.hash[a]

SettingsKept ==
    /\ UNCHANGED <<database, tx, aside, registration>>
    /\ \A a \in Configured : file'[a] = file[a]
    /\ manifest' # None =>
           \A a \in Configured :
               \/ manifest'.hash[a] = None
               \/ manifest # None /\ manifest'.hash[a] = manifest.hash[a]

LEMMA OwnedKept ==
    ASSUME OwnedFits, key' = key, Local' = Local,
           manifest' # None =>
               /\ manifest # None /\ manifest'.local = manifest.local
               /\ manifest'.hash["local_enrollment"] = manifest.hash["local_enrollment"],
           proc' # None => proc'.step \notin {"enrollment", "canonical", "record identity"}
    PROVE  OwnedFits'
BY DEF OwnedFits, Run

LEMMA PeersKept ==
    ASSUME PeersFit, \A p \in Peer : file'[p] = file[p],
           file'["membership"] = file["membership"],
           manifest' # None =>
               /\ manifest # None /\ manifest'.enrolled = manifest.enrolled
               /\ \A p \in Peer : manifest'.hash[p] = manifest.hash[p]
               /\ manifest'.hash["membership"] = manifest.hash["membership"],
           proc' # None => proc'.step \notin {"enroll", "membership", "record membership"}
    PROVE  PeersFit'
<1>1. [p \in Peer |-> file'[p]] = [p \in Peer |-> file[p]]
  OBVIOUS
<1> QED BY <1>1 DEF PeersFit

(* The artifact of a step that writes is no enrollment.                    *)
LEMMA OtherArtifacts ==
    /\ Transacted \subseteq Configured /\ Configured \subseteq Artifact
    /\ Enrollments \subseteq Artifact /\ Enrollments \cap Configured = {}
BY PeersAreArtifacts DEF Transacted, Configured, Enrollments, Artifact

LEMMA ConfiguredWrites ==
    ASSUME OnboardingInv, NEW a \in Configured, NEW c, Write(a, c), UNCHANGED <<manifest, key>>
    PROVE  IdentityKept
<1>1. \A b \in Enrollments : file'[b] = file[b]
  BY WroteFile, OtherArtifacts
<1> QED BY <1>1 DEF IdentityKept

LEMMA ConfiguredRecords ==
    ASSUME OnboardingInv, manifest # None, NEW a \in Configured, Record(a),
           UNCHANGED <<file, key>>
    PROVE  IdentityKept
<1>1. /\ manifest'.local = manifest.local /\ manifest'.enrolled = manifest.enrolled
      /\ \A b \in Enrollments : manifest'.hash[b] = manifest.hash[b]
  BY RecordedHash, OtherArtifacts
<1> QED BY <1>1 DEF IdentityKept

Unowned == {"resume", "read"} \cup Serving

LEMMA NoManifestEarlier ==
    ASSUME OnboardingInv, proc # None, ~Run("manifest")
    PROVE  manifest # None /\ IsManifest(manifest)
BY DEF OnboardingInv, ProcFits, Run, Typed, ManifestFits

LEMMA SettingsStepKeeps ==
    ASSUME OnboardingInv, SettingsStep
    PROVE  IdentityKept /\ (proc' # None => proc'.step \in Unowned \cup {"peek"})
<1>1. CASE RecoverHash
  <2>1. First(Unfinished) \in Configured /\ Record(First(Unfinished)) /\ UNCHANGED <<key, file, proc>>
    BY <1>1, FirstIsUnfinished, OtherArtifacts DEF RecoverHash
  <2>2. proc # None /\ proc.step \in {"peek", "read"}
    BY <1>1 DEF RecoverHash, Reads, Run
  <2>3. manifest # None
    BY <2>2, NoManifestEarlier DEF Run
  <2>4. IdentityKept
    BY <2>1, <2>3, ConfiguredRecords
  <2> QED BY <2>1, <2>2, <2>4 DEF Unowned
<1>2. CASE RecoverTransaction \/ CannotRecover \/ ReadSettings \/ StatusEnds \/ LogInFirst
           \/ Verify \/ StartRuntime \/ ConfigureTransport \/ ConfigureMcp
  <2>1. UNCHANGED <<manifest, key, file>>
    BY <1>2 DEF RecoverTransaction, CannotRecover, ReadSettings, StatusEnds, LogInFirst, Verify,
                StartRuntime, ConfigureTransport, ConfigureMcp
  <2>2. proc # None
    BY <1>2 DEF RecoverTransaction, CannotRecover, ReadSettings, StatusEnds, LogInFirst, Verify,
                StartRuntime, ConfigureTransport, ConfigureMcp, Reads, Run
  <2>3. proc' # None => proc'.step \in Unowned \cup {"peek"}
    <3>1. CASE RecoverTransaction
      BY <3>1 DEF RecoverTransaction, Reads, Run, Unowned
    <3>2. CASE CannotRecover \/ StatusEnds \/ LogInFirst \/ Verify \/ StartRuntime
      BY <3>2 DEF CannotRecover, StatusEnds, LogInFirst, Verify, StartRuntime, Refuse, Stop, Accept
    <3>3. CASE ReadSettings
      <4>1. Run("read") => proc.command.name \in {"status", "transport", "dispatcher", "mcp", "verify", "runtime"}
        BY <2>2 DEF OnboardingInv, ProcFits, NamesFit
      <4>2. CASE proc' = None \/ GoTo("resume")
        BY <4>2, <2>2, GoesTo DEF Unowned
      <4>3. CASE Run("read") /\ proc' = [proc EXCEPT !.step = proc.command.name, !.settings = Readable]
        BY <4>1, <4>3, <2>2 DEF OnboardingInv, ProcFits, Processes, Unowned, Serving, Configuring
      <4> QED BY <3>3, <4>2, <4>3 DEF ReadSettings, Refuse
    <3>4. CASE ConfigureTransport \/ ConfigureMcp
      <4>1. proc' = None \/ \E s \in {"record profile", "profile", "update"} : GoTo(s)
        BY <3>4 DEF ConfigureTransport, ConfigureMcp, Refuse, Accept
      <4> QED BY <4>1, <2>2, GoesTo DEF Unowned, Serving, Configuring
    <3> QED BY <1>2, <3>1, <3>2, <3>3, <3>4
  <2> QED BY <2>1, <2>3 DEF IdentityKept
<1>3. CASE WriteProfile
  <2>1. proc # None /\ Write("profile", proc.command.input) /\ GoTo("record profile")
        /\ UNCHANGED <<manifest, key>>
    BY <1>3 DEF WriteProfile, Run
  <2> QED BY <2>1, ConfiguredWrites, GoesTo DEF Configured, Unowned, Serving, Configuring
<1>4. CASE RecordProfile
  <2>1. /\ proc # None /\ ~Run("manifest") /\ Record("profile") /\ UNCHANGED <<file, key>>
        /\ (proc' = None \/ GoTo("update"))
    BY <1>4 DEF RecordProfile, Run, Accept
  <2> QED
    BY <2>1, NoManifestEarlier, ConfiguredRecords, GoesTo
       DEF Configured, Unowned, Serving, Configuring
<1>5. CASE ConfigureDispatcher \/ UpdateSettings
  <2>1. proc # None /\ UNCHANGED <<manifest, key, file>>
    BY <1>5 DEF ConfigureDispatcher, UpdateSettings, Run
  <2>2. \/ proc' = None
        \/ \E a \in Transacted : \E c :
               proc' = [proc EXCEPT !.step = "write", !.artifact = a, !.content = c]
    BY <1>5 DEF ConfigureDispatcher, UpdateSettings, Begin, Refuse, Accept, Transacted
  <2>3. proc' # None => proc'.step = "write"
    BY <2>1, <2>2 DEF OnboardingInv, ProcFits, Processes
  <2> QED BY <2>1, <2>3 DEF IdentityKept, Unowned, Serving, Writing
<1>6. CASE WriteArtifact \/ SwapArtifact
  <2>1. /\ proc # None /\ proc.step \in Writing /\ UNCHANGED <<manifest, key>>
        /\ UNCHANGED file \/ \E c : Write(proc.artifact, c)
        /\ proc' = None \/ \E s \in {"hash", "swap"} : GoTo(s)
    BY <1>6 DEF WriteArtifact, SwapArtifact, Run, Writing, Refuse
  <2>2. proc.artifact \in Configured
    BY <2>1, OtherArtifacts DEF OnboardingInv, ProcFits, WritingFits
  <2>3. IdentityKept
    BY <2>1, <2>2, ConfiguredWrites DEF IdentityKept
  <2> QED BY <2>1, <2>3, GoesTo DEF Unowned, Serving, Writing
<1>7. CASE RecordArtifact
  <2>1. /\ proc # None /\ ~Run("manifest") /\ proc.step \in Writing
        /\ Record(proc.artifact) /\ UNCHANGED <<file, key>> /\ GoTo("remove")
    BY <1>7 DEF RecordArtifact, Run, Writing
  <2>2. proc.artifact \in Configured
    BY <2>1, OtherArtifacts DEF OnboardingInv, ProcFits, WritingFits
  <2>3. IdentityKept
    BY <2>1, <2>2, NoManifestEarlier, ConfiguredRecords
  <2> QED BY <2>1, <2>3, GoesTo DEF Unowned, Serving, Writing
<1>8. CASE RemoveTransaction
  <2>1. /\ proc # None /\ UNCHANGED <<manifest, key, file>>
        /\ proc' = None \/ GoTo("update")
    BY <1>8 DEF RemoveTransaction, Run, Accept
  <2> QED BY <2>1, GoesTo DEF IdentityKept, Unowned, Serving, Configuring
<1> QED BY <1>1, <1>2, <1>3, <1>4, <1>5, <1>6, <1>7, <1>8 DEF SettingsStep

(* The other way round: what the steps of start, export and import leave.  *)
LEMMA OnboardsKeeps ==
    ASSUME OnboardingInv, Onboards
    PROVE  SettingsKept /\ proc # None
<1>1. UNCHANGED <<tx, aside, registration>>
  BY DEF Onboards
<1>11. proc # None
  BY DEF Onboards, OnboardingStep, CreateManifest, AdoptIdentity, GenerateIdentity, WriteKey,
         WriteEnrollment, WriteCanonical, RecordIdentity, Export, ImportPeer, RecordPeer,
         WriteMembership, RecordMembership, Resume, ReportStatus, Run
<1> USE <1>1, <1>11 DEF SettingsKept
<1>2. CASE \E a \in Enrollments : \E c : Write(a, c) /\ UNCHANGED <<manifest, database>>
  <2>1. \A b \in Configured : file'[b] = file[b]
    BY <1>2, WroteFile, OtherArtifacts
  <2> QED BY <1>1, <1>2, <2>1
<1>3. CASE /\ UNCHANGED <<file, database>>
           /\ manifest # None /\ ~Run("manifest")
           /\ \E a \in Enrollments : \E c : manifest'.hash = [manifest.hash EXCEPT ![a] = c]
  <2>1. \A b \in Configured : manifest'.hash[b] = manifest.hash[b]
    BY <1>3, OtherArtifacts DEF OnboardingInv, Typed, ManifestFits, IsManifest
  <2> QED BY <1>1, <1>3, <2>1
<1>4. CASE UNCHANGED <<manifest, file, database>>
  BY <1>1, <1>4
<1>5. CASE CreateManifest
  <2>1. manifest' # manifest => \A a \in Artifact : manifest'.hash[a] = None
    BY <1>5 DEF CreateManifest, NewManifest
  <2> QED BY <1>1, <1>5, <2>1, OtherArtifacts DEF CreateManifest, Run
<1>6. CASE AdoptIdentity \/ GenerateIdentity \/ WriteKey \/ Export \/ ReportStatus
  BY <1>4, <1>6 DEF AdoptIdentity, GenerateIdentity, WriteKey, Export, ReportStatus, Run
<1>7. CASE WriteEnrollment \/ WriteCanonical
  BY <1>2, <1>7 DEF WriteEnrollment, WriteCanonical, Run, Enrollments
<1>8. CASE RecordIdentity \/ RecordMembership
  <2>1. proc # None /\ manifest # None /\ IsManifest(manifest) /\ ~Run("manifest")
    BY <1>8, NoManifestEarlier DEF RecordIdentity, RecordMembership, Run
  <2>2. \E a \in Enrollments : \E c : manifest'.hash = [manifest.hash EXCEPT ![a] = c]
    <3>1. CASE RecordIdentity
      BY <2>1, <3>1 DEF RecordIdentity, IsManifest, Enrollments
    <3>2. CASE RecordMembership
      BY <2>1, <3>2 DEF RecordMembership, Record, IsManifest, Enrollments
    <3> QED BY <1>8, <3>1, <3>2
  <2> QED BY <1>3, <1>8, <2>1, <2>2 DEF RecordIdentity, RecordMembership
<1>9. CASE ImportPeer \/ RecordPeer \/ WriteMembership
  <2>1. proc # None /\ manifest # None /\ IsManifest(manifest) /\ ~Run("manifest")
    BY <1>9, NoManifestEarlier DEF ImportPeer, RecordPeer, WriteMembership, Run
  <2>2. CASE RecordPeer
    <3>1. Imported \in Enrollments
      BY <2>1, <2>2, CommandParts
         DEF RecordPeer, Run, OnboardingInv, ProcFits, ImportFits, Processes, Name, Imported, Enrollments
    <3>2. manifest'.hash = [manifest.hash EXCEPT ![Imported] = file[Imported]]
      BY <2>1, <2>2 DEF RecordPeer, IsManifest
    <3> QED BY <1>3, <2>1, <2>2, <3>1, <3>2 DEF RecordPeer
  <2>3. CASE WriteMembership
    BY <1>2, <1>4, <2>1, <2>3 DEF WriteMembership, Enrollments
  <2>4. CASE ImportPeer
    <3>1. Imported \in Enrollments
      BY <2>1, <2>4, CommandParts
         DEF ImportPeer, Run, OnboardingInv, ProcFits, ImportFits, Processes, Name, Imported, Enrollments
    <3> QED BY <1>2, <1>4, <2>1, <2>4, <3>1 DEF ImportPeer
  <2> QED BY <1>9, <2>2, <2>3, <2>4
<1>10. CASE Resume
  <2>1. manifest # None /\ proc # None
    BY <1>10, NoManifestEarlier DEF Resume, Run
  <2>2. manifest'.hash = manifest.hash
    BY <1>10, <2>1, NewStatus DEF Resume
  <2> QED BY <1>1, <1>10, <2>1, <2>2 DEF Resume
<1> QED
  BY <1>5, <1>6, <1>7, <1>8, <1>9, <1>10 DEF Onboards, OnboardingStep

(* Neither an error nor a death changes more than one of the two.          *)
LEMMA PartOfFile ==
    ASSUME OnboardingInv, proc # None, PartlyWritten
    PROVE  \/ Run("enrollment") /\ Write("local_enrollment", Partial) /\ UNCHANGED tx
           \/ /\ proc.step \notin Starting
              /\ \A a \in Enrollments : file'[a] = file[a]
<1>1. CASE Run("enrollment") /\ Write("local_enrollment", Partial) /\ UNCHANGED tx
  BY <1>1
<1>2. CASE Run("profile") /\ Write("profile", Partial)
  <2>1. \A a \in Enrollments : file'[a] = file[a]
    BY <1>2, WroteFile, OtherArtifacts DEF Configured
  <2> QED BY <1>2, <2>1 DEF Run, Starting
<1>3. CASE WritesNew /\ Write(proc.artifact, Partial)
  <2>1. proc.artifact \in Configured /\ proc.step = "write"
    BY <1>3, OtherArtifacts DEF WritesNew, Run, OnboardingInv, ProcFits, WritingFits, Writing
  <2>2. \A a \in Enrollments : file'[a] = file[a]
    BY <1>3, <2>1, WroteFile, OtherArtifacts
  <2> QED BY <2>1, <2>2 DEF Starting
<1>4. CASE (Run("update") \/ Run("dispatcher")) /\ UNCHANGED file
  BY <1>4 DEF Run, Starting
<1> QED BY <1>1, <1>2, <1>3, <1>4 DEF PartlyWritten

-----------------------------------------------------------------------------
(* The key and its enrollment.                                             *)

LEMMA OwnedByStart ==
    ASSUME OnboardingInv, OwnedFits,
           \/ CreateManifest \/ AdoptIdentity \/ GenerateIdentity \/ WriteKey
           \/ WriteEnrollment \/ WriteCanonical \/ RecordIdentity
    PROVE  OwnedFits'
<1> USE NoneIsNothing DEF OwnedFits
<1>1. proc # None /\ proc \in Processes /\ IdentityFits
  BY DEF CreateManifest, AdoptIdentity, GenerateIdentity, WriteKey, WriteEnrollment,
         WriteCanonical, RecordIdentity, Run, OnboardingInv, ProcFits
<1>2. key \in OwnKey \cup {Partial, None}
  BY DEF OnboardingInv, Typed, RestFits
<1>3. CASE CreateManifest
  <2>1. proc'.step = "identity"
    BY <1>1, <1>3, GoesTo DEF CreateManifest
  <2>2. "local_enrollment" \in Artifact
    BY PeersAreArtifacts
  <2>3. CASE manifest = None
    BY <1>3, <2>1, <2>2, <2>3 DEF CreateManifest, NewManifest, Local, Run
  <2>4. CASE manifest # None
    BY <1>3, <2>1, <2>4 DEF CreateManifest, Local, Run
  <2> QED BY <2>3, <2>4
<1>4. CASE AdoptIdentity
  <2>1. UNCHANGED <<manifest, key, file>> /\ Run("identity")
    BY <1>4 DEF AdoptIdentity
  <2>2. CASE proc' = None
    BY <2>1, <2>2 DEF Run, Local
  <2>3. CASE IdentityAgrees /\ ~Local.canonical /\ GoTo("canonical")
    <3>1. proc'.step = "canonical"
      BY <1>1, <2>3, GoesTo
    <3>2. manifest # None
      BY <1>1, <2>1, NoManifestEarlier DEF Run
    <3> QED BY <2>1, <2>3, <3>1, <3>2 DEF Run, Local
  <2>4. CASE IdentityAgrees /\ Local.canonical /\ GoTo("record identity")
    <3>1. proc'.step = "record identity"
      BY <1>1, <2>4, GoesTo
    <3> QED BY <2>1, <2>4, <3>1 DEF Run, Local
  <2> QED BY <1>4, <2>2, <2>3, <2>4 DEF AdoptIdentity, Refuse, Accept
<1>5. CASE GenerateIdentity
  <2>1. proc'.step = "key"
    BY <1>1, <1>5, GoesTo DEF GenerateIdentity
  <2> QED BY <1>5, <2>1 DEF GenerateIdentity, Run, Local
<1>6. CASE WriteKey
  <2>1. key = None /\ Local = None /\ manifest # None
    BY <1>1, <1>6, NoManifestEarlier DEF WriteKey, IdentityFits, NoIdentity, Run
  <2>2. manifest' = manifest /\ file' = file /\ proc'.step = "enrollment"
    BY <1>1, <1>6 DEF WriteKey, Processes, Run
  <2>3. manifest.local = None
    BY <2>1
  <2> QED BY <2>1, <2>2, <2>3 DEF Run, Local
<1>7. CASE WriteEnrollment
  <2> DEFINE l == [key |-> key, canonical |-> FALSE]
  <2>1. /\ Write("local_enrollment", l) /\ GoTo("canonical")
        /\ manifest' = manifest /\ key' = key
    BY <1>7 DEF WriteEnrollment
  <2>2. l.key = key
    OBVIOUS
  <2> HIDE DEF l
  <2>3. file'["local_enrollment"] = l /\ proc'.step = "canonical"
    BY <1>1, <2>1, GoesTo, WroteFile, PeersAreArtifacts
  <2>4. Local = None /\ manifest.local = None /\ manifest # None
    BY <1>1, <1>7, NoManifestEarlier DEF WriteEnrollment, IdentityFits, Run
  <2>5. manifest.hash["local_enrollment"] = None
    BY <2>4
  <2> QED BY <2>1, <2>2, <2>3, <2>4, <2>5 DEF Run, Local
<1>8. CASE WriteCanonical
  <2> DEFINE l == [key |-> key, canonical |-> TRUE]
  <2>1. /\ Write("local_enrollment", l) /\ GoTo("record identity")
        /\ manifest' = manifest /\ key' = key
        /\ manifest.hash["local_enrollment"] = None
    BY <1>8 DEF WriteCanonical
  <2>2. l.key = key /\ l.canonical
    OBVIOUS
  <2> HIDE DEF l
  <2>3. file'["local_enrollment"] = l
    BY <2>1, WroteFile, PeersAreArtifacts
  <2>4. proc'.step = "record identity"
    BY <1>1, <2>1, GoesTo
  <2> QED BY <2>1, <2>2, <2>3, <2>4 DEF Run, Local
<1>9. CASE RecordIdentity
  <2>1. proc' = None /\ UNCHANGED <<file, key>> /\ manifest # None /\ IsManifest(manifest)
    BY <1>1, <1>9, NoManifestEarlier DEF RecordIdentity, Accept, Run
  <2>2. manifest'.local = key /\ manifest'.hash["local_enrollment"] = Local
    BY <1>9, <2>1, PeersAreArtifacts DEF RecordIdentity, IsManifest
  <2>3. Local \in [key : OwnKey, canonical : BOOLEAN] /\ Local.canonical
    BY <1>1, <1>9, ContentOf DEF RecordIdentity, IdentityFits
  <2> QED BY <2>1, <2>2, <2>3 DEF Run, Local
<1> QED BY <1>3, <1>4, <1>5, <1>6, <1>7, <1>8, <1>9

LEMMA EnterStarts ==
    ASSUME OnboardingInv, NEW c \in Command, Enter(c)
    PROVE  /\ UNCHANGED <<manifest, key, file, database, tx, aside, registration, touched>>
           /\ \/ /\ proc' = None /\ manifest = None /\ history'.verdict = "refused"
              \/ /\ proc'.command = c /\ history'.verdict = "none"
                 /\ proc'.step \in {"manifest", "export", "import", "report", "resume", "peek"}
                 /\ proc'.step = "manifest" => c.name = "start"
                 /\ proc'.step = "export" => c.name = "export"
           /\ proc = None /\ history'.interrupted \in {None, c}
           /\ history'.interrupted # None => history.interrupted = c
<1>1. UNCHANGED <<manifest, key, file, database, tx, aside, registration, touched>> /\ proc = None
  BY DEF Enter, world
<1> DEFINE again == IF history.interrupted = c THEN c ELSE None
<1>2. CASE manifest = None /\ c.name # "start"
  BY <1>1, <1>2 DEF Enter, OnboardingInv, Typed, HistoryFits, Histories
<1>3. CASE ~(manifest = None /\ c.name # "start")
  <2>1. /\ history' = [history EXCEPT !.interrupted = again, !.verdict = "none"]
        /\ proc' = [command |-> c, step |-> FirstStep[c.name], settings |-> None,
                    artifact |-> None, content |-> None]
    BY <1>3 DEF Enter
  <2>2. history'.verdict = "none" /\ history'.interrupted = again
    BY <2>1 DEF OnboardingInv, Typed, HistoryFits, Histories
  <2>3. proc'.command = c /\ proc'.step = FirstStep[c.name]
    BY <2>1
  <2>4. /\ FirstStep[c.name] \in {"manifest", "export", "import", "report", "resume", "peek"}
        /\ FirstStep[c.name] = "manifest" => c.name = "start"
        /\ FirstStep[c.name] = "export" => c.name = "export"
    BY CommandParts DEF FirstStep
  <2> QED BY <1>1, <2>2, <2>3, <2>4
<1> QED BY <1>2, <1>3

LEMMA HandTouches ==
    ASSUME ByHand \/ Unregisters
    PROVE  touched' # {}
<1>1. \E a : Touches(a)
  BY DEF ByHand, Changes, Unregisters
<1> QED BY <1>1 DEF Touches

LEMMA PutsBack ==
    ASSUME OnboardingInv, PutBack
    PROVE  /\ file'["runtime_settings"] = aside
           /\ \A b \in Artifact \ {"runtime_settings"} : file'[b] = file[b]
           /\ UNCHANGED <<manifest, key, database, proc, tx, registration, touched>>
           /\ aside # None /\ file["runtime_settings"] = None /\ proc = None /\ aside' = None
           /\ history'.verdict = "none" /\ history'.interrupted = history.interrupted
<1>1. Write("runtime_settings", aside) /\ Forget
  BY DEF PutBack
<1>2. /\ file'["runtime_settings"] = aside
      /\ \A b \in Artifact \ {"runtime_settings"} : file'[b] = file[b]
  BY <1>1, WroteFile, PeersAreArtifacts
<1>3. history'.verdict = "none" /\ history'.interrupted = history.interrupted
  BY <1>1 DEF Forget, OnboardingInv, Typed, HistoryFits, Histories
<1> QED BY <1>2, <1>3 DEF PutBack, world

(* A death or an error leaves the enrollments but in the steps of start.   *)
LEMMA InterruptsIdentity ==
    ASSUME OnboardingInv, Dies \/ Fails
    PROVE  /\ proc # None /\ proc' = None
           /\ \/ IdentityKept
              \/ /\ Run("enrollment") /\ key' \in {key, None} /\ UNCHANGED manifest
                 /\ Local' \in {Local, Partial} /\ \A p \in Peer : file'[p] = file[p]
                 /\ file'["membership"] = file["membership"]
              \/ Run("key") /\ key' \in {None, Partial} /\ UNCHANGED <<manifest, file>>
              \/ /\ Run("canonical") /\ Write("local_enrollment", None)
                 /\ UNCHANGED <<manifest, key>>
<1>1. proc # None /\ proc' = None
  BY DEF Dies, Fails, Interrupts
<1>2. CASE UNCHANGED <<file, key>> /\ (manifest' = manifest \/ manifest' = None)
  BY <1>1, <1>2 DEF IdentityKept
<1>3. CASE Run("key") /\ key' \in {None, Partial} /\ UNCHANGED <<manifest, file>>
  BY <1>1, <1>3
<1>4. CASE Run("canonical") /\ Write("local_enrollment", None) /\ UNCHANGED <<manifest, key>>
  BY <1>1, <1>4
<1>5. CASE PartlyWritten /\ UNCHANGED manifest /\ (key' = key \/ (Run("enrollment") /\ key' = None))
           /\ ~Run("key")
  <2>1. CASE Run("enrollment") /\ Write("local_enrollment", Partial)
    <3>1. /\ file'["local_enrollment"] = Partial
          /\ \A p \in Peer : file'[p] = file[p]
          /\ file'["membership"] = file["membership"]
      BY <2>1, WroteFile, PeersAreArtifacts
    <3> QED BY <1>1, <1>5, <2>1, <3>1 DEF Local
  <2>2. CASE proc.step \notin Starting /\ \A a \in Enrollments : file'[a] = file[a]
    BY <1>1, <1>5, <2>2 DEF IdentityKept, Starting, Run
  <2> QED BY <1>1, <1>5, <2>1, <2>2, PartOfFile
<1>6. CASE Fails /\ Run("swap") /\ Write("runtime_settings", aside)
  <2>1. \A a \in Enrollments : file'[a] = file[a]
    BY <1>6, WroteFile, OtherArtifacts DEF Configured
  <2>2. UNCHANGED <<manifest, key>>
    BY <1>6 DEF Fails, Run
  <2> QED BY <1>1, <2>1, <2>2 DEF IdentityKept
<1>7. CASE Fails /\ Run("enrollment") /\ key' = None /\ UNCHANGED <<manifest, file>>
  BY <1>1, <1>7 DEF Local
<1>8. CASE Fails
  <2>1. UNCHANGED manifest
    BY <1>8 DEF Fails
  <2>2. \/ Run("key") /\ key' \in {None, Partial}
        \/ Run("enrollment") /\ key' = None
        \/ ~Run("key") /\ ~Run("enrollment") /\ key' = key
    BY <1>8 DEF Fails
  <2>3. \/ Run("swap") /\ Write("runtime_settings", aside)
        \/ UNCHANGED file
        \/ PartlyWritten
    BY <1>8 DEF Fails
  <2>4. CASE Run("key")
    <3>1. ~Run("swap") /\ ~PartlyWritten
      BY <2>4 DEF Run, PartlyWritten, WritesNew
    <3> QED BY <1>3, <2>1, <2>2, <2>3, <2>4, <3>1 DEF Run
  <2>5. CASE ~Run("key") /\ UNCHANGED file
    BY <1>2, <1>7, <1>8, <2>1, <2>2, <2>5
  <2>6. CASE ~Run("key") /\ PartlyWritten
    BY <1>5, <2>1, <2>2, <2>6
  <2> QED BY <1>6, <1>8, <2>3, <2>4, <2>5, <2>6
<1>9. CASE Dies
  <2>1. CASE PartlyWritten /\ UNCHANGED <<manifest, key>>
    <3>1. ~Run("key")
      BY <2>1 DEF Run, PartlyWritten, WritesNew
    <3> QED BY <1>5, <2>1, <3>1
  <2> QED BY <1>2, <1>3, <1>4, <1>9, <2>1 DEF Dies
<1> QED BY <1>8, <1>9

LEMMA OwnedByInterrupts ==
    ASSUME OnboardingInv, OwnedFits, Dies \/ Fails
    PROVE  OwnedFits'
<1>1. proc # None /\ proc' = None
  BY InterruptsIdentity
<1>2. CASE IdentityKept
  BY <1>1, <1>2, OwnedKept DEF IdentityKept, Enrollments, Local
<1>3. CASE Run("enrollment") /\ key' \in {key, None} /\ UNCHANGED manifest /\ Local' \in {Local, Partial}
  <2>1. Local = None /\ manifest.local = None /\ manifest # None
    BY <1>3, NoManifestEarlier DEF OnboardingInv, ProcFits, IdentityFits, OwnedFits, Run
  <2>2. manifest.hash["local_enrollment"] = None
    BY <2>1 DEF OwnedFits
  <2> QED BY <1>1, <1>3, <2>1, <2>2 DEF OwnedFits, Run
<1>4. CASE Run("key") /\ key' \in {None, Partial} /\ UNCHANGED <<manifest, file>>
  <2>1. key = None /\ Local = None /\ manifest # None
    BY <1>4, NoManifestEarlier DEF OnboardingInv, ProcFits, IdentityFits, NoIdentity, Run
  <2>2. manifest.hash["local_enrollment"] = None /\ manifest.local = None
    BY <2>1 DEF OwnedFits
  <2> QED BY <1>1, <1>4, <2>1, <2>2 DEF OwnedFits, Run, Local
<1>5. CASE Run("canonical") /\ Write("local_enrollment", None) /\ UNCHANGED <<manifest, key>>
  <2>1. file'["local_enrollment"] = None
    BY <1>5, WroteFile, PeersAreArtifacts
  <2>2. manifest.hash["local_enrollment"] = None
    BY <1>5 DEF OwnedFits
  <2> QED BY <1>1, <1>5, <2>1, <2>2 DEF OwnedFits, Run, Local
<1> QED BY <1>2, <1>3, <1>4, <1>5, InterruptsIdentity

LEMMA OwnedByOthers ==
    ASSUME OnboardingInv, OwnedFits,
           \/ Export \/ ImportPeer \/ RecordPeer \/ WriteMembership \/ RecordMembership
           \/ Resume \/ ReportStatus
    PROVE  OwnedFits'
<1>1. proc # None /\ manifest # None /\ IsManifest(manifest) /\ key' = key
  BY NoManifestEarlier
     DEF Export, ImportPeer, RecordPeer, WriteMembership, RecordMembership, Resume, ReportStatus, Run
<1>2. proc' = None \/ \E s \in {"enroll", "membership", "record membership", "resume", "read"} : GoTo(s)
  BY DEF Export, ImportPeer, RecordPeer, WriteMembership, RecordMembership, Resume, ReportStatus,
         Refuse, Accept, Stop
<1>3. proc' # None => proc'.step \notin {"enrollment", "canonical", "record identity"}
  BY <1>1, <1>2, GoesTo
<1>4. ImportPeer \/ RecordPeer => Imported \in Peer
  BY <1>1, CommandParts
     DEF ImportPeer, RecordPeer, Run, OnboardingInv, ProcFits, ImportFits, Processes, Name, Imported
<1>5. Local' = Local
  <2>1. CASE UNCHANGED file
    BY <2>1 DEF Local
  <2>2. CASE ImportPeer /\ Write(Imported, Enrollment)
    BY <1>4, <2>2, WroteFile, PeersAreArtifacts DEF Local
  <2>3. CASE WriteMembership /\ Write("membership", Policy)
    BY <2>3, WroteFile, PeersAreArtifacts DEF Local
  <2> QED
    BY <2>1, <2>2, <2>3
       DEF Export, ImportPeer, RecordPeer, WriteMembership, RecordMembership, Resume, ReportStatus
<1>6. /\ manifest'.local = manifest.local
      /\ manifest'.hash["local_enrollment"] = manifest.hash["local_enrollment"]
  <2>1. CASE UNCHANGED manifest
    BY <2>1
  <2>2. CASE RecordMembership
    BY <1>1, <2>2, RecordedHash, PeersAreArtifacts DEF RecordMembership
  <2>3. CASE Resume
    BY <1>1, <2>3, NewStatus DEF Resume
  <2>4. CASE RecordPeer
    <3>1. /\ manifest'.local = manifest.local
          /\ manifest'.hash = [manifest.hash EXCEPT ![Imported] = file[Imported]]
      BY <1>1, <2>4 DEF RecordPeer, IsManifest
    <3> QED BY <1>1, <1>4, <2>4, <3>1, PeersAreArtifacts DEF IsManifest
  <2> QED BY <2>1, <2>2, <2>3, <2>4 DEF Export, ImportPeer, WriteMembership, ReportStatus
<1> QED BY <1>1, <1>3, <1>5, <1>6, OwnedKept

LEMMA OwnedStep ==
    ASSUME OnboardingInv, OwnedFits, Next, touched' = {}
    PROVE  OwnedFits'
<1>1. CASE Onboards
  BY <1>1, OwnedByStart, OwnedByOthers DEF Onboards, OnboardingStep
<1>2. CASE SettingsStep
  <2>1. IdentityKept /\ (proc' # None => proc'.step \in Unowned \cup {"peek"})
    BY <1>2, SettingsStepKeeps
  <2>2. proc' # None => proc'.step \notin {"enrollment", "canonical", "record identity"}
    BY <2>1 DEF Unowned, Serving, Writing, Configuring
  <2> QED BY <2>1, <2>2, OwnedKept DEF IdentityKept, Enrollments, Local
<1>3. CASE \E c \in Command : Enter(c)
  <2>1. /\ UNCHANGED <<manifest, key, file>>
        /\ proc' # None => proc'.step \notin {"enrollment", "canonical", "record identity"}
    BY <1>3, EnterStarts
  <2> QED BY <2>1, OwnedKept DEF Local
<1>4. CASE Dies \/ Fails
  BY <1>4, OwnedByInterrupts
<1>5. CASE PutBack
  <2>1. Local' = Local /\ UNCHANGED <<manifest, key>> /\ proc' = None
    BY <1>5, PutsBack, PeersAreArtifacts DEF Local
  <2> QED BY <2>1, OwnedKept
<1> QED BY <1>1, <1>2, <1>3, <1>4, <1>5, HandTouches DEF Next

-----------------------------------------------------------------------------
(* The peers and the membership file.                                      *)

LEMMA ImportKnows ==
    ASSUME OnboardingInv, proc # None,
           proc.step \in {"import", "enroll", "membership", "record membership"}
    PROVE  /\ Imported \in Peer /\ Enrollment \in PeerKey /\ Name("import")
           /\ manifest # None /\ IsManifest(manifest)
           /\ proc.step # "import" => file[Imported] = Enrollment
<1>1. Name("import") /\ proc.command \in Command
  BY DEF OnboardingInv, ProcFits, ImportFits, Processes
<1>2. manifest # None /\ IsManifest(manifest)
  BY NoManifestEarlier DEF Run
<1> QED
  BY <1>1, <1>2, CommandParts DEF OnboardingInv, ProcFits, ImportFits, Name, Imported, Enrollment

LEMMA PeersByImport ==
    ASSUME OnboardingInv, PeersFit, ImportPeer
    PROVE  PeersFit'
<1> USE NoneIsNothing
<1>1. proc # None /\ UNCHANGED manifest /\ Run("import")
  BY DEF ImportPeer, Run
<1>2. Imported \in Peer /\ Enrollment \in PeerKey /\ manifest # None /\ IsManifest(manifest)
  BY <1>1, ImportKnows DEF Run
<1>3. CASE proc' = None /\ UNCHANGED file
  BY <1>1, <1>3 DEF PeersFit
<1>4. CASE ~EnrollmentConflicts /\ UNCHANGED file /\ (GoTo("membership") \/ GoTo("enroll"))
  <2>1. proc'.command = proc.command
    BY <1>1, <1>4, GoesTo
  <2>2. Distinct(proc.command)
    BY <1>4 DEF EnrollmentConflicts, Distinct, Imported, Enrollment
  <2>3. Distinct(proc.command)'
    BY <1>1, <2>1, <2>2 DEF Distinct
  <2> QED BY <1>1, <1>4, <2>3 DEF PeersFit
<1>5. CASE ~EnrollmentConflicts /\ WritesCopy /\ GoTo("enroll") /\ Write(Imported, Enrollment)
  <2>1. proc'.command = proc.command
    BY <1>1, <1>5, GoesTo
  <2>2. Distinct(proc.command)
    BY <1>5 DEF EnrollmentConflicts, Distinct, Imported, Enrollment
  <2>3. Distinct(proc.command)'
    BY <1>1, <2>1, <2>2 DEF Distinct
  <2>4. /\ file'[Imported] = Enrollment
        /\ \A p \in Peer \ {Imported} : file'[p] = file[p]
        /\ file'["membership"] = file["membership"]
    BY <1>2, <1>5, WroteFile, PeersAreArtifacts
  <2>5. /\ file[Imported] = None /\ manifest.enrolled[Imported] = None
        /\ manifest.hash[Imported] = None
    BY <1>5 DEF WritesCopy
  <2>6. file["membership"] = None
    BY <1>2, <2>5 DEF PeersFit
  <2>7. \A p \in Peer : /\ manifest.enrolled[p] \in {None, file'[p]}
                        /\ manifest.hash[p] = manifest.enrolled[p]
                        /\ file'[p] # Partial
    BY <1>2, <2>4, <2>5 DEF PeersFit
  <2>8. manifest.hash["membership"] \in {None, file'["membership"]}
    BY <1>2, <2>4 DEF PeersFit
  <2> QED BY <1>1, <2>3, <2>4, <2>6, <2>7, <2>8 DEF PeersFit
<1> QED BY <1>3, <1>4, <1>5 DEF ImportPeer, Refuse

LEMMA PeersByRecord ==
    ASSUME OnboardingInv, PeersFit, RecordPeer
    PROVE  PeersFit'
<1> USE NoneIsNothing
<1>1. proc # None /\ UNCHANGED file /\ proc.step = "enroll" /\ GoTo("membership")
  BY DEF RecordPeer, Run
<1>2. /\ Imported \in Peer /\ Enrollment \in PeerKey /\ manifest # None /\ IsManifest(manifest)
      /\ file[Imported] = Enrollment
  BY <1>1, ImportKnows
<1>3. /\ manifest'.enrolled = [manifest.enrolled EXCEPT ![Imported] = Enrollment]
      /\ manifest'.hash = [manifest.hash EXCEPT ![Imported] = file[Imported]]
  BY <1>2 DEF RecordPeer, IsManifest
<1>4. /\ manifest'.enrolled[Imported] = Enrollment
      /\ \A p \in Peer \ {Imported} : manifest'.enrolled[p] = manifest.enrolled[p]
  BY <1>2, <1>3 DEF IsManifest
<1>5. /\ manifest'.hash[Imported] = file[Imported]
      /\ \A p \in Peer \ {Imported} : manifest'.hash[p] = manifest.hash[p]
      /\ manifest'.hash["membership"] = manifest.hash["membership"]
  BY <1>2, <1>3, PeersAreArtifacts DEF IsManifest
<1>6. proc'.command = proc.command
  BY <1>1, GoesTo
<1>7. Distinct(proc.command)'
  BY <1>1, <1>4, <1>6 DEF PeersFit, Distinct, Imported
<1> QED BY <1>1, <1>2, <1>4, <1>5, <1>7 DEF PeersFit

LEMMA PolicyIsCopies ==
    ASSUME OnboardingInv, PeersFit, manifest # None, AllEnrolled
    PROVE  /\ \A p \in Peer : manifest.enrolled[p] = file[p] /\ file[p] # None
           /\ Policy = [p \in Peer |-> file[p]]
           /\ file["membership"] \in {None, Policy}
<1>1. \A p \in Peer : manifest.enrolled[p] = file[p] /\ file[p] # None
  BY DEF PeersFit, AllEnrolled
<1>2. manifest.enrolled = [p \in Peer |-> file[p]]
  BY <1>1, DiskTypes
<1> QED BY <1>1, <1>2 DEF PeersFit, Policy

LEMMA PeersByMembership ==
    ASSUME OnboardingInv, PeersFit, WriteMembership \/ RecordMembership
    PROVE  PeersFit'
<1>1. proc # None /\ proc.step \in {"membership", "record membership"}
  BY DEF WriteMembership, RecordMembership, Run
<1>2. manifest # None
  BY <1>1, ImportKnows
<1>3. Distinct(proc.command)
  BY <1>1 DEF PeersFit
<1>4. CASE WriteMembership
  <2>1. UNCHANGED manifest
    BY <1>4 DEF WriteMembership
  <2>2. proc' = None \/ GoTo("resume") \/ GoTo("record membership")
    BY <1>4 DEF WriteMembership, Refuse
  <2>3. proc' # None => Distinct(proc.command)'
    BY <1>1, <1>3, <2>1, <2>2, GoesTo DEF Distinct
  <2>4. CASE UNCHANGED file
    BY <2>1, <2>3, <2>4 DEF PeersFit
  <2>5. CASE AllEnrolled /\ manifest.hash["membership"] = None /\ Write("membership", Policy)
    <3>1. file'["membership"] = Policy /\ \A p \in Peer : file'[p] = file[p]
      BY <2>5, WroteFile, PeersAreArtifacts
    <3>2. [p \in Peer |-> file'[p]] = [p \in Peer |-> file[p]]
      BY <3>1
    <3>3. file'["membership"] = [p \in Peer |-> file'[p]] /\ \A p \in Peer : file[p] # None
      BY <1>2, <2>5, <3>1, <3>2, PolicyIsCopies
    <3> QED BY <2>1, <2>3, <2>5, <3>1, <3>3 DEF PeersFit
  <2> QED BY <1>4, <2>4, <2>5 DEF WriteMembership
<1>5. CASE RecordMembership
  <2>1. UNCHANGED file /\ GoTo("resume") /\ Record("membership")
    BY <1>5 DEF RecordMembership
  <2>2. /\ manifest'.enrolled = manifest.enrolled
        /\ manifest'.hash["membership"] = file["membership"]
        /\ \A p \in Peer : manifest'.hash[p] = manifest.hash[p]
    BY <1>2, <2>1, RecordedHash, PeersAreArtifacts
  <2>3. proc'.step = "resume"
    BY <1>1, <2>1, GoesTo
  <2> QED BY <1>2, <2>1, <2>2, <2>3 DEF PeersFit
<1> QED BY <1>4, <1>5

LEMMA PeersStep ==
    ASSUME OnboardingInv, PeersFit, Next, touched' = {}
    PROVE  PeersFit'
<1>1. CASE Onboards
  <2>1. CASE ImportPeer \/ RecordPeer \/ WriteMembership \/ RecordMembership
    BY <2>1, PeersByImport, PeersByRecord, PeersByMembership
  <2>2. CASE CreateManifest
    <3>1. proc'.step = "identity" /\ UNCHANGED file
      BY <2>2, GoesTo DEF CreateManifest, Run
    <3>2. CASE manifest = None
      <4>1. /\ manifest'.enrolled = [p \in Peer |-> None]
            /\ manifest'.hash = [a \in Artifact |-> None]
        BY <2>2, <3>2 DEF CreateManifest, NewManifest
      <4>2. /\ \A p \in Peer : manifest'.enrolled[p] = None /\ manifest'.hash[p] = None
            /\ manifest'.hash["membership"] = None
        BY <4>1, PeersAreArtifacts
      <4> QED BY <3>1, <4>2 DEF PeersFit
    <3>3. CASE manifest # None
      BY <2>2, <3>1, <3>3 DEF CreateManifest, PeersFit
    <3> QED BY <3>2, <3>3
  <2>3. CASE AdoptIdentity \/ GenerateIdentity \/ WriteKey \/ WriteEnrollment \/ WriteCanonical
             \/ RecordIdentity \/ Export \/ Resume \/ ReportStatus
    <3>1. proc # None /\ proc \in Processes
      BY <2>3 DEF AdoptIdentity, GenerateIdentity, WriteKey, WriteEnrollment, WriteCanonical,
         RecordIdentity, Export, Resume, ReportStatus, Run, OnboardingInv, ProcFits
    <3>2. proc' # None => proc'.step \notin {"enroll", "membership", "record membership"}
      <4>1. CASE WriteKey
        BY <3>1, <4>1 DEF WriteKey, Processes
      <4>2. CASE ~WriteKey
        <5>1. \/ proc' = None
              \/ \E s \in {"canonical", "record identity", "key", "read"} : GoTo(s)
          BY <2>3, <4>2 DEF AdoptIdentity, GenerateIdentity, WriteEnrollment, WriteCanonical,
             RecordIdentity, Export, Resume, ReportStatus, Refuse, Accept, Stop
        <5> QED BY <3>1, <5>1, GoesTo
      <4> QED BY <4>1, <4>2
    <3>3. \A p \in Peer : file'[p] = file[p]
      <4>1. CASE \E c : Write("local_enrollment", c)
        BY <4>1, WroteFile, PeersAreArtifacts
      <4> QED BY <2>3, <4>1 DEF AdoptIdentity, GenerateIdentity, WriteKey, WriteEnrollment,
         WriteCanonical, RecordIdentity, Export, Resume, ReportStatus
    <3>4. file'["membership"] = file["membership"]
      <4>1. CASE \E c : Write("local_enrollment", c)
        BY <4>1, WroteFile, PeersAreArtifacts
      <4> QED BY <2>3, <4>1 DEF AdoptIdentity, GenerateIdentity, WriteKey, WriteEnrollment,
         WriteCanonical, RecordIdentity, Export, Resume, ReportStatus
    <3>5. manifest' # None =>
              /\ manifest # None /\ manifest'.enrolled = manifest.enrolled
              /\ \A p \in Peer : manifest'.hash[p] = manifest.hash[p]
              /\ manifest'.hash["membership"] = manifest.hash["membership"]
      <4>1. CASE UNCHANGED manifest
        BY <4>1
      <4>2. CASE RecordIdentity
        <5>1. manifest # None /\ IsManifest(manifest)
          BY <4>2, <3>1, NoManifestEarlier DEF RecordIdentity, Run
        <5>2. /\ manifest'.enrolled = manifest.enrolled
              /\ manifest'.hash = [manifest.hash EXCEPT !["local_enrollment"] = Local]
          BY <4>2, <5>1 DEF RecordIdentity, IsManifest
        <5> QED BY <5>1, <5>2, PeersAreArtifacts DEF IsManifest
      <4>3. CASE Resume
        BY <4>3, <3>1, NewStatus, NoManifestEarlier DEF Resume, Run
      <4> QED BY <2>3, <4>1, <4>2, <4>3 DEF AdoptIdentity, GenerateIdentity, WriteKey,
         WriteEnrollment, WriteCanonical, Export, ReportStatus
    <3> QED BY <3>2, <3>3, <3>4, <3>5, PeersKept
  <2> QED BY <1>1, <2>1, <2>2, <2>3 DEF Onboards, OnboardingStep
<1>2. CASE SettingsStep
  <2>1. IdentityKept /\ (proc' # None => proc'.step \in Unowned \cup {"peek"})
    BY <1>2, SettingsStepKeeps
  <2>2. proc' # None => proc'.step \notin {"enroll", "membership", "record membership"}
    BY <2>1 DEF Unowned, Serving, Writing, Configuring
  <2> QED BY <2>1, <2>2, PeersKept DEF IdentityKept, Enrollments
<1>3. CASE \E c \in Command : Enter(c)
  <2>1. /\ UNCHANGED <<manifest, key, file>>
        /\ proc' # None => proc'.step \notin {"enroll", "membership", "record membership"}
    BY <1>3, EnterStarts
  <2> QED BY <2>1, PeersKept
<1>4. CASE Dies \/ Fails
  <2>1. proc # None /\ proc' = None
    BY <1>4, InterruptsIdentity
  <2>2. /\ \A p \in Peer : file'[p] = file[p]
        /\ file'["membership"] = file["membership"]
        /\ IdentityKept \/ UNCHANGED manifest
    <3>1. CASE IdentityKept
      BY <3>1 DEF IdentityKept, Enrollments
    <3>2. CASE Write("local_enrollment", None) /\ UNCHANGED manifest
      BY <3>2, WroteFile, PeersAreArtifacts
    <3> QED BY <1>4, <3>1, <3>2, InterruptsIdentity
  <2> QED BY <2>1, <2>2, PeersKept DEF IdentityKept, Enrollments
<1>5. CASE PutBack
  <2>1. /\ \A p \in Peer : file'[p] = file[p]
        /\ file'["membership"] = file["membership"] /\ manifest' = manifest /\ proc' = None
    BY <1>5, PutsBack, PeersAreArtifacts
  <2> QED BY <2>1, PeersKept
<1> QED BY <1>1, <1>2, <1>3, <1>4, <1>5, HandTouches DEF Next

-----------------------------------------------------------------------------
(* Which command is at which step.                                         *)

LEMMA CommandCalm ==
    ASSUME proc' # None =>
               proc'.step \in {"import", "enroll", "membership", "record membership", "resume",
                               "report", "peek", "read", "status", "record profile"}
    PROVE  CommandFits'
BY DEF CommandFits, Starting, Writing, Run

LEMMA CommandByOnboards ==
    ASSUME OnboardingInv, CommandFits, Onboards
    PROVE  CommandFits'
<1>1. proc # None /\ proc \in Processes
  BY OnboardsKeeps DEF OnboardingInv, ProcFits
<1>2. CASE \/ CreateManifest \/ AdoptIdentity \/ GenerateIdentity \/ WriteKey
           \/ WriteEnrollment \/ WriteCanonical \/ RecordIdentity
  <2>1. Name("start")
    BY <1>1, <1>2 DEF CreateManifest, AdoptIdentity, GenerateIdentity, WriteKey, WriteEnrollment,
       WriteCanonical, RecordIdentity, Run, CommandFits, Starting
  <2>2. proc' # None => proc'.step \in Starting /\ proc'.command = proc.command
    <3>1. CASE WriteKey
      BY <1>1, <3>1 DEF WriteKey, Processes, Starting
    <3>2. CASE ~WriteKey
      <4>1. proc' = None \/ \E s \in Starting : GoTo(s)
        BY <1>2, <3>2 DEF CreateManifest, AdoptIdentity, GenerateIdentity, WriteEnrollment,
           WriteCanonical, RecordIdentity, Refuse, Accept, Starting
      <4> QED BY <1>1, <4>1, GoesTo
    <3> QED BY <3>1, <3>2
  <2> QED BY <2>1, <2>2 DEF CommandFits, Name, Starting, Writing, Run
<1>3. CASE \/ Export \/ ImportPeer \/ RecordPeer \/ WriteMembership \/ RecordMembership
           \/ Resume \/ ReportStatus
  <2>1. proc' = None \/ \E s \in {"enroll", "membership", "record membership", "resume", "read"} : GoTo(s)
    BY <1>3 DEF Export, ImportPeer, RecordPeer, WriteMembership, RecordMembership, Resume,
       ReportStatus, Refuse, Accept, Stop
  <2>2. proc' # None =>
            proc'.step \in {"enroll", "membership", "record membership", "resume", "read"}
    BY <1>1, <2>1, GoesTo
  <2> QED BY <2>2, CommandCalm
<1> QED BY <1>2, <1>3 DEF Onboards, OnboardingStep

LEMMA CommandByReading ==
    ASSUME OnboardingInv, CommandFits,
           \/ RecoverHash \/ RecoverTransaction \/ CannotRecover \/ ReadSettings \/ StatusEnds
           \/ LogInFirst \/ Verify \/ StartRuntime
    PROVE  CommandFits'
<1>1. CASE RecoverHash \/ RecoverTransaction
  BY <1>1, CommandCalm DEF RecoverHash, RecoverTransaction, Reads, Run
<1>2. CASE CannotRecover \/ StatusEnds \/ LogInFirst \/ Verify \/ StartRuntime
  BY <1>2, CommandCalm DEF CannotRecover, StatusEnds, LogInFirst, Verify, StartRuntime, Refuse,
     Stop, Accept
<1>3. CASE ReadSettings
  <2>1. proc # None /\ proc \in Processes
    BY <1>3 DEF ReadSettings, Reads, Run, OnboardingInv, ProcFits
  <2>2. CASE proc' = None \/ GoTo("resume")
    BY <2>1, <2>2, GoesTo, CommandCalm
  <2>3. CASE Run("read") /\ proc' = [proc EXCEPT !.step = proc.command.name, !.settings = Readable]
    <3>1. proc.command.name \in {"status", "transport", "dispatcher", "mcp", "verify", "runtime"}
      BY <2>1, <2>3 DEF OnboardingInv, ProcFits, NamesFit
    <3>2. proc'.step = proc.command.name /\ proc'.command = proc.command
      BY <2>1, <2>3 DEF Processes
    <3>3. Unfinished' = {}
      BY <1>3 DEF ReadSettings, Unfinished
    <3> QED BY <3>1, <3>2, <3>3 DEF CommandFits, Starting, Writing, Run, Name
  <2> QED BY <1>3, <2>2, <2>3 DEF ReadSettings, Refuse
<1> QED BY <1>1, <1>2, <1>3

LEMMA CommandByConfiguring ==
    ASSUME OnboardingInv, CommandFits,
           \/ ConfigureTransport \/ WriteProfile \/ RecordProfile \/ ConfigureDispatcher
           \/ ConfigureMcp \/ UpdateSettings
    PROVE  CommandFits'
<1> USE NoneIsNothing
<1>1. proc # None /\ proc \in Processes /\ NamesFit
  BY DEF ConfigureTransport, WriteProfile, RecordProfile, ConfigureDispatcher, ConfigureMcp,
         UpdateSettings, Run, OnboardingInv, ProcFits
<1>2. CASE proc' = None
  BY <1>2, CommandCalm
<1>3. CASE GoTo("record profile")
  BY <1>1, <1>3, GoesTo, CommandCalm
<1>4. CASE ConfigureTransport /\ GoTo("profile") /\ database'
  <2>1. proc'.step = "profile"
    BY <1>1, <1>4, GoesTo
  <2> QED BY <1>4, <2>1 DEF CommandFits, Starting, Writing, Run
<1>5. CASE RecordProfile /\ GoTo("update")
  <2>1. proc'.step = "update" /\ proc'.command.name = "transport"
    BY <1>1, <1>5, GoesTo DEF RecordProfile, NamesFit, Name
  <2> QED BY <2>1 DEF CommandFits, Starting, Writing, Run, Name
<1>6. CASE ConfigureMcp /\ proc' # None /\ GoTo("update")
  <2>1. /\ proc'.step = "update" /\ proc'.command.name = "mcp"
        /\ proc'.settings = proc.settings
    BY <1>1, <1>6, GoesTo DEF ConfigureMcp, NamesFit, Name
  <2>2. proc.settings.transport # None /\ proc.settings.dispatcher # None /\ registration' = "ours"
    BY <1>1, <1>6, GoesTo DEF ConfigureMcp, Refuse, Accept, GoTo
  <2> QED BY <2>1, <2>2 DEF CommandFits, Starting, Writing, Run, Name
<1>7. CASE ConfigureDispatcher /\ proc.settings.transport # None
           /\ Begin("dispatcher_projects", proc.command.input)
  <2>1. /\ proc'.step = "write" /\ proc'.command = proc.command
        /\ proc'.settings = proc.settings /\ proc'.artifact = "dispatcher_projects"
        /\ proc'.content = proc.command.input
    BY <1>1, <1>7 DEF Begin, Processes
  <2>2. proc.command.name = "dispatcher" /\ proc.command.input \in Dispatcher
    BY <1>1, <1>7, CommandParts DEF ConfigureDispatcher, NamesFit, Name, Processes
  <2> DEFINE t == [previous |-> manifest.hash["dispatcher_projects"], target |-> proc.command.input]
  <2>3. t \in Transaction("dispatcher_projects") /\ t.target = proc.command.input
    <3>1. manifest # None
      BY <1>1, <1>7, NoManifestEarlier DEF ConfigureDispatcher, Run
    <3> QED BY <2>2, <3>1, DiskTypes, ContentOf DEF Transaction
  <2>4. tx'["dispatcher_projects"] = t
    BY <1>7, SetTransaction DEF Begin, Transacted
  <2> HIDE DEF t
  <2>5. tx'["dispatcher_projects"] \notin {None, Partial}
    BY <2>3, <2>4
  <2> QED BY <1>7, <2>1, <2>2, <2>3, <2>4, <2>5 DEF CommandFits, Starting, Writing, Run, Name
<1>8. CASE UpdateSettings
  <2>1. /\ proc'.step = "write" /\ proc'.command = proc.command
        /\ proc'.settings = proc.settings /\ proc'.artifact = "runtime_settings"
    BY <1>1, <1>8 DEF UpdateSettings, Begin, Processes
  <2>2. UNCHANGED <<manifest, registration>> /\ Run("update")
    BY <1>8 DEF UpdateSettings
  <2> QED BY <2>1, <2>2 DEF CommandFits, Starting, Writing, Run, Name
<1> QED
  BY <1>2, <1>3, <1>4, <1>5, <1>6, <1>7, <1>8
     DEF ConfigureTransport, WriteProfile, RecordProfile, ConfigureDispatcher, ConfigureMcp,
         Refuse, Accept

LEMMA CommandByWriting ==
    ASSUME OnboardingInv, CommandFits,
           WriteArtifact \/ SwapArtifact \/ RecordArtifact \/ RemoveTransaction
    PROVE  CommandFits'
<1> USE NoneIsNothing
<1>1. proc # None /\ proc \in Processes /\ NamesFit /\ WritingFits /\ proc.step \in Writing
  BY DEF WriteArtifact, SwapArtifact, RecordArtifact, RemoveTransaction, Run, OnboardingInv,
         ProcFits, Writing
<1>2. CASE proc' = None
  BY <1>2, CommandCalm
<1>3. CASE /\ WriteArtifact \/ SwapArtifact
           /\ GoTo("hash") \/ (GoTo("swap") /\ aside' = Found /\ Found # None)
  <2>1. /\ proc'.step \in {"hash", "swap"} /\ proc'.command = proc.command
        /\ proc'.settings = proc.settings /\ proc'.artifact = proc.artifact
        /\ proc'.content = proc.content
        /\ proc'.step = "swap" => aside' # None
    BY <1>1, <1>3, GoesTo
  <2>2. UNCHANGED <<manifest, registration, tx>>
    BY <1>3 DEF WriteArtifact, SwapArtifact
  <2> QED BY <1>1, <2>1, <2>2 DEF CommandFits, Starting, Writing, Run, Name
<1>4. CASE RecordArtifact
  <2>1. /\ proc'.step = "remove" /\ proc'.command = proc.command
        /\ proc'.settings = proc.settings /\ proc'.artifact = proc.artifact
        /\ proc'.content = proc.content
    BY <1>1, <1>4, GoesTo DEF RecordArtifact
  <2>2. UNCHANGED <<registration, tx>>
    BY <1>4 DEF RecordArtifact
  <2>3. proc.artifact = "runtime_settings" =>
            manifest'.hash["dispatcher_projects"] = manifest.hash["dispatcher_projects"]
    BY <1>1, <1>4, RecordedHash, NoManifestEarlier, PeersAreArtifacts DEF RecordArtifact, Run
  <2> QED BY <1>1, <2>1, <2>2, <2>3 DEF CommandFits, Starting, Writing, Run, Name
<1>5. CASE RemoveTransaction /\ proc.artifact = "dispatcher_projects" /\ GoTo("update")
  <2>1. /\ proc'.step = "update" /\ proc'.command = proc.command
        /\ proc'.settings = proc.settings
    BY <1>1, <1>5, GoesTo
  <2>2. /\ proc.command.name = "dispatcher"
        /\ manifest.hash["dispatcher_projects"] = proc.command.input
    BY <1>1, <1>5 DEF WritingFits, RemoveTransaction, Name, Run
  <2>3. UNCHANGED <<manifest, registration>>
    BY <1>5 DEF RemoveTransaction
  <2> QED BY <1>1, <2>1, <2>2, <2>3 DEF CommandFits, Starting, Writing, Run, Name
<1> QED
  BY <1>2, <1>3, <1>4, <1>5
     DEF WriteArtifact, SwapArtifact, RemoveTransaction, Refuse, Accept

LEMMA CommandStep ==
    ASSUME OnboardingInv, CommandFits, Next
    PROVE  CommandFits'
<1>1. CASE SettingsStep
  BY <1>1, CommandByReading, CommandByConfiguring, CommandByWriting DEF SettingsStep
<1>2. CASE \E c \in Command : Enter(c)
  <2>1. PICK c \in Command : Enter(c)
    BY <1>2
  <2>2. CASE proc' = None
    BY <2>2, CommandCalm
  <2>3. CASE proc'.command = c
    <3>1. /\ proc' # None =>
                 proc'.step \in {"manifest", "export", "import", "report", "resume", "peek"}
          /\ proc' # None /\ proc'.step = "manifest" => c.name = "start"
          /\ proc' # None /\ proc'.step = "export" => c.name = "export"
      BY <2>1, EnterStarts
    <3> QED BY <2>3, <3>1 DEF CommandFits, Starting, Writing, Run, Name
  <2> QED BY <2>1, <2>2, <2>3, EnterStarts
<1>3. CASE Dies \/ Fails
  BY <1>3, InterruptsIdentity, CommandCalm
<1>4. CASE ByHand \/ Unregisters \/ PutBack
  <2>1. proc' = None
    BY <1>4 DEF ByHand, Changes, Unregisters, Touches, PutBack
  <2> QED BY <2>1, CommandCalm
<1> QED BY <1>1, <1>2, <1>3, <1>4, CommandByOnboards DEF Next

-----------------------------------------------------------------------------
(* The settings, and what they name.                                       *)

(* Nothing but what a file holds becomes known.                            *)
LEMMA ConfiguredKept ==
    ASSUME ConfiguredFits, \A a \in Configured : file'[a] = file[a],
           manifest' # None =>
               \A a \in Configured :
                   \/ manifest'.hash[a] \in {None, file[a]}
                   \/ manifest # None /\ manifest'.hash[a] = manifest.hash[a],
           tx'["runtime_settings"] = tx["runtime_settings"], aside' = aside,
           database => database', registration' \in {registration, "ours"}
    PROVE  ConfiguredFits'
<1> USE NoneIsNothing DEF Configured
<1>1. manifest' # None =>
          \A a \in {"profile", "dispatcher_projects"} : manifest'.hash[a] \in {None, file'[a]}
  BY DEF ConfiguredFits
<1>2. Begun' = Begun
  BY DEF Begun
<1>3. \A s \in Settings : Known(s)' => Known(s)
  BY <1>2 DEF Known
<1>4. \A s \in Settings : Anchored(s) => Anchored(s)'
  BY DEF Anchored
<1> QED BY <1>1, <1>2, <1>3, <1>4 DEF ConfiguredFits

(* The transaction of the settings is gone.                                *)
LEMMA ConfiguredForgets ==
    ASSUME ConfiguredFits, UNCHANGED <<file, database, registration>>,
           manifest' \in {manifest, None},
           tx'["runtime_settings"] \in {None, Partial}, aside' = None
    PROVE  ConfiguredFits'
<1>1. ~Begun'
  BY DEF Begun
<1>2. \A s \in Settings : Known(s)' => Known(s)
  BY <1>1 DEF Known
<1>3. \A s \in Settings : Anchored(s) => Anchored(s)'
  BY DEF Anchored
<1> QED BY <1>1, <1>2, <1>3 DEF ConfiguredFits

(* The settings file holds what was known.                                 *)
LEMMA ConfiguredSettles ==
    ASSUME ConfiguredFits, NEW s \in Settings, Known(s), file'["runtime_settings"] = s,
           \A a \in {"profile", "dispatcher_projects"} : file'[a] = file[a],
           UNCHANGED <<manifest, database, registration, tx>>, aside' = None
    PROVE  ConfiguredFits'
<1>1. \A r \in Settings : Known(r)' => Known(r)
  BY DEF Known, Begun
<1>2. \A r \in Settings : Anchored(r) => Anchored(r)'
  BY DEF Anchored
<1> QED BY <1>1, <1>2 DEF ConfiguredFits

(* A file that was not there: no settings name it.                         *)
LEMMA ConfiguredGains ==
    ASSUME ConfiguredFits, NEW a \in {"profile", "dispatcher_projects"}, file[a] = None,
           \A b \in Configured \ {a} : file'[b] = file[b],
           file'["profile"] \notin {None, Partial} => database',
           UNCHANGED <<manifest, registration, tx, aside>>
    PROVE  ConfiguredFits'
<1> USE NoneIsNothing DEF Configured
<1>1. manifest' # None =>
          \A b \in {"profile", "dispatcher_projects"} : manifest'.hash[b] \in {None, file'[b]}
  BY DEF ConfiguredFits
<1>2. \A s \in Settings : Known(s)' => Known(s)
  BY DEF Known, Begun
<1>3. \A s \in Settings : Known(s) => Anchored(s)'
  <2> SUFFICES ASSUME NEW s \in Settings, Known(s) PROVE Anchored(s)'
    OBVIOUS
  <2>1. Anchored(s)
    BY DEF ConfiguredFits
  <2> QED BY <2>1 DEF Anchored
<1> QED BY <1>1, <1>2, <1>3 DEF ConfiguredFits, Begun

LEMMA ConfiguredByOnboards ==
    ASSUME OnboardingInv, ConfiguredFits, Onboards
    PROVE  ConfiguredFits'
<1>1. SettingsKept
  BY OnboardsKeeps
<1> QED BY <1>1, ConfiguredKept DEF SettingsKept

LEMMA ConfiguredByReading ==
    ASSUME OnboardingInv, ConfiguredFits,
           \/ RecoverHash \/ RecoverTransaction \/ CannotRecover \/ ReadSettings \/ StatusEnds
           \/ LogInFirst \/ Verify \/ StartRuntime
    PROVE  ConfiguredFits'
<1> USE NoneIsNothing
<1>1. CASE RecoverHash
  <2>1. First(Unfinished) \in Artifact /\ Record(First(Unfinished)) /\ proc # None /\ ~Run("manifest")
    BY <1>1, FirstIsUnfinished DEF RecoverHash, Reads, Run
  <2>2. \A a \in Artifact : manifest'.hash[a] = file[a] \/ manifest'.hash[a] = manifest.hash[a]
    BY <2>1, RecordedHash, NoManifestEarlier
  <2>3. UNCHANGED <<file, tx, aside, database, registration>> /\ manifest # None
    BY <1>1, <2>1, NoManifestEarlier DEF RecoverHash
  <2> QED BY <2>2, <2>3, ConfiguredKept, OtherArtifacts
<1>2. CASE RecoverTransaction
  <2> DEFINE a == First(Unfinished)
  <2>1. /\ a \in Transacted /\ tx[a] \in Transaction(a) \cup {Partial} /\ a \in Artifact
        /\ tx' = [tx EXCEPT ![a] = None] /\ UNCHANGED <<manifest, file, aside, database, registration>>
        /\ \/ Forward(a) \/ (file[a] # None /\ Unchanged(a)) \/ NeverWritten(a)
    BY <1>2, FirstIsUnfinished DEF RecoverTransaction
  <2> HIDE DEF a
  <2>2. tx'[a] = None /\ \A b \in Transacted \ {a} : tx'[b] = tx[b]
    BY <2>1, SetTransaction
  <2>3. CASE a = "runtime_settings"
    <3>1. aside = None
      <4> SUFFICES ASSUME aside # None PROVE FALSE
        OBVIOUS
      <4>1. /\ file[a] = None /\ aside = tx[a].previous
        BY <2>3 DEF ConfiguredFits
      <4>2. Forward(a) => tx[a].target \in Settings
        BY <2>1, <2>3, ContentOf DEF Forward, Transaction
      <4> QED BY <2>1, <4>1, <4>2 DEF Forward, NeverWritten
    <3> QED BY <2>1, <2>2, <2>3, <3>1, ConfiguredForgets
  <2>4. CASE a # "runtime_settings"
    BY <2>1, <2>2, <2>4, ConfiguredKept DEF Transacted
  <2> QED BY <2>3, <2>4
<1>3. CASE CannotRecover \/ ReadSettings \/ StatusEnds \/ LogInFirst \/ Verify \/ StartRuntime
  <2>1. UNCHANGED <<manifest, file, tx, aside, database, registration>>
    BY <1>3 DEF CannotRecover, ReadSettings, StatusEnds, LogInFirst, Verify, StartRuntime
  <2> QED BY <2>1, ConfiguredKept
<1> QED BY <1>1, <1>2, <1>3

(* What updateSettings makes of the settings is there.                     *)
LEMMA UpdatedIsAnchored ==
    ASSUME OnboardingInv, ConfiguredFits, CommandFits, Run("update"),
           Updated \in Settings, Readable = proc.settings
    PROVE  Anchored(Updated)
<1> USE NoneIsNothing
<1>1. proc # None /\ proc \in Processes /\ NamesFit /\ SettingsFit /\ ConfigurationFits
  BY DEF Run, OnboardingInv, ProcFits
<1>2. proc.settings \in Settings /\ Stable(proc.settings)
  BY <1>1 DEF SettingsFit, ConfigurationFits, Run, Serving, Configuring
<1>3. proc.settings = Base \/ Anchored(proc.settings)
  BY <1>2 DEF Stable, ConfiguredFits, Known
<1>4. CASE Name("transport")
  <2>1. file["profile"] = proc.command.input /\ proc.command.input \in Transport
    BY <1>1, <1>4, CommandParts DEF ConfigurationFits, Name, Processes, Run
  <2>2. /\ Updated.transport = proc.command.input /\ Updated.dispatcher = proc.settings.dispatcher
        /\ Updated.mcp = proc.settings.mcp
    BY <1>2, <1>4 DEF Updated, Settings
  <2> QED BY <1>3, <2>1, <2>2 DEF Anchored, Base
<1>5. CASE Name("dispatcher")
  <2>1. file["dispatcher_projects"] = proc.command.input /\ proc.settings.transport # None
    BY <1>1, <1>5 DEF ConfigurationFits, Run, CommandFits, Name
  <2>2. /\ Updated.transport = proc.settings.transport /\ Updated.dispatcher = proc.command.input
        /\ Updated.mcp = proc.settings.mcp
    BY <1>2, <1>5 DEF Updated, Settings, Name
  <2> QED BY <1>3, <2>1, <2>2 DEF Anchored, Base
<1>6. CASE Name("mcp")
  <2>1. proc.settings.transport # None /\ registration = "ours"
    BY <1>1, <1>6 DEF Run, CommandFits, Name
  <2>2. /\ Updated.transport = proc.settings.transport
        /\ Updated.dispatcher = proc.settings.dispatcher
    BY <1>2, <1>6 DEF Updated, Settings, Name
  <2> QED BY <1>3, <2>1, <2>2 DEF Anchored, Base
<1> QED BY <1>1, <1>4, <1>5, <1>6 DEF NamesFit, Name, Run

LEMMA ConfiguredByConfiguring ==
    ASSUME OnboardingInv, ConfiguredFits, CommandFits,
           \/ ConfigureTransport \/ WriteProfile \/ RecordProfile \/ ConfigureDispatcher
           \/ ConfigureMcp \/ UpdateSettings
    PROVE  ConfiguredFits'
<1> USE NoneIsNothing
<1>1. proc # None /\ manifest # None /\ ConfigurationFits
  BY NoManifestEarlier
     DEF ConfigureTransport, WriteProfile, RecordProfile, ConfigureDispatcher, ConfigureMcp,
         UpdateSettings, Run, OnboardingInv, ProcFits
<1>2. CASE ConfigureTransport \/ ConfigureMcp
  <2>1. UNCHANGED <<manifest, file, tx, aside>> /\ registration' \in {registration, "ours"}
    BY <1>2 DEF ConfigureTransport, ConfigureMcp
  <2>2. database' = database \/ database'
    BY <1>2 DEF ConfigureTransport, ConfigureMcp
  <2> QED BY <2>1, <2>2, ConfiguredKept
<1>3. CASE WriteProfile
  <2>1. file["profile"] = None /\ database
    BY <1>1, <1>3 DEF WriteProfile, ConfigurationFits, CommandFits
  <2>2. \A b \in Configured \ {"profile"} : file'[b] = file[b]
    BY <1>3, WroteFile, OtherArtifacts DEF WriteProfile, Configured
  <2> QED BY <1>3, <2>1, <2>2, ConfiguredGains DEF WriteProfile
<1>4. CASE RecordProfile
  <2>1. \A a \in Artifact : manifest'.hash[a] = file[a] \/ manifest'.hash[a] = manifest.hash[a]
    BY <1>1, <1>4, RecordedHash, PeersAreArtifacts DEF RecordProfile
  <2> QED BY <1>1, <1>4, <2>1, ConfiguredKept, OtherArtifacts DEF RecordProfile
<1>5. CASE ConfigureDispatcher
  <2>1. UNCHANGED tx \/ \E t : tx' = [tx EXCEPT !["dispatcher_projects"] = t]
    BY <1>5 DEF ConfigureDispatcher, Begin
  <2>2. tx'["runtime_settings"] = tx["runtime_settings"]
    BY <2>1, SetTransaction DEF Transacted
  <2>3. UNCHANGED <<manifest, file, database, aside, registration>>
    BY <1>5 DEF ConfigureDispatcher
  <2> QED BY <2>2, <2>3, ConfiguredKept
<1>6. CASE UpdateSettings
  <2> DEFINE t == [previous |-> manifest.hash["runtime_settings"], target |-> Updated]
  <2>1. Run("update") /\ tx["runtime_settings"] = None /\ tx' = [tx EXCEPT !["runtime_settings"] = t]
        /\ UNCHANGED <<manifest, file, database, aside, registration>>
    BY <1>6 DEF UpdateSettings, Begin
  <2>2. tx'["runtime_settings"] = t /\ t.previous = manifest.hash["runtime_settings"]
        /\ t.target = Updated
    BY <2>1, SetTransaction DEF Transacted
  <2>3. Updated \in Settings
    BY <2>1, UpdatedAgrees
  <2>4. Readable = proc.settings
    BY <1>1, <2>1 DEF Readable, Stable, ConfigurationFits, Run, Configuring
  <2>5. Anchored(Updated)
    BY <2>1, <2>3, <2>4, UpdatedIsAnchored
  <2> HIDE DEF t
  <2>6. \A s \in Settings : Known(s)' => Known(s) \/ s = Updated
    BY <1>1, <2>1, <2>2 DEF Known
  <2>7. \A s \in Settings : Anchored(s) => Anchored(s)'
    BY <2>1 DEF Anchored
  <2>8. aside = None
    BY <2>1 DEF ConfiguredFits, Begun
  <2> QED BY <2>1, <2>5, <2>6, <2>7, <2>8 DEF ConfiguredFits
<1> QED BY <1>2, <1>3, <1>4, <1>5, <1>6

LEMMA ConfiguredByWriting ==
    ASSUME OnboardingInv, ConfiguredFits, CommandFits,
           WriteArtifact \/ SwapArtifact \/ RecordArtifact \/ RemoveTransaction
    PROVE  ConfiguredFits'
<1> USE NoneIsNothing
<1> DEFINE a == proc.artifact
<1>1. proc # None /\ manifest # None /\ WritingFits /\ proc.step \in Writing
  BY NoManifestEarlier
     DEF WriteArtifact, SwapArtifact, RecordArtifact, RemoveTransaction, Run, OnboardingInv,
         ProcFits, Writing
<1>2. a \in Transacted /\ proc.content \in Content(a) /\ a \in Artifact
  BY <1>1, OtherArtifacts DEF WritingFits
<1>3. a = "runtime_settings" =>
          /\ Begun /\ tx[a].target = proc.content /\ proc.content \in Settings
          /\ Known(proc.content)
          /\ Run("write") => file[a] = tx[a].previous
  BY <1>1, <1>2, ContentOf DEF WritingFits, Begun, Known
<1>4. proc.content # None
  BY <1>2, ContentOf DEF Transacted
<1>5. CASE WriteArtifact \/ SwapArtifact
  <2>1. UNCHANGED <<manifest, database, tx, registration>>
    BY <1>5 DEF WriteArtifact, SwapArtifact
  <2>2. CASE UNCHANGED <<file, aside>>
    BY <2>1, <2>2, ConfiguredKept
  <2>3. CASE a = "runtime_settings" /\ Write(a, proc.content) /\ aside' = None
    <3>1. /\ file'["runtime_settings"] = proc.content
          /\ \A b \in {"profile", "dispatcher_projects"} : file'[b] = file[b]
      BY <1>2, <2>3, WroteFile, PeersAreArtifacts
    <3> QED BY <1>3, <2>1, <2>3, <3>1, ConfiguredSettles
  <2>4. CASE a = "dispatcher_projects" /\ Found = None /\ Write(a, proc.content) /\ UNCHANGED aside
    <3>1. \A b \in Configured \ {a} : file'[b] = file[b]
      BY <1>2, <2>4, WroteFile, OtherArtifacts
    <3>2. file'["profile"] \notin {None, Partial} => database'
      BY <2>1, <2>4, <3>1 DEF ConfiguredFits, Configured
    <3> QED BY <2>1, <2>4, <3>1, <3>2, ConfiguredGains DEF Found
  <2>5. CASE a = "runtime_settings" /\ Run("write") /\ aside' = Found /\ Write(a, None)
    <3>1. /\ file'["runtime_settings"] = None
          /\ \A b \in {"profile", "dispatcher_projects"} : file'[b] = file[b]
      BY <1>2, <2>5, WroteFile, PeersAreArtifacts
    <3>2. \A s \in Settings : Known(s)' => Known(s)
      BY <2>1, <3>1 DEF Known, Begun
    <3>3. \A s \in Settings : Anchored(s) => Anchored(s)'
      BY <2>1, <3>1 DEF Anchored
    <3>4. aside' = tx["runtime_settings"].previous /\ Begun'
      BY <1>3, <2>1, <2>5 DEF Found, Begun
    <3> QED BY <2>1, <3>1, <3>2, <3>3, <3>4 DEF ConfiguredFits
  <2>6. CASE WriteArtifact
    <3>1. a = "runtime_settings" /\ Found = None => aside = None \/ tx[a].previous = None
      BY <1>3, <2>6 DEF WriteArtifact, Found
    <3>2. a = "runtime_settings" /\ Found = None => aside = None
      BY <3>1 DEF ConfiguredFits
    <3>3. a = "runtime_settings" \/ a = "dispatcher_projects"
      BY <1>2 DEF Transacted
    <3> QED BY <2>2, <2>3, <2>4, <2>5, <2>6, <3>2, <3>3 DEF WriteArtifact, Replaces
  <2>7. CASE SwapArtifact
    BY <1>1, <2>3, <2>7 DEF SwapArtifact, WritingFits
  <2> QED BY <1>5, <2>6, <2>7
<1>6. CASE RecordArtifact
  <2>1. \A b \in Artifact : manifest'.hash[b] = file[b] \/ manifest'.hash[b] = manifest.hash[b]
    BY <1>1, <1>2, <1>6, RecordedHash DEF RecordArtifact
  <2> QED BY <1>1, <1>6, <2>1, ConfiguredKept, OtherArtifacts DEF RecordArtifact
<1>7. CASE RemoveTransaction
  <2>1. /\ UNCHANGED <<manifest, file, database, aside, registration>>
        /\ tx' = [tx EXCEPT ![a] = None] /\ Run("remove")
    BY <1>7 DEF RemoveTransaction
  <2>2. tx'[a] = None /\ \A b \in Transacted \ {a} : tx'[b] = tx[b]
    BY <1>2, <2>1, SetTransaction
  <2>3. CASE a = "runtime_settings"
    <3>1. file[a] # None
      BY <1>1, <1>4, <2>1 DEF WritingFits
    <3>2. aside' = None
      BY <2>1, <2>3, <3>1 DEF ConfiguredFits
    <3> QED BY <2>1, <2>2, <2>3, <3>2, ConfiguredForgets
  <2>4. CASE a # "runtime_settings"
    BY <2>1, <2>2, <2>4, ConfiguredKept DEF Transacted
  <2> QED BY <2>3, <2>4
<1> QED BY <1>5, <1>6, <1>7

(* What writeFileSync leaves of a file or a transaction.                   *)
LEMMA ConfiguredByPart ==
    ASSUME OnboardingInv, ConfiguredFits, CommandFits, proc # None, PartlyWritten,
           UNCHANGED <<manifest, registration, aside>>, Run("profile") \/ database' = database
    PROVE  ConfiguredFits'
<1> USE NoneIsNothing
<1>1. ConfigurationFits /\ WritingFits
  BY DEF OnboardingInv, ProcFits
<1>2. CASE Run("enrollment") /\ Write("local_enrollment", Partial) /\ UNCHANGED tx
  <2>1. \A b \in Configured : file'[b] = file[b]
    BY <1>2, WroteFile, OtherArtifacts DEF Enrollments
  <2>2. database' = database
    BY <1>2 DEF Run
  <2> QED BY <1>2, <2>1, <2>2, ConfiguredKept
<1>3. CASE Run("profile") /\ Write("profile", Partial) /\ UNCHANGED tx
  <2>1. file["profile"] = None /\ file'["profile"] = Partial
        /\ \A b \in Configured \ {"profile"} : file'[b] = file[b]
    BY <1>1, <1>3, WroteFile, OtherArtifacts DEF ConfigurationFits, Configured
  <2> QED BY <1>3, <2>1, ConfiguredGains
<1>4. CASE WritesNew /\ Write(proc.artifact, Partial) /\ UNCHANGED tx
  <2>1. proc.artifact = "dispatcher_projects" /\ file[proc.artifact] = None
    BY <1>1, <1>4 DEF WritesNew, Replaces, Found, WritingFits, Writing, Run, Transacted
  <2>2. \A b \in Configured \ {"dispatcher_projects"} : file'[b] = file[b]
    BY <1>4, <2>1, WroteFile, OtherArtifacts DEF Configured
  <2>3. database' = database
    BY <1>4 DEF WritesNew, Run
  <2>4. file'["profile"] \notin {None, Partial} => database'
    BY <2>2, <2>3 DEF ConfiguredFits, Configured
  <2> QED BY <1>4, <2>1, <2>2, <2>4, ConfiguredGains
<1>5. CASE Run("update") /\ tx' = [tx EXCEPT !["runtime_settings"] = Partial] /\ UNCHANGED file
  <2>1. tx'["runtime_settings"] = Partial
    BY <1>5, SetTransaction DEF Transacted
  <2>2. tx["runtime_settings"] = None
    BY <1>1, <1>5 DEF ConfigurationFits, Configuring, Run
  <2>3. aside' = None /\ database' = database
    BY <1>5, <2>2 DEF ConfiguredFits, Begun, Run
  <2> QED BY <1>5, <2>1, <2>3, ConfiguredForgets
<1>6. CASE Run("dispatcher") /\ tx' = [tx EXCEPT !["dispatcher_projects"] = Partial] /\ UNCHANGED file
  <2>1. tx'["runtime_settings"] = tx["runtime_settings"]
    BY <1>6, SetTransaction DEF Transacted
  <2>2. database' = database
    BY <1>6 DEF Run
  <2> QED BY <1>6, <2>1, <2>2, ConfiguredKept
<1> QED BY <1>2, <1>3, <1>4, <1>5, <1>6 DEF PartlyWritten

(* The settings that were moved aside come back.                           *)
LEMMA AsideIsKnown ==
    ASSUME OnboardingInv, ConfiguredFits, aside # None
    PROVE  /\ aside \in Settings /\ Known(aside) /\ file["runtime_settings"] = None /\ Begun
           /\ aside = tx["runtime_settings"].previous
BY DEF OnboardingInv, Typed, RestFits, ConfiguredFits, Known

LEMMA DatabaseStays ==
    ASSUME OnboardingInv, database' = (database /\ ~Run("profile")), ~Run("profile")
    PROVE  database' = database
<1>1. database \in BOOLEAN
  BY DEF OnboardingInv, Typed, RestFits
<1> QED BY <1>1

LEMMA ConfiguredByInterrupts ==
    ASSUME OnboardingInv, ConfiguredFits, CommandFits, Dies \/ Fails
    PROVE  ConfiguredFits'
<1> USE NoneIsNothing
<1>1. proc # None /\ proc' = None
  BY InterruptsIdentity
<1>2. CASE /\ UNCHANGED <<file, tx, aside, registration>> /\ manifest' \in {manifest, None}
           /\ database => database'
  BY <1>2, ConfiguredKept
<1>3. CASE PartlyWritten /\ UNCHANGED <<manifest, registration, aside>>
           /\ (Run("profile") \/ database' = database)
  BY <1>1, <1>3, ConfiguredByPart
<1>4. CASE Dies
  <2>1. CASE Run("canonical") /\ Write("local_enrollment", None) /\ UNCHANGED <<manifest, tx>>
    <3>1. \A b \in Configured : file'[b] = file[b]
      BY <2>1, WroteFile, OtherArtifacts DEF Enrollments
    <3> QED BY <1>4, <2>1, <3>1, ConfiguredKept DEF Dies
  <2> QED BY <1>2, <1>3, <1>4, <2>1 DEF Dies
<1>5. CASE Fails /\ Run("swap") /\ Write("runtime_settings", aside) /\ aside' = None /\ UNCHANGED tx
  <2>1. /\ file'["runtime_settings"] = aside
        /\ \A b \in {"profile", "dispatcher_projects"} : file'[b] = file[b]
    BY <1>5, WroteFile, PeersAreArtifacts
  <2>2. aside # None
    BY <1>1, <1>5 DEF CommandFits
  <2>3. database' = database /\ UNCHANGED <<manifest, registration>>
    BY <1>5, DatabaseStays DEF Fails, Run
  <2> QED BY <1>5, <2>1, <2>2, <2>3, AsideIsKnown, ConfiguredSettles
<1>6. CASE Fails /\ UNCHANGED <<file, aside, tx>>
  <2>1. CASE Run("profile")
    <3>1. file["profile"] = None
      BY <1>1, <2>1 DEF OnboardingInv, ProcFits, ConfigurationFits
    <3>2. UNCHANGED <<manifest, registration, file, tx, aside>>
      BY <1>6 DEF Fails
    <3>3. Begun' = Begun /\ \A s \in Settings : Known(s)' = Known(s) /\ Anchored(s)' = Anchored(s)
      BY <3>2 DEF Begun, Known, Anchored
    <3> QED BY <3>1, <3>2, <3>3 DEF ConfiguredFits
  <2>2. CASE ~Run("profile")
    BY <1>2, <1>6, <2>2, DatabaseStays DEF Fails
  <2> QED BY <2>1, <2>2
<1>7. CASE Fails /\ PartlyWritten /\ UNCHANGED aside
  <2>1. UNCHANGED <<manifest, registration>> /\ (Run("profile") \/ database' = database)
    BY <1>7, DatabaseStays DEF Fails
  <2> QED BY <1>3, <1>7, <2>1
<1> QED BY <1>4, <1>5, <1>6, <1>7 DEF Fails

LEMMA ConfiguredStep ==
    ASSUME OnboardingInv, ConfiguredFits, CommandFits, Next, touched' = {}
    PROVE  ConfiguredFits'
<1>1. CASE SettingsStep
  BY <1>1, ConfiguredByReading, ConfiguredByConfiguring, ConfiguredByWriting DEF SettingsStep
<1>2. CASE \E c \in Command : Enter(c)
  BY <1>2, ConfiguredKept, EnterStarts
<1>3. CASE PutBack
  <2>1. \A b \in {"profile", "dispatcher_projects"} : file'[b] = file[b]
    BY <1>3, PutsBack, PeersAreArtifacts
  <2> QED BY <1>3, <2>1, PutsBack, AsideIsKnown, ConfiguredSettles
<1> QED
  BY <1>1, <1>2, <1>3, ConfiguredByOnboards, ConfiguredByInterrupts, HandTouches DEF Next

-----------------------------------------------------------------------------
(* How a step ends a command or goes on with it.                           *)

LEMMA HistoryMoves ==
    ASSUME OnboardingInv, Onboards \/ SettingsStep
    PROVE  /\ proc # None
           /\ \/ proc' = None /\ history'.interrupted = None /\ history'.verdict = "accepted"
              \/ /\ proc' = None /\ history'.interrupted = history.interrupted
                 /\ history'.verdict = "refused" /\ Refuse
              \/ proc' = None /\ UNCHANGED history
              \/ /\ proc'.command = proc.command
                 /\ history'.interrupted = history.interrupted
                 /\ history'.verdict = history.verdict
<1>1. HistoryFits
  BY DEF OnboardingInv, Typed
<1>2. Refuse => /\ proc' = None /\ history'.interrupted = history.interrupted
                /\ history'.verdict = "refused"
  BY <1>1 DEF Refuse, HistoryFits, Histories
<1>3. \A r : Accept(r) =>
                 proc' = None /\ history'.interrupted = None /\ history'.verdict = "accepted"
  BY <1>1 DEF Accept, HistoryFits, Histories
<1>4. CASE Onboards
  <2>1. proc # None /\ proc \in Processes
    BY <1>4, OnboardsKeeps DEF OnboardingInv, ProcFits
  <2>2. CASE WriteKey
    BY <1>1, <2>1, <2>2 DEF WriteKey, Processes, HistoryFits, Histories
  <2>3. \/ Refuse \/ Stop \/ (\E r : Accept(r)) \/ (\E s : GoTo(s)) \/ WriteKey
    BY <1>4 DEF Onboards, OnboardingStep, CreateManifest, AdoptIdentity, GenerateIdentity,
       WriteEnrollment, WriteCanonical, RecordIdentity, Export, ImportPeer, RecordPeer,
       WriteMembership, RecordMembership, Resume, ReportStatus
  <2> QED BY <1>2, <1>3, <2>1, <2>2, <2>3, GoesTo DEF Stop
<1>5. CASE SettingsStep
  <2>1. proc # None /\ proc \in Processes
    BY <1>5 DEF SettingsStep, RecoverHash, RecoverTransaction, CannotRecover, ReadSettings,
       StatusEnds, LogInFirst, Verify, StartRuntime, ConfigureTransport, WriteProfile,
       RecordProfile, ConfigureDispatcher, ConfigureMcp, UpdateSettings, WriteArtifact,
       SwapArtifact, RecordArtifact, RemoveTransaction, Reads, Run, OnboardingInv, ProcFits
  <2>2. CASE \E s, a, d, e : /\ proc' = [proc EXCEPT !.step = s, !.settings = a, !.artifact = d,
                                                     !.content = e]
                             /\ UNCHANGED history
    BY <2>1, <2>2 DEF Processes
  <2>3. CASE RecoverHash \/ RecoverTransaction
    BY <2>1, <2>3 DEF RecoverHash, RecoverTransaction
  <2>4. CASE ReadSettings
    <3>1. CASE proc' = [proc EXCEPT !.step = proc.command.name, !.settings = Readable]
               /\ UNCHANGED history
      BY <2>1, <3>1 DEF Processes
    <3> QED BY <1>2, <2>1, <2>4, <3>1, GoesTo DEF ReadSettings
  <2>5. CASE ConfigureDispatcher \/ UpdateSettings
    <3>1. CASE \E a, d : Begin(a, d)
      BY <2>1, <3>1 DEF Begin, Processes
    <3> QED BY <1>2, <1>3, <2>1, <2>5, <3>1 DEF ConfigureDispatcher, UpdateSettings
  <2>6. CASE \/ CannotRecover \/ StatusEnds \/ LogInFirst \/ Verify \/ StartRuntime
             \/ ConfigureTransport \/ WriteProfile \/ RecordProfile \/ ConfigureMcp
             \/ WriteArtifact \/ SwapArtifact \/ RecordArtifact \/ RemoveTransaction
    <3>1. \/ Refuse \/ Stop \/ (\E r : Accept(r)) \/ (\E s : GoTo(s))
      BY <2>6 DEF CannotRecover, StatusEnds, LogInFirst, Verify, StartRuntime,
         ConfigureTransport, WriteProfile, RecordProfile, ConfigureMcp, WriteArtifact,
         SwapArtifact, RecordArtifact, RemoveTransaction
    <3> QED BY <1>2, <1>3, <2>1, <3>1, GoesTo DEF Stop
  <2> QED BY <1>5, <2>3, <2>4, <2>5, <2>6 DEF SettingsStep
<1> QED BY <1>4, <1>5

LEMMA SettingsStepRuns ==
    ASSUME OnboardingInv, SettingsStep
    PROVE  /\ proc # None /\ proc.step \in Serving \cup {"read", "peek"}
           /\ proc.step = "peek" /\ proc' # None => proc'.step \in {"peek", "resume"}
<1>1. proc # None /\ proc.step \in Serving \cup {"read", "peek"}
  BY DEF SettingsStep, RecoverHash, RecoverTransaction, CannotRecover, ReadSettings,
         StatusEnds, LogInFirst, Verify, StartRuntime, ConfigureTransport, WriteProfile,
         RecordProfile, ConfigureDispatcher, ConfigureMcp, UpdateSettings, WriteArtifact,
         SwapArtifact, RecordArtifact, RemoveTransaction, Reads, Run, Serving, Writing, Configuring
<1>2. ASSUME proc.step = "peek" PROVE proc' # None => proc'.step \in {"peek", "resume"}
  <2>1. RecoverHash \/ RecoverTransaction \/ CannotRecover \/ ReadSettings
    BY <1>2 DEF SettingsStep, StatusEnds, LogInFirst, Verify, StartRuntime, ConfigureTransport,
       WriteProfile, RecordProfile, ConfigureDispatcher, ConfigureMcp, UpdateSettings,
       WriteArtifact, SwapArtifact, RecordArtifact, RemoveTransaction, Run
  <2>2. UNCHANGED proc \/ proc' = None \/ GoTo("resume")
    BY <1>2, <2>1 DEF RecoverHash, RecoverTransaction, CannotRecover, ReadSettings, Refuse, Run
  <2> QED BY <1>1, <1>2, <2>2, GoesTo
<1> QED BY <1>1, <1>2

LEMMA InterruptsMove ==
    ASSUME OnboardingInv, Dies \/ Fails
    PROVE  /\ proc # None /\ proc' = None /\ history'.verdict \in {"died", "failed"}
           /\ history'.interrupted = IF Promised THEN proc.command ELSE history.interrupted
BY DEF Dies, Fails, Interrupts, OnboardingInv, Typed, HistoryFits, Histories

-----------------------------------------------------------------------------
(* A command that configures relies on an onboarding that stays complete.  *)

LEMMA EnrolledKept ==
    ASSUME Enrolled, IdentityKept, manifest' # None
    PROVE  Enrolled'
<1>1. IdentityAgrees' = IdentityAgrees
  BY DEF IdentityKept, Enrollments, IdentityAgrees, Local
<1> QED BY <1>1 DEF Enrolled, IdentityKept, Enrollments, Local, AllEnrolled

LEMMA CompleteIsEnrolled ==
    ASSUME OnboardingInv, manifest # None, Status = "complete"
    PROVE  Enrolled
<1>1. Intact /\ manifest.local # None /\ AllEnrolled
      /\ \A a \in {"local_enrollment", "membership"} \cup Peer : file[a] # None
  BY DEF Status
<1> QED BY <1>1 DEF Intact, Enrolled

LEMMA ResumeKeepsIdentity ==
    ASSUME OnboardingInv, Resume
    PROVE  /\ IdentityKept /\ manifest # None
           /\ manifest'.hash = manifest.hash
<1>1. proc # None /\ manifest # None
  BY NoManifestEarlier DEF Resume, Run
<1> QED BY <1>1, NewStatus DEF Resume, IdentityKept

LEMMA EnrolledStep ==
    ASSUME OnboardingInv, OnboardingInv', RerunsFit, Next,
           proc' # None, proc'.step \in Serving \cup {"read"}, proc'.command.name \in Configures
    PROVE  Enrolled'
<1>1. manifest' # None
  BY DEF OnboardingInv, ProcFits, Run, Serving, Writing, Configuring
<1>2. CASE SettingsStep
  <2>1. proc # None /\ proc.step \in Serving \cup {"read"} /\ proc'.command = proc.command
    BY <1>2, SettingsStepRuns, HistoryMoves DEF Serving, Writing, Configuring
  <2>2. Enrolled
    BY <2>1 DEF RerunsFit
  <2> QED BY <1>1, <1>2, <2>2, SettingsStepKeeps, EnrolledKept
<1>3. CASE Onboards
  <2>1. proc # None /\ proc \in Processes
    BY <1>3, OnboardsKeeps DEF OnboardingInv, ProcFits
  <2>2. Resume \/ ReportStatus
    <3>1. ~WriteKey
      BY <2>1 DEF WriteKey, Processes, Serving, Writing, Configuring
    <3>2. CASE \E s \in {"identity", "canonical", "record identity", "key", "enroll", "membership",
                         "record membership", "resume"} : GoTo(s)
      BY <2>1, <3>2, GoesTo DEF Serving, Writing, Configuring
    <3>3. ~(proc' = None)
      OBVIOUS
    <3> QED
      BY <1>3, <3>1, <3>2, <3>3 DEF Onboards, OnboardingStep, CreateManifest, AdoptIdentity,
         GenerateIdentity, WriteEnrollment, WriteCanonical, RecordIdentity, Export, ImportPeer,
         RecordPeer, WriteMembership, RecordMembership, Refuse, Accept
  <2>3. proc'.command = proc.command
    BY <1>3, HistoryMoves
  <2>4. Resume /\ ~Name("import") /\ ~Name("verify")
    BY <2>1, <2>2, <2>3 DEF ReportStatus, OnboardingInv, ProcFits, NamesFit, Name, Configures
  <2>5. Status = "complete"
    BY <2>4 DEF Resume, Refuse
  <2>6. Enrolled
    BY <2>4, <2>5, ResumeKeepsIdentity, CompleteIsEnrolled
  <2> QED BY <1>1, <2>4, <2>6, ResumeKeepsIdentity, EnrolledKept
<1>4. CASE \E c \in Command : Enter(c)
  BY <1>4, EnterStarts DEF Serving, Writing, Configuring
<1>5. CASE Dies \/ Fails \/ ByHand \/ Unregisters \/ PutBack
  BY <1>5, InterruptsIdentity DEF ByHand, Unregisters, Changes, Touches, PutBack
<1> QED BY <1>2, <1>3, <1>4, <1>5 DEF Next

(* The peer's copy and the other peers' keys, after an interrupted import. *)
LEMMA ImportStep ==
    ASSUME OnboardingInv, PeersFit, CommandFits, RerunsFit, Next, touched' = {},
           history'.interrupted # None, history'.interrupted.name = "import",
           NEW c, c = history'.interrupted
    PROVE  manifest' = None \/ (file'[c.peer] = c.input /\ Distinct(c)')
<1> SUFFICES ASSUME manifest' # None PROVE file'[c.peer] = c.input /\ Distinct(c)'
  OBVIOUS
<1>1. ASSUME IdentityKept, manifest = None \/ (file[c.peer] = c.input /\ Distinct(c)),
             c.peer \in Peer
      PROVE  file'[c.peer] = c.input /\ Distinct(c)'
  BY <1>1 DEF IdentityKept, Enrollments, Distinct
<1>2. ASSUME c = history.interrupted
      PROVE  /\ c \in Command /\ c.peer \in Peer
             /\ manifest = None \/ (file[c.peer] = c.input /\ Distinct(c))
             /\ proc # None => proc.command = c /\ Name("import")
  <2>1. c \in Command
    BY <1>2 DEF OnboardingInv, Typed, HistoryFits, Histories
  <2> QED BY <1>2, <2>1, CommandParts DEF RerunsFit, Name
<1>3. CASE SettingsStep
  BY <1>1, <1>2, <1>3, SettingsStepKeeps, HistoryMoves
<1>4. CASE Onboards
  <2>1. c = history.interrupted /\ proc # None
    BY <1>4, HistoryMoves
  <2>2. /\ c.peer \in Peer /\ proc.command = c /\ Name("import") /\ c.peer = Imported
        /\ c.input = Enrollment
        /\ manifest = None \/ (file[c.peer] = c.input /\ Distinct(c))
    BY <1>2, <2>1 DEF Imported, Enrollment
  <2>3. ImportPeer \/ RecordPeer \/ WriteMembership \/ RecordMembership \/ Resume
    <3>1. ~(\/ CreateManifest \/ AdoptIdentity \/ GenerateIdentity \/ WriteKey
            \/ WriteEnrollment \/ WriteCanonical \/ RecordIdentity \/ Export \/ ReportStatus)
      BY <2>1, <2>2 DEF CreateManifest, AdoptIdentity, GenerateIdentity, WriteKey,
         WriteEnrollment, WriteCanonical, RecordIdentity, Export, ReportStatus, Run,
         CommandFits, Starting, Name, OnboardingInv, ProcFits, NamesFit
    <3> QED BY <1>4, <3>1 DEF Onboards, OnboardingStep
  <2>4. manifest # None /\ IsManifest(manifest)
    BY <2>1, <2>3, NoManifestEarlier
       DEF ImportPeer, RecordPeer, WriteMembership, RecordMembership, Resume, Run
  <2>5. file'[c.peer] = c.input
    <3>1. CASE UNCHANGED file
      BY <2>2, <2>4, <3>1
    <3>2. CASE Write(Imported, Enrollment)
      BY <2>2, <3>2, WroteFile, PeersAreArtifacts
    <3>3. CASE Write("membership", Policy)
      BY <2>2, <2>4, <3>3, WroteFile, PeersAreArtifacts
    <3> QED
      BY <2>3, <3>1, <3>2, <3>3
         DEF ImportPeer, RecordPeer, WriteMembership, RecordMembership, Resume
  <2>6. \A p \in Peer \ {c.peer} : manifest'.enrolled[p] = manifest.enrolled[p]
    <3>1. CASE UNCHANGED manifest
      BY <3>1
    <3>2. CASE RecordPeer
      <4>1. manifest'.enrolled = [manifest.enrolled EXCEPT ![Imported] = Enrollment]
        BY <2>4, <3>2 DEF RecordPeer, IsManifest
      <4> QED BY <2>2, <2>4, <4>1 DEF IsManifest
    <3>3. CASE RecordMembership
      BY <2>4, <3>3, RecordedHash, PeersAreArtifacts DEF RecordMembership
    <3>4. CASE Resume
      BY <3>4, ResumeKeepsIdentity DEF IdentityKept
    <3> QED BY <2>3, <3>1, <3>2, <3>3, <3>4 DEF ImportPeer, WriteMembership
  <2> QED BY <2>2, <2>4, <2>5, <2>6 DEF Distinct
<1>5. CASE \E d \in Command : Enter(d)
  <2>1. c = history.interrupted /\ UNCHANGED <<manifest, file>>
    BY <1>5, EnterStarts
  <2> QED BY <1>2, <2>1 DEF Distinct
<1>6. CASE PutBack
  <2>1. c = history.interrupted /\ UNCHANGED manifest /\ \A p \in Peer : file'[p] = file[p]
    BY <1>6, PutsBack, PeersAreArtifacts
  <2> QED BY <1>2, <2>1 DEF Distinct
<1>7. CASE Dies \/ Fails
  <2>1. proc # None /\ c = IF Promised THEN proc.command ELSE history.interrupted
    BY <1>7, InterruptsMove
  <2>2. proc.command = c /\ Name("import")
    BY <1>2, <2>1 DEF Name
  <2>3. IdentityKept
    <3>1. ~Run("enrollment") /\ ~Run("key") /\ ~Run("canonical")
      BY <2>1, <2>2 DEF CommandFits, Run, Starting, Name
    <3> QED BY <1>7, <3>1, InterruptsIdentity
  <2>4. CASE ~Promised
    BY <1>1, <1>2, <2>1, <2>3, <2>4
  <2>5. CASE Promised
    <3>1. proc.step \in {"enroll", "record membership"}
      BY <2>1, <2>2, <2>5
         DEF Promised, Committed, CommandFits, Starting, OnboardingInv, ProcFits, NamesFit, Name,
             Run, Writing
    <3>2. c.peer \in Peer /\ file[c.peer] = c.input
      BY <2>1, <2>2, <3>1, ImportKnows DEF Imported, Enrollment
    <3>3. Distinct(c)
      BY <2>1, <2>2, <3>1 DEF PeersFit
    <3> QED BY <1>1, <2>3, <3>2, <3>3
  <2> QED BY <2>4, <2>5
<1> QED BY <1>3, <1>4, <1>5, <1>6, <1>7, HandTouches DEF Next

-----------------------------------------------------------------------------
(* What an interrupted command finds when it is given again.               *)

LEMMA RepeatableKept ==
    ASSUME NEW c, ConfiguredFits, Repeatable(c), IdentityKept, manifest' # None,
           Recoverable(manifest'.hash["runtime_settings"], file'["runtime_settings"],
                       tx'["runtime_settings"]),
           \A s \in Settings : Known(s)' => Known(s),
           \/ manifest'.hash["runtime_settings"] # None
           \/ manifest'.hash["runtime_settings"] = manifest.hash["runtime_settings"],
           manifest'.hash["dispatcher_projects"]
               \in {manifest.hash["dispatcher_projects"], file["dispatcher_projects"]},
           \A a \in {"profile", "dispatcher_projects"} : file'[a] = file[a],
           tx'["dispatcher_projects"] \in {tx["dispatcher_projects"], None}
    PROVE  Repeatable(c)'
<1>1. Enrolled'
  BY EnrolledKept DEF Repeatable
<1>2. \A s \in Settings : Known(s)' /\ s.dispatcher # None =>
          manifest'.hash["dispatcher_projects"] = s.dispatcher
  BY DEF Repeatable, ConfiguredFits, Anchored
<1> QED BY <1>1, <1>2 DEF Repeatable

LEMMA StuckKept ==
    ASSUME Stuck, manifest # None \/ manifest' = None, database' = database, ~Run("profile")',
           \A a \in {"profile", "dispatcher_projects"} : file'[a] = file[a],
           \A a \in Transacted : tx[a] = Partial => tx'[a] = Partial
    PROVE  Stuck'
BY DEF Stuck

(* A step that leaves all of it alone.                                     *)
LEMMA HeldKept ==
    ASSUME NEW c, ConfiguredFits, Held(c), IdentityKept,
           \A a \in Configured : file'[a] = file[a], UNCHANGED <<database, tx>>,
           manifest' # None =>
               \A a \in {"runtime_settings", "dispatcher_projects"} :
                   manifest'.hash[a] = manifest.hash[a],
           ~Run("profile")'
    PROVE  Held(c)'
<1> SUFFICES ASSUME manifest' # None PROVE Held(c)'
  BY DEF Held, Stuck
<1>1. manifest # None
  BY DEF IdentityKept
<1>2. CASE Stuck
  <2>1. Stuck'
    BY <1>1, <1>2, StuckKept DEF Configured
  <2> QED BY <2>1 DEF Held
<1>3. CASE Repeatable(c)
  <2>1. \A s \in Settings : Known(s)' => Known(s)
    BY <1>1 DEF Known, Begun, Configured
  <2>2. Recoverable(manifest'.hash["runtime_settings"], file'["runtime_settings"],
                    tx'["runtime_settings"])
    BY <1>3 DEF Repeatable, Configured
  <2>3. Repeatable(c)'
    BY <1>3, <2>1, <2>2, RepeatableKept DEF Configured
  <2> QED BY <2>3 DEF Held
<1> QED BY <1>2, <1>3 DEF Held

LEMMA HeldByReading ==
    ASSUME NEW c, OnboardingInv, ConfiguredFits, Held(c),
           \/ RecoverHash \/ RecoverTransaction \/ CannotRecover \/ ReadSettings \/ StatusEnds
           \/ LogInFirst \/ Verify \/ StartRuntime
    PROVE  Held(c)'
<1> USE NoneIsNothing
<1>1. SettingsStep
  BY DEF SettingsStep
<1>2. proc # None /\ manifest # None /\ ~Run("profile")'
  <2>1. proc # None /\ ~Run("manifest")
    BY DEF RecoverHash, RecoverTransaction, CannotRecover, ReadSettings, StatusEnds,
       LogInFirst, Verify, StartRuntime, Reads, Run
  <2>2. ~Run("profile")'
    <3>1. CASE ReadSettings
      <4>1. CASE proc' = None \/ GoTo("resume")
        BY <2>1, <4>1, GoesTo DEF Run
      <4>2. CASE Run("read") /\ proc' = [proc EXCEPT !.step = proc.command.name, !.settings = Readable]
        BY <2>1, <4>2 DEF OnboardingInv, ProcFits, Processes, NamesFit, Run
      <4> QED BY <3>1, <4>1, <4>2 DEF ReadSettings, Refuse
    <3> QED
      BY <3>1 DEF RecoverHash, RecoverTransaction, CannotRecover, StatusEnds, LogInFirst,
         Verify, StartRuntime, Refuse, Stop, Accept, Reads, Run
  <2> QED BY <2>1, <2>2, NoManifestEarlier
<1>3. IdentityKept
  BY <1>1, SettingsStepKeeps
<1>4. CASE UNCHANGED <<manifest, file, database, tx>>
  BY <1>2, <1>3, <1>4, HeldKept
<1>5. CASE RecoverHash
  <2> DEFINE a == First(Unfinished)
  <2>1. /\ a \in Transacted /\ tx[a] \in Transaction(a) \cup {Partial} /\ a \in Artifact
        /\ Forward(a) /\ Record(a) /\ UNCHANGED <<file, database, tx>>
    BY <1>5, FirstIsUnfinished DEF RecoverHash
  <2> HIDE DEF a
  <2>2. /\ manifest'.hash[a] = file[a]
        /\ \A b \in Artifact \ {a} : manifest'.hash[b] = manifest.hash[b]
    BY <1>2, <2>1, RecordedHash
  <2>3. file[a] = tx[a].target /\ file[a] # None /\ file[a] \in Content(a) /\ tx[a] # None
    BY <2>1, ContentOf DEF Forward, Transaction, Transacted
  <2>4. CASE Stuck
    <3>1. Stuck'
      BY <1>2, <2>1, <2>4, StuckKept
    <3> QED BY <3>1 DEF Held
  <2>5. CASE Repeatable(c) /\ manifest' # None
    <3>1. \A s \in Settings : Known(s)' => Known(s)
      BY <1>2, <2>1, <2>2, PeersAreArtifacts DEF Known, Begun
    <3>2. Recoverable(manifest'.hash["runtime_settings"], file'["runtime_settings"],
                      tx'["runtime_settings"])
      BY <2>1, <2>2, <2>3, <2>5, PeersAreArtifacts DEF Repeatable, Recoverable
    <3>3. Repeatable(c)'
      BY <1>3, <2>1, <2>2, <2>3, <2>5, <3>1, <3>2, RepeatableKept, PeersAreArtifacts DEF Transacted
    <3> QED BY <3>3 DEF Held
  <2> QED BY <2>4, <2>5 DEF Held, Stuck
<1>6. CASE RecoverTransaction
  <2> DEFINE a == First(Unfinished)
  <2>1. /\ a \in Transacted /\ tx[a] \in Transaction(a) \cup {Partial}
        /\ tx' = [tx EXCEPT ![a] = None] /\ UNCHANGED <<manifest, file, database>>
        /\ \/ Forward(a) /\ manifest.hash[a] = file[a]
           \/ file[a] # None /\ Unchanged(a)
           \/ NeverWritten(a)
    BY <1>6, FirstIsUnfinished DEF RecoverTransaction
  <2> HIDE DEF a
  <2>2. tx'[a] = None /\ \A b \in Transacted \ {a} : tx'[b] = tx[b]
    BY <2>1, SetTransaction
  <2>3. tx[a] # Partial /\ tx[a] # None
    BY <2>1 DEF Forward, Unchanged, NeverWritten, Transacted
  <2>4. CASE Stuck
    <3>1. Stuck'
      BY <1>2, <2>1, <2>2, <2>3, <2>4, StuckKept
    <3> QED BY <3>1 DEF Held
  <2>5. CASE Repeatable(c)
    <3>1. \A s \in Settings : Known(s)' => Known(s)
      BY <2>1, <2>2 DEF Known, Begun, Transacted
    <3>2. Recoverable(manifest.hash["runtime_settings"], file["runtime_settings"],
                      tx["runtime_settings"])
      BY <2>5 DEF Repeatable
    <3>3. Recoverable(manifest'.hash["runtime_settings"], file'["runtime_settings"],
                      tx'["runtime_settings"])
      <4>1. CASE a = "runtime_settings"
        <5>1. manifest.hash[a] = file[a]
          <6>1. tx[a].target # None
            BY <2>1, <2>3, <4>1, ContentOf DEF Transaction
          <6> QED
            BY <2>1, <2>3, <3>2, <4>1, <6>1 DEF Recoverable, Unchanged, NeverWritten
        <5> QED BY <2>1, <2>2, <4>1, <5>1 DEF Recoverable
      <4>2. CASE a # "runtime_settings"
        BY <2>1, <2>2, <3>2, <4>2 DEF Transacted
      <4> QED BY <4>1, <4>2
    <3>4. Repeatable(c)'
      BY <1>2, <1>3, <2>1, <2>2, <2>5, <3>1, <3>3, RepeatableKept DEF Transacted
    <3> QED BY <3>4 DEF Held
  <2> QED BY <2>4, <2>5 DEF Held
<1> QED
  BY <1>4, <1>5, <1>6
     DEF CannotRecover, ReadSettings, StatusEnds, LogInFirst, Verify, StartRuntime

(* What a command that configures has read is what the disk holds.         *)
LEMMA SettingsKnown ==
    ASSUME OnboardingInv, ConfiguredFits, proc # None, proc.step \in Configuring
    PROVE  /\ manifest # None /\ proc.settings \in Settings /\ tx["runtime_settings"] = None
           /\ manifest.hash["runtime_settings"] = file["runtime_settings"]
           /\ file["runtime_settings"] = None => proc.settings = Base
           /\ file["runtime_settings"] # None =>
                  /\ file["runtime_settings"] = proc.settings /\ Anchored(proc.settings)
                  /\ proc.settings.dispatcher # None =>
                         manifest.hash["dispatcher_projects"] = proc.settings.dispatcher
           /\ \A s \in Settings : Known(s) => s = proc.settings /\ file["runtime_settings"] # None
<1> USE NoneIsNothing
<1>1. /\ manifest # None /\ proc.settings \in Settings /\ Stable(proc.settings)
      /\ tx["runtime_settings"] = None
  BY NoManifestEarlier
     DEF OnboardingInv, ProcFits, SettingsFit, ConfigurationFits, Serving, Configuring, Run
<1>2. /\ manifest.hash["runtime_settings"] = file["runtime_settings"]
      /\ file["runtime_settings"] = None => proc.settings = Base
      /\ file["runtime_settings"] # None =>
             /\ file["runtime_settings"] = proc.settings
             /\ proc.settings.dispatcher # None =>
                    manifest.hash["dispatcher_projects"] = proc.settings.dispatcher
  BY <1>1 DEF Stable, Bound
<1>3. \A s \in Settings : Known(s) => s = file["runtime_settings"]
  BY <1>1, <1>2 DEF Known, Begun
<1>4. file["runtime_settings"] # None => Anchored(proc.settings)
  BY <1>1, <1>2 DEF ConfiguredFits, Known
<1> QED BY <1>1, <1>2, <1>3, <1>4

(* The checks of a command let it change something.                        *)
LEMMA HeldByChecks ==
    ASSUME NEW c, OnboardingInv, ConfiguredFits, CommandFits, Enrolled, c = proc.command,
           \/ ConfigureTransport /\ file["profile"] \in {None, c.input} /\ UNCHANGED tx
           \/ /\ ConfigureMcp /\ UNCHANGED tx
              /\ proc.settings.transport # None /\ proc.settings.dispatcher # None
           \/ /\ ConfigureDispatcher /\ Begin("dispatcher_projects", c.input)
              /\ proc.settings.transport # None
              /\ file["dispatcher_projects"] \in {None, c.input}
    PROVE  Held(c)'
<1> USE NoneIsNothing
<1> DEFINE s == proc.settings
<1>1. /\ proc # None /\ proc.step \in Configuring
      /\ Unfinished = {} /\ NamesFit /\ proc \in Processes
  BY DEF ConfigureTransport, ConfigureDispatcher, ConfigureMcp, Run, Configuring,
         CommandFits, OnboardingInv, ProcFits
<1>2. tx["runtime_settings"] = None /\ tx["dispatcher_projects"] = None
  BY <1>1 DEF Unfinished, Transacted
<1>3. /\ manifest # None /\ s \in Settings
      /\ manifest.hash["runtime_settings"] = file["runtime_settings"]
      /\ file["runtime_settings"] = None => s = Base
      /\ file["runtime_settings"] # None /\ s.dispatcher # None =>
             manifest.hash["dispatcher_projects"] = s.dispatcher
      /\ \A r \in Settings : Known(r) => r = s /\ file["runtime_settings"] # None
  BY <1>1, SettingsKnown
<1> HIDE DEF s
<1>4. UNCHANGED <<manifest, key, file>> /\ tx'["runtime_settings"] = None
  <2>1. CASE UNCHANGED tx
    BY <1>2, <2>1 DEF ConfigureTransport, ConfigureDispatcher, ConfigureMcp
  <2>2. CASE \E d : Begin("dispatcher_projects", d)
    <3>1. tx'["runtime_settings"] = tx["runtime_settings"]
      BY <2>2, SetTransaction DEF Begin, Transacted
    <3> QED BY <1>2, <3>1 DEF ConfigureTransport, ConfigureDispatcher, ConfigureMcp
  <2> QED BY <2>1, <2>2 DEF ConfigureTransport, ConfigureDispatcher, ConfigureMcp
<1>5. Enrolled'
  <2>1. IdentityKept /\ manifest' # None
    BY <1>3, <1>4 DEF IdentityKept
  <2> QED BY <2>1, EnrolledKept
<1>6. \A r \in Settings : Known(r)' => Known(r)
  BY <1>4 DEF Known, Begun
<1>7. \A r \in Settings : Known(r)' /\ r.dispatcher # None =>
          manifest'.hash["dispatcher_projects"] = r.dispatcher
  BY <1>3, <1>4, <1>6
<1>8. Recoverable(manifest'.hash["runtime_settings"], file'["runtime_settings"],
                  tx'["runtime_settings"])
  BY <1>3, <1>4 DEF Recoverable
<1>9. s.transport # None => manifest'.hash["runtime_settings"] # None
  BY <1>3, <1>4 DEF Base
<1>10. CASE ConfigureTransport /\ file["profile"] \in {None, c.input} /\ UNCHANGED tx
  <2>1. c.name = "transport"
    BY <1>1, <1>10 DEF ConfigureTransport, NamesFit, Name
  <2> QED BY <1>2, <1>4, <1>5, <1>7, <1>8, <1>10, <2>1 DEF Held, Repeatable
<1>11. CASE ConfigureMcp /\ UNCHANGED tx /\ s.transport # None /\ s.dispatcher # None
  <2>1. c.name = "mcp"
    BY <1>1, <1>11 DEF ConfigureMcp, NamesFit, Name
  <2>2. \A r \in Settings : Known(r)' => r.dispatcher # None
    BY <1>3, <1>6, <1>11
  <2> QED BY <1>2, <1>4, <1>5, <1>7, <1>8, <1>9, <1>11, <2>1, <2>2 DEF Held, Repeatable
<1>12. CASE /\ ConfigureDispatcher /\ Begin("dispatcher_projects", c.input)
            /\ s.transport # None /\ file["dispatcher_projects"] \in {None, c.input}
  <2> DEFINE t == [previous |-> manifest.hash["dispatcher_projects"], target |-> c.input]
  <2>1. c.name = "dispatcher"
    BY <1>1, <1>12 DEF ConfigureDispatcher, NamesFit, Name
  <2>2. tx'["dispatcher_projects"] = t
    BY <1>12, SetTransaction DEF Begin, Transacted
  <2>3. t.target = c.input /\ t.previous = manifest.hash["dispatcher_projects"]
    OBVIOUS
  <2> HIDE DEF t
  <2>4. file["dispatcher_projects"] = None => t.previous = None
    BY <1>3, <2>3 DEF ConfiguredFits
  <2> QED
    BY <1>4, <1>5, <1>7, <1>8, <1>9, <1>12, <2>1, <2>2, <2>3, <2>4 DEF Held, Repeatable
<1> QED BY <1>10, <1>11, <1>12 DEF s

(* Either they are passed, or they end the command and leave what there    *)
(* was for its repetition.                                                 *)
LEMMA HeldByConfigure ==
    ASSUME NEW c, OnboardingInv, ConfiguredFits, CommandFits, Enrolled, c = proc.command,
           ConfigureTransport \/ ConfigureDispatcher \/ ConfigureMcp, AfterChecks' \/ Held(c)
    PROVE  Held(c)'
<1> USE NoneIsNothing
<1>1. proc # None /\ manifest # None /\ NamesFit /\ proc \in Processes
  BY NoManifestEarlier
     DEF ConfigureTransport, ConfigureDispatcher, ConfigureMcp, Run, OnboardingInv, ProcFits
<1>2. UNCHANGED <<manifest, key, file>>
  BY DEF ConfigureTransport, ConfigureDispatcher, ConfigureMcp
<1>3. IdentityKept
  BY <1>1, <1>2 DEF IdentityKept
<1>4. CASE Held(c) /\ ~AfterChecks' /\ UNCHANGED <<database, tx>>
  <2>1. ~Run("profile")'
    BY <1>4 DEF AfterChecks, Past, Run
  <2> QED BY <1>2, <1>3, <1>4, <2>1, HeldKept
<1>5. CASE ConfigureTransport
  <2>1. UNCHANGED tx /\ c.input = proc.command.input
    BY <1>5 DEF ConfigureTransport
  <2>2. CASE file["profile"] \in {None, c.input}
    BY <1>5, <2>1, <2>2, HeldByChecks
  <2>3. CASE file["profile"] \notin {None, c.input}
    <3>1. proc' = None /\ UNCHANGED database
      BY <1>5, <2>1, <2>3 DEF ConfigureTransport, ProfileFits, Refuse
    <3> QED BY <1>4, <2>1, <3>1 DEF AfterChecks
  <2> QED BY <2>2, <2>3
<1>6. CASE ConfigureMcp
  <2>1. UNCHANGED <<database, tx>>
    BY <1>6 DEF ConfigureMcp
  <2>2. CASE proc.settings.transport # None /\ proc.settings.dispatcher # None
    BY <1>6, <2>1, <2>2, HeldByChecks
  <2>3. CASE ~(proc.settings.transport # None /\ proc.settings.dispatcher # None)
    <3>1. proc' = None
      BY <1>6, <2>3 DEF ConfigureMcp, Refuse
    <3> QED BY <1>4, <2>1, <3>1 DEF AfterChecks
  <2> QED BY <2>2, <2>3
<1>7. CASE ConfigureDispatcher
  <2>1. UNCHANGED database
    BY <1>7 DEF ConfigureDispatcher
  <2>2. CASE proc' = None /\ UNCHANGED tx
    BY <1>4, <2>1, <2>2 DEF AfterChecks
  <2>3. CASE proc.settings.transport # None /\ Begin("dispatcher_projects", c.input)
    <3>1. /\ proc'.step = "write" /\ proc'.artifact = "dispatcher_projects"
          /\ proc'.content = c.input
      BY <1>1, <2>3 DEF Begin, Processes
    <3>2. CASE file["dispatcher_projects"] \in {None, c.input}
      BY <1>7, <2>3, <3>2, HeldByChecks
    <3>3. CASE file["dispatcher_projects"] \notin {None, c.input}
      <4>1. ~AfterChecks'
        BY <1>2, <3>1, <3>3 DEF AfterChecks, Past, Promised, Run, Replaces, Found
      <4>2. ~Repeatable(c)
        BY <1>1, <1>7, <3>3 DEF Repeatable, ConfigureDispatcher, NamesFit, Name
      <4>3. Stuck
        BY <4>1, <4>2 DEF Held
      <4>4. ~Run("profile")' /\ tx["dispatcher_projects"] = None
            /\ tx'["runtime_settings"] = tx["runtime_settings"]
        BY <2>3, <3>1, SetTransaction DEF Begin, Transacted, Run
      <4>5. Stuck'
        BY <1>1, <1>2, <2>1, <4>3, <4>4, StuckKept DEF Transacted
      <4> QED BY <4>5 DEF Held
    <3> QED BY <3>2, <3>3
  <2> QED BY <1>7, <2>2, <2>3 DEF ConfigureDispatcher, Refuse, Accept
<1> QED BY <1>5, <1>6, <1>7

LEMMA HeldByProfile ==
    ASSUME NEW c, OnboardingInv, ConfiguredFits, Held(c), c = proc.command,
           WriteProfile \/ RecordProfile
    PROVE  Held(c)'
<1> USE NoneIsNothing
<1>1. proc # None /\ manifest # None /\ NamesFit /\ ConfigurationFits
  BY NoManifestEarlier DEF WriteProfile, RecordProfile, Run, OnboardingInv, ProcFits
<1>2. IdentityKept
  BY SettingsStepKeeps DEF SettingsStep
<1>3. CASE RecordProfile
  <2>1. \A a \in {"runtime_settings", "dispatcher_projects"} : manifest'.hash[a] = manifest.hash[a]
    BY <1>1, <1>3, RecordedHash, PeersAreArtifacts DEF RecordProfile
  <2>2. ~Run("profile")'
    <3>1. proc' = None \/ GoTo("update")
      BY <1>3 DEF RecordProfile, Accept
    <3> QED BY <1>1, <3>1, GoesTo DEF Run
  <2> QED BY <1>2, <1>3, <2>1, <2>2, HeldKept DEF RecordProfile
<1>4. CASE WriteProfile
  <2>1. file["profile"] = None /\ c.name = "transport" /\ Run("profile")
    BY <1>1, <1>4 DEF WriteProfile, ConfigurationFits, NamesFit, Name
  <2>2. /\ file'["profile"] = c.input
        /\ \A b \in {"dispatcher_projects", "runtime_settings"} : file'[b] = file[b]
    <3>1. Write("profile", c.input)
      BY <1>4 DEF WriteProfile
    <3> QED BY <3>1, WroteFile, PeersAreArtifacts
  <2>3. UNCHANGED <<manifest, tx>>
    BY <1>4 DEF WriteProfile
  <2>4. CASE Stuck
    BY <1>1, <2>1, <2>2, <2>3, <2>4 DEF Held, Stuck
  <2>5. CASE Repeatable(c)
    <3>1. Enrolled'
      BY <1>1, <1>2, <2>3, <2>5, EnrolledKept DEF Repeatable
    <3>2. \A s \in Settings : Known(s)' => Known(s)
      BY <2>2, <2>3 DEF Known, Begun
    <3> QED BY <2>1, <2>2, <2>3, <2>5, <3>1, <3>2 DEF Held, Repeatable
  <2> QED BY <2>4, <2>5 DEF Held
<1> QED BY <1>3, <1>4

LEMMA HeldByUpdate ==
    ASSUME NEW c, OnboardingInv, ConfiguredFits, CommandFits, Held(c), c = proc.command,
           UpdateSettings
    PROVE  Held(c)'
<1> USE NoneIsNothing
<1> DEFINE s == proc.settings
           t == [previous |-> manifest.hash["runtime_settings"], target |-> Updated]
<1>1. /\ proc # None /\ proc.step \in Configuring /\ NamesFit /\ ConfigurationFits
      /\ proc.step = "update"
  BY DEF UpdateSettings, Run, Configuring, OnboardingInv, ProcFits
<1>2. /\ manifest # None /\ s \in Settings /\ tx["runtime_settings"] = None
      /\ manifest.hash["runtime_settings"] = file["runtime_settings"]
      /\ file["runtime_settings"] = None => s = Base
      /\ file["runtime_settings"] # None /\ s.dispatcher # None =>
             manifest.hash["dispatcher_projects"] = s.dispatcher
  BY <1>1, SettingsKnown
<1>3. Updated \in Settings
  BY UpdatedAgrees DEF UpdateSettings
<1>4. Readable = s
  BY <1>1, <1>2 DEF Readable, Stable, ConfigurationFits
<1>5. IdentityKept /\ UNCHANGED <<manifest, file, database>>
  BY SettingsStepKeeps DEF SettingsStep, UpdateSettings
<1>6. tx'["runtime_settings"] = t /\ tx'["dispatcher_projects"] = tx["dispatcher_projects"]
      /\ t.previous = manifest.hash["runtime_settings"] /\ t.target = Updated
  BY SetTransaction DEF UpdateSettings, Begin, Transacted
<1>7. /\ Updated.dispatcher # None => manifest.hash["dispatcher_projects"] = Updated.dispatcher
      /\ c.name = "mcp" => Updated.dispatcher # None
  <2>1. CASE Name("transport")
    <3>1. Updated.dispatcher = s.dispatcher
      BY <1>2, <1>4, <2>1 DEF Updated, Settings
    <3> QED BY <1>2, <2>1, <3>1 DEF Name, Base
  <2>2. CASE Name("dispatcher")
    <3>1. Updated.dispatcher = proc.command.input
      BY <1>2, <1>4, <2>2 DEF Updated, Settings, Name
    <3> QED BY <1>1, <2>2, <3>1 DEF Name, CommandFits, Run
  <2>3. CASE Name("mcp")
    <3>1. Updated.dispatcher = s.dispatcher
      BY <1>2, <1>4, <2>3 DEF Updated, Settings, Name
    <3>2. s.dispatcher # None
      BY <1>1, <2>3 DEF Name, CommandFits
    <3> QED BY <1>2, <3>1, <3>2 DEF Base
  <2> QED BY <1>1, <2>1, <2>2, <2>3 DEF NamesFit, Name
<1> HIDE DEF s, t
<1>8. CASE Stuck
  <2>1. ~Run("profile")'
    BY <1>1 DEF UpdateSettings, Begin, OnboardingInv, ProcFits, Processes, Run
  <2>2. Stuck'
    BY <1>2, <1>5, <1>6, <1>8, <2>1, StuckKept DEF Transacted
  <2> QED BY <2>2 DEF Held
<1>9. CASE Repeatable(c)
  <2>1. Enrolled'
    BY <1>2, <1>5, <1>9, EnrolledKept DEF Repeatable
  <2>2. \A r \in Settings : Known(r)' => Known(r) \/ r = Updated
    BY <1>2, <1>5, <1>6 DEF Known
  <2>3. Recoverable(manifest'.hash["runtime_settings"], file'["runtime_settings"],
                    tx'["runtime_settings"])
    <3>1. t \in Transaction("runtime_settings")
      BY <1>2, <1>3, DiskTypes, ContentOf DEF t, Transaction
    <3> QED BY <1>2, <1>5, <1>6, <3>1 DEF Recoverable
  <2> QED BY <1>5, <1>6, <1>7, <1>9, <2>1, <2>2, <2>3 DEF Held, Repeatable
<1> QED BY <1>8, <1>9 DEF Held

LEMMA HeldByWriting ==
    ASSUME NEW c, OnboardingInv, ConfiguredFits, CommandFits, Held(c), c = proc.command,
           WriteArtifact \/ SwapArtifact \/ RecordArtifact \/ RemoveTransaction
    PROVE  Held(c)'
<1> USE NoneIsNothing
<1> DEFINE a == proc.artifact
           t == tx["runtime_settings"]
<1>1. /\ proc # None /\ manifest # None /\ WritingFits /\ proc.step \in Writing
      /\ CommandFits
  BY NoManifestEarlier
     DEF WriteArtifact, SwapArtifact, RecordArtifact, RemoveTransaction, Run, OnboardingInv,
         ProcFits, Writing
<1>2. a \in Transacted /\ proc.content \in Content(a) /\ a \in Artifact /\ a \in Configured
  BY <1>1, OtherArtifacts DEF WritingFits
<1>3. IdentityKept
  BY SettingsStepKeeps DEF SettingsStep
<1>4. ~Run("profile")'
  <2>1. proc' = None \/ \E s \in {"hash", "swap", "remove", "update"} : GoTo(s)
    BY DEF WriteArtifact, SwapArtifact, RecordArtifact, RemoveTransaction, Refuse, Accept
  <2> QED BY <1>1, <2>1, GoesTo DEF Run
<1>5. a = "runtime_settings" =>
          /\ Begun /\ t.target = proc.content /\ proc.content \in Settings
          /\ t # None /\ t # Partial
          /\ Run("write") => file[a] = t.previous
  BY <1>1, <1>2, ContentOf DEF WritingFits, Begun
<1>6. a = "dispatcher_projects" =>
          /\ c.name = "dispatcher" /\ proc.content = c.input /\ proc.content \in Dispatcher
          /\ tx[a] \notin {None, Partial} /\ tx[a].target = proc.content
  BY <1>1, <1>2, ContentOf DEF WritingFits, CommandFits, Name
<1>7. a = "runtime_settings" \/ a = "dispatcher_projects"
  BY <1>2 DEF Transacted
<1>8. CASE UNCHANGED <<manifest, file, database, tx>>
  BY <1>3, <1>4, <1>8, HeldKept
(* The settings file changes as their transaction says.                    *)
<1>9. ASSUME NEW f, a = "runtime_settings", file'[a] = f, f \in {None, proc.content},
             \A b \in {"profile", "dispatcher_projects"} : file'[b] = file[b],
             UNCHANGED <<manifest, database, tx>>,
             f = None => file[a] # proc.content
      PROVE  Held(c)'
  <2>1. CASE Stuck
    <3>1. Stuck'
      BY <1>1, <1>4, <1>9, <2>1, StuckKept
    <3> QED BY <3>1 DEF Held
  <2>2. CASE Repeatable(c)
    <3>1. \A s \in Settings : Known(s)' => Known(s)
      BY <1>5, <1>9 DEF Known, Begun
    <3>2. Recoverable(manifest'.hash["runtime_settings"], file'["runtime_settings"],
                      tx'["runtime_settings"])
      BY <1>5, <1>9, <2>2 DEF Repeatable, Recoverable
    <3>3. Repeatable(c)'
      BY <1>1, <1>3, <1>9, <2>2, <3>1, <3>2, RepeatableKept
    <3> QED BY <3>3 DEF Held
  <2> QED BY <2>1, <2>2 DEF Held
<1>10. CASE a = "runtime_settings" /\ \E f \in {None, proc.content} :
               /\ Write(a, f) /\ UNCHANGED <<manifest, database, tx>>
               /\ f = None => file[a] # proc.content
  <2>1. PICK f \in {None, proc.content} : /\ Write(a, f) /\ UNCHANGED <<manifest, database, tx>>
                                          /\ f = None => file[a] # proc.content
    BY <1>10
  <2>2. file'[a] = f /\ \A b \in {"profile", "dispatcher_projects"} : file'[b] = file[b]
    BY <1>2, <1>10, <2>1, WroteFile, PeersAreArtifacts
  <2> QED BY <1>9, <1>10, <2>1, <2>2
<1>11. CASE WriteArtifact
  <2>1. UNCHANGED <<manifest, database, tx>>
    BY <1>11 DEF WriteArtifact
  <2>2. CASE UNCHANGED file
    BY <1>8, <2>1, <2>2
  <2>3. CASE a = "runtime_settings" /\ Found = None /\ Write(a, proc.content)
    BY <1>5, <1>10, <2>1, <2>3
  <2>4. CASE a = "runtime_settings" /\ Found \notin {None, proc.content} /\ Write(a, None)
    BY <1>10, <2>1, <2>4 DEF Found
  <2>5. CASE a = "dispatcher_projects" /\ Found = None /\ Write(a, proc.content)
    <3>1. /\ file[a] = None /\ file'[a] = c.input
          /\ \A b \in {"profile", "runtime_settings"} : file'[b] = file[b]
      BY <1>2, <1>6, <2>5, WroteFile, PeersAreArtifacts DEF Found
    <3>2. CASE Stuck
      BY <1>1, <1>4, <2>1, <2>5, <3>1, <3>2 DEF Held, Stuck
    <3>3. CASE Repeatable(c)
      <4>1. Enrolled'
        BY <1>1, <1>3, <2>1, <3>3, EnrolledKept DEF Repeatable
      <4>2. \A s \in Settings : Known(s)' => Known(s)
        BY <2>1, <3>1 DEF Known, Begun
      <4> QED BY <1>6, <2>1, <2>5, <3>1, <3>3, <4>1, <4>2 DEF Held, Repeatable
    <3> QED BY <3>2, <3>3 DEF Held
  <2> QED BY <1>7, <1>11, <2>2, <2>3, <2>4, <2>5 DEF WriteArtifact, Replaces
<1>12. CASE SwapArtifact
  <2>1. a = "runtime_settings" /\ Write(a, proc.content) /\ UNCHANGED <<manifest, database, tx>>
    BY <1>1, <1>12 DEF SwapArtifact, WritingFits
  <2> QED BY <1>5, <1>10, <2>1
<1>13. CASE RecordArtifact
  <2>1. /\ Record(a) /\ UNCHANGED <<file, database, tx>> /\ file[a] = proc.content
    BY <1>1, <1>13 DEF RecordArtifact, WritingFits
  <2>2. /\ manifest'.hash[a] = file[a]
        /\ \A b \in Artifact \ {a} : manifest'.hash[b] = manifest.hash[b]
    BY <1>1, <1>2, <2>1, RecordedHash
  <2>3. CASE Stuck
    <3>1. Stuck'
      BY <1>1, <1>4, <2>1, <2>3, StuckKept
    <3> QED BY <3>1 DEF Held
  <2>4. CASE Repeatable(c) /\ manifest' # None
    <3>1. \A s \in Settings : Known(s)' => Known(s)
      BY <1>1, <2>1, <2>2, PeersAreArtifacts DEF Known, Begun
    <3>2. Recoverable(manifest'.hash["runtime_settings"], file'["runtime_settings"],
                      tx'["runtime_settings"])
      BY <1>5, <1>7, <2>1, <2>2, <2>4, PeersAreArtifacts DEF Repeatable, Recoverable
    <3>3. /\ \/ manifest'.hash["runtime_settings"] # None
             \/ manifest'.hash["runtime_settings"] = manifest.hash["runtime_settings"]
          /\ manifest'.hash["dispatcher_projects"]
                 \in {manifest.hash["dispatcher_projects"], file["dispatcher_projects"]}
      BY <1>5, <1>7, <2>1, <2>2, PeersAreArtifacts
    <3>4. Repeatable(c)'
      BY <1>3, <2>1, <2>4, <3>1, <3>2, <3>3, RepeatableKept
    <3> QED BY <3>4 DEF Held
  <2> QED BY <2>3, <2>4 DEF Held, Stuck
<1>14. CASE RemoveTransaction
  <2>1. /\ UNCHANGED <<manifest, file, database>> /\ tx' = [tx EXCEPT ![a] = None]
        /\ file[a] = proc.content /\ manifest.hash[a] = proc.content
    BY <1>1, <1>14 DEF RemoveTransaction, WritingFits
  <2>2. tx'[a] = None /\ \A b \in Transacted \ {a} : tx'[b] = tx[b]
    BY <1>2, <2>1, SetTransaction
  <2>3. tx[a] # Partial
    BY <1>5, <1>6, <1>7
  <2>4. CASE Stuck
    <3>1. Stuck'
      BY <1>1, <1>4, <2>1, <2>2, <2>3, <2>4, StuckKept
    <3> QED BY <3>1 DEF Held
  <2>5. CASE Repeatable(c)
    <3>1. \A s \in Settings : Known(s)' => Known(s)
      BY <1>7, <2>1, <2>2 DEF Known, Begun, Transacted
    <3>2. Recoverable(manifest'.hash["runtime_settings"], file'["runtime_settings"],
                      tx'["runtime_settings"])
      BY <1>7, <2>1, <2>2, <2>5 DEF Repeatable, Recoverable, Transacted
    <3>3. Repeatable(c)'
      BY <1>1, <1>3, <1>7, <2>1, <2>2, <2>5, <3>1, <3>2, RepeatableKept DEF Transacted
    <3> QED BY <3>3 DEF Held
  <2> QED BY <2>4, <2>5 DEF Held
<1> QED BY <1>11, <1>12, <1>13, <1>14

(* The settings that were moved aside come back to their file.             *)
LEMMA HeldByReturn ==
    ASSUME NEW c, OnboardingInv, ConfiguredFits, Held(c), IdentityKept, aside # None,
           manifest # None, file'["runtime_settings"] = aside,
           \A b \in {"profile", "dispatcher_projects"} : file'[b] = file[b],
           UNCHANGED <<manifest, database, tx>>, ~Run("profile")'
    PROVE  Held(c)'
<1> USE NoneIsNothing
<1>1. /\ aside \in Settings /\ Known(aside) /\ file["runtime_settings"] = None /\ Begun
      /\ aside = tx["runtime_settings"].previous
  BY AsideIsKnown
<1>2. CASE Stuck
  <2>1. Stuck'
    BY <1>2, StuckKept
  <2> QED BY <2>1 DEF Held
<1>3. CASE Repeatable(c)
  <2>1. \A s \in Settings : Known(s)' => Known(s)
    BY <1>1 DEF Known, Begun
  <2>2. tx["runtime_settings"] # None /\ tx["runtime_settings"].target # None
    BY <1>1, ContentOf DEF Begun, OnboardingInv, Typed, TransactionsFit, Transaction, Transacted
  <2>3. Recoverable(manifest'.hash["runtime_settings"], file'["runtime_settings"],
                    tx'["runtime_settings"])
    BY <1>1, <1>3, <2>2 DEF Repeatable, Recoverable
  <2>4. Repeatable(c)'
    BY <1>3, <2>1, <2>3, RepeatableKept
  <2> QED BY <2>4 DEF Held
<1> QED BY <1>2, <1>3 DEF Held

(* What a death or an error leaves to the repetition.                      *)
LEMMA HeldByInterrupts ==
    ASSUME NEW c, OnboardingInv, ConfiguredFits, CommandFits, Held(c), c = proc.command,
           c.name \in Configures, Dies \/ Fails
    PROVE  Held(c)'
<1> USE NoneIsNothing
<1>1. /\ proc # None /\ proc' = None /\ ~Run("profile")'
      /\ ConfigurationFits /\ WritingFits
  BY InterruptsIdentity DEF Run, OnboardingInv, ProcFits
<1>2. ~Run("manifest") /\ ~Run("key") /\ ~Run("enrollment") /\ ~Run("canonical")
  BY <1>1 DEF CommandFits, Starting, Name, Configures, Run
<1>3. IdentityKept /\ manifest # None
  BY <1>1, <1>2, InterruptsIdentity, NoManifestEarlier
<1>4. CASE manifest' = None
  BY <1>4 DEF Held, Stuck
<1>5. CASE UNCHANGED <<manifest, file, database, tx>>
  BY <1>1, <1>3, <1>5, HeldKept
<1>6. CASE PartlyWritten
  <2>1. CASE Run("profile") /\ Write("profile", Partial)
    <3>1. file'["profile"] = Partial
      BY <2>1, WroteFile, PeersAreArtifacts
    <3> QED BY <3>1 DEF Held, Stuck
  <2>2. CASE WritesNew /\ Write(proc.artifact, Partial)
    <3>1. proc.artifact = "dispatcher_projects"
      BY <1>1, <2>2 DEF WritesNew, Run, Replaces, WritingFits, Writing, Transacted
    <3>2. file'["dispatcher_projects"] = Partial
      BY <2>2, <3>1, WroteFile, PeersAreArtifacts
    <3> QED BY <3>2 DEF Held, Stuck
  <2>3. CASE \E a \in Transacted : tx' = [tx EXCEPT ![a] = Partial]
    <3>1. \E a \in Transacted : tx'[a] = Partial
      BY <2>3, SetTransaction
    <3> QED BY <3>1 DEF Held, Stuck
  <2> QED BY <1>2, <1>6, <2>1, <2>2, <2>3 DEF PartlyWritten, Transacted
<1>7. CASE Dies
  BY <1>2, <1>4, <1>5, <1>6, <1>7 DEF Dies
<1>8. CASE Fails /\ Run("swap") /\ Write("runtime_settings", aside) /\ UNCHANGED tx
  <2>1. /\ file'["runtime_settings"] = aside
        /\ \A b \in {"profile", "dispatcher_projects"} : file'[b] = file[b]
    BY <1>8, WroteFile, PeersAreArtifacts
  <2>2. UNCHANGED <<manifest, tx, database>>
    BY <1>8, DatabaseStays DEF Fails, Run
  <2>3. aside # None
    BY <1>1, <1>8 DEF CommandFits
  <2> QED BY <1>1, <1>3, <2>1, <2>2, <2>3, HeldByReturn
<1>9. CASE Fails /\ UNCHANGED <<file, tx>>
  <2>1. UNCHANGED manifest
    BY <1>9 DEF Fails
  <2>2. CASE ~Run("profile")
    BY <1>5, <1>9, <2>1, <2>2, DatabaseStays DEF Fails
  <2>3. CASE Run("profile")
    <3>1. file["profile"] = None
      BY <1>1, <2>3 DEF ConfigurationFits
    <3>2. CASE Stuck
      BY <1>3, <1>9, <2>1, <2>3, <3>1, <3>2 DEF Held, Stuck
    <3>3. CASE Repeatable(c)
      <4>1. \A s \in Settings : Known(s)' => Known(s)
        BY <1>9, <2>1 DEF Known, Begun
      <4>2. Recoverable(manifest'.hash["runtime_settings"], file'["runtime_settings"],
                        tx'["runtime_settings"])
        BY <1>9, <2>1, <3>3 DEF Repeatable
      <4>3. Repeatable(c)'
        BY <1>3, <1>9, <2>1, <3>3, <4>1, <4>2, RepeatableKept
      <4> QED BY <4>3 DEF Held
    <3> QED BY <3>2, <3>3 DEF Held
  <2> QED BY <2>2, <2>3
<1>10. CASE Fails
  BY <1>6, <1>8, <1>9, <1>10 DEF Fails
<1> QED BY <1>7, <1>10

(* A step of start or of another command that does not configure.          *)
LEMMA OnboardsServe ==
    ASSUME OnboardingInv, Onboards
    PROVE  /\ proc' # None => proc'.step \notin Serving
           /\ proc.command.name \in Configures /\ CommandFits => Resume
<1>1. proc # None /\ proc \in Processes
  BY OnboardsKeeps DEF OnboardingInv, ProcFits
<1>2. ASSUME proc' # None PROVE proc'.step \notin Serving
  <2>1. CASE WriteKey
    BY <1>1, <2>1 DEF WriteKey, Processes, Serving, Writing, Configuring
  <2>2. CASE \E s \in {"identity", "canonical", "record identity", "key", "enroll", "membership",
                       "record membership", "resume", "read"} : GoTo(s)
    BY <1>1, <2>2, GoesTo DEF Serving, Writing, Configuring
  <2> QED
    BY <1>2, <2>1, <2>2 DEF Onboards, OnboardingStep, CreateManifest, AdoptIdentity,
       GenerateIdentity, WriteEnrollment, WriteCanonical, RecordIdentity, Export, ImportPeer,
       RecordPeer, WriteMembership, RecordMembership, Resume, ReportStatus, Refuse, Accept, Stop
<1>3. ASSUME proc.command.name \in Configures, CommandFits PROVE Resume
  BY <1>1, <1>3
     DEF Onboards, OnboardingStep, CreateManifest, AdoptIdentity, GenerateIdentity, WriteKey,
         WriteEnrollment, WriteCanonical, RecordIdentity, Export, ImportPeer, RecordPeer,
         WriteMembership, RecordMembership, ReportStatus, Run, CommandFits, Starting, Name,
         Configures, OnboardingInv, ProcFits, ImportFits, NamesFit
<1> QED BY <1>2, <1>3

(* Every step of a command keeps what it will be repeated from.            *)
LEMMA HeldByCommand ==
    ASSUME NEW c, OnboardingInv, ConfiguredFits, CommandFits, SettingsStep, c = proc.command,
           c.name \in Configures,
           proc.step \in Serving \cup {"read"} => Enrolled,
           AfterChecks => Held(c), AfterChecks' \/ Held(c)
    PROVE  Held(c)'
<1>1. proc # None /\ proc \in Processes /\ proc.step \in Serving \cup {"read", "peek"}
  BY SettingsStepRuns DEF OnboardingInv, ProcFits
<1>2. CASE \/ RecoverHash \/ RecoverTransaction \/ CannotRecover \/ ReadSettings \/ StatusEnds
           \/ LogInFirst \/ Verify \/ StartRuntime
  <2>1. ~AfterChecks'
    <3>1. CASE RecoverHash \/ RecoverTransaction
      BY <3>1 DEF RecoverHash, RecoverTransaction, Reads, Run, AfterChecks, Past
    <3>2. CASE CannotRecover \/ StatusEnds \/ LogInFirst \/ Verify \/ StartRuntime
      BY <3>2 DEF CannotRecover, StatusEnds, LogInFirst, Verify, StartRuntime, Refuse, Stop,
         Accept, AfterChecks
    <3>3. CASE ReadSettings
      <4>1. CASE proc' = None
        BY <4>1 DEF AfterChecks
      <4>2. CASE GoTo("resume")
        <5>1. proc'.step = "resume"
          BY <1>1, <4>2, GoesTo
        <5> QED BY <5>1 DEF AfterChecks, Past, Run
      <4>3. CASE Run("read") /\ proc' = [proc EXCEPT !.step = proc.command.name, !.settings = Readable]
        BY <1>1, <4>3 DEF Processes, Configures, AfterChecks, Past, Run
      <4> QED BY <3>3, <4>1, <4>2, <4>3 DEF ReadSettings, Refuse
    <3> QED BY <1>2, <3>1, <3>2, <3>3
  <2>2. Held(c)
    BY <2>1
  <2> QED BY <1>2, <2>2, HeldByReading
<1>3. CASE ConfigureTransport \/ ConfigureDispatcher \/ ConfigureMcp
  <2>1. Enrolled
    BY <1>3 DEF ConfigureTransport, ConfigureDispatcher, ConfigureMcp, Run, Serving, Configuring
  <2> QED BY <1>3, <2>1, HeldByConfigure
<1>4. CASE WriteProfile \/ RecordProfile
  <2>1. Held(c)
    BY <1>4 DEF WriteProfile, RecordProfile, Run, AfterChecks, Past
  <2> QED BY <1>4, <2>1, HeldByProfile
<1>5. CASE UpdateSettings
  <2>1. Held(c)
    BY <1>5 DEF UpdateSettings, Run, AfterChecks, Past
  <2> QED BY <1>5, <2>1, HeldByUpdate
<1>6. CASE WriteArtifact \/ SwapArtifact \/ RecordArtifact \/ RemoveTransaction
  <2>1. CASE Run("write") /\ ~Promised
    <3>1. proc' = None
      BY <1>6, <2>1 DEF WriteArtifact, SwapArtifact, RecordArtifact, RemoveTransaction, Run,
         Promised, Committed, Refuse
    <3> QED BY <1>6, <3>1, HeldByWriting DEF AfterChecks
  <2>2. CASE ~(Run("write") /\ ~Promised)
    <3>1. Held(c)
      BY <1>6, <2>2 DEF WriteArtifact, SwapArtifact, RecordArtifact, RemoveTransaction, Run,
         AfterChecks, Past
    <3> QED BY <1>6, <3>1, HeldByWriting
  <2> QED BY <2>1, <2>2
<1> QED BY <1>2, <1>3, <1>4, <1>5, <1>6 DEF SettingsStep

(* What can be after the checks is a command that configures.              *)
LEMMA AfterChecksConfigures ==
    ASSUME OnboardingInv', AfterChecks'
    PROVE  proc' # None /\ proc'.step \in Serving /\ proc'.command.name \in Configures
BY DEF AfterChecks, Past, Run, Name, OnboardingInv, ProcFits, NamesFit, Configures, Serving,
       Writing, Configuring

LEMMA HeldStep ==
    ASSUME OnboardingInv, OnboardingInv', ConfiguredFits, CommandFits, RerunsFit, Next,
           touched' = {}, NEW c \in Command
    PROVE  /\ AfterChecks' /\ c = proc'.command => Held(c)'
           /\ c # None /\ c = history'.interrupted /\ c.name \in Configures => Held(c)'
<1>1. ASSUME AfterChecks', c = proc'.command PROVE Held(c)'
  <2>1. proc' # None /\ proc'.step \in Serving /\ c.name \in Configures
    BY <1>1, AfterChecksConfigures
  <2>2. CASE SettingsStep
    <3>1. c = proc.command
      BY <1>1, <2>1, <2>2, HistoryMoves
    <3>2. proc # None
      BY <2>2, HistoryMoves
    <3> QED BY <1>1, <2>1, <2>2, <3>1, <3>2, HeldByCommand DEF RerunsFit
  <2>3. CASE \E d \in Command : Enter(d)
    BY <2>1, <2>3, EnterStarts DEF Serving, Writing, Configuring
  <2>4. CASE Dies \/ Fails \/ ByHand \/ Unregisters \/ PutBack
    BY <2>1, <2>4, InterruptsIdentity, PutsBack, HandTouches
  <2> QED BY <2>1, <2>2, <2>3, <2>4, OnboardsServe DEF Next
<1>2. ASSUME c # None, c = history'.interrupted, c.name \in Configures PROVE Held(c)'
  <2>1. ASSUME c = history.interrupted
        PROVE  Held(c) /\ (proc # None => c = proc.command)
    BY <1>2, <2>1 DEF RerunsFit
  <2>2. CASE SettingsStep
    <3>1. c = history.interrupted /\ proc # None
      BY <1>2, <2>2, HistoryMoves
    <3> QED BY <1>2, <2>1, <2>2, <3>1, HeldByCommand DEF RerunsFit
  <2>3. CASE Onboards
    <3>1. c = history.interrupted /\ proc # None
      BY <1>2, <2>3, HistoryMoves
    <3>2. Resume
      BY <1>2, <2>1, <2>3, <3>1, OnboardsServe
    <3>3. /\ \A a \in Configured : file'[a] = file[a]
          /\ UNCHANGED <<database, tx>> /\ IdentityKept /\ manifest'.hash = manifest.hash
      BY <2>3, <3>2, OnboardsKeeps, ResumeKeepsIdentity DEF SettingsKept
    <3>4. ~Run("profile")'
      <4>1. proc' = None \/ GoTo("read")
        BY <3>2 DEF Resume, Accept, Refuse
      <4> QED BY <3>1, <4>1, GoesTo DEF Run
    <3> QED BY <2>1, <3>1, <3>3, <3>4, HeldKept
  <2>4. CASE \E d \in Command : Enter(d)
    <3>1. c = history.interrupted /\ UNCHANGED <<manifest, key, file, database, tx>>
          /\ ~Run("profile")'
      BY <1>2, <2>4, EnterStarts DEF Run
    <3>2. IdentityKept \/ manifest = None
      BY <3>1 DEF IdentityKept
    <3> QED BY <2>1, <3>1, <3>2, HeldKept DEF Held, Stuck
  <2>5. CASE PutBack
    <3>1. c = history.interrupted
      BY <1>2, <2>5, PutsBack
    <3>2. /\ UNCHANGED <<manifest, key, database, tx>> /\ ~Run("profile")'
          /\ file'["runtime_settings"] = aside /\ aside # None
          /\ \A b \in {"profile", "dispatcher_projects"} \cup Enrollments : file'[b] = file[b]
      BY <2>5, PutsBack, PeersAreArtifacts DEF Run, Enrollments
    <3>3. CASE manifest = None
      BY <3>2, <3>3 DEF Held, Stuck
    <3>4. CASE manifest # None
      BY <2>1, <3>1, <3>2, <3>4, HeldByReturn DEF IdentityKept
    <3> QED BY <3>3, <3>4
  <2>6. CASE Dies \/ Fails
    <3>1. proc # None /\ c = IF Promised THEN proc.command ELSE history.interrupted
      BY <1>2, <2>6, InterruptsMove
    <3>2. c = proc.command /\ Held(c)
      <4>1. CASE Promised
        <5>1. proc.step \notin Starting \cup {"enroll", "record membership"}
          BY <1>2, <3>1, <4>1
             DEF CommandFits, Name, Configures, OnboardingInv, ProcFits, ImportFits
        <5>2. AfterChecks
          BY <3>1, <4>1, <5>1 DEF AfterChecks, Past, Promised, Committed, Starting, Run
        <5> QED BY <3>1, <4>1, <5>2 DEF RerunsFit
      <4>2. CASE ~Promised
        BY <2>1, <3>1, <4>2
      <4> QED BY <4>1, <4>2
    <3> QED BY <1>2, <2>6, <3>2, HeldByInterrupts
  <2> QED BY <2>2, <2>3, <2>4, <2>5, <2>6, HandTouches DEF Next
<1> QED BY <1>1, <1>2

LEMMA RerunsStep ==
    ASSUME OnboardingInv, OnboardingInv', PeersFit, ConfiguredFits, CommandFits, RerunsFit,
           Next, touched' = {}
    PROVE  RerunsFit'
<1>1. CASE Onboards \/ SettingsStep
  <2>1. history'.verdict = "refused" => proc' = None
    BY <1>1, HistoryMoves DEF RerunsFit
  <2>2. ASSUME NEW c \in Command, c # None, c = history'.interrupted
        PROVE  /\ c.name \in {"start", "import"} \cup Configures
               /\ proc' # None => proc'.command = c
    BY <1>1, <2>2, HistoryMoves DEF RerunsFit
  <2> QED BY <2>1, <2>2, EnrolledStep, ImportStep, HeldStep DEF RerunsFit
<1>2. CASE \E d \in Command : Enter(d)
  <2>1. history'.verdict = "refused" => proc' = None
    BY <1>2, EnterStarts
  <2>2. ASSUME NEW c \in Command, c # None, c = history'.interrupted
        PROVE  /\ c.name \in {"start", "import"} \cup Configures
               /\ proc' # None => proc'.command = c
    BY <1>2, <2>2, EnterStarts DEF RerunsFit
  <2> QED BY <2>1, <2>2, EnrolledStep, ImportStep, HeldStep DEF RerunsFit
<1>3. CASE PutBack
  <2>1. history'.verdict = "refused" => proc' = None
    BY <1>3, PutsBack
  <2>2. ASSUME NEW c \in Command, c # None, c = history'.interrupted
        PROVE  /\ c.name \in {"start", "import"} \cup Configures
               /\ proc' # None => proc'.command = c
    BY <1>3, <2>2, PutsBack DEF RerunsFit
  <2> QED BY <2>1, <2>2, EnrolledStep, ImportStep, HeldStep DEF RerunsFit
<1>4. CASE Dies \/ Fails
  <2>1. /\ proc # None /\ proc' = None
        /\ history'.interrupted = IF Promised THEN proc.command ELSE history.interrupted
    BY <1>4, InterruptsMove
  <2>2. ASSUME NEW c \in Command, c # None, c = history'.interrupted
        PROVE  c.name \in {"start", "import"} \cup Configures
    <3>1. CASE ~Promised
      BY <2>1, <2>2, <3>1 DEF RerunsFit
    <3>2. CASE Promised
      <4>1. CASE proc.step \in Starting
        BY <2>1, <2>2, <3>2, <4>1 DEF CommandFits, Name
      <4>2. CASE proc.step \in {"enroll", "record membership"}
        BY <2>1, <2>2, <3>2, <4>2 DEF OnboardingInv, ProcFits, ImportFits, Name
      <4>3. CASE proc.step \in Past \cup {"write"}
        BY <2>1, <2>2, <3>2, <4>3
           DEF OnboardingInv, ProcFits, NamesFit, Name, Past, Run, Writing, Configures
      <4> QED BY <3>2, <4>1, <4>2, <4>3 DEF Promised, Committed, Starting, Past
    <3> QED BY <3>1, <3>2
  <2> QED BY <2>1, <2>2, EnrolledStep, ImportStep, HeldStep DEF RerunsFit
<1> QED BY <1>1, <1>2, <1>3, <1>4, HandTouches DEF Next

-----------------------------------------------------------------------------
(* Which steps refuse an exact repetition, and what they have then met.    *)

(* Every other way to end or to go on leaves the verdict or accepts.       *)
Refuses == proc # None /\ history.verdict # "refused" /\ history'.verdict = "refused"

LEMMA OnlyRefusals ==
    ASSUME OnboardingInv, Refuses
    PROVE  /\ history' # history /\ ~Stop
           /\ \A r : ~Accept(r)
           /\ \A s : ~GoTo(s)
           /\ \A a, s : ~Begin(a, s)
BY DEF Refuses, OnboardingInv, Typed, HistoryFits, Histories, Stop, Accept, GoTo, Begin

LEMMA StuckIsHalfDone ==
    ASSUME Stuck, ~Run("profile")
    PROVE  HalfDone
BY DEF Stuck, HalfDone, Transacted

LEMMA RefusedByIdentity ==
    ASSUME OnboardingInv, OwnedFits, Refuses, AdoptIdentity
    PROVE  HalfDone
<1> USE NoneIsNothing
<1>1. ~NoIdentity /\ ~IdentityAgrees
  BY OnlyRefusals DEF AdoptIdentity
<1>2. CASE manifest = None \/ key = Partial \/ Local = Partial \/ (key # None /\ Local = None)
  BY <1>2 DEF HalfDone
<1>3. CASE manifest # None /\ key # Partial /\ Local # Partial /\ ~(key # None /\ Local = None)
  <2>1. Local \in [key : OwnKey, canonical : BOOLEAN] /\ Local \notin {None, Partial}
    BY <1>1, <1>3, DiskTypes DEF NoIdentity
  <2>2. key = Local.key /\ key \in OwnKey /\ manifest.local \in {None, key}
    BY <1>3, <2>1 DEF OwnedFits
  <2> QED BY <1>1, <2>1, <2>2 DEF IdentityAgrees
<1> QED BY <1>2, <1>3

LEMMA RefusedByImport ==
    ASSUME NEW c, OnboardingInv, PeersFit, Refuses, c = proc.command,
           c.name = "import" => manifest = None \/ (file[c.peer] = c.input /\ Distinct(c)),
           ImportPeer \/ WriteMembership
    PROVE  HalfDone
<1>1. /\ Imported \in Peer /\ Enrollment \in PeerKey /\ c.name = "import" /\ manifest # None
      /\ c.peer = Imported /\ c.input = Enrollment
  BY ImportKnows DEF ImportPeer, WriteMembership, Run, Name, Imported, Enrollment
<1>2. /\ file[Imported] = Enrollment
      /\ \A p \in Peer \ {Imported} : manifest.enrolled[p] # Enrollment
      /\ manifest.enrolled[Imported] \in {None, Enrollment}
      /\ manifest.hash[Imported] = manifest.enrolled[Imported]
  BY <1>1 DEF Distinct, PeersFit
<1>3. ~ImportPeer
  BY <1>2, OnlyRefusals DEF ImportPeer, EnrollmentConflicts, KeepsCopy, AdoptsCopy
<1>4. ~WriteMembership
  <2>1. CASE AllEnrolled
    <3>1. /\ file["membership"] \in {None, Policy}
          /\ manifest.hash["membership"] \in {None, file["membership"]}
      BY <1>1, <2>1, PolicyIsCopies DEF PeersFit
    <3> QED BY <2>1, <3>1, OnlyRefusals DEF WriteMembership
  <2>2. CASE ~AllEnrolled
    BY <2>2, OnlyRefusals DEF WriteMembership
  <2> QED BY <2>1, <2>2
<1> QED BY <1>3, <1>4

(* The checks of status pass, once every enrollment is there.              *)
LEMMA EnrolledIsComplete ==
    ASSUME OnboardingInv, OwnedFits, PeersFit, ConfiguredFits, Enrolled, manifest # None,
           manifest.hash["runtime_settings"] \in {None, file["runtime_settings"]}
    PROVE  Status = "complete"
<1> USE NoneIsNothing
<1>1. /\ \A p \in Peer : manifest.enrolled[p] = file[p] /\ file[p] # None
      /\ file["membership"] \in {None, Policy}
  BY PolicyIsCopies DEF Enrolled
<1>2. HashesMatch
  BY <1>1 DEF HashesMatch, Artifact, OwnedFits, PeersFit, ConfiguredFits, Local
<1>3. \A a \in {"local_enrollment", "membership"} \cup Peer : file[a] # None
  BY DEF Enrolled, IdentityAgrees, Local
<1>4. manifest.hash["runtime_settings"] # None => file["profile"] # None /\ database
  <2> SUFFICES ASSUME manifest.hash["runtime_settings"] # None
               PROVE  file["profile"] # None /\ database
    OBVIOUS
  <2> DEFINE s == manifest.hash["runtime_settings"]
  <2>1. s \in Settings /\ Known(s)
    BY DiskTypes DEF Known
  <2>2. s.transport # None /\ s.transport = file["profile"] /\ s.transport \in Transport
    BY <2>1 DEF ConfiguredFits, Anchored, Settings
  <2> QED BY <2>2 DEF ConfiguredFits
<1>5. Intact
  BY <1>1, <1>2, <1>3, <1>4 DEF Intact, CopiesMatch, Enrolled
<1> QED BY <1>3, <1>5 DEF Status, Enrolled

LEMMA RefusedByResume ==
    ASSUME NEW c, OnboardingInv, OwnedFits, PeersFit, ConfiguredFits, Refuses, c = proc.command,
           c.name \in {"start", "import"} \cup Configures, c.name \in Configures => Held(c),
           Resume
    PROVE  HalfDone
<1>1. proc # None /\ Status # "complete" /\ c.name \notin {"import", "verify"} /\ Run("resume")
  BY OnlyRefusals DEF Resume, Name, Refuses
<1>2. Held(c) /\ ~Run("profile")
  BY <1>1 DEF OnboardingInv, ProcFits, NamesFit, Run, Configures
<1>3. CASE Repeatable(c) /\ manifest # None
  BY <1>1, <1>3, EnrolledIsComplete DEF Repeatable, HalfDone
<1> QED BY <1>2, <1>3, StuckIsHalfDone DEF Held, HalfDone

(* What the recovery of a transaction and the settings meet.               *)
LEMMA RefusedByReading ==
    ASSUME NEW c, OnboardingInv, ConfiguredFits, Refuses, c = proc.command,
           c.name \in {"start", "import"} \cup Configures, c.name \in Configures => Held(c),
           CannotRecover \/ ReadSettings
    PROVE  HalfDone
<1> USE NoneIsNothing
<1> DEFINE f == file["runtime_settings"]
           h == manifest.hash["runtime_settings"]
<1>1. proc # None /\ Held(c) /\ ~Run("profile") /\ (Run("peek") => c.name = "mcp")
  BY DEF CannotRecover, ReadSettings, Reads, OnboardingInv, ProcFits, NamesFit, Run, Name,
         Configures
<1> SUFFICES ASSUME Repeatable(c), manifest # None, h \in {None, f},
                    \A a \in Transacted : tx[a] # Partial
             PROVE  FALSE
  BY <1>1, StuckIsHalfDone DEF Held, HalfDone
<1>2. CASE CannotRecover
  <2>1. /\ Unfinished # {}
        /\ ~Forward(First(Unfinished)) /\ ~NeverWritten(First(Unfinished))
        /\ ~(file[First(Unfinished)] # None /\ Unchanged(First(Unfinished)))
    BY <1>2 DEF CannotRecover
  <2>2. CASE tx["dispatcher_projects"] # None
    <3>1. First(Unfinished) = "dispatcher_projects" /\ tx["dispatcher_projects"] # Partial
      BY <2>2 DEF First, Unfinished, Transacted
    <3> QED BY <2>1, <2>2, <3>1 DEF Repeatable, Forward, NeverWritten
  <2>3. CASE tx["dispatcher_projects"] = None
    <3>1. /\ First(Unfinished) = "runtime_settings" /\ tx["runtime_settings"] # Partial
          /\ tx["runtime_settings"] # None
      BY <2>1, <2>3 DEF First, Unfinished, Transacted
    <3> QED
      BY <2>1, <3>1 DEF Repeatable, Recoverable, Forward, NeverWritten, Unchanged
  <2> QED BY <2>2, <2>3
<1>3. CASE ReadSettings
  <2>1. tx["runtime_settings"] = None /\ f = h
    BY <1>3 DEF ReadSettings, Unfinished, Transacted, Repeatable, Recoverable
  <2>2. f # None =>
            /\ f \in Settings /\ Anchored(f)
            /\ f.dispatcher # None => manifest.hash["dispatcher_projects"] = f.dispatcher
            /\ c.name = "mcp" => f.dispatcher # None
    BY DEF ConfiguredFits, Known, Repeatable
  <2>3. f # None => Bound(f)
    <3>1. f # None => f.transport \in Transport
      BY <2>2 DEF Anchored, Settings
    <3> QED BY <2>2, <3>1 DEF Bound, Anchored, ConfiguredFits
  <2>4. CASE f = None
    <3>1. Base \in Settings
      BY DEF Base, Settings
    <3>2. Readable # None
      BY <2>1, <2>4, <3>1 DEF Readable
    <3>3. c.name # "mcp"
      BY <2>1, <2>4 DEF Repeatable
    <3> QED BY <1>1, <1>3, <3>2, <3>3, OnlyRefusals DEF ReadSettings
  <2>5. CASE f # None
    <3>1. Readable = f
      BY <2>1, <2>3, <2>5 DEF Readable
    <3> QED BY <1>1, <1>3, <2>2, <2>5, <3>1, OnlyRefusals DEF ReadSettings
  <2> QED BY <2>4, <2>5
<1> QED BY <1>2, <1>3

(* What the checks of the commands that configure meet.                    *)
LEMMA RefusedByConfigure ==
    ASSUME NEW c, OnboardingInv, ConfiguredFits, Refuses, c = proc.command,
           c.name \in Configures => Held(c),
           ConfigureTransport \/ ConfigureDispatcher \/ ConfigureMcp
    PROVE  HalfDone
<1> USE NoneIsNothing
<1> DEFINE s == proc.settings
           f == file["runtime_settings"]
<1>1. /\ proc # None /\ ~Run("profile") /\ proc.step \in Configuring
      /\ ConfigureTransport => c.name = "transport"
      /\ ConfigureDispatcher => c.name = "dispatcher"
      /\ ConfigureMcp => c.name = "mcp"
  BY DEF ConfigureTransport, ConfigureDispatcher, ConfigureMcp, OnboardingInv, ProcFits,
         NamesFit, Run, Name, Configuring
<1>2. Held(c)
  BY <1>1 DEF Configures
<1> SUFFICES ASSUME Repeatable(c), manifest # None, ~Stuck PROVE FALSE
  BY <1>1, <1>2, StuckIsHalfDone DEF Held, HalfDone
<1>3. /\ s \in Settings /\ manifest.hash["runtime_settings"] = f
      /\ f = None => s = Base
      /\ f # None => f = s /\ Anchored(s)
      /\ \A r \in Settings : Known(r) => r = s /\ f # None
  BY <1>1, SettingsKnown
<1> HIDE DEF s
<1>4. c.name # "transport" => f # None /\ Anchored(s)
  BY <1>3 DEF Repeatable
<1>5. CASE ConfigureTransport
  <2>1. file["profile"] \in {None, c.input}
    BY <1>1, <1>5 DEF Repeatable
  <2>2. ~OtherTransport
    BY <1>3, <2>1 DEF OtherTransport, Anchored, Base, s
  <2>3. file["profile"] = None => ~database
    BY <1>1 DEF Stuck
  <2>4. file["profile"] # None => ProfileFits
    BY <2>1 DEF ProfileFits, ConfiguredFits, Stuck
  <2> QED BY <1>5, <2>2, <2>3, <2>4, OnlyRefusals DEF ConfigureTransport
<1>6. CASE ConfigureDispatcher
  <2>1. s.transport # None
    BY <1>1, <1>4, <1>6 DEF Anchored
  <2>2. s.dispatcher # None => s.dispatcher = c.input /\ file["dispatcher_projects"] = c.input
    BY <1>1, <1>4, <1>6 DEF Anchored, Repeatable
  <2> QED BY <1>6, <2>1, <2>2, OnlyRefusals DEF ConfigureDispatcher, s
<1>7. CASE ConfigureMcp
  <2>1. s.transport # None /\ s.dispatcher # None
    BY <1>1, <1>3, <1>4, <1>7 DEF Anchored, Repeatable, Known
  <2>2. registration # "other" /\ (s.mcp => registration = "ours")
    BY <1>1, <1>4, <1>7 DEF Anchored, ConfiguredFits
  <2> QED BY <1>7, <2>1, <2>2, OnlyRefusals DEF ConfigureMcp, s
<1> QED BY <1>5, <1>6, <1>7

(* A file of projects that another command has left there.                 *)
LEMMA RefusedByWriting ==
    ASSUME NEW c, OnboardingInv, Refuses, c = proc.command,
           c.name \in Configures => Held(c), WriteArtifact
    PROVE  HalfDone
<1>1. /\ proc # None /\ Run("write") /\ WritingFits
      /\ Found \notin {None, proc.content} /\ ~Replaces
  BY OnlyRefusals DEF WriteArtifact, Run, OnboardingInv, ProcFits
<1>2. /\ c.name = "dispatcher" /\ proc.content = c.input
      /\ proc.artifact = "dispatcher_projects" /\ ~Run("profile")
  BY <1>1 DEF WritingFits, Writing, Run, Name, Transacted, Replaces
<1>3. Held(c) /\ ~Repeatable(c)
  BY <1>1, <1>2 DEF Configures, Repeatable, Found
<1> QED BY <1>2, <1>3, StuckIsHalfDone DEF Held

(* A refusal changes nothing that HalfDone is about.                       *)
LEMMA RefusalsLeave ==
    ASSUME OnboardingInv, Refuses, HalfDone,
           \/ AdoptIdentity \/ ImportPeer \/ WriteMembership
           \/ CannotRecover \/ ReadSettings \/ ConfigureTransport \/ ConfigureDispatcher
           \/ ConfigureMcp \/ WriteArtifact
           \/ Resume,
           Onboards \/ SettingsStep
    PROVE  HalfDone'
<1>1. CASE UNCHANGED <<manifest, key, file, database, tx>>
  BY <1>1 DEF HalfDone, Local
<1>2. CASE AdoptIdentity \/ ImportPeer \/ WriteMembership
  <2>1. UNCHANGED tx
    BY <1>2, OnlyRefusals DEF Onboards, SettingsStep, AdoptIdentity, ImportPeer,
       WriteMembership, RecoverHash, RecoverTransaction, CannotRecover, ReadSettings, StatusEnds,
       ConfigureTransport, WriteProfile, RecordProfile, LogInFirst, ConfigureDispatcher,
       ConfigureMcp, Verify, StartRuntime, UpdateSettings, WriteArtifact, SwapArtifact,
       RecordArtifact, RemoveTransaction, Run, Reads
  <2>2. UNCHANGED <<manifest, key, file, database>>
    BY <1>2, OnlyRefusals DEF AdoptIdentity, ImportPeer, WriteMembership
  <2> QED BY <1>1, <2>1, <2>2
<1>3. CASE \/ CannotRecover \/ ReadSettings \/ ConfigureTransport \/ ConfigureDispatcher
           \/ ConfigureMcp \/ WriteArtifact
  BY <1>1, <1>3, OnlyRefusals DEF CannotRecover, ReadSettings, ConfigureTransport,
     ConfigureDispatcher, ConfigureMcp, WriteArtifact
<1>4. CASE Resume
  <2>1. manifest # None /\ manifest'.hash = manifest.hash
    BY <1>4, ResumeKeepsIdentity
  <2>2. UNCHANGED tx
    BY <1>4, SettingsStepRuns DEF Onboards, Resume, Run, Serving, Writing, Configuring
  <2> QED BY <1>4, <2>1, <2>2 DEF HalfDone, Local, Resume
<1> QED BY <1>2, <1>3, <1>4

LEMMA RefusedStep ==
    ASSUME OnboardingInv, OwnedFits, PeersFit, ConfiguredFits, CommandFits, RerunsFit,
           Next, touched' = {}
    PROVE  RefusedRerunsAreTorn'
<1> SUFFICES ASSUME history'.interrupted # None, history'.verdict = "refused"
             PROVE  HalfDone'
  BY DEF RefusedRerunsAreTorn, RerunRefused
<1>1. CASE \E c \in Command : Enter(c)
  <2>1. manifest' = None
    BY <1>1, EnterStarts
  <2> QED BY <2>1 DEF HalfDone
<1>2. CASE Dies \/ Fails \/ ByHand \/ Unregisters \/ PutBack
  BY <1>2, InterruptsMove, HandTouches, PutsBack
<1>3. CASE Onboards \/ SettingsStep
  <2>1. proc # None /\ history.verdict # "refused"
    BY <1>3, HistoryMoves DEF RerunsFit
  <2>2. Refuses /\ history.interrupted # None
    BY <1>3, <2>1, HistoryMoves DEF Refuses
  <2>3. PICK c \in Command : c = history.interrupted /\ c # None
    BY <2>2 DEF OnboardingInv, Typed, HistoryFits, Histories
  <2>4. /\ c = proc.command /\ c.name \in {"start", "import"} \cup Configures
        /\ c.name = "import" => manifest = None \/ (file[c.peer] = c.input /\ Distinct(c))
        /\ c.name \in Configures => Held(c)
    BY <2>1, <2>3 DEF RerunsFit
  <2>5. \/ AdoptIdentity \/ ImportPeer \/ WriteMembership
        \/ CannotRecover \/ ReadSettings \/ ConfigureTransport \/ ConfigureDispatcher
        \/ ConfigureMcp \/ WriteArtifact
        \/ Resume
    <3>1. ~Export /\ ~Verify /\ ~StartRuntime
      BY <2>1, <2>4 DEF Export, Verify, StartRuntime, CommandFits, Name, Run, Configures
    <3>2. ~WriteKey
      BY <2>2 DEF WriteKey, Refuses, OnboardingInv, Typed, HistoryFits, Histories
    <3>3. ~(\/ CreateManifest \/ GenerateIdentity \/ WriteEnrollment \/ WriteCanonical
            \/ RecordIdentity \/ RecordPeer \/ RecordMembership \/ ReportStatus)
      BY <2>2, OnlyRefusals DEF CreateManifest, GenerateIdentity, WriteEnrollment,
         WriteCanonical, RecordIdentity, RecordPeer, RecordMembership, ReportStatus
    <3>4. ~(\/ RecoverHash \/ RecoverTransaction \/ StatusEnds \/ WriteProfile \/ RecordProfile
            \/ LogInFirst \/ UpdateSettings \/ SwapArtifact \/ RecordArtifact
            \/ RemoveTransaction)
      BY <2>2, OnlyRefusals DEF RecoverHash, RecoverTransaction, StatusEnds, WriteProfile,
         RecordProfile, LogInFirst, UpdateSettings, SwapArtifact, RecordArtifact,
         RemoveTransaction
    <3> QED BY <1>3, <3>1, <3>2, <3>3, <3>4 DEF Onboards, OnboardingStep, SettingsStep
  <2>6. HalfDone
    BY <2>2, <2>4, <2>5, RefusedByIdentity, RefusedByImport, RefusedByResume, RefusedByReading,
       RefusedByConfigure, RefusedByWriting
  <2> QED BY <1>3, <2>2, <2>5, <2>6, RefusalsLeave
<1> QED BY <1>1, <1>2, <1>3 DEF Next

-----------------------------------------------------------------------------
LEMMA RerunInit == Init => RerunInv
<1> SUFFICES ASSUME Init PROVE RerunInv
  OBVIOUS
<1> USE NoneIsNothing
<1>1. OnboardingInv
  BY InitKeeps
<1>2. /\ manifest = None /\ key = None /\ proc = None /\ aside = None /\ registration = "none"
      /\ \A a \in Artifact : file[a] = None
      /\ \A a \in Transacted : tx[a] = None
      /\ history.interrupted = None /\ history.verdict = "none"
  BY DEF Init
<1>3. file["local_enrollment"] = None /\ file["membership"] = None /\ file["profile"] = None
      /\ file["runtime_settings"] = None /\ tx["runtime_settings"] = None
      /\ \A p \in Peer : file[p] = None
  BY <1>2, PeersAreArtifacts DEF Transacted
<1>4. OwnedFits /\ PeersFit /\ CommandFits
  BY <1>2, <1>3 DEF OwnedFits, PeersFit, CommandFits, Run, Local
<1>5. ConfiguredFits
  BY <1>2, <1>3 DEF ConfiguredFits, Known, Begun
<1>6. RerunsFit /\ RefusedRerunsAreTorn
  BY <1>2 DEF RerunsFit, AfterChecks, RefusedRerunsAreTorn, RerunRefused
<1> QED BY <1>1, <1>4, <1>5, <1>6 DEF RerunInv, Undisturbed

LEMMA RerunStep == RerunInv /\ [Next]_vars => RerunInv'
<1> SUFFICES ASSUME RerunInv, [Next]_vars PROVE RerunInv'
  OBVIOUS
<1>1. OnboardingInv /\ OnboardingInv'
  BY StepKeeps DEF RerunInv
<1>2. CASE UNCHANGED vars
  <2>1. UNCHANGED <<manifest, key, file, database, proc, history, tx, aside, registration, touched>>
    BY <1>2 DEF vars
  <2>2. OwnedFits' = OwnedFits
    BY <2>1 DEF OwnedFits, Local, Run
  <2>3. PeersFit' = PeersFit
    BY <2>1 DEF PeersFit, Distinct
  <2>4. ConfiguredFits' = ConfiguredFits
    BY <2>1 DEF ConfiguredFits, Known, Begun, Anchored
  <2>5. CommandFits' = CommandFits
    BY <2>1 DEF CommandFits, Run, Name, Unfinished
  <2>6. Enrolled' = Enrolled
    BY <2>1 DEF Enrolled, IdentityAgrees, Local, AllEnrolled
  <2>7. \A c \in Command : Held(c)' = Held(c) /\ Distinct(c)' = Distinct(c)
    BY <2>1, <2>6 DEF Held, Stuck, Repeatable, Known, Begun, Distinct, Run
  <2>8. AfterChecks' = AfterChecks
    BY <2>1 DEF AfterChecks, Run, Promised, Replaces, Found
  <2>9. RerunsFit' = RerunsFit
    BY <2>1, <2>6, <2>7, <2>8 DEF RerunsFit
  <2>10. RefusedRerunsAreTorn' = RefusedRerunsAreTorn
    BY <2>1 DEF RefusedRerunsAreTorn, RerunRefused, HalfDone, Local
  <2> QED
    BY <1>1, <2>1, <2>2, <2>3, <2>4, <2>5, <2>9, <2>10 DEF RerunInv, Undisturbed
<1>3. CASE Next /\ touched' = {}
  <2>1. touched = {}
    <3>1. touched' = touched \/ \E a : touched' = touched \cup {a}
      BY <1>3 DEF Next, Enter, Onboards, SettingsStep, RecoverHash, RecoverTransaction,
         CannotRecover, ReadSettings, StatusEnds, ConfigureTransport, WriteProfile, RecordProfile,
         LogInFirst, ConfigureDispatcher, ConfigureMcp, Verify, StartRuntime, UpdateSettings,
         WriteArtifact, SwapArtifact, RecordArtifact, RemoveTransaction, Dies, Fails, Interrupts,
         ByHand, Changes, Unregisters, Touches, PutBack, world
    <3> QED BY <1>3, <3>1
  <2>2. Undisturbed
    BY <2>1 DEF RerunInv
  <2>3. OwnedFits' /\ PeersFit' /\ ConfiguredFits' /\ CommandFits'
    BY <1>1, <1>3, <2>2, OwnedStep, PeersStep, ConfiguredStep, CommandStep DEF Undisturbed
  <2>4. RerunsFit' /\ RefusedRerunsAreTorn'
    BY <1>1, <1>3, <2>2, RerunsStep, RefusedStep DEF Undisturbed
  <2> QED BY <1>1, <2>3, <2>4 DEF RerunInv, Undisturbed
<1> QED BY <1>1, <1>2, <1>3 DEF RerunInv

LEMMA RerunInvariant == Spec => []RerunInv
BY RerunInit, RerunStep, PTL DEF Spec

(* The commands of onboarding and their resumption: a command that a death *)
(* or an error ended after its checks is not refused when it is given      *)
(* again, but for the reasons that HalfDone names, as long as no hand      *)
(* changes a file.                                                         *)
THEOREM RefusedRerunsAreHalfDone == Spec => []RefusedRerunsAreTorn
<1>1. RerunInv => RefusedRerunsAreTorn
  BY DEF RerunInv, Undisturbed, RefusedRerunsAreTorn
<1> QED BY <1>1, RerunInvariant, PTL

(* The node's key: what no hand has changed is one identity.  A private    *)
(* key with a complete enrollment is that enrollment's, and the manifest   *)
(* knows no other key and no other enrollment, after any interruptions of  *)
(* generateNodeIdentity and generateOnboardingIdentity.                    *)
THEOREM IdentityIsOne == Spec => [](touched = {} => OwnedFits)
<1>1. RerunInv => (touched = {} => OwnedFits)
  BY DEF RerunInv, Undisturbed
<1> QED BY <1>1, RerunInvariant, PTL

(* import-peer and writeMembershipPolicy: the manifest enrolls the peers   *)
(* as their copies say, and the membership file is made of every copy.     *)
THEOREM MembershipIsTheCopies == Spec => [](touched = {} => PeersFit)
<1>1. RerunInv => (touched = {} => PeersFit)
  BY DEF RerunInv, Undisturbed
<1> QED BY <1>1, RerunInvariant, PTL

(* Whatever recovery or a repetition may adopt as the settings, from their *)
(* file, the manifest, a transaction or the file set aside, names a        *)
(* profile, a dispatcher configuration and a registration that are there.  *)
THEOREM SettingsAreAnchored == Spec => [](touched = {} => ConfiguredFits)
<1>1. RerunInv => (touched = {} => ConfiguredFits)
  BY DEF RerunInv, Undisturbed
<1> QED BY <1>1, RerunInvariant, PTL

-----------------------------------------------------------------------------
(* A copy is being recorded only for a peer that is not enrolled yet.      *)
EnrollsNew == Run("enroll") => manifest.enrolled[Imported] = None

EnrolledStay ==
    \A p \in Peer :
        manifest # None /\ manifest' # None /\ manifest.enrolled[p] # None =>
            manifest'.enrolled[p] = manifest.enrolled[p]

LEMMA EnrollsNewStep ==
    ASSUME OnboardingInv, EnrollsNew, Next
    PROVE  EnrollsNew'
<1> SUFFICES ASSUME Run("enroll")' PROVE manifest'.enrolled[Imported'] = None
  BY DEF EnrollsNew
<1>1. proc' # None /\ proc'.step = "enroll"
  BY DEF Run
<1>2. ~SettingsStep
  BY <1>1, SettingsStepKeeps DEF Unowned, Serving, Writing, Configuring
<1>3. CASE Onboards
  <2>1. proc # None /\ proc \in Processes
    BY <1>3, OnboardsKeeps DEF OnboardingInv, ProcFits
  <2>2. ImportPeer
    <3>1. ~WriteKey
      BY <1>1, <2>1 DEF WriteKey, Processes
    <3>2. ~(\E s \in {"identity", "canonical", "record identity", "key", "membership",
                      "record membership", "resume", "read"} : GoTo(s))
      BY <1>1, <2>1, GoesTo
    <3> QED
      BY <1>1, <1>3, <3>1, <3>2 DEF Onboards, OnboardingStep, CreateManifest, AdoptIdentity,
         GenerateIdentity, WriteEnrollment, WriteCanonical, RecordIdentity, Export, RecordPeer,
         WriteMembership, RecordMembership, Resume, ReportStatus, Refuse, Accept, Stop
  <2>3. UNCHANGED manifest /\ (AdoptsCopy \/ WritesCopy) /\ GoTo("enroll")
    BY <1>1, <2>1, <2>2, GoesTo DEF ImportPeer, Refuse
  <2>4. Imported' = Imported
    BY <2>1, <2>3, GoesTo DEF Imported
  <2> QED BY <2>3, <2>4 DEF AdoptsCopy, WritesCopy
<1>4. ~(\E c \in Command : Enter(c))
  BY <1>1, EnterStarts
<1>5. ~(Dies \/ Fails \/ ByHand \/ Unregisters \/ PutBack)
  BY <1>1, InterruptsIdentity DEF ByHand, Unregisters, Changes, Touches, PutBack
<1> QED BY <1>2, <1>3, <1>4, <1>5 DEF Next

LEMMA EnrolledStayStep ==
    ASSUME OnboardingInv, EnrollsNew, Next
    PROVE  EnrolledStay
<1> SUFFICES ASSUME manifest # None, manifest' # None, NEW p \in Peer,
                    manifest.enrolled[p] # None
             PROVE  manifest'.enrolled[p] = manifest.enrolled[p]
  BY DEF EnrolledStay
<1>1. CASE IdentityKept \/ UNCHANGED manifest
  BY <1>1 DEF IdentityKept
<1>2. CASE Onboards
  <2>1. IsManifest(manifest)
    BY DEF OnboardingInv, Typed, ManifestFits
  <2>2. CASE RecordPeer
    <3>1. manifest'.enrolled = [manifest.enrolled EXCEPT ![Imported] = Enrollment]
      BY <2>1, <2>2 DEF RecordPeer, IsManifest
    <3>2. p # Imported
      BY <2>2 DEF RecordPeer, EnrollsNew
    <3> QED BY <2>1, <3>1, <3>2 DEF IsManifest
  <2>3. CASE RecordMembership
    BY <2>3, RecordedHash, PeersAreArtifacts DEF RecordMembership
  <2>4. CASE RecordIdentity
    BY <2>1, <2>4 DEF RecordIdentity, IsManifest
  <2>5. CASE Resume
    BY <1>1, <2>5, ResumeKeepsIdentity
  <2> QED
    BY <1>1, <1>2, <2>2, <2>3, <2>4, <2>5 DEF Onboards, OnboardingStep, CreateManifest,
       AdoptIdentity, GenerateIdentity, WriteKey, WriteEnrollment, WriteCanonical, Export,
       ImportPeer, WriteMembership, ReportStatus
<1>3. CASE SettingsStep
  BY <1>1, <1>3, SettingsStepKeeps
<1>4. CASE \E c \in Command : Enter(c)
  BY <1>1, <1>4, EnterStarts
<1>5. CASE Dies \/ Fails
  BY <1>1, <1>5, InterruptsIdentity
<1>6. CASE ByHand \/ Unregisters \/ PutBack
  BY <1>1, <1>6 DEF ByHand, Unregisters, Changes, Touches, PutBack
<1> QED BY <1>2, <1>3, <1>4, <1>5, <1>6 DEF Next

(* importPublicEnrollment: as long as the manifest is there, no import, no *)
(* repetition of one and no change by hand makes it know another key of a  *)
(* peer that it has enrolled.                                              *)
THEOREM EnrolledPeersStay == Spec => [][EnrolledStay]_vars
<1>1. Init => EnrollsNew
  BY DEF Init, EnrollsNew, Run
<1>2. OnboardingInv /\ EnrollsNew /\ [Next]_vars => EnrollsNew'
  <2>1. EnrollsNew /\ UNCHANGED vars => EnrollsNew'
    BY DEF EnrollsNew, vars, Run, Imported
  <2> QED BY <2>1, EnrollsNewStep
<1>3. OnboardingInv /\ EnrollsNew /\ [Next]_vars => [EnrolledStay]_vars
  BY EnrolledStayStep
<1> QED BY <1>1, <1>2, <1>3, OnboardingInvariant, PTL DEF Spec
=============================================================================
