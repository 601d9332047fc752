# A TLA+ verification of the agent bridge

The bridge lets coding agents on two machines exchange requests and results.
An agent talks to an MCP server on its own machine; the server writes to a
SQLite database; a bridge worker moves rows between that database and an Azure
Service Bus topic; dispatchers on the receiving machine claim requests from the
database, run a read-only Codex process and settle the request with a reply.
This directory models the protocols of that program in TLA+, checks them with
TLC on small instances and proves the main results with TLAPS for every value
of the constants. Paths are relative to the repository.

## Inventory

| Component | State | Operations | What is hard | Correct when |
|---|---|---|---|---|
| Outbox (`src/storage/database.ts`, outbound half of `src/bridge/worker.ts`) | `outbox` rows: state, lease owner and end, attempts, next attempt, expiry | enqueue, lease a batch, mark sent, release, quarantine | the broker may take a message whose outcome the worker never sees; leases lapse during a send; the worker dies; the journal write fails | one row per (target, key); a row is sent only if the broker took it; final rows stay; every row is resolved |
| Inbox (`src/storage/database.ts`, claims and replies of `src/application/agent-bridge-service.ts`) | `inbox` rows: state, claim owner, token, end, recorded result; reply rows of the outbox | persist, claim, renew, acknowledge, settle with reply, park for approval, requeue, reply | claims lapse during work; several consumers; stale clock readings; identifier collisions; replies under used keys; a requeue that asks for no reason | only the current token renews, releases, parks and settles; settled once, unless the operator reopens; the recorded result is published |
| Bridge process (`src/bridge/index.ts`, `process-lock.ts`, `runtime.ts`) | lock file, process table, two lanes, transport, database handle | acquire, run lanes, abort, bounded close, release | crash at any file system call; identifier reuse; overlapping starts; awaits that never settle | one worker per machine; stale locks reclaimed; shutdown ends; no lane starves the other |
| Conversations (`src/application/agent-bridge-service.ts`) | the thread of requests and results of a conversation | ask, continue | check and enqueue are separate transactions; several clients; retries | one root, one project, one chain; retries return the same turn |
| Delivery (inbound half of `src/bridge/worker.ts`, `src/transport/*`) | broker queue, peek locks, settlement | receive, verify, persist, complete, abandon, dead-letter | settlement not confirmed, redelivery, lock loss | nothing is lost, nothing is completed before it is persisted |
| Authorization (`src/storage/database.ts` 514-1424, `src/contracts/approval.ts`, `resource-authorization.ts`) | resources, grants, parked requests, audit | decide, park, approve, deny, revoke, expire, requeue | a decision races a claim, a revocation or a second decision | work begins only under a permit that holds at that moment; one-time approvals are used once; parked means undecided |
| Read-only dispatcher (`src/dispatcher/*`) | one claimed request, the claim renewal, the child process | claim, authorize, execute, settle, recover a published result | claim loss during the run, crash before settlement, shutdown | a result is published once and only under a live claim |
| Consultation (`src/coordination/autonomous-consultation-coordinator.ts`, the runs of `src/storage/database.ts`) | `consultation_runs` with state, round, version, deadline and next attempt; child requests; the claim a coordinator works under | claim, authorize, ensure the run, run a child, read evidence, ask the peer, collect its result, settle, release | versions race, claims lapse and deadlines pass between two statements, a crash between a task and the run that names it, two nodes that consult each other | a reported answer is that of the completed run, one task a round, no circles, every request is settled |
| Onboarding and settings (`src/onboarding/index.ts`, `runtime-settings.ts`, `src/setup/local-profile.ts`, `src/security/node-identity.ts`, `runOnboard` of `src/cli/index.ts`) | the manifest with its hashes, the private key, the enrollment and its copies, membership, profile, database, settings, projects, transaction files, a file set aside, the MCP registration | start, export, import a peer, configure transport, dispatcher and MCP, verify, run | death between any two writes, torn files, failing calls, files changed by hand, commands given again | an exported key stays, a command goes by what was reported or refuses, an interrupted command is picked up |
| Migration (`storage/database.ts` 2638-3157) | `schema_migrations`, tables | nine steps at open | two processes open at once, a crash between steps | a step is applied once, newer schemas are refused |
| Message authentication (`src/security/message-authentication.ts`) | membership, keys and validity windows | sign, verify | clock, key rotation | only active members are accepted, lifetimes are bounded |
| Executor, evidence, MCP tools, supervision of child processes, configuration, the other commands, scripts | mostly process and file handling | | | not modelled, see the end |

## How the parts interact

The MCP server, the dispatchers and the bridge worker share nothing but the
SQLite database. Every method of `BridgeDatabase` is one statement or one
transaction, so a method is one step of a model. What is not atomic is modelled
as several steps: a send (begun, taken by the broker, outcome seen), a claim
with the work done under it, a call of `continueAgent` (thread read, turn
enqueued), the acquisition of the lock (open, write, read, check, unlink) and a
shutdown. The worker's two lanes share the process; the agent sees only the
database. A coordinator reads its run, works, and writes the run back only if
the version it read is still the row's. Onboarding comes before all of this: its
commands leave the key, the membership, the profile and the settings from which
`runForegroundRuntime` starts the worker and a dispatcher.

## Modules

### Outbox, DurableSend

`Outbox` has one action per method and per branch of `runOutboundOnce`.
`outbox[m]` is the row of message `m`; `worker[w]` is one incarnation of the
worker, whose `instanceId` is the lease owner: the batch that is left, the item
being sent and whether the broker's answer has come back. `handed` and
`accepted` record what the transport was given and what the broker took.

* `Enqueue`, `LeaseBatch`, `QuarantineUnauthorized`, `SignRejects`,
  `BeginSend`, `SendSucceeds`, `SendFailsForNow`, `SendFailsForGood` follow the
  code. Each of the last five ends in `UpdateHeld`, the statement with
  `state = 'leased' AND lease_owner = ?` and the journal row after it: if
  either fails the exception leaves the loop and the rest of the batch.
* `BrokerAcknowledges` and `BrokerAcceptsUnseen` are the broker. Nothing says it
  accepts; it may accept after the sender has given up.
* The clock is compared where the code compares it. `leaseOutbox` compares
  texts and `sign` compares instants; `expires` and `text` are the two readings
  of one expiry, equal when it is written in UTC.
* `DurableSend` is what a caller may rely on: submitted, queued, handed over
  while queued and never after, resolved as sent only after arrival.

### Inbox, FencedAnswer

`inbox[m]` is the row; `held[c][m]` is the token a consumer keeps, which may
long be stale; `reply[m][k]` is the outbox row of the reply to `m` under key
`k` with its life reduced to live, sent and dead. A consumer is an agent at the
MCP server, a dispatcher or a coordinator: `Eligible` is its filter and
`IncludeExpired` the flag of the consultation claim. A transaction may use a
clock reading up to `Stall` old, because callers read the clock before they
wait for the database lock.

* `asked[m]` is the state of the authorization request that bears the
  identifier of `m`. `Park`, `Decide` and `Revoke` change it together with the
  row, `Consume` spends a one-time approval; each expires the temporary approvals
  that have ended (`ended`). `Asks` are the consumers that ask. Which message needs an approval, and which decision
  is allowed, is the subject of `Approval`: here any message may be parked, any
  decision may come, and a message may be claimed and settled without asking.
* `Requeued` tests nothing but the state, as the code does. A row that was
  settled and then quarantined by a collision from its origin is therefore
  available again when the operator revokes an approval that still stands, and
  may be settled a second time.
* `FencedAnswer` is what the requesting peer may expect: received once, closed
  once, with its answer published in the same step. Only a request that its
  origin poisoned and whose standing approval is then revoked is open a second
  time; none is a third time, because an approval is given once.

`accepted` and `delivered` are history variables: the token of the last renewal,
release, settlement or parking that went through, and what the broker delivered.
No action reads them, except that `accepted` keeps a token from being drawn
again.

### BridgeProcess

One process per start of the worker, with a program counter over the file
system calls of `acquireBridgeProcessLock`, the start in `bridge/index.ts`, the
lanes of `runBridgeLoops`, `closeTransportWithin` and `releaseOwnedLock`. The
lock file is named by its creator, so that unlinking a path that now holds a
different file is visible. `Pid` is finite and identifiers are reused, by other
programs too. `ConcurrentStarts` says whether two acquisitions may overlap; the
code does not prevent it. `robbed` is a history variable: the processes whose
lock file was removed by another one while they relied on it.

### Conversation

A client is an MCP server process. A call reads the thread (`AskAgent`,
`ContinueAgent`) and commits in a second step (`Send`). A turn is named by its
idempotency key; the peer's result of a turn is `result[k]`. Messages with
equal numbers are ordered by creation time and identifier in the code; the
model lets either be the later one.

### Delivery, AtLeastOnce

`Delivery` is one node's subscription and its inbound lane. `copies[c]` is what
the subscription knows of the copy with sequence number `c`: waiting, completed
or dead-lettered, handed out or not, and the failed deliveries counted.
`receiver` is where `receiveAvailable` stands: the session it holds, the part of
the batch that is left and, between `persistIncoming` and the settlement, what
`persistIncoming` answered. `inbox` and `quarantined` are what that transaction
leaves behind.

* Every await of the broker is a point where the lock can lapse, a settlement
  can be refused or taken without its answer arriving, and the process can die.
  Verification, parsing and `persistIncoming` run without an await, so they are
  one step (`Persist`, `PersistFails`).
* `RejectUnverified` and `DeadLetterCollision` throw when the dead-lettering is
  not confirmed and the cycle ends there; `Complete` and the abandonment of
  `PersistFails` swallow that error and go on. The journal may throw after any of
  them.
* `genuine` stands for everything `verify` and `assertBrokerMetadataMatches`
  decide. The later checks of `processInboundDelivery` (envelope, target,
  origin, session) repeat conditions that both have decided already, so they
  refuse nothing that comes through this transport.
* The broker: sessions are locked by one receiver, messages come in order of
  their sequence numbers, an abandoned message or a lock that lapses costs a
  delivery, a closed session does not, a message is dead-lettered after
  `MaxDelivery` failed deliveries or when it expires. Its expiry counts from
  the arrival, so it is never before the expiry of the wire. Duplicate detection
  is not relied upon: any envelope may arrive again at any time.
* `AtLeastOnce` is what a sender may rely on: a copy waits until it is finished,
  with its own message in the inbox, or refused, and the first message stored
  under an identifier stays. A copy that was stored and whose completion never
  arrives may still be refused by the broker; the inbox has the message then.

### Approval, AccessPolicy

`Approval` is the authorization half of `BridgeDatabase`. `resource`, `grant`
and `request` are its three tables; a request is named by the message that made
it, as in the code (`request_id` is the message identifier), and `OperationOf`
says which messages share a request identity. `row` is the inbox row with what
the workflow reads and writes: the state, the owner, whether the claim has
lapsed and which of the two reasons put it into quarantine. `work[c]` is what
consumer `c` holds between two calls.

* The operator: `RegisterResource`, `SetResourceEnabled`, `GrantPeerResource`,
  `RevokePeerResource`, `Inspect` (listing expires requests), `Decide` (approve
  once, approve for a time, deny) and `Revoke`. The last two requeue whatever
  row of that message is quarantined, for whatever reason.
* The consumers: `Claim`, `Authorize`, `EnsureRun`, `Settle`, `Abandon`.
  `Authorize` is `authorizeClaimedResourceAccess` with its checks in the code's
  order; a dispatcher or coordinator asks before it works and may always reject,
  an agent at the MCP server does not ask.
* Temporary approvals end whenever they like: each transaction that expires
  requests takes the set `ended` by its caller's clock. A claim that lapsed stays
  in the table until a claim of anyone sweeps it.
* Two branches of `authorizeClaimedResourceAccess` are unreachable and have no
  disjunct: the request's own `approved_temporary` state (the query for the pair
  has found it before) and the fingerprint that changed (the row's content never
  does). A collision from another origin changes no row and is no action.
* `AccessPolicy` is what the operator is promised: a start of work names the
  permit it uses, a spent or closed permit never opens again, and revoking a
  pair's grant takes its temporary permits in the same step.

### Consultation, Inquiry

A request is named by the rounds that led to it: `<<>>` is the agent's, and
`Append(q, r)` is what the run of `q` asks the peer in its round `r`, which is
what the idempotency key of a nested task says. The nodes take turns, so the
length of a request is its depth and tells which coordinators work on it.
`task`, `inbox`, `run`, `reply` and `returned` are the five places in two
databases where a request leaves a trace; `work[c]` is what coordinator `c`
keeps in its variables between two statements.

* `work[c].current` says whether the version that `c` read is still the row's. A
  save is a compare-and-set on it, so every save of another coordinator makes
  the kept version stale. `work[c].lapsed` and `.overdue` are what the clock
  reading of `c` says of its claim and of the deadline: a reading is taken at
  the claim and after a child, not at every statement.
* `Claim` sweeps lapsed claims and takes what is due. `Authorize` is the answer
  of `authorizeClaimedResourceAccess`; how it is decided is `Approval`'s. From
  there the actions follow `processClaim`, `executeChild`, `advancePeerWait` and
  their early returns: the deadline, the rounds, the child (a completed answer, a
  request for local evidence, a request to the peer, a failure), the evidence,
  the task for the peer, waiting, merging the peer's result, and settling.
* `Dies` and `Lapse` may come between any two of them; `Elsewhere` are
  the requests that a program other than a coordinator answers at the peer.
* `Inquiry` is what is promised to whoever asks: an inquiry is answered or
  refused at most once, each round asks at most one question, only so deep, and
  an answer rests on answers that were given. `Status` and `Basis` map the
  tables to it.

### Onboarding, RuntimeSettings

`Onboarding` is the root directory and the commands that make an identity and a
membership of it; `RuntimeSettings` extends it with the commands that configure
a node, the transactions that change the settings, their recovery, and
everything that can go wrong. One command runs at a time, `proc`, with the step
it has reached. A step makes at most one change of the disk, so that a death
falls between any two writes; a hash stands for the content it was taken of.

* `start` is `CreateManifest` to `RecordIdentity`; `export-enrollment` is
  `Export`; `import-peer` copies the enrollment, records it and, once every peer
  is known, writes the membership. The settings commands read the settings
  (`readRuntimeSettings`, which first finishes what `tx`, the transaction files,
  say was begun) and then write: transaction, artifact, hash, and the removal of
  the transaction. `aside` is the old file that `writeExactJson` moves away and
  puts back when the write fails.
* `runtime` and `verify` read only, but recover as well. A bridge starts with a
  transport and a dispatcher needs both.
* `Dies` ends a command at any step and may leave the file it writes `Partial`.
  `Fails` is a call that throws. `ByHand` removes or replaces an artifact or the
  registration; an own key and the manifest are not changed by hand.
* `history` is what the operator was told: the key that was exported, the peers,
  the transport, the dispatcher and the MCP registration of which a command has
  reported success, and the command that was interrupted. No action reads it,
  except that a key pair is never generated twice.

## Runs

| Run | Question | Bounds |
|---|---|---|
| `MCOutbox` | lease bookkeeping, refinement and resolution with one lane at a time | 2 messages, 2 operations, a worker that may crash and its successor, clock to 4, lease 2: a lease lapses and a message expires within the run |
| `MCInbox` | fenced claims, an answer recorded with its publication, refinement of the fenced answer | 1 message in 2 contents from 2 origins, 2 consumers of which one asks the operator, 3 reply contents, 4 tokens, clock to 2, claims of 1, a clock stale by 1: a claim lapses, is given away and comes back; a message is parked, decided, settled, poisoned, reopened by a revocation and settled again (716,387 states) |
| `MCInboxDeadResult` | dead results are not reused: violated | 2 keys, 2 contents |
| `MCBridgeProcess` | the worker keeps its lock, shutdown ends, outbound is not starved | 2 starts, 2 identifiers that foreign programs may take, crash anywhere, accept and close may hang |
| `MCBridgeProcessStarts` | one worker under overlapping starts: violated | 3 starts, two that overlap and one that died before them |
| `MCConversation` | one root and project, follow-ups follow | 2 clients, 3 keys, 1 conversation, 2 projects |
| `MCConversationParallel` | one chain: violated | 2 clients, 3 keys |
| `MCDelivery` | nothing completed before it is stored, both sides of a collision kept, refinement, every copy settled | 2 copies of 3 envelopes (two contents under one identifier, one that does not verify), 2 sessions, batches of 2, 2 deliveries, one lost lock or crash: a copy is handled under a lost lock, comes again, collides and expires |
| `MCApproval` | parked means undecided, one request per operation, collisions wait for the operator, refinement of the access policy | 2 messages of 1 operation of 1 pair; a coordinator and an agent that may claim the first, a dispatcher that may claim the second: every decision meets every claim, lapse, collision, grant and expiry |
| `MCConsultation` | a reported answer is the run's, one task a round, no circles, refinement of the inquiry, every request settled | 2 coordinators of one node that race for a request and the requests it causes, 2 rounds, depth 1, 2 topics, one death or lapse, the peer's answers from another program |
| `MCOnboarding` | an exported key stays, reported settings hold, an interrupted command is picked up | 2 peers, 3 own and 2 peer keys, 2 transports, 2 dispatchers, 2 troubles of which one is a change by hand: a command is interrupted, given again and interrupted again, or given again over a changed file (470,186 states) |
| `MCOnboardingResume` | every interrupted command can be given again: violated | 1 peer, 2 own keys, one trouble |

One message is enough for the inbox's fencing: every guard of a row reads that
row only, and the theorems below cover any number of them. Two starts show
every pair of roles at the lock; `LockIsHeld` covers any number. A depth of one
has both roles of a request, that of the asking and of the asked run, but only
coordinators of the asking node: the safety properties were also explored once
with a coordinator on each node (2.4 million states), and `NoCycle` at any
depth is a theorem. `MCOnboarding` was also explored once with one peer, three
troubles and two changes by hand (2.8 million states).

Symmetry is declared over values that no constant or property singles out, and
never in a run with a liveness property. Deadlock is checked for
`MCApproval`, `MCOnboarding` and `MCOnboardingResume`, whose operator can always
act; in the other models clocks are bounded and processes end.

### Fairness

`Outbox`: the outbound loop runs again after each cycle, the SDK's send settles
within its retry budget (`maxRetries: 3`, `timeoutInMs: 10_000`), the service
manager restarts the worker, and time passes. Nothing is assumed of the broker.
`BridgeProcess`: the event loop runs what is ready and timers fire. An outbound
cycle returns; an inbound one is only assumed to return once the transport is
closed, and the close itself is not assumed to finish.
`Delivery`: the loop starts a cycle after every other one, so a receiver step that
stays possible is taken. The broker gets round to every session that has
messages and lets a lock lapse that nobody renews. Neither the receiving, nor the
transaction, nor the settlement of a copy fails for ever when it is tried again
and again; a batch may come back empty any finite number of times. Nothing is
assumed of `close()`: when it throws in the `finally` block, `receiveInProgress`
stays set and every later cycle is refused, which `EveryCopySettled` names as
its only exception.
`Consultation`: the dispatcher's loop goes on, children and collections return,
timers fire and a dead coordinator's claim lapses, so a step of a coordinator
that stays possible is taken. A claim is fair to each request in the strong
sense, because the query takes the oldest one and a request that was released
has to wait its interval before it counts again. Deaths are bounded by
`MaxFaults`; nothing is assumed of what a child or the peer answers, nor of the
operator, who may leave a request parked for ever.

## Proofs

Each proof module follows one argument: an inductive invariant, shown to hold
initially and to be kept action by action, then the theorems from it.

* `OutboxProofs`. The invariant joins the type invariant, `SentWasAccepted`
  with "an acknowledged item was accepted", "a batch is within the leased
  life of its rows" and, under the lock, `BatchIsLeased`: a live worker is
  the only one, so only its own `LeaseBatch` sweeps rows, and it does that
  with an empty batch. `NoSendOnceFinal` and the refinement of `DurableSend`
  need `BatchIsLeased`; the refinement is proved for `ExclusiveLock`, which the
  code gets from the process lock.
* `InboxProofs`. Tokens are fresh when drawn, so a token kept by any consumer
  other than the owner is not the token of a current claim. With it go the
  facts that an unclaimed row carries no token, that a reply keeps its content
  and that a recorded result has its reply. For the refinement a message whose
  request is undecided must be in quarantine (`PendingIsWithheld`): then a
  decision opens a withheld request and never a closed one, and a revocation is
  the only step that may open a request that was closed.
* `BridgeProcessProofs`. `LockIsHeld` needs that nobody is about to unlink a
  live worker's file: a process that is past `CheckHolder` saw an identifier
  that was not alive, and with starts in sequence no one else has taken the
  lock since; `NobodyIsRobbed` says the same of the file. `TransportsAreExclusive`
  assumes nothing: a process that relies on the lock file and was not robbed of
  it has it under the path (`UnlessRobbed`), there is one file, and a transport
  is open only in a process that runs, closes or has given up its close
  (`OpenWhileRunning`).
* `ConversationProofs`. A turn that a client is about to commit satisfies what
  a committed turn satisfies, whatever was committed since it read the thread;
  the root is unique because the check is inside the transaction. Sequence
  numbers are not checked there, so `OneChain` fails for parallel calls. It is
  kept under `NoParallelCalls` (no two clients carry a turn of the same
  conversation to the outbox at once): with it every follow-up on its way is
  `Ahead` of all turns of its conversation, because no commit can come between
  its reading and its transaction. So parallel calls are the only way to a fork.

* `DeliveryProofs`. A copy keeps its envelope, the batch is of copies that
  arrived, a copy whose settlement is awaited is stored or collides with what is
  stored, and a stored message is never replaced. That is what makes a
  completion safe even when it arrives under a lock that was lost and taken
  again. A quarantined row has its counterpart because the copy in hand when
  it was quarantined differs from the stored one, and only copies equal to the
  stored one are completed.

* `ApprovalProofs`. `ParkedIsPending` is kept with "a cause is named only in
  quarantine": a claim, a sweep and a settlement all start from another state, so
  none of them touches a parked row, and a decision moves the request and the row
  together. `OneRequestPerOperation` is kept because a request is made only
  where no message of the operation has one. The refinement maps the permit of an
  operation to the state of its one request, which `OneRequestPerOperation` makes
  unique; each branch of `Authorize` is a step of `AccessPolicy` or a stutter.

* `ConsultationProofs`. `ConsultationInv` says of each request how its task,
  row, run, reply and returned result fit together, and of each coordinator with
  a current version and a live claim what its step lets it rely on. Most actions
  have one of two shapes, for which the invariant is shown to be kept once: a
  coordinator goes on without touching a table, or saves its run, which only the
  holder of the current version does and which makes every other copy stale.
  `OneTaskPerRound` and `NoCycle` follow, because the task of a round carries
  the ancestry of the run's own task and is found again under its key, whoever
  sends it. An answer rests on the rounds that the run has merged, each of which
  has come back as an answer, which is the refinement of `Inquiry`.

* `OnboardingProofs`. `OnboardingInv` relates three things: what the disk shows
  (the hashes, both sides of an unfinished transaction, the file set aside, the
  file that a setting is about), what the running command knows at its step, and
  what was told. Each value that recovery or a rerun may adopt from the disk is
  one that agrees with what was told, or a hand has changed the file it is
  about. What was told changes only when a command reports success, and there
  the transaction is gone and hash, file and settings agree. The key is simpler:
  once it was exported the key is there, whatever becomes of the enrollment and
  the manifest, and `start` generates one only where both files are missing.

  `RefusedRerunsAreTorn` needs a second invariant, `RerunInv`, which says more
  of a disk that no hand has changed (`touched = {}`; nothing less would do, as a
  changed file is a reason to refuse). `OwnedFits` and `PeersFit` say that key,
  enrollment and manifest are about one key and that manifest and membership
  file are made of the peers' copies; `ConfiguredFits` says that every settings
  value that is known anywhere (in the file, the manifest, a transaction, aside)
  is anchored: what it names is there. `CommandFits` records what each step of a
  command has made sure of. `RerunsFit` is about the repetition: a command past
  its checks, and every interrupted one that configures, is `Held`, which is
  either `Stuck` in one of the states that `HalfDone` names or `Repeatable`: the
  enrollments are complete, the settings are what the manifest says or what
  their transaction makes of them, and no value on the disk contradicts the
  command. Every action keeps `Held` (lemmas `HeldBy...`), deaths and errors
  included; and each refusal in the code contradicts `Repeatable`, so that the
  refused command was `Stuck` or found settings without their hash (lemmas
  `RefusedBy...`). TLC finds `touched = {} => Undisturbed` kept for the run's peers
  with three troubles, and for one peer with four.

  `EnrolledPeersStay` needs one fact more, that a copy is recorded only for a
  peer that is not enrolled yet, and holds with any changes by hand.

In `ConversationProofs` type correctness needs that the largest sequence number
of a conversation exists: at every moment some number bounds all those that
were given, and a bounded set of numbers has a largest one.

Assumptions are those of the modules (`OutboxAssumption`, `InboxAssumption`,
`BridgeProcessAssumption`, `ConversationAssumption`, `DeliveryAssumption`,
`ApprovalAssumption`, `ConsultationAssumption`, `OnboardingAssumption`,
`RuntimeSettingsAssumption`, and `NoneAssumption` and `TransactionAssumption`,
which keep the values that stand for "nothing" apart from the records) and,
where a theorem says so, `ExclusiveLock`, `~ConcurrentStarts` or
`[]NoParallelCalls`.

Some theorems state what no run checks by name: `SentIsAccepted` and
`FinalRowsStay` hold for two live workers without the lock,
`ClaimsHaveOneHolder` and `QuarantineIsAccountedFor` for any number of consumers
and senders. `TransportsAreExclusive` says when two workers may have transports
open at once, whatever starts overlap, and `NobodyIsRobbed` that a close that
does not end in time is the only reason when starts do not overlap.
`SequentialCallsKeepOneChain` complements the run `conversation_parallel`.
`ConsultationInvariant` is the invariant the other theorems on consultations
come from, and `IdentityIsOne`, `MembershipIsTheCopies`, `SettingsAreAnchored`
and `EnrolledPeersStay` say of the onboarding root what its commands rely on.

Model-checked only: the liveness properties (`EveryMessageResolved`,
`ShutdownEnds`, `OutboundNotStarved`, `EveryCopySettled`, `EveryRequestSettled`)
and everything that rests on fairness or ENABLED, which the prover does not
reach. Every safety property of a passing run, the refinements among them, is
stated by a theorem, under the assumptions above.

## Findings

Four runs show where the code and its documentation disagree; each is described
in `PROJECT.json` with the quoted line: reuse of a dead result
(`inbox_dead_result`), the unlink race of overlapping starts (`process_starts`),
parallel continuations (`conversation_parallel`), and an identity that a death
between its two writes leaves half done (`onboarding_resume`).

These were met and have no run:

* a process that dies between creating and writing the lock file leaves a lock
  that no later start reclaims (`src/bridge/process-lock.ts:52`);
* a shutdown whose transport does not close releases the lock before the process
  ends; `TransportsAreExclusive` names this state;
* a continuation repeated after its previous result was claimed or rejected is
  refused although its turn exists;
* a decision requeues a row that an identity collision quarantined while it was
  parked or worked on (`src/storage/database.ts:1297` tests the state only):
  `CollisionReleasedByOperator` holds, and names that release. A revocation of an
  approval that still stands even reopens a message that was settled before its
  origin's collision quarantined it: it may be settled a second time, with
  another answer under another key. `FencedAnswer` allows just that;
* a request that is pending when its pair gets a persistent grant can only be
  denied, and the message that the denial releases is then authorized by the grant;
* an expiry written with an offset is compared as text
  (`src/storage/database.ts:1853`) but as an instant where it is signed: its row
  expires at another time than it says. The program itself writes UTC;
* a database that keeps failing uses up the deliveries of a valid message, which
  the broker then dead-letters (`src/bridge/worker.ts:196`), while
  `docs/runbooks/recovery.md:36-37` says that such failures are not dead-lettered;
* an expired message that nobody claims stays available in every listing
  (`src/storage/database.ts:2208`);
* a consultation that fails after its claim lapsed settles with the clock of the
  cycle's start (the catch clause of `processClaim` calls `fail(..., now)`),
  although ADR 0007 says that an expired claimant cannot; the row's owner and
  token still fence it when another has claimed the request;
* a completed run whose deadline passes before it is settled becomes failed, and
  its answer is dropped; a coordinator whose child took long may still send the
  task of a request that another one has settled, and save its run as completed
  after the request was rejected. None of them changes what was reported;
* other commands of onboarding that cannot be given again after an interruption:
  a database without a profile (`src/setup/local-profile.ts:99`); settings
  written and their hash not yet, which `requireCompleteOnboarding` refuses until
  a settings command or `verify` has run the recovery; a transaction or projects
  file written halfway; a manifest that the fallback of `writeAtomic` moved aside.
  `HalfDone` lists them, and `RefusedRerunsAreTorn`, proved for every instance,
  says that there are no more as long as no hand changes a file;
* a root whose key and enrollment were both removed by hand gets a new identity
  from the next `start`, although its manifest records the old one
  (`generateOnboardingIdentity` compares it only where a file is left). The model
  lets a hand remove the enrollment, not the key.

## What is abstracted

The `delivery_attempts` journal is modelled by its failing, not its rows. The
`authenticated_ingress` column is left out of `Inbox`, because the bridge worker
always sets it, and is the constant `Authentic` of `Approval`. The rows of
`authorization_audit` are left out: they are written in the same transactions
and nothing reads them back.
Messages with equal creation times are ordered by identifier in the code and in
either order here. The keys of replies are kept per message. A thread longer
than the hundred messages `continueAgent` reads is not modelled. The model of
the lock has the POSIX meaning of unlink.
In `Consultation` the two nodes have the same policy, a child's outcome is any
its schema allows, and evidence read from the repository is not told apart.
In `Onboarding` access rights are not modelled, nor the pins of executables, nor
a peer that presents this node's own key; `start` is always given the same
names; each artifact is changed by hand at most once.

The bounds are constants or named in the guards: `MaxTime` (`Outbox`, `Inbox`),
`MaxFaults` (`Delivery`, `Consultation`), `MaxTroubles` and `MaxEdits`
(`RuntimeSettings`), and the finite sets of identifiers, tokens, keys and copies
that are used up. No proof uses that they are small.

## Not modelled

* The dispatcher's renewal timer and its child process. The renewal itself, the
  authorization and the settlement are actions of `Inbox` and `Approval`; what
  is missing is that a lost claim cancels the child.
* Schema migration: nine steps, each an immediate transaction that tests its
  version first or statements that may be repeated. What can go wrong is the SQL
  that copies rows, which a model would repeat word for word.
* Key windows and rotation: configuration that no state of the program changes.
  Its effect is the constants `Authorized` (`Outbox`) and `Profile` (`Delivery`).
* The Codex executor and the reading of evidence: their outcomes are inputs.
* MCP tool schemas, configuration and the other commands: parsing and printing
  around the database methods that are modelled.
* `foreground-runtime.ts` and `preflight.ts`: supervision of child processes and
  the reading of the environment.
* Two onboarding commands at once: nothing locks the manifest, and the operator's
  guide gives one command after the other. The hazard is listed.
* Service installation, upgrade scripts and deployment templates: outside of the
  program.

What would come next: a dispatcher with its timer over `Inbox`, two onboarding
commands at once, and `Outbox` composed with `BridgeProcess`, so that
`ExclusiveLock` follows from the lock file instead of being assumed.
