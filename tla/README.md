# Verification of gantry-core

gantry-core is a Go library that the Gantry products (Cortex, Warden and others)
share: replicated product state over raft, propagation of configuration between
nodes, accounts and sessions, authentication of peers, an API client and a command
runner, agent run outcomes, transcript merging and editor saves. This directory holds TLA+ models of the parts whose correctness
depends on *order*, on *failure* or on *boundaries*, the TLC instances that check
them, and TLAPS proofs for the parts where a small instance is not enough.
`PROJECT.json` maps every definition to the lines it models and lists hazards,
runs, mutants, findings and theorems.

## 1. Inventory

| component (source) | state | operations | what is hard | module |
| --- | --- | --- | --- | --- |
| replicated state machine (`replication/kvfsm.go`, `operation.go`, `snapshot.go`) | objects with revisions, results by operation id, last applied index | apply, snapshot, restore | retries with the same id, version gate, restore of an older or newer snapshot | `KVFSM` |
| nodes and cluster (`replication/node.go`, `cluster.go`, `fabric.go`, `timing.go`) | raft per node, product state machine, advertised schemas | Propose, forwarding, Join, promotion, removal, upgrade, WaitApplied | leader change while a proposal is in flight, crash and replay, mixed schemas, membership changes | `Replication`, `AtomicKV` |
| mutation authority and readiness (`authority.go`, `readiness.go`) | mode, readiness | Route, SetMode, driver ticks | readiness is derived from separate reads; shutdown races the tick | `Authority` |
| network transport (`nettransport.go`) | dialed and accepted connections, mutexes, closed flag | round trips, dial, serve, revalidation, Close | shared connections, double dial, revocation while a call is blocked, Close against Accept | `NetTransport` |
| multi-node transaction (`propagation/transaction.go`, `ui.go`) | result per node | validate, apply, roll back, present | a failed call may have taken effect; failed rollback | `Transaction` |
| planning, fan-out, local apply (`propagation/plan.go`, `preview.go`, `conflict.go`, `target.go`, `distributed.go`, `runtime.go`, `manager.go`, `profile_execute.go`, `reconcile.go`) | targets' objects, plan, history | profile run, preview, apply, rollback, record | targets change between preview and apply, lost answers, partial failure, bounded parallelism | `Propagation` |
| scheduled profiles (`propagation/runner.go`, `schedule.go`) | stored profiles, last run | RunDueProfiles, SaveProfile, DeleteProfile | the pass saves the copy it listed; windows over midnight | `Scheduler` |
| sessions and limiter (`auth/sessions.go`) | sessions in memory and on disk, failure times, challenges | login, challenges, revocations, expiry, listing, restart | limiter and count are separate critical sections; failing saves; eviction | `Sessions` |
| agent run outcome (`agent/agent.go`) | first error, stop, provider failure, cause, by sequence number | Next sequence, Record…At, RecordCause, Seal, Classify | concurrent readers record late | `RunState` |
| API client (`client/client.go`) | attempts of one call | Call, callOnce, backoff | an attempt given up is executed later; cancellation | `Client` |
| transcript merge (`conversations/conversations.go`) | stored and client events | MergeEvents | repeated and late saves, equal times, dropped events that return | `Conversations` |
| accounts and roles (`auth/model.go`, `accounts.go`) | accounts with identities, roles, the two saved documents | setup, create, change, delete, recovery codes, Reload, restart | a save that fails, the last administrator, a Reload that read before a change and installs after it | `Accounts` |
| peer authentication (`replication/auth.go`) | memberships, secrets, nonces seen | Authenticate, VerifyPeer, setters | two critical sections with a clock reading between them, late and repeated handshakes | `Handshake` |
| fan-out over members (`cluster/routing.go`) | results of the nodes | FanOut, IsPartial | more goroutines than slots, nodes named twice, partial failure | `FanOut` |
| command runner (`automation/automation.go`) | session file | Run | commands share a file that is written in place; a kill in the middle; lost answers | `Automation` |
| editor saves (`editor/editor.go`) | file, temporary files, revisions | FileRevision, WriteAtomic, WriteAtomicMode | check then rename, crash, failing calls | `Editor` |
| capabilities, audit, execution boundary (`auth/execution.go`, `policy.go`, `audit.go`) | none | decisions, redaction | pure functions | – |
| pairing, request verification, identity, parity (`cluster/*.go`) | none of their own: products keep the records | transition tables, signatures | rotation accepts two credentials | – |
| operation contracts, protocol, cli, terminal, workspace, launcher, secrets | none | validation, parsing, rendering | string functions | – |
| bolt store, TLS material, random identifiers (`store.go`, `tls.go`, `rand.go`) | files and keys | storage, cryptography | I/O and cryptography | – |
| contract tests, surface inventory | – | development tools | – | – |

How the parts interact. A product asks `Authority.Route` what to do with a
mutation; on a replicated node it becomes an operation that `Node.Propose` commits
through raft and that every node's `KVFSM` applies. Raft talks to its peers through
`NetTransport`. The readiness driver polls raft and sets the authority's readiness.
A scheduled pass (`Scheduler`) runs each due profile through the propagation
manager (`Propagation`), which previews and applies on every target with a bounded
fan-out; an explicit multi-node change goes through `Execute` (`Transaction`).
Remote commands use `Client` or `Automation`, one command on several members
`FanOut`; browsers hold `Sessions`, transcripts and editors. Two modules stand for the
other side of an interface of theirs: `SetActive` in `Sessions` is what a change in
`Accounts` does to a session's account, and the verdict of the authenticator that
`NetTransport` takes as given is computed by `Handshake`.

For each modelled part the properties that make it correct are its run's
properties, in section 3.

## 2. Modules and their correspondence to the code

All modules abstract payloads, names and errors to model values or small sets, and
keep every guard, early return and order of steps. Definitions named in the part
"Mutated forms" of a module are variants that a plausible bug would give; the
specification does not use them.

* **`KVFSM`** – pure operators: `ApplyLocked` (duplicate by identity first, then
  the version gate, then payload, then the effect and its record), `ApplyResponse`,
  `Snapshot`, `CanRestore`.
* **`Replication`** – one `KVFSM` per node. hashicorp/raft is external and modelled
  by what nodes rely on: one growing committed log, one leader per term, entries of
  a deposed leader that are committed or lost, futures that resolve at apply or when
  leadership is lost. `Propose` (the check) and `ProposeLocal` (the dispatch or a
  refusal) are two steps, because `node.go` looks at raft's state twice;
  `HandlePropose`, `ApplyNext`, `Crash`, `Restart`,
  `InstallSnapshot`, membership and upgrade actions are the nodes', too. `hist`,
  `skipped` and an entry's `checked` are history. `Features` selects which of these an instance has.
* **`AtomicKV`** – the store a client sees: a new operation takes effect once and its
  result is recorded. `Replication` implements it under the mapping in `Replication`.
* **`Authority`** – the driver's loop with a step for each of its reads (health, raft's
  state, the leader, and the three of raft's statistics); raft, health, the operator and
  requests move between any two of them. `duty` and `heard` are history: what was
  committed on the node when the tick began, and whether the leader was there since.
* **`NetTransport`** – callers (`Lookup`, `Dial`, handshake, `Register`, `Send`,
  `ReadResponse`), the serving goroutine of an accepted connection, both
  revalidation loops and the steps of `Close`; links may break at any time.
* **`Transaction`** – the loops of `Execute`, one executor call per step, failed calls
  with or without effect; `Present` is `PresentResult`.
* **`Propagation`** – a profile run: select targets, preview, fan out with a
  semaphore, local dry run, apply, rollback, history. Select's labels and capabilities,
  which only add ways to match, are left out.
* **`Scheduler`** – `RunDueProfiles` over the stored profiles, one step per profile
  outcome and save, with operators' changes between them. `SaveProfile` stores whatever
  whole profile it is given (`manager.go:76`): an operator can recreate a deleted profile,
  and a copy read before a run turns the last run back, so that the next run comes early.
  No document promises otherwise; the profile is `turned` in the model until its next
  run, and `RunsSpaced` speaks of the others. Profiles that reached the store some other
  way may have a schedule or a window that does not parse (`DueError`).
* **`Sessions`** – `Limited`, password check and `Fail` as separate steps of
  concurrent logins; second-factor challenges that one request begins and another takes;
  memory, disk, expiry, every revocation, restart from disk. A login reads the clock before
  it takes the lock (`sessions.go:171`), so of two at once the one with the older reading may
  enter last and evict a session younger than its own; `OldestEvicted` is about the
  sessions a login finds.
* **`RunState`** – observation (`NextSequence`) and recording as separate steps of any
  number of readers. The first to be recorded of a kind counts (`agent.go:65`, `81`): of two
  readers that observe errors at once the later observation may win, and the earlier one,
  `overtaken` in the model, is as if it had not been. `OutcomeFollowsOrder` says that
  nothing else disturbs the order.
* **`Client`** – attempts, executions at the server that come late, backoff.
* **`Conversations`** – `MergeEvents` as operators; agent, browser and saves around
  it are the products' and marked external. Texts are sets of words. Events may carry the
  same time and runs may stream the same text; what `MergeEvents` can promise then is
  said by `TellsRun` and `TimesDiffer` in the properties themselves.

* **`Accounts`** – one action per change of the account model: each takes the lock,
  works on a copy, validates, saves and installs it, or leaves everything as it was
  when the save fails (a failing save of the product is assumed to save nothing).
  `Reload` is three steps (two reads without the lock, one installation), `NewModel` is
  a restart. `stale` says that a Reload installed documents older than a change.
* **`Handshake`** – a verification is `CheckMember`, `CheckFreshness` and `consumeNonce`;
  memberships, secrets and the clock move between them, and handshakes may arrive late
  or again. A signature is the secret that made it.
* **`FanOut`** – a goroutine per node: `Acquire` a slot, `CallReturned`, `Collect`,
  `Release`; then the sort and the return.
* **`Automation`** – a command loads the session file, sends one request, chooses the
  CSRF token to keep, truncates and writes the file, and exits; any of them may be
  killed, and the service may perform a request whose answer is lost. An answer of any
  status may bring the cookie of a session (`automation.go:148`).
* **`Editor`** – a save is the system calls of `WriteAtomicMode`, after the two calls
  that compare the revision; data not synced is torn by a crash.

`MC*` modules hold constants for TLC only. `MCCalls` (`Client`, `FanOut`, `RunState`)
and `MCNode` (`Accounts`, `Handshake`, `Automation`, `Editor`) check several small
modules that share no state in one run: a variable `part` chooses one of them for a
behaviour, and the others stay in an initial state. Every module states the types of its
variables in a `TypeOK`; those of `Replication`, `Transaction`, `Propagation`,
`Scheduler`, `Accounts` and `Conversations` are proved as they stand, those of the others
that have proofs are part of an inductive invariant. `Authority`, `Scheduler` and the modules behind
`MCCalls` and `MCNode` name their specifications after themselves (`AuthoritySpec`,
`SchedulerSpec`, …), so that one proof module can extend several of them.

## 3. Runs

Passing runs. Bounds are named constants of the modules.

| run | checks | instance, and why it is enough |
| --- | --- | --- |
| `replication_crash` | `ReplicaAgreement`, `AckDurable`, `AppliedOnce`, `ReadAfterWait`, `NoVoterSkips`, `RecordsNeverChange`, `ImplementsAtomicKV` | 3 nodes of which one has the older schema and may be upgraded, 2 proposals out of a set, the same identity with another payload and a gated delete, 2 terms, 1 crash, log compacted to the snapshots that two of the nodes take: a quorum survives the crash, a retry meets its original in another term, a leader is elected between the check of the schemas and the dispatch, a node catches up by replay and by snapshot; the two nodes that start alike are symmetric, and so are the two payloads |
| `replication_live` | `CallReturns`, `Convergence` | 2 nodes, at first one voter, with every feature at once (crash, snapshot, joins, learners, removals, up- and downgrades, forwarding), 1 proposal, 2 terms: a lagging node may miss the log, the schema and the leader at the same time |
| `authority_live` | `FollowerCaughtUp`, `NodeQuiesces` (an unhealthy node and one that shuts down stop serving), `StableLeaderServes` | `MaxIndex` 1: a log can grow, lose an entry that was not committed, fall behind a snapshot, and be behind the leader; finite otherwise |
| `transport` | `OwnResponse`, `NoLinkLeaks`, `HealthyConnStays`, `ConnectionsEnd` (`RevokedQuiesces`, `CloseReleases`) | 2 callers, 2 dialed links and one accepted connection, 1 membership change: two callers can dial at once and a drop can meet a replacement |
| `transaction` | `ReportIsComplete` (`ChangeIsReported`, `PartialIsExact`), `ShownIsTrue` | 4 nodes: two failures with nodes before, between and behind |
| `propagation_run` | `SuccessIsComplete`, `HistoryIsTrue`, `FailClosed`, `RunEnds` | 2 targets of 3 members, 3 objects of which the second cannot be reversed, parallelism 1, 2 faults, 1 edit |
| `scheduler` | `WindowIsInterval`, `RunsSpaced`, `PassComplete` | 2 profiles (symmetric), a day of 3 ticks, 2 days, schedules and windows that may be unreadable, one operator change: any whole profile saved, older than a run too, or a deletion |
| `sessions` | `StoreBounded` (`SessionsBounded`, `FailuresBounded`), `SessionsKept` (`RevokedStaysRevoked`, `OldestEvicted`, `ChallengeOnce`) | 2 accounts, 2 concurrent requests, 3 tokens for sessions and challenges, a limit of 2 sessions, one failed attempt allowed, one failing save, expiry, restarts; a login reads the clock at any moment between its credentials and its insertion; accounts, tokens and requests are symmetric |
| `calls` | `CallIsTrue` (`EffectAtMostOnce`, `ResultIsTrue`), `ReportComplete`, `OutcomeFollowsOrder`, `CallsEnd` | client: 3 attempts, of which any may be executed late; fan-out: 4 names of which one occurs twice, 2 slots, so that goroutines wait and results tie in the sort; run state: 5 observations by any number of readers, so that two observe the same kind and one overtakes the other |
| `node` | `AdministratorRemains`, `SavedIsCurrent`, `RecoveryCodeOnce`; `ConsumedOnce`; `CommandIsTrue` (`ExitIsTrue`, `SessionFileUsable`); `FileWhole`, `HarmNeedsRace` | accounts: a new installation and one with an administrator, 2 accounts, 2 identities, a name that is also an address, 1 recovery code, 3 changes, 1 failing save, reloads and restarts without bound; handshakes: 1 peer, 2 verifications at once, a window of 1 and a sender's clock off by 1, 3 ticks, so that a nonce expires; commands: 2 at once, any of which may be answered with a session, 2 sessions, 1 kill; editors: 2 at once, 2 modes, 3 saves, 1 crash or deletion |
| `conversations_merge` | `StoredIsTrue` (`OncePerOccurrence`, `LatestTerminal`, `OrderFree`), `MergeKeeps` | 3 events of 2 runs that stream the same text, a replacement of one of them, two terminal markers and a user; 2 late copies; successive events may have the same time: signatures and times tie, and a copy is overtaken by another |

`CHECK_DEADLOCK FALSE` stands where the program may come to rest: every call has
returned and the bounds on proposals, dials, faults or time are used up.

Fairness. `Replication`: raft elects when there is no leader, deposes a leader of an
old term, commits, delivers and applies, and crashed nodes are restarted; crashes and
elections are bounded, so liveness is after the last one, but membership and schemas
may change for ever (`Convergence` speaks of nodes that stay members once everyone
runs the newest schema). `Authority`: the driver's ticker fires (weak fairness); leaving the loop is
strongly fair, because a Go `select` with two ready cases chooses at random and so
cannot ignore a cancelled context for ever. `NetTransport`: goroutines that can run do, and
tickers fire; nothing is assumed of the peer, which may stay silent. `Propagation`:
remote calls and the adapter's calls return. `Client`: the per-request timeout
ends an attempt (`Lose`). `FanOut`: goroutines run and the product's calls return (they
get the caller's context). No fairness is assumed of operators or users.

### Finding

* `transport_close` – `CloseReturns` is violated: a connection accepted just before
  `Close` and registered just after it copied the table is never closed, and `Close`
  waits for its goroutine for ever (`nettransport.go:428` against the comment at 616).

### Known deviations

Where the code and a sentence of the repository part, there is a small instance that
shows it; these are kept for the day the code changes, and are not part of the list
of runs. `tlc -config <cfg> <module>` reports the property violated.

| instance | property | what happens |
| --- | --- | --- |
| `Replication_gap.cfg`, `MCReplication` | `SchemaBeforeCommit` | `Propose` looks at raft's state at `node.go:271`, and checks the voters' schemas only on a leader, and `proposeLocal` looks again at 394: a node that wins an election in between proposes without the check; so does a proposal that enters through `Cluster.Propose` or is forwarded (`node.go:420`, `fabric.go:161`), against "A voter must understand the replication schema before an operation requiring it commits" (`docs/REPLICATED_STATE_ARCHITECTURE.md:99`); `NoVoterSkips` and `CheckedAgreement` therefore speak of entries that were checked |
| `Replication_learner.cfg`, `MCReplication` | `CheckedAgreement` | a node becomes a voter without a check of the schemas already committed or in flight (`cluster.go:154`, `185`) and then differs from other voters at the same position, against the comment at `kvfsm.go:36`; `ReplicaAgreement` has the proviso that neither node skipped an entry |
| `Authority_ready.cfg`, `Authority` | `CaughtUpBeforeReady` | the driver declares a leader ready before it has caught up (`readiness.go:57` against 17) |
| `Propagation_conflict.cfg`, `MCPropagation` | `ConflictPolicyHonoured` | `ApplyLocal` hands the adapter objects that its own preview planned to leave alone because of the conflict policy (`runtime.go:86`) |
| `Conversations_tie.cfg`, `MCConversations` | `LatestAlways` | of two terminal markers with the same time, the earlier one replaces the later when a copy is merged again (`conversations.go:84` against `docs/CONTRACTS.md:6`); `LatestTerminal` excepts such a tie |
| `Conversations_twice.cfg`, `MCConversations` | `NeverDoubled` | the signature of an event lacks its run: after one of two equal fragments is superseded, the other is stored twice (`conversations.go:67`); `OncePerOccurrence` bounds the occurrences of a signature always, those of an event when signatures tell its run |
| `Accounts_reload.cfg`, `MCNode` | `SetupOnce` | a `Reload` that read the documents before `CreateInitialAdministrator` and installs them after it empties the accounts in use, so that setup is possible again (`model.go:83`) although the administrator is saved; against "At least one enabled password-backed administrator must remain after setup" (`docs/ROUTING_AND_AUTH.md:36`); `AdministratorRemains` demands the administrator of the saved documents always and excepts only this state of those in use, `SavedIsCurrent` and `RecoveryCodeOnce` except a Reload that raced with a change |
| `Handshake_replay.cfg`, `MCNode` | `NeverReplayed` | the entry of an accepted nonce lasts one window from its acceptance (`replication/auth.go:252`), a timestamp of a sender whose clock is ahead is fresh for longer, and a verification that read the clock before the entry expired may consume after it: the same handshake is accepted again, against "a captured valid handshake cannot be replayed" (`replication/auth.go:45`); `ConsumedOnce` permits a repetition in these two cases only |
| `Editor_race.cfg`, `MCNode` | `NoLostUpdate` | the revision is compared before the temporary file is written and not again at the rename: of two overlapping saves with the same revision both succeed (`editor.go:81`, against "optimistic revision checks", `editor/README.md:3`); `HarmNeedsRace` says that nothing but such an overlap loses an update |

## 4. Proofs

`ReplicationProofs` (module `Replication`), for any nodes, clients, operations,
schemas and bounds, from the assumptions named in `KVFSM` and `Replication`:

* `TypeCorrect`, `AgreementHolds`, `AcksAreDurable`, `AppliedAtMostOnce`,
  `WaitIsEnough` – the invariants of the runs; `RecordsAreKept` – the action property;
  `Refinement` – `Replication` implements `AtomicKV`.

The invariants are not inductive: agreement of two replicas says nothing about the
entry that one of them applies next. The inductive invariant `IndInv` has four parts.
`TypeInv` adds to the types that all positions lie inside the log. `History` says
that `hist` is the run of `ApplyLocked` along the log, that results accumulate and
point back to the entry that produced them. `ReplicasFollow` says that a replica, and
a snapshot, that skipped nothing equals `hist` at its position. `AcksRecorded` ties
acknowledgements to the newest state of `hist`. Only `CommitStep` extends the log and
only `ApplyNext` answers callers, so each part has one hard case
(`HistoryExtended`, `FollowNext`, `ResponseReachesLatest`). Lemmas about `ApplyLocked`
(type, records kept, response recorded, the gate is uniform on supported schemas)
carry the rest.

`VotersNeverSkip` (`NoVoterSkips`), `VotersAgree` (`CheckedAgreement`, the promise of the
comment at `kvfsm.go:36` as far as the check was made) and `SchemaGateHolds`
(`CheckedBeforeCommit`) have the hypothesis `Gated`: no downgrade and no membership
change. Both are needed: a voter that is downgraded refuses what it accepted before,
and `Replication_learner.cfg` has the counterexample for the other. Forwarding and a leader elected between
`Propose`'s two looks at raft's state are not excluded: their entries are the ones not
`checked`. The invariant `GateInv` says that leaders are voters, that nobody advertises
more than it supports, that every voter accepts what was checked, be it committed, in
flight *or still between the check and the dispatch* (the entry may be dispatched in a
later term, committed by a later leader and applied after a restart), and that a voter
or snapshot that skipped an entry has an unchecked one behind it.

`PropagationProofs` (modules `Propagation` and `Scheduler`), for any members, selectors,
envelopes, policies, faults and edits:

* `TypeCorrect`; `SuccessComplete` – `SuccessIsComplete`; `HistoryTrue` –
  `HistoryIsTrue`; `FailsClosed` – `FailClosed`. The history record is written long
  after the objects were: `Applying`, `Restoring` and `Finished` say which objects the
  loop has replaced and which the rollback has put back at each position of the loop,
  and that the rollback's count is complete only if every object is. `RunInv` carries
  the permission of the preview to every step of a target, also when the coordinator
  has given up, and ties collected answers to finished calls. The reported total is the
  cardinality of a product, so it needs finitely many members (`MembersAssumption`).
* `SchedulerTypeCorrect`; `SpacedRuns` – `RunsSpaced`; `PassesComplete` – `PassComplete`;
  `WindowCorrect` – `WindowIsInterval`. `RunsSpaced` needs to know that the copy the
  pass saves carries no older run than the last one although operators save meanwhile:
  `StoreTells` and `CopiesTell` say so of the store and of unsaved copies, of every
  profile that nobody turned back, `CopiesUnique` that saving one copy makes no other
  stale, `SavingDue` that what is saved was due. `PassInv` says that what is reported and
  what is still to do are together what was due or unreadable when the pass began.

`TransactionProofs` (module `Transaction`), for any number of nodes: `TypeCorrect`,
`ShownTrue` – `ShownIsTrue`, `ReportsComplete` – `ReportIsComplete`. The invariant follows
the three loops of `Execute`: the nodes behind the loop index are untouched, those
before it carry a result that agrees with the node.

`TransportProofs` (modules `NetTransport` and `Authority`), for any peers, callers and
connections:

* `ResponsesMatch` – `OwnResponse`; `LinksOwned` – `NoLinkLeaks`; `HealthyStay` –
  `HealthyConnStays`. A response is the caller's own because of what the mutex of a
  connection protects: `Locked` says that its holder is the caller that reads,
  `OneFrame` that only the holder's frame is under way on an open connection, which is
  why a failed round trip has to close it.
* `FollowersCaughtUp` – `FollowerCaughtUp`. The reads are of different moments, and the
  log may be cut or replaced between them; `CaughtInv` says why they are evidence all the
  same: once read, the end of the log covers what was committed when the tick began, or
  that is applied already (`ReadEvidence`), and what is applied only grows.

`SessionsProofs` (module `Sessions`), for any accounts, clients, tokens and limits:
`Bounded` – `StoreBounded`, `SessionsAreKept` – `SessionsKept`. Memory fits the limit only
because what is on disk does (a restart loads it) and because the oldest session is
evicted in the step that adds one; a challenge is in one place only (`ChallengeInv`).
`ClientsAssumption`: there are finitely many concurrent requests.

`NodeProofs` (modules `Accounts`, `Handshake`, `Automation`, `Editor`), for any accounts,
identities and roles and any number of concurrent peers, commands and editors:

* `TypeCorrect`, `AdministratorStays` – `AdministratorRemains`, `SavedStaysCurrent` –
  `SavedIsCurrent`, `CodesAcceptedOnce` – `RecoveryCodeOnce`. The documents that a
  `Reload` has read and not yet installed must satisfy the same conditions as those in
  use and on disk (`DocumentsSound`). `InstallationsAssumption` says of the first
  documents what the operations of an earlier process leave: they pass
  `ValidateAccounts`, every account has a login, and no two accounts share a recovery
  code. `AdministratorRemains` holds of the saved documents without exception, also
  after a change that starts from what a stale `Reload` installed, because each change
  validates the whole document that it saves (`InstalledSaved`).
* `NonceOnce` – `ConsumedOnce`, `CommandsTrue` – `CommandIsTrue`, `FileStaysWhole` –
  `FileWhole`, `HarmOnlyByRace` – `HarmNeedsRace`. For the editor the invariant ties the
  temporary file of a save to what has been written and synced; for handshakes it bounds
  when a remembered nonce may have been forgotten; for commands it says whose request
  the service performed at each point.

`CallsProofs` (modules `Client`, `RunState`, `FanOut`): `CallTrue` – `CallIsTrue`,
`OutcomeOrdered` – `OutcomeFollowsOrder`, `FanOutComplete` – `ReportComplete`. For a call,
the attempts are counted, of what was executed a mutation has had exactly one effect, and
an attempt that returns success was executed; for the run state, each recorded sequence number is that of the first (for causes the last)
observation of its kind; for the fan-out, the results collected so far and the
goroutines still to collect make up the list of nodes.

`ConversationsProofs` (module `Conversations`), for any runs, texts, events and copies:

* `StoredTrue` – `StoredIsTrue`, `MergesKeep` – `MergeKeeps`, whatever events have the
  same time and whatever runs stream the same text. `MergeEvents` compares transcripts by
  counting signatures, not by comparing events, and what it superseded may come back in a
  late copy. Three parts of the invariant need nothing else: a transcript is in the order
  of its times with the events of one said before (`TypeInv`); of no signature the server
  or a copy has more occurrences than were said (`Counted`), because what a merge adds is
  what the copy has more (`UnmatchedCount`) and the supersessions only take away; and the
  latest terminal marker, if no other has its time, stays last (`MarkersKept`).
  Occurrences are compared by injections between sets of positions.
* `OrderFree`, and `NeverDoubled` when signatures and times tell events apart, need to
  know that counting signatures *is* comparing events. That is `Inv`, which holds as long
  as signatures tell runs and times are distinct (`Clear`; it is then an invariant of the
  steps so far, events to come may still tie): every transcript is in the order of its
  times and `Closed`, that is, has the *first* durable occurrences of each signature
  (`UnmatchedIsMissing`); `Recorded` and `Noted` say what the server and the browser have
  of what was said. `MergeFacts` follows a merge through matching, sorting and the two
  supersessions. `MergeHolds` gives its events as a set, which is symmetric in the
  copies, and a transcript is determined by its set (`SameTranscript`): hence saves
  commute and may be repeated.
* `NothingMadeUp` – the type invariant, which says that no transcript has an event that
  was not said.

Sorting and picking need no induction over sequences: `Arranged` puts an event at the
place that its rank gives, ranks are an injection into as many numbers and therefore
onto them (`ArrangedLists`).

Every assumption used is a named `ASSUME` on constants that TLC evaluates in the runs.

Only model-checked, because it is out of the prover's reach: liveness under fairness
(`CallReturns`, `Convergence`, `NodeQuiesces`, `StableLeaderServes`, `RunEnds`,
`ConnectionsEnd`, `CallsEnd`).

## 5. Not modelled

* Raft itself (external library), the bolt store, the wire format, TLS and signatures,
  password hashing.
* Pairing and credential rotation: `cluster` has the transition tables and the checks of
  a request; the records, and when a pending credential is promoted, are the products'.
  There are no steps here to interleave.
* String parsing and rendering, HTML, redaction, operation contracts and the validation
  of single records: functions of their arguments, whose correctness is not a matter of
  order.
* Left out of otherwise modelled packages: the comparison of CSRF tokens in
  `auth/sessions.go`, commands of `automation` without a session file or with the bearer
  token of `--token-file`, the switch of the second factor in `auth/model.go`, the local
  executor of `client`, the node-local values of
  `Node.SetLocal`, search and line endings of `editor`.

## 6. Plan

In order of importance; what is done is described above.

1. Models: two concurrent passes of `Scheduler`.
2. Composition: `Authority` over an abstract `Replication` (routing decisions against
   what the node may commit); `Sessions` over `Accounts`.
3. Abstract specifications: a transport that delivers each response to its caller or
   an error, implemented by `NetTransport`; an atomic file register implemented by
   the editor's saves when they do not overlap.
