# FutureDiff in TLA+

FutureDiff is a local daemon through which an agent proposes changes to a Git
repository and to external services.  The agent works in a separate working
copy; the daemon seals the result as a patch, verifies it, binds an operator's
approval to a digest of exactly what was reviewed, and only then publishes a
safe local branch and releases the external effects (a GitHub branch, a draft
pull request, a Slack message), leaving receipts in an SQLite ledger.  This
directory models that release path and the machinery around it: the API and
the command line in front, the lock, the restore, the records and the offline
tools of its data root, the adapters, the verification and the containers it
calls, and the earlier design that is kept under `research/`.  TLC checks the
models on small instances; TLAPS proves most of the safety properties for every
instance: of the ledger, of what the service does to it and releases, of API
requests and the guided command line, the daemon lock, restores, diagnosis,
operator records and offline tools, approvals, adapters, containers and both machines of the research branch.

## 1. Inventory

| Component | State it keeps | Operations | What makes it correct |
|---|---|---|---|
| State graph (`internal/domain/state.go`) | none | `CanTransition` | every status change of a transaction follows it |
| Ledger (`internal/ledger/repository.go`, `external_effects.go`, `operations.go`) | the rows of a transaction: status, material revision, approval digest, patch, verification runs, effects and documents, attempts, receipts, materialized ref, lease | one SQL transaction per method, serialised by the connection mutex | an approval never outlives its material; release only after approval; evidence complete and write-once |
| Ledger audit (`ledger/audit.go`) | none | `Audit` | silent about every transaction that is merely being worked on |
| Service (`internal/app/service.go`) | nothing durable of its own | `Create`, `Execute`, `Seal`, `Verify`, `Approve*`, `Commit`, `Recover`, `Abort`, each a sequence of ledger, Git and provider calls | a committed transaction is really out, an aborted one is not, every request returns |
| Effect coordinator (`app/external_effects.go`) | nothing durable of its own | prepare, refresh, preflight, release in rank order, reconcile | dependency order, at most once, nothing forgotten |
| Git staging (`internal/staging/git.go`) | working copy, staged patch, integration worktree, `refs/heads/futurediff/<tx>` | `Create`, `Capture`, `Materialize`, `InspectIntegrationRef`, `Abort`, `SourcePinned` | only the sealed tree is published, once |
| Adapters (`internal/adapters/*`) | the provider's own | `Prepare`, `VerifyFresh`, `Publish`/`Create`/`Post`, `Status` | an ambiguous answer is never taken for a rejection; what was approved is what is joined |
| Verification engine (`internal/verification`) | none | validation, topological run of a contract's checks, outcome | "pass" means that every required check and all it stands on passed |
| Containers (`internal/runtimeoci`) | a copy of the workspace | copy in, run, copy back, evidence | evidence matches what happened to the files |
| HTTP API, idempotency, drain (`internal/api`, `ledger/api_requests.go`, `drain`, `idempotencygc`) | request records, slots, count of mutations | guards, begin, complete, replay, collect, drain | a retried mutation runs once and its answer is replayed; nothing runs unaudited |
| Authorization, capabilities, tenants | policy, grants, used tokens | authorize, delegate, grant, revoke | single use; sharing never delegates administration |
| Hash chains and checkpoints (`ledger/event_chain.go`, `integritycheckpoint`) | chained rows, signed checkpoint and backup | append, adopt, verify, seal | a green verification means an undamaged history |
| Operator audit trail and receipts | one chained file, signed files | append with syncs and a marker, read back | what was answered for is there after a power loss |
| Operator approval and quorum (`internal/operatorapproval`) | keyring, envelopes, bundles | sign, verify, rotate, disable | distinct trusted operators over the present material |
| Daemon lock (`internal/daemonlock`, `cmd/futurediffd`) | lock file, pid file, socket | acquire, inspect, release, clean up | one writer for each data root |
| Durable writes, ledger restore, diagnosis | `ledger.db` with its WAL, backups | write, sync, rename; stage, publish; copy and judge | whole and ours at every instant; verdicts about files that existed together |
| Expiry, pruning, backup catalog | plans, records | plan, apply | only what was planned and is still as planned |
| Guided CLI (`internal/guidedcli`) | the remembered change | every command, several daemon calls with questions in between | nothing is released that the command did not name |
| Research branch (`research/original-design-branch`) | two JSON files; PostgreSQL rows | prepare, approve, commit, compensate, reconcile | what the files and rows say did happen |
| Credentials, egress, repository admission, MCP bridge, assurance and release tools | none shared | checks of one request, translation, reports | see section 6 |

How they interact.  Every HTTP request runs in its own goroutine, passes the
guards of `api.Server` and calls one service operation; requests without an
idempotency key are not serialised.  A service operation alternates ledger
transactions (atomic), Git commands and provider calls, and keeps what it read
in local variables in between.  Commit and Recover take the transaction's
lease, which yields a fencing token; the ledger methods about effects compare
it, provider calls do not.  The agent writes to the working copy at any time.
The daemon can die anywhere; the coordinator's name contains its process id, so
a restarted daemon is another lease owner.  One daemon serves a data root, kept
alone by the flock of `daemon.lock`; offline tools either take that lock
(restore, expiry, catalog, lease cleanup) or do without it (pruning, backup,
diagnosis, receipts).  The guided command line and the daemon share no memory:
what `fdif` read is a call old when it acts on it.

What is hard: the order in which two requests' steps interleave, what was read
before a call and is used after it, a crash between intent, call and receipt,
answers that are lost or late, power lost between a rename and its sync, and
Git or disk failing half-way.  `PROJECT.json` lists these hazards at their
lines.

## 2. Modules

| Module | Models | Checked in |
|---|---|---|
| `TransactionLifecycle` | the state graph, as the abstract specification of a transaction's status | refined by `TransactionLedger` |
| `TransactionLedger` | the rows of one transaction and every ledger method that changes them; any caller may call any method at any time | `MCTransactionLedger`; refined by `TransactionService` |
| `TransactionService` | the requests of the service and the coordinator over the ledger, the repository and the providers; agent, providers, clock and crashes as environment; the audit | `MCTransactionService` |
| `DaemonLock` | the lock's inode and name, pid file and socket; daemons starting, draining and stopping, offline tools, `cleanup-lock` | `MCDataRoot` |
| `LedgerRestore` | backups and restores over the data root's files, with crashes, I/O errors and power loss | `MCDataRoot` |
| `LedgerDiagnosis` | copying and judging the ledger while others write | `MCDataRoot` |
| `LedgerChains` | the chained tables, their adoption and verification, damage, checkpoints | `MCDataRoot` |
| `OperatorRecords` | the audit trail file and the receipts | `MCDataRoot` |
| `Housekeeping` | expiry, pruning and backup catalog beside the daemon | `MCDataRoot` |
| `ApiRequests` | requests from the socket to the answer: guards, keys, capabilities, grants, audit, drain, crashes | `MCFrontDoor` |
| `GuidedCli` | invocations of `fdif` against a daemon and other clients | `MCFrontDoor`, `MCGuidedCli` |
| `ProviderAdapters` | the three adapters against their providers and other users of them | `MCOperations` |
| `SignedApprovals` | keys, envelopes, quorum bundles and what the daemon accepts | `MCOperations` |
| `VerificationEngine` | one run of a verification contract | `MCOperations` |
| `SandboxedExecution` | overlapping commands in containers over one workspace | `MCOperations` |
| `MvpFlow`, `DesignCoordinator` | the research branch's end-to-end flow and its durable coordinator | `MCOperations` |
| `FrontDoor`, `DataRoot`, `Operations` | the ways in, the machines of a data root, and those around a transaction, as instances over one state, with what each promises; the proofs are about these | `MCFrontDoor`, `MCDataRoot`, `MCOperations` |
| `TransactionLedgerProofs`, `TransactionServiceProofs`, `ServiceOutcomeProofs`, `DaemonLockProofs`, `FrontDoorProofs`, `DataRootProofs`, `DataRootToolProofs`, `OperationsProofs` | inductive invariants and theorems | TLAPS |

**Composition.** `TransactionService` composes requests, ledger, repository and
providers in one state.  `DataRoot` puts the daemon lock, restores, diagnosis,
records, hash chains and the tools that throw things away into one state,
`Operations` the adapters, the flow, the coordinator, approvals, containers and
the verification engine, `FrontDoor` the API and the guided command line.  The
machines of one such state have no variable in common.  In `MCDataRoot`,
`MCOperations` and `MCFrontDoor` `machine` picks one for a behaviour and the
others keep their initial values, so that one run explores the sum of their
state spaces and not the product.  Where two of them meet in the program, each carries the other's
effect: the daemon lock is the variable `owner` in `Housekeeping`, the drain
appears in `DaemonLock` and `ApiRequests`, the daemon of `GuidedCli` is reduced
to the conditions `TransactionLedger` has in full, and the adapters' answers in
`TransactionService` are those `ProviderAdapters` derives.

**Ledger.**  Each variable is a table or column (the comments at `VARIABLES`
name them).  A digest is modelled by what it is computed from, since the code
compares digests for equality only.  Timestamps, event rows and attempt rows
are left out: no method's outcome depends on them.  A method's own conditions
are the guard of its action, named `XOK` where a caller acts on the error.
All tables are keyed by transaction and no method reads another transaction's
rows, except the quota on open transactions; one transaction is the whole state.

**Service.**  `req[r]` holds a request's operation, its program counter and its
local variables: the effects as loaded (`rows`), what is left to do (`todo`),
its fencing token, the digest it was given, what reconciliation found (`exists`,
`any`, `all`).  A step ends at every ledger transaction, Git command and
provider call that touches shared state.  Reads that commute with everything
between them share a step.  `Materialize` is two steps: adding the worktree, and
everything from applying the patch to the create-only `update-ref` with the
deferred removal of the worktree.  Trees are model values; `patchFile`,
`workspace`, `intRef` and `patch` say which tree each place holds.  A provider
is `copies[e]`, how often the effect was applied, together with `version` (the
pull request's base) and `taken` (branch names that point elsewhere).

| Fault of the service | Meaning |
|---|---|
| `provider` | a provider call fails before or after it is applied, or is rejected |
| `late` | a call is applied after its sender gave up |
| `server_error` | a call is applied and answered with a status outside 2xx |
| `git`, `ledger` | a Git command or a ledger method fails and changes nothing |
| `crash` | the daemon dies, and restarts with any process id |
| `move`, `change` | the source branch moves; the pull request's base moves or the branch name is taken |
| `expiry` | leases run out and are cleaned up |

**Data root.** A flock belongs to an inode, so `DaemonLock` has `path` (the
inode the name leads to) and the inode each process opened. A ledger's content
is the sequence of its records; `LedgerRestore` keeps the directory operations
that are not synced in `pending`, and a power loss takes back a suffix of them,
last first. The prefix order is an assumption about the file system that the
code's single sync after several changes relies on as well. `LedgerDiagnosis`
lets the caller's promise that nothing writes be wrong. In `LedgerChains` a
digest is its material (no collisions), and damage is done by something that
recomputes no digest; `links` remembers, for each row FutureDiff left, the
digest of the row it left it after. That digest is all a row knows of its
predecessor. `OperatorRecords` splits the trail into lines on disk and lines a
power loss may take, whole or half of one; receipts are not subject to power
loss. `Housekeeping` has plans, then one file operation or ledger write at a
time, with kills in between.

**Front door.**  In `ApiRequests` a service call is an event that happens or
not; grants, which only the API reads, are changed in full.  Token bucket,
maintenance mode and storage guard are refusals that may come at any time.
`GuidedCli` runs each command as a short program of daemon calls; steps that
read nothing others can change in between are merged.

**Operations.** `ProviderAdapters` keeps requests in `flight`; they land at
once, late or never, and strangers move branches and post. `MvpFlow` has two
plainly overwritten files; the history variable `careful` is true while callers
take turns, continue with `ReconcileCommit` and no lookup fails. In
`DesignCoordinator` every store call is one statement, and the calls of several
coordinators interleave freely: `coordinator.Engine` asks for no lease, and no
code puts `postgreslease` or a `LockManager` before it. The lease store is
modelled beside it, on the database's clock. That a coordinator without a valid
lease must not commit, abort or compensate is asked of the callers by the design
document alone (`02-transaction-state-machine.md:411-415`); `held` is until when
each coordinator was told it holds the lease, and the history variable `strayed`,
which guards nothing, is set once a call starts or goes on without one. Each
coordinator has an owner id of its own, makes one call at a time and passes every
effect. `SignedApprovals` models a signature by who made it over what. A check of
`VerificationEngine` is its place in the sorted ids, `Sorted` lists a set of
them upwards (defined here because the prover has no definition of `SortSeq`),
and an executor's answer is a choice. A file of `SandboxedExecution` is who
wrote it last; temporary names are left out.

## 3. Runs

Passing:

| Run | Instance | Shows |
|---|---|---|
| `ledger_methods` | two effects, one depending on the other; any caller | type, `ApprovalCurrent`, `ReleaseGated`, `CommittedHasEvidence`, `EvidenceWriteOnce`, and that the ledger implements the state graph |
| `service_recovery` | branch, pull request, message and reply; one request at a time; two process ids; `provider git ledger crash move change expiry`; three commit or recover attempts | `OutcomeIsHonest` (committed is out, aborted is not, nothing forgotten, the audit silent), `DependencyOrder`, `AtMostOnce`, `VerificationCurrent`: with one request at a time no failure breaks the release |
| `service_authoring` | two requests, an editing agent, three trees, one above the quota | `PublishedUnderApproval` |
| `service_concurrent` | one message, two requests, `expiry move late crash server_error` | `TokenExclusive`, and that every step of the service is a ledger method call or leaves the ledger alone (`LedgerSpec`); section 4 proves the second for every instance |
| `service_liveness` | branch and message, two requests, `provider git move` | `CommitSettles`, `RequestsEnd`, `AbortCompletes` |
| `data_root` | two daemons, a tool, a cleanup; two restores of two backups; a diagnosis of a ledger written three times; two rows per chain and two damages; two recorders, three lines, two faults; two transactions and three backups for the tools | `OneWriter`, `OwnerServes`, `DrainIsComplete`, `HeldLockKept`; `RestoredLedgerIsWhole`, `RestoreAsAsked`; `VerdictIsSound`; `ChainsAreHonest`; `RecordsAreKept`; `HousekeepingIsSafe` |
| `front_door` | two requests of fourteen kinds by four principals, one key, one capability, two faults; two invocations of every command, one target | `AuditedBeforeDone`, `RetriesAreSafe`, `UnsafeNeedsAuthority`; `ReleaseMatchesTarget`, `InterruptedFinishResumes` |
| `operations` | a branch, two drafts and a message; two callers, three calls of the flow; two coordinators; three keys of two operators; every contract of three checks with up to two dependencies; two executions over two paths | `AdapterAnswersAreHonest`, `AdapterPinsHold`; `FilesTellTheTruth`, `CarefulPublishesOnce`; `FinishedIsWhole`, which claims something only while callers keep each call within a lease (the run follows a coordinator up to the first call that does not, `Overlap = FALSE`); `ApprovalsAreSigned`; `VerdictIsEarned`; `EvidenceMatchesFiles` |

Violations, each a disagreement between the code and what the repository says
of it (quoted in `PROJECT.json`, "findings"):

| Run | What TLC finds |
|---|---|
| `abort_crash` | a crash inside an abort leaves `aborting`, which no request accepts |
| `duplicate_release` | Recover beside a running Commit: the effect is applied twice |
| `lock_cleanup_race` | a daemon that opened the lock file before `cleanup-lock` unlinked it locks the removed file; the next daemon locks a new one |
| `blind_view` | a failed listing makes `fdif finish` see no effects, and a local finish publishes those of another client |

Instances to run by hand (`tlc -config X.cfg M`); each is violated and shows a
limit of the code that no passing run claims:

| Configuration (module) | Property | Shows |
|---|---|---|
| `PatchFrozen` (`MCTransactionService`) | `PatchFrozen` | a second `Seal` overwrites the stored patch, then is refused |
| `VerifiedTree` (`MCTransactionService`) | `VerifiedTreeIsSealed` | the checks run on a working copy edited after sealing |
| `VerificationRace` (`MCTransactionService`) | `VerificationCurrent` | an effect prepared while the checks run is not covered by the verification |
| `ServerError` (`MCTransactionService`) | `NoForgottenRelease` | an effect applied and answered with a server error is on record as not released |
| `ManualIntervention` (`MCTransactionService`) | `ManualMeansAbsent` | a failing `git rev-parse` makes recovery give up on a branch that exists |
| `RestoreRepeat` (`MCLedgerRestore`) | `AlreadyRestoredIsExact` | `already_restored` is decided on `ledger.db` alone while its WAL holds more |
| `CoordinatorOverlap` (`MCOperations`) | `FinishedIsWholeAnyway` | two coordinators' calls overlap, which the engine does not prevent: a finished transaction whose effects or ledger say otherwise |

`MCDaemonLock.cfg` and `MCLedgerRestore.cfg` run those two machines alone, and
pass.  `QuotaHolds` (`SandboxedExecution`) and `CheckpointKept` (`LedgerChains`,
with `MaxSeals = 2`) are stated in their modules as promises the code does not
keep.

**Bounds.**  `MaxMaterial` bounds the material revision (seal, one preparation
for each effect, one refresh), `MaxAttempts` the commit and recover requests and
`MaxToken` the leases they take.  Three attempts are enough for a commit that
fails, a recovery that fails or re-arms, and one more commit or recovery that
finishes; `duplicate_release` needs four.  Two concurrent requests give every
pairwise race over the ledger's rows; races that need three are not explored.
Four effects cover each adapter, a chain of three dependencies and an effect
whose identifier sorts before its dependency's.  Two daemons with a tool and a
cleanup are the smallest set in which the lock's race happens; two inodes are
enough where cleanup and start are kept apart, and the race needs no more.  Two
restores let one start on what another left, and two events distinguish a
backup that is behind from one that is ahead.  Three writes let a writer commit,
checkpoint and commit again during a diagnosis.  Two rows per chain have a first
and a next, and two damages can hit two steps of one checkpoint.  Three backups
with `KeepLatest = 1` leave a choice.  Two API requests with one key race; one
collection (`MaxEpoch`) gives the key a second life.  Three checks have every
shape of a graph that a cycle or a blocked chain needs.  That larger instances
show nothing new is not established.  Processes, requests, restores and callers
are interchangeable (`MCSymmetry`, in runs without liveness).  Deadlock is not
checked: a finished transaction, a stopped daemon or a machine at its bounds
may stop.

**What the passing runs leave out**, because the property does not hold with it
and nothing promises that it does: a cleanup that overlaps a start
(`Races = {}`), a daemon that starts while a restore that found no lock goes on
(`RestoreRaces = {}`), an uncertainty marker that cannot be written
(`MarkerFails`), an answer outside 2xx after the call was applied
(`server_error`), a failed `CompleteAPIRequest` (`persist`), a channel busier
than the adapter's window, a coordinator's call outside its lease, a second
keyring command at the same time, a second pruning job, a file system
whose clock gives two writes the same time (`Coarse`), and a backup written over
the file being deleted (`Overlaps`).  The hazards name them, and where a
theorem needs one of these conditions it is a hypothesis of the theorem.

**Fairness.**  `FairSpec` assumes weak fairness of each request's steps: a
request runs in its own goroutine, and each step is enabled until it is taken.
A call to GitHub or Slack ends because the HTTP client has a timeout of 30 s
(`githubdraft/adapter.go:419`, `slackoutbox/adapter.go:279`); a Git subprocess
has none, and that it ends is an assumption.  Nothing is assumed of clients, agents,
providers or of crashes.  `abort_crash` keeps that fairness and still fails.

## 4. Proofs

`TransactionLedgerProofs` proves, for all constants that satisfy the named
assumptions of `TransactionLedger` (dependencies are sets of effects, `None` is
none of the values, the bounds are natural numbers):

- `LedgerTypeCorrect`, `ApprovalNeverStale`, `ReleaseAlwaysGated`,
  `CommitAlwaysEvidenced`: `LedgerSpec => []P` for the four invariants of
  `ledger_methods`;
- `EvidenceNeverReplaced`: `LedgerSpec => EvidenceWriteOnce`;
- `LedgerImplementsLifecycle`: `LedgerSpec => LifecycleSpec`.

The argument is one inductive invariant, `LedgerInv`.  `ReleaseGated` is not
inductive: `BeginCommit` looks at the approval and the status, not at the
verification.  `VerifiedBefore` says that a transaction is ready or beyond only
with a passing run; `ApprovalHeld` says that an approval is always of a patch
and a run, and that a released transaction keeps its approval; the set
`Reached` excludes the states no method reaches (`compensating` has an edge to
`needs_reconciliation` that would break the gate).  Four lemmas treat the methods
in groups (only the status, only one effect's status, an effect's document,
only the lease); `NextInv` has one step per method.

`TransactionServiceProofs` proves of the service, for any requests, operations,
effects, kinds, trees, quotas and faults, with the assumptions above and those
of `TransactionService` (commit order is total, a branch depends on nothing, a
pull request on branches only) and the hypothesis `Nat \ {0} \subseteq Receipt`:

- `ServiceImplementsLedger`: `Spec => LedgerSpec`.  The ledger's theorems, the
  lifecycle among them, therefore hold of the service;
- `ServiceTypeCorrect`: `Spec => []ServiceTypeOK`.

The hypothesis is there because the service records the number of the
application its provider found as the receipt, and nothing bounds how often a
provider applies a call; the instances TLC checks bound it through the faults
instead and have as many receipts as can occur.

A step is a ledger call with allowed arguments only if the request's local
variables hold what its place needs.  `ServiceInv` says so: `LedgerInv`;
`SealedPatch`, that a transaction outside `none`, `active` and an abort has its
patch, which is what makes the digest a verification stores well formed;
`RequestsOK`, with `LocalOK` naming for each place the variables about to be
used; `WorldOK`, the types of the rest.  `StepCallsLedger` has one step per
action.  That the fencing token passed is the lease's own follows from the
method's guard, so nothing about tokens is assumed.

`ServiceOutcomeProofs` proves first, under the same hypothesis:

- `DependenciesFirst`: `Spec => []DependencyOrder`;
- `CommittedMeansReleased`: `Spec => []CommittedIsReleased`.

Both hold under every fault the model has, lost and late answers, server errors,
overlapping requests, expired leases and crashes included, although
`AtMostOnce` and `NoForgottenRelease` do not.  The reason is what `Known` says:
a request goes on only from evidence it has seen (the receipts of the effects
it counts as done, the application behind an answer, the safe branch before it
is recorded), and `StepGrows` shows that no step of anyone takes such evidence
back.  `Evidenced` ties the records to what happened: a receipt to an
application, the recorded ref to the branch, a committed transaction to the
receipts of its effects (`CommittedStaysEvidenced`: no method gives a committed
transaction another effect).

and then the service's other promises, each under the condition it needs:

- `TokensAreExclusive`: `Spec => []TokenExclusive`, whatever overlaps.
  `TokenInv` says that the lease's counter is never behind a token somebody
  holds.  Cleanup deletes the row and with it the counter, but only when no
  request is in progress.
- `AppliedAtMostOnce`, `ReadyIsVerified`, `OutcomesAreHonest`:
  `Spec => []AtMostOnce`, `[]VerificationCurrent` and `[]OutcomeIsHonest` under
  `OneAtATime`: requests of the transaction do not overlap, and a provider
  applies a call while its answer is awaited, if at all, and says so (no `late`,
  no `server_error`).  Crashes, lost answers, Git and ledger failures, moving
  branches, expiring leases and any number of recoveries stay.  `OutcomeInv` is
  `ServiceInv`, `World` (which status of an effect means what at its provider)
  and `Kept` (for each place of a request, what it has read and what is still
  so).  The condition is not superfluous: the properties fail in
  `duplicate_release` and `VerificationRace`, where requests overlap, and in
  `ServerError`.
- `PublishedAsApproved`: `Spec => PublishedUnderApproval`, for overlapping
  requests and all faults, where nobody asks for a recovery.  `PublishInv` says
  that one request at a time is past `BeginCommit` and that the approval stays
  what it was from there until the branch is there.  A recovery beside a
  running commit can take the transaction back to ready under it.

`DaemonLockProofs` proves, for any number of daemons, tools, cleanups and lock
files, from the assumption that the process kinds are disjoint:

- `LockHeldKept`: `Spec => HeldLockKept`, whatever overlaps;
- `LockOneWriter`: `Spec => []OneWriter`, when `Races` does not allow a cleanup
  to overlap a start;
- `DrainComplete`: `Spec => []DrainIsComplete`.

`CleanInv` says who can be where and that a cleanup about to unlink holds the
flock of what the path names; it is inductive whatever overlaps.  `OwnerInv`
adds that whoever is past its flock holds the inode the path names and whoever
is about to flock has it open, which a cleanup that unlinks in between would
break: that is why `OneWriter` needs the condition, and `lock_cleanup_race`
shows that the condition is not superfluous.  `OwnerAlwaysServes`
(`Spec => []OwnerServes`, same condition) adds `ServeInv`: a pid file that is
held against a starting daemon names a process that is still there, and the
files a serving daemon is reached by are its own.  `DrainInv` says that from the end
of the drain on no mutation is active and none is admitted.

`FrontDoorProofs` proves of the API, for any policy, principals, keys and requests:

- `RecordComesFirst`, `AuthorityComesFirst`: `Spec => []AuditedBeforeDone` and
  `Spec => []UnsafeNeedsAuthority`, from `RequestInv`: which guards a request
  holds at each place, and what must have happened for it to be there;
- `KeysRunOnce`: `Spec => []RetriesAreSafe`, as long as a completed answer can be
  stored (`persist` is not among the faults).  `KeyInv` follows a row through its
  life: the request in the mutex owns it, whoever has acted or answered is named
  by it, and `reserved` tells a row that was collected from its successor.

and of the guided command line, for any invocations, changes, targets and other
clients, when the daemon lists a change's effects whenever it answers
(`BlindViews = FALSE`; `blind_view` shows that the condition is needed):

- `ReleasesMatch`: `G!CliSpec => []ReleaseMatchesTarget`.  The file of the current
  change and what is shown to the user may be stale; what counts is that finish
  and publish look at the effects of a change that is verified, and from then on
  no call of anybody changes them (`Frozen`, `CallKeeps`).  `PublishInv` keeps
  what was seen there true until the commit.
- `InterruptedFinishes`: `G!CliSpec => []InterruptedFinishResumes`.  `AuthorTold`
  says of a change only worked on for one target that its effects are a part of
  that target's, and all of them once it is verified; `SeenWhenPreparing` says that a
  finish about to prepare still finds what it saw missing, unless somebody else
  has put the change on their account.  Every place where finish can stop leaves
  `AuthorTold`, so finish given again finds nothing to refuse.

`DataRootProofs` proves, of the machines of `DataRoot`:

- `RestoreKeepsWhole`, `RestoreDoesAsAsked`: `R!Spec => []RestoredLedgerIsWhole`
  and `R!Spec => RestoreAsAsked`, for any number of backups, restores and events,
  with every I/O error, kill and power loss, unless a daemon starts beside a
  restore that found no lock.  `RestoreInv` quantifies over `States`, the
  directories a power loss may bring back.  In each of them every event is in
  the ledger a daemon would open or in a written quarantine (`FilesKept`).
  The code compares counts of events, not events; that is enough because of `Ours`:
  a backup the ledger has recorded is a history of the same home with no event
  the ledger lacks, so one that counts as many has them all.
- `RecordsKept`: `O!RecordsSpec => []RecordsAreKept`, as long as the marker of an
  uncertain append can be written; the code ignores the failure of
  `markUncertain`, and `MarkerFails` is the model's name for it.  `TrailInv`:
  lines are numbered upwards, an answered line is durable, and a line whose fate
  is unknown is the last and has its marker.  `ReceiptInv`: every whole
  receipt was answered for once, and its place in the chain is no later than that
  of its answer, which leaves one way to order them.
- `DiagnosesSoundly`: `D!DiagnosisSpec => []VerdictIsSound`, for any number of
  writes between the steps of a diagnosis, when the clock of the file system tells
  two writes apart.  The two files are copied one after the other and hashed each
  on its own; what makes the verdict sound is the comparison of times at the end.
  `SeenFirst` and `CopiedLater` say why: every write carries a new time, so a file
  or a copy that bears the first look's time is what was there at the first look.

`DataRootToolProofs`, which extends it, proves:

- `ToolsAreCareful`: `K!HousekeepingSpec => []HousekeepingIsSafe`, when nobody
  writes a backup over a file being deleted.  `ExpireWorks`: under the lock a
  transaction stays what expiry found it to be.  `PruneWorks`: pruning needs no lock,
  because what is over stays over.  `CatalogWorks`: whatever is left of a plan, the
  backups after each of its members that are in neither the plan nor gone number
  `KeepLatest`, because the newest of those that outlive a candidate are none
  themselves (`NewestMany`); so it does not matter where the tool dies.
- `ChainsStayHonest`: `H!ChainsSpec => []ChainsAreHonest`, for any chains, any
  number of rows, checkpoints, openings and damages, to the ledger and to the
  backup; also for the access chain, whose head a checkpoint does not compare (audit
  alone verifies it) and which the run leaves out.  Two facts carry it.  A digest is computed by FutureDiff alone, so every
  digest that is stored, in a row or as a row's predecessor, is that of a row in
  `links` or blank (`Held`); and `links` is closed: what a row was left after is
  there too (`Rooted`).  In a chain that verifies each row's digest is its own, so
  each is one of these (`ValidIsHistory`).  A numbered chain goes on after a row whose
  digest was blanked, and the row that follows claims to be the first one
  (`Astray`); were the blanked row dropped then, only the check for gaps would tell
  (`ValidIsStraight`).  A head is one digest, but it covers its
  predecessor's, so a chain that ends with it is determined by it from the first row
  on: a signed head vouches for the rows before it (`Vouched`), whatever was done
  to the backup between the steps of Create or afterwards.

`OperationsProofs` proves, of the machines of `Operations`:

- `FinishedWhole`: `C!CoordinatorSpec => []FinishedIsWhole`.  The specification lets
  calls interleave freely; what the design document asks of callers is a condition
  inside the property (`~strayed`), so the theorem says what that rule buys and
  nothing of callers that break it.  What has to be shown under it is that two
  coordinators who each act only on what they were told never overlap: no claim
  takes over a lease still running, and a release or the clock leaves `held` and the
  lease in step (`LeaseKnown`), so calls in progress belong to one owner
  (`CallsLeased`).  The rest is the order of the writes: the methods neither start
  from a finished state nor finish a transaction before its effects
  (`MethodsKnown`), also when a failed call is taken up by another coordinator.
- `ApprovalsSigned`: `S!ApprovalsSpec => []ApprovalsAreSigned`, with one keyring
  command at a time.
- `EvidenceHolds`: `X!SandboxSpec => []EvidenceMatchesFiles`, for overlapping
  executions over any paths.  Runs at work together know that they share the
  workspace (`SharingKnown`), and a run that does not is what changes it.
- `AdaptersAnswerHonestly`, `PinsAreHeld`: `AdapterSpec =>
  []AdapterAnswersAreHonest` and `[]AdapterPinsHold`.  `AdapterBounds`
  asks for at most one branch effect (two would push the same name), for
  distinct marks, and that a gateway that fails has not done the work.
  The argument has three parts: what was not sent did nothing and what was sent
  is answered once (`RequestsOnce`); what `Status` finds of an effect is its own
  doing, whatever strangers do (`TracesAreOwn`); and from the last look at a
  draft's commits on, either its branches are where they were or it counts as
  drifted (`PinsWatched`).
- `FilesToldTruly`, `CarefulOnce`: `F!FlowSpec => []FilesTellTheTruth` and
  `F!FlowSpec => []CarefulPublishesOnce`.  Each write of a file follows what it
  reports, and only compensation takes anything back (`TruthLasts`), so callers
  may overlap and stop anywhere.  `OnceInv`: as long as callers are careful, one
  is at work, and it knows what was published from the record or by looking.
- `VerdictsAreEarned`: `V!EngineSpec => []VerdictIsEarned`, for any number of checks
  and any contract.  `EngineInv`: the order so far names each check once, after all
  it depends on (`OrderedOnce`), and what ran had each of these pass before it
  (`RanAfter`).  A loop of dependencies would have a member that is first in the
  order, with a dependency before it (`OrderedIsAcyclic`); and the checks that
  passed before a check are closed under dependencies, so they include all it
  stands on, through any number of others (`AncestorsPassed`).  That `Sorted`
  exists for any set of checks is shown without induction: an element's place is the
  number of smaller ones.

The theorems about `FrontDoor`, `DataRoot` and `Operations` speak of one
machine's specification over its own variables; `MCFrontDoor`, `MCDataRoot` and
`MCOperations` run the same machines side by side. Hypotheses about constants
are named in the proof modules (`CliBounds`, `RestoreBounds`, `RecordBounds`,
`DiagnosisBounds`, `ToolBounds`, `ChainBounds`, `CoordinatorBounds`,
`ApprovalBounds`, `SandboxBounds`, `AdapterBounds`, `FlowBounds`,
`VerdictBounds`); the instances of the runs satisfy them.

Every safety property of the passing runs is proved.  Only model-checked are the
liveness properties `CommitSettles`, `RequestsEnd` and `AbortCompletes`, since
fairness and `ENABLED` are outside what the prover supports, and that the
conditions of the conditional theorems are needed, which the violations of section
3 show on an instance.

## 5. Plan

Done: every module of section 2, and the proofs of section 4.  Left, in this
order:

1. The ledger's chained event rows inside the transactions that write them, so
   that `LedgerChains` and `TransactionLedger` share state.
2. Quotas over several transactions, token buckets, maintenance mode.

## 6. Not modelled

Credential broker and egress policy check one request against one binding and
keep nothing; repository admission is a conjunction of independent conditions
on what Git answers once; the MCP bridge translates calls without state;
assurance and release tools and the research branch's benchmarks and probes
read files and report.  In modelled components: presentation, doctor and demo
of the command line, the runtime's own command line, the policy files'
syntax, sanitising of audit metadata, the limits a retention policy puts on a
plan, and the audit findings about owners and grants.  HTTP, JSON and Git
plumbing appear only through their outcomes.  `PROJECT.json` gives each
component's status.
