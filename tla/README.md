# VPS Tools in TLA+

VPS Tools runs operators' commands on servers. A user asks the API for an
execution; the API stores one row per execution and one per target server;
runners poll the API, claim a target under a lease, run the command over SSH and
report the result. This directory holds TLA+ models of that program, the TLC
runs that check them and the TLAPS proofs about them.

## 1. Inventory

State is in one database (SQLite by default, PostgreSQL in production) unless
said otherwise. Paths are relative to `src/`.

| Component | State | Operations | Interacts with | Hard because | Correct when |
|---|---|---|---|---|---|
| Execution queue (`apps/api/jobs.go`, `queue.go`, `executions.go`, `reconcile_throttle.go`) | `executions`, `execution_targets`, `execution_result_receipts`; the throttle in memory | create, cancel, claim, renew, submit result, reconcile, finalize | runners, scheduler, approvals | leases lapse while they are renewed, claimed, reported or swept; three places decide an execution; handlers of several statements | attempts are bounded, one holder per target, final statuses are final and agree with the targets, recorded successes stay, abandoned work comes back |
| Background sweep and scheduler (`automation.go`) | `automation_schedules`; rows read into memory | every 10 s: run due schedules, reconcile all leases | queue | statements without a transaction; stop between them; LIMIT 20 | no slot is run twice, no due schedule starves; paused means no run |
| Approvals (`runbooks.go`) | `approval_requests` | request, approve, deny, expire | queue | two deciders and the clock; a read on the pool inside a transaction | one decision, one execution per approval, none after expiry |
| Runbooks (`runbooks.go`, `packages/runbooks`) | `runbooks`, `runbook_versions` | create, version, publish, archive, execute | approvals, queue | read, then two updates | what executes is what was published |
| Runners (`runners.go`) | `runners`, `runner_credentials`, `runner_scopes` | register, heartbeat, pause, revoke, rotate | queue | two updates per revocation; heartbeat sets the status | revoked stays revoked |
| Runner worker (`apps/runner`) | the job in hand, retry count | poll, verify signature, renew every 60 s, run, submit up to 3 times | queue, dispatch | answers lost, lease lost while running, failed acknowledgement | a claimed job is run and reported, or its lease lapses |
| Dispatch (`packages/dispatch`, `dispatch.go`) | JetStream stream and durable consumer | publish, next, ack, nak | runner worker | duplicates, redelivery, partial publication | notifications are hints only: claims alone decide |
| Audit chain (`helpers.go`, `audit.go`) | `audit_events` | append, verify, backfill | every handler | read of the latest hash and insert are two statements | one chain per organisation |
| Idempotency (`executions.go`, `runbooks.go`) | `execution_idempotency`, `runbook_idempotency` | record, replay | creation | two requests with one key | one execution per key |
| Artifacts (`packages/artifacts`) | files or S3 objects, `artifact_records` | put, get, verify, migrate | results | store and database are not one transaction | a record's hash is its content's |
| Backup and restore (`cmd/backup`) | a directory with a database and files | create, verify, restore | database, artifacts | several replacements of files | a restore is whole or not at all |
| Servers (`servers.go`, `executions.go`) | `servers`, their tags | create, edit, check, archive, resolve targets | queue | targets, environments and snapshots are read one after another; a check un-archives | what was decided on was true at some moment of the request |
| Authorisation policy (`packages/authz`, `packages/runbooks`) | none | classify, check, needs approval | catalogue, requests, schedules | four paths lead to an execution, each with checks of its own | what needs a review was reviewed |
| Terminal UI (`apps/cli/tui.go`) | screen, lists as last loaded, the press waiting for a second | move, refresh, approve, deny, disable | approvals, schedules | the list changes between the two presses | the second press decides what the first one named |
| Sessions and identity (`auth.go`, `auth_external.go`, `packages/authz`) | `api_tokens`, `sessions` | log in, refresh, revoke | every handler | expiry, revocation | a revoked token is refused |
| Rate limiter (`ratelimit.go`) | buckets in memory | allow | middleware | bounded map | a client gets its rate |
| Tenancy (`tenant_context.go`, `postgres_runtime.go`) | a setting on a pooled connection | bind, clean up | PostgreSQL | connection returned with a tenant's setting | no statement runs as another tenant |
| Job signatures (`packages/jobsign`) | none | sign, verify | claim, worker | expiry is the first lease's | a runner runs only what was signed |

`PROJECT.json` lists these and the parts left out with the reason (clients of
the API, AI provider calls, SSH, configuration, DDL, deployment files), and under
`hazards` what is hard to test, at its line.

## 2. Modules

| Module | What it is |
|---|---|
| `JobStore` | the rows of the two tables and the SQL statements on them, as operators from tables to tables |
| `JobQueue` | the execution queue on SQLite: one action per transaction, or per statement where the code uses none |
| `ExecutionContract` | what the queue promises a requester: no lease, retry, receipt or sweep |
| `JobQueueProperties` | invariants, action properties, the refinement mapping, fairness and liveness |
| `JobQueueInvariant` | the inductive invariant |
| `MCJobQueue` | an instance for TLC |
| `JobQueueProofs`, `JobQueueRefinementProofs` | the theorems, and the refinement of the contract |
| `PostgresQueue` | the same queue on PostgreSQL: the claim and the result are a step per statement |
| `PostgresQueueProperties` | what still holds there, and what does not |
| `MCPostgresQueue` | an instance for TLC |
| `PostgresQueueInvariant`, `PostgresQueueProofs` | the inductive invariant there, and the theorems |
| `Handlers` | what the models below share: a handler under way, and fresh ids |
| `Policy` | roles, risk, the rules of a run, and parameters, as operators |
| `Governance` | catalogue, requests, idempotency keys, approvals and scheduled runs: how work comes to be queued |
| `GovernanceProperties`, `MCGovernance` | what that path promises, and its instances |
| `GovernanceProofs` | the theorems about it |
| `Fleet`, `FleetProperties` | runners, their scopes and credentials; what a revocation promises |
| `Worker`, `WorkerProperties`, `WorkerProofs` | the runner's loop and the notifications; what duplicates and losses may do |
| `Scheduler`, `SchedulerProperties`, `MCScheduler` | the scheduler's cycle in several processes, and the pause switch; an instance |
| `AuditChain` | the hash chain, its writers, the backfill and the verification |
| `Artifacts` | outputs in a directory or a bucket, and moving them |
| `Backup` | backup while the API writes, and restore by four renames |
| `Inventory` | servers, and the targets a request resolves to |
| `Terminal` | the deciding screens of the terminal UI |
| `StoreProofs` | the theorems about `Backup`, `Artifacts` and `AuditChain` |
| `ControlPlaneProofs` | the theorems about `Fleet`, `Scheduler`, `Inventory` and `Terminal` |
| `MCOperations` | one run for the parts that share no state |
| `OperationsProofs` | the theorems carry over to that run |

`Governance` ends where `JobQueue` begins: what its `executions` holds is what
`CreateExecution` inserts. `Worker` sees the queue as the API shows it: its
`Claimable`, `Recorded` and `Reclaim` are the outcomes of `JobQueue`'s `ClaimJob`,
`SubmitResult` and sweep for one target. `Scheduler` decides when a run is due, and
`Governance`'s `ReadScheduled` and `CommitScheduled` are the run.

### How JobQueue corresponds to the code

*Transactions.* On SQLite the write pool has one connection (`database.go:29`,
`:61`). A transaction holds it from begin to commit, so nothing comes between its
statements and it is one action. A statement run on the pool itself is an action
of its own. So

- `CreateExecution` is the transaction of `handleCreateExecution`. The runbook,
  approval and schedule paths insert the same rows in the same way
  (`runbooks.go:566-588`, `:828-870`, `automation.go:361-373`).
- `CancelExecution` and `CancelTargets` are the two UPDATEs of
  `handleCancelExecution`; `cancelling` holds the handlers between them. The
  handler's first SELECT only chooses the answer: the UPDATE checks the status
  again.
- `ClaimJob` is the transaction of `handleClaimJob`: when the throttle says so,
  the whole reconciliation with its finalization, then the claim. A claim that
  finds nothing still commits the reconciliation, as the code does.
- `SubmitResult` is the transaction of `handleSubmitResult`, by its three ways to
  answer 200: from the receipt, with a retry scheduled, or with the target
  completed and perhaps the execution decided.
- `RenewLease` is the one UPDATE of `handleRenewLease`.
- `SweepOrganisations`, `SweepSelect`, `SweepRow` and `SweepFinalize` are the
  statements of `reconcileAllOrganisationLeases`, which passes the pool and not a
  transaction to `reconcileExpiredLeases`. `sweep` is what it holds in memory.
- `Restart` stops the process: `sweep` and `cancelling` are lost. A statement
  that fails, which makes the sweep or the cancellation return, is the same step.
- `LeaseLapses` and `BackoffElapses` are the clock.

*Runners* are the most general clients: any runner may report any outcome under
any lease ever handed out for a target, at any time and any number of times. This
contains crashes, lost answers, retries, late and conflicting results.

*Data.* An instant is what the statements compare it with: a lease has `lapsed`
or not, a retry is `due` or not. A lease id (`shortID`) is a number, new for each
claim of a target. A result is its target, lease, runner and outcome, which stand
for the payload hash. A request answered with a 4xx changes nothing and is a
stutter.

*Left out of JobQueue.* Idempotency keys, timeline and audit rows, and artifacts
(written in the same transactions and read by none of these statements); runners
being paused, revoked or given other scopes (the claim then finds fewer jobs: no
new behaviour for the safety properties; for `QueuedIsDecided` it is the
assumption that some active runner covers the servers); the sweep's loop over
organisations, whose tables do not meet (one organisation is modelled).

*Statuses.* `created` is the column's default and no code writes it, so it is
not a status of the model. `failed` is written to a target only within the
transaction that goes on to write `pending`.

### How PostgresQueue corresponds to the code

`PostgresQueue` extends `JobQueue` and uses the operators of `JobStore`
unchanged: the statements are the same, what may come between them is not.
`conn[c]` is what one connection's transaction is about to do, with the rows it
has written (`rows`, `execs`). Those rows are also the ones it has locked.

- *READ COMMITTED.* `beginAPITx` passes no options, so a SELECT sees the rows
  committed when it starts and its transaction's own (`TargetsSeen`,
  `ExecutionsSeen`); an UPDATE waits for a row another transaction has written
  (`TargetFree`, `ExecutionFree`) and evaluates its WHERE clause on the row as it
  then is (`StillClaimable`, `Holds` in `RecordResult`, the status in
  `DecideExecution`).
- *Claim:* `BeginReconcile`, `ReconcileRow` for each lapsed row,
  `ReconcileFinalize`, `SelectJob`, `TakeJob`, `StartExecution`. A claim that the
  throttle spares the reconciliation starts at `SelectJob`.
- *Result:* `BeginResult`, `RecordResult`, `CountOpen`, `DecideExecution`.
- `Commit` publishes the rows, `Abort` drops them: every error path of the two
  handlers returns through `defer tx.Rollback()`, and the server ends one of two
  transactions that wait for each other.
- Statements are merged into one step where the later ones depend only on rows
  the transaction has locked: the COMMIT with the UPDATE before it, and the
  retry's two UPDATEs, its receipt and its COMMIT. The receipt's primary key
  `(target_id, lease_id)` never refuses an insert, because `RecordResult` locks a
  row that left its lease with the first receipt.
- Statements outside a transaction (`handleCancelExecution`, `handleRenewLease`,
  the background sweep) are those of `JobQueue`, made to wait for the rows they
  write.
- A lease has lapsed or not as for SQLite. PostgreSQL's `now()` is the start of
  the transaction, so a claim may compare with an instant a little past; a lease
  seen as lapsed has lapsed all the same, and one seen as live is left for the
  next poll.

### How the other modules correspond to the code

All of them follow the rule of `JobQueue`: a transaction is one action, a
statement outside one is an action of its own, a request answered with a 4xx
changes nothing, and what a handler has read is kept until it is used. A handler
that fails, whose caller goes away or whose process ends is the step that makes
it `Idle` (`EditorStops`, `CallFails`, `CycleStops`, `WorkerStops`).

- *Governance* (`runbooks.go`, `executions.go`, `automation.go:320-400`). The
  publication is `ReadToPublish`, `MarkRunbook`, `MarkVersion`; an update is
  `ReadToUpdate` and `InsertVersion`. A request is `ReadRun` or `ReadCommand`
  (everything up to the transaction), then `CommitExecution` or `CommitApproval`,
  or `FindKeyTaken` when the insert of its key fails. `writer` is who holds the
  connection while waiting for it: `ApproveTooLate` is the approval whose UPDATE
  found no row and which reads through the pool (`runbooks.go:794`). On SQLite
  that pool has the one connection the transaction holds (`database.go:50-62`),
  so it waits until the caller gives up (`CallerGivesUp`). One runbook of one
  organisation; a command is the set of risk lists it has a word of; the targets'
  environment is part of what is asked for, `Inventory` says how it is read.
- *Policy*. A risk is kept as it was spelled. A definition from YAML has one of
  the four lower-case levels (`Validate`); one from the fields of the JSON form has
  any spelling of them, because `validRisk` lower-cases only for its check
  (`FromFields`). The rules compare with the lower-case levels. One capitalised
  spelling of each level stands for all the others, which are all treated alike.
- *Fleet* (`runners.go`, `auth.go`, the runner's check in `jobs.go`). No handler
  here but the claim uses a transaction, so every statement is an action. Hashed
  tokens are the identity of a credential.
- *Worker* (`apps/runner/main.go`, `dispatch.go`, `packages/dispatch`). One
  action per remote call, with its failure or lost answer as another one
  (`LoopFails`). The stream hands out one message at a time (`MaxAckPending` is 1),
  up to `MaxDeliver` times, and drops a message id it knows. A signature ends with
  the first lease (`TooLate`). Renewals appear by their effect: the lease of a job
  in hand lapses only by a fault.
- *Scheduler* (`automation.go`, `packages/automation`). The cycle is one action
  per statement: due organisations, the pause of each, the batch, then for each
  row the claim and the run. Rows of an organisation that was paused when it was
  looked at are dropped with the SELECT, since the loop passes over them without
  a statement; a run that cannot be created is the same action, since
  the error written to the row is only shown. Several processes may each run
  a cycle.
- *AuditChain* (`helpers.go`, `audit.go`, `packages/audit`). Events written in a
  handler's transaction are one action; `writeAuditEvent` takes the time, reads
  the latest hash and inserts in three.
- *Artifacts* (`packages/artifacts`, `cmd/artifact-migrate`, `jobs.go:428`). An
  object is the number of the write that made it. The bucket is external: a
  request is applied or not and answered or not.
- *Backup* (`cmd/backup`). The database at one instant, then the files one by
  one; a restore as its renames, each of which may fail, and its undoing, which
  may fail too (also the one at `main.go:300`, whose error is dropped). SQLite's log beside a database is modelled as what a later start
  does with it. One backup is published; a second one would be another directory.
- *Inventory* (`servers.go`, `executions.go:400-470`). The SELECTs of a request
  are steps; edits, archiving and the two halves of a check fall between them.
- *Terminal* (`apps/cli/tui.go`). Each key of the deciding screens; the lists may
  change at every load, and the cursor may be on any row.

## 3. Runs

| Run | Specification | Checks | Distinct states |
|---|---|---|---|
| `queue_safety` | `TimedSpec` | the eight invariants, `TerminalIsFinal`, `LiveLeaseIsRespected`, `ImplementsContract`, `AbandonedIsReclaimed`, `QueuedIsDecided` | 56,867 |
| `queue_stranded` | `Spec` | finds `NothingIsStranded` violated | |
| `queue_unfinalized` | `SweepSpec` | finds `SettledIsDecided` violated | |
| `pg_safety` | `PgSpec` | seven invariants, `DecisionStands`, `TakeoverNeedsLapse` | 583,169 |
| `pg_unreported` | `PgSpec` | finds `SuccessIsReported` violated | |
| `pg_cancelled` | `PgSpec` | finds `CancelledWasNeverDispatched` violated | |
| `governance` | `GovernanceSpec` | `CurrentIsNewest`, `OneResourcePerKey`, `ApprovalsAreHonest`, `ReviewsFollowTheRules` | 1,615,833 |
| `governance_draft` | `GovernanceSpec` | finds `OnlyPublishedVersionsRun` violated | |
| `governance_risk` | `GovernanceSpec` | finds `RiskIsReviewed` violated | |
| `scheduler_paused` | `SchedulerSpec` | finds `PausedQueuesNothing` violated | |
| `fleet_revoked` | `FleetSpec` | finds `RevokedClaimsNothing` violated | |
| `operations` | `OperationsSpec` | the types, eight invariants, two action properties and three liveness properties of the parts around the queue | 234,187 |

What they show:

- `DispatchesAreBounded`: a command reaches its server at most `max_attempts`
  times.
- `CancelledWasNeverDispatched`: nothing is claimed between or after the two
  UPDATEs of a cancellation.
- `LeaseIsNewest`: two runners never hold one target.
- `VerdictMatchesTargets`: the last result, a claim's reconciliation and the
  sweep agree on an execution.
- `RecordedSuccessIsKept`: the sweep, whose rows may be old, never takes back a
  target whose success was recorded.
- `AcknowledgedIsRecorded`: a runner that read 200 has its result on record, and
  one lease has one result.
- `DeadLetterIsExhausted`: nothing is given up before its last attempt, also not
  by a sweep that decides on an attempt it read earlier.
- `TerminalIsFinal`, and `LiveLeaseIsRespected`: a lease that has not lapsed is
  taken only by its own result or by a sweep that read it as lapsed. The last
  case is real: a lease renewed between the sweep's two statements is revoked.
- `ImplementsContract`: all of this together, as one abstract machine.
- `AbandonedIsReclaimed`, `QueuedIsDecided`: see *Fairness*.

On PostgreSQL, `pg_safety` shows what the row locks and WHERE clauses carry by
themselves. `DispatchesAreBounded`, `VerdictMatchesTargets`,
`AcknowledgedIsRecorded` and `DeadLetterIsExhausted` hold as on SQLite, and

- `HolderIsNewest`, `TakeoverNeedsLapse`: of two claims that selected one row,
  one takes it, and a lease renewed between a claim's SELECT and its UPDATE is
  not taken over;
- `DecisionStands`: no UPDATE overwrites a decision it waited for;
- `SuccessIsKeptUnlessCancelled`: a success is taken back in no other case.

What no longer holds there: `CancelledWasNeverDispatched` (run `pg_cancelled`),
and with it the parts of `LeaseIsNewest`, `TerminalIsFinal` and
`RecordedSuccessIsKept` that speak of a cancelled execution's targets; and
`LiveLeaseIsRespected`, because the reconciliation of a claim, like the sweep,
may now revoke a lease renewed between its SELECT and its UPDATE.

How work gets into the queue (`governance`):

- `ReviewsFollowTheRules`: a run, a raw command, an approval and a schedule all
  lead to an execution, each past checks of its own. Whichever way it came and
  whatever its runbook became meanwhile, it has the risk of the version that runs;
  a risk the rules recognise was reviewed in production and is never scheduled;
  juniors reach production only by a review, raw commands are for seniors, and a
  runbook that asks for an approval was approved. Schedules are exempt from the
  last: the code never looks at the approval rule there. For a risk in another
  spelling see `governance_risk`.
- `ApprovalsAreHonest`: two deciders, the expiry and new versions may come between
  a request and its decision; an approved request has one execution, with the
  version and environment that were reviewed, and others have none.
- `OneResourcePerKey`: one user's requests with one key that are under way together
  are all answered with one resource, and never with another user's. A second user
  with that key is refused: `docs/api-reference.md:78` scopes a key "to the
  organisation and actor", but its primary key is the organisation and the key
  (`migrate.go:140`). No property states that disagreement.
- `CurrentIsNewest`: an editor that read an old version does not take the current
  one back. That two editors that start from the same version do not both win
  would need a third version in the run; there it rests on `NewestIsCurrent`.

Around the queue (`operations`):

- `RevocationHolds`: once no handler serves a revoked runner and no credential of
  it is left, no rotation, update, heartbeat or registration brings it back. What a
  revocation that is not yet there lets through is `fleet_revoked`.
- `DuplicatesRunNothing`: a command starts again only after a lapse or a recorded
  failure, however often its notification is delivered. `TargetsAreDecided`: with
  every notification lost, given up or followed by a dropped job, polling alone
  decides every target.
- `SlotsMoveOn`: schedulers that read the same rows claim a slot once.
  `PauseHolds`: a pause lets through at most one run of each scheduler, which it
  had already checked; that it lets through any is what `scheduler_paused` shows.
  `DueSchedulesAreClaimed`: a due schedule is claimed in the end, unless its
  organisation is paused or the due schedules of paused ones fill the batch.
- `VerdictHasCause`: an altered event never passes the verification, and an
  unaltered chain fails only by writers that overlapped. On SQLite; altering is
  editing an event, not removing the last ones, and the stamps are distinct.
- `RecordsAreReadable`: over migrations that are stopped, conflict or are repeated,
  every output on record can be read in the store the API was moved to.
- `BackupIsWhole`, `RestoreIsAllOrNothing`: see the module.
- `DecidedOnWhatWas`: the environment and the snapshot of a target were true at
  some moment of the request, though not always the same one. It excludes that
  servers of different environments are decided as one, not that a server is
  moved after it was read.
- `PromptNamesDecision`: the terminal sends only what its last "press again" named.
- `RequestsAreAnswered`: a request is answered in the end, although approvals that
  come too late hold the connection they wait for.

The eight violations are disagreements of the code with its comments and
documents, described under `findings`:

1. *Stranded.* The sweep reads a lapsed row with an attempt left; a runner claims
   it, using the last attempt; the sweep's UPDATE, guarded by `status =
   'running'` only, sets it to pending. It has no attempts left, so no claim and
   no sweep ever sees it, and the execution stays running. `QueuedIsDecided`
   excludes exactly this state (`Stranded`), so that the run shows it is the only
   way an execution hangs while a runner polls.
2. *Unfinalized.* The API stops after the sweep's last dead letter and before its
   finalization. No target is running, so later sweeps skip the organisation; the
   execution is decided only if some runner polls.
3. *Unreported.* On PostgreSQL two transactions record the last two successes at
   once. Each counts the other's target, which is not committed, as running;
   neither decides the execution, both answer 200, and nothing decides it later,
   since a reconciliation only finalizes executions with a failed target.
4. *Cancelled but run.* On PostgreSQL a cancellation commits between a claim's
   SELECT and its UPDATE of the execution. That UPDATE changes no row, which is
   not looked at, and the runner gets a target of a cancelled execution.
5. *Draft run.* An update commits between a publication's SELECT and its first
   UPDATE. The runbook becomes published with the new draft as its current
   version, and the draft is run.
6. *Revoked but claiming.* A heartbeat that authenticated before a revocation sets
   the runner active after it, and a claim that authenticated in time gets a job.
   `RevocationHolds` is what remains true once such handlers are done.
7. *Spelled risk.* A runbook made from fields with the risk "High" passes
   `validRisk`, which ignores case, and is stored as it was spelled. No rule
   compares equal to it: it runs in production without an approval, or on a
   schedule, which the documents say of no high-risk work.
   `ReviewsFollowTheRules` is what remains true.
8. *Queued after a pause.* A scheduler finds the organisation running and claims
   the schedule; a pause is answered; the run is queued all the same. `PauseHolds`
   is what remains true.

### Bounds, and why they are enough

- One execution on two servers, two runners (one with all servers in its scope,
  one with one of them), two attempts. Two targets are what a verdict, a count of
  open targets and a sweep over several rows need; two runners what a takeover
  needs; two attempts put both sides of every comparison with `max_attempts` in
  reach, and an old attempt in the sweep.
- `MaxRenewals = 1` per lease, `MaxRestarts = 1`, `LastSecond = 1`. A second
  renewal revisits the states after the first; a second restart finds tables
  the first one could have left.
- `pg_safety` takes two connections, one execution on two alike servers and one
  runner. Two connections are what any of these races needs; which runner a
  transaction speaks for matters only where two leases of one target are
  compared, and these are told apart by their number. The properties also hold
  with two runners (1.7 million states, too long to be kept as a run). Renewals
  and restarts are not bounded there: they add no variable.
- The SQLite safety properties also hold with `MaxAttempts = 3` (643,000 states)
  and with two executions of one target each (251,000 states), and both liveness
  properties with two executions and one runner (116,000 states), where the order
  by `requested_at` matters; these are not kept as runs. The proofs cover every value.
- `governance`: a junior and a senior who share one idempotency key, two runbook
  definitions (low risk with an approval rule for one environment; high risk with
  none), two editors, two requests under way, two versions, one approval, two
  executions. Two of each handler is what every race named above needs; handlers
  are alike, hence the symmetry. The theorems cover every number.
- `operations`: the parts share no variable, and a product of their states would
  show nothing; `part` chooses which one a behaviour is about, so that the run is
  their sum. Two handlers on one runner; two workers on one target with two
  attempts, two deliveries and two faults; two schedulers on three schedules of
  two organisations, one of them created on the way, a batch of two, one tick and
  one disturbance (a pause, a disabled schedule or a cycle that stops); two loose audit
  writers and two events from before the hashes; two outputs and two writes of
  each; one file and two failing steps; two servers and one request; two approvals
  and a schedule on the terminal.
- The batch is smaller than what can be due, so that the order and the limit decide,
  over both organisations: the two schedules of one, when it is paused, fill the
  batch and crowd out the third, which is the case `DueSchedulesAreClaimed` exempts,
  and a limit of one less breaks the property. `FirstTimes` are the instants a
  request may ask for; `MaxDisturbances` also counts disabled schedules.
- `governance_risk` takes one editor and one version, `scheduler_paused` the
  schedules of `operations`.

### Fairness

- `TimePasses`: leases lapse and backoffs elapse unless something happens first.
- `queue_safety` assumes `TimePasses` and nothing else. Its two liveness properties
  each name what they need beyond it, so that neither leans on the other's:
  `AbandonedIsReclaimed` is `SweepsRun => ...`, whether or not a runner polls, and
  `QueuedIsDecided` is `RunnersPoll => ...`, whether or not a sweep ever runs.
- `SweepsRun`: the sweep goes on. `runEmbeddedScheduler` runs it every ten
  seconds for as long as the API is up, and the API refuses to start with any
  other scheduler (`main.go:67`). Nothing is assumed of runners.
- `RunnersPoll`: runners poll without a target filter, and a claim sooner or
  later begins with a reconciliation. A worker polls every two seconds
  (`apps/runner/main.go:112`; with JetStream, whenever no notification waits, `:138`),
  and the throttle lets one reconciliation through every fifteen seconds. Nothing
  is assumed of results or renewals: every runner may die with its lease.
- `GovernanceFairness`: a request that has read what it needs goes on to its
  transaction. This is strong fairness, because the pool is taken and freed in
  between, and database/sql serves its waiters in order. A caller gives up in the
  end (the SDK's client has a timeout, `client.go:27`); nothing is assumed of
  editors or deciders.
- `WorkerFairness`: each worker's loop goes on (a stopped worker is started
  again), leases lapse by the clock and the sweep runs. Nothing is assumed of
  publication, delivery or the acknowledgement wait.
- `SchedulerFairness`: each process goes on with its cycle and the ticker starts
  the next. Stops are bounded, so that a cycle is not interrupted for ever.
- `OperationsFairness` is these three, for the part that moves.

## 4. Proofs

The theorems hold for any finite or infinite sets of executions, targets and
runners, any scopes, any `MaxAttempts`, and any bounds, from the assumptions
`ConstantsAssumption` (a target has an execution, `max_attempts` is positive),
`EveryExecutionHasTargets` (the handlers refuse an empty selection) and
`BoundsAssumption`.

*The invariant.* None of the safety properties is inductive. `QueueInv` is

- `TypeOK`;
- `TablesOK`: for each target, which statuses and how many leases its execution's
  status allows (`RowInv`), and a failed execution has a dead letter. This is
  what makes a cancellation clean: an execution that was never running has
  targets that were never handed out;
- `ReceiptsOK`: a receipt names a lease that was handed out, at most one result
  per lease, and a recorded success is the one its target ended with;
- `SweepOK`: the attempts the sweep remembers are not ahead of the rows. With it
  a dead letter written from an old row is still justified: attempts only grow
  and never pass the maximum;
- acknowledged results are receipts, and cancellations under way belong to
  cancelled executions.

`TablesOK` is stated of any tables rather than of the variables, because a claim
that reconciles first passes through tables that are never committed: the lemma
about `ReclaimAll` gives the invariant of those, and the lemmas about
`FinalizeReconciled` and `LeasedRow` go on from there. There is one lemma per
statement, one per action, and then `QueueInvariant`; each safety property
follows from `QueueInv` alone.

*Steps.* `DecisionIsFinal` and `LiveLeasesHold` prove the two action properties
from `QueueInv`, action by action. `Refinement` proves the contract: initial
states map to initial states, and for each step separately how statuses
(`StatusMoves`), work (`WorkMoves`) and dispatches (`DispatchMoves`) move.

*Governance.* From `GovernanceAssumption` alone, for any users, roles,
definitions, requests, schedules and handlers. `WellFormed` types the rows and
what handlers hold, and says that what they name exists; the rest builds on it.

- `NewestIsCurrent`: the two claims about numbers are not inductive, since an
  editor inserts a number it read long before. `Numbered` adds that every number
  up to the current one is taken and that no editor holds one more than one beyond
  it: `UNIQUE (runbook_id, version)` then leaves exactly one number that can
  be inserted.
- `KeysNameOneResource`: `KeysAreKept` says that answers are rows of the key tables,
  that a key has one row per kind, and that rows of executions and approvals stay
  with their users.
- `ReviewsFollow`: `ReviewsAreKept` carries the decision from the SELECTs to
  the transaction: whatever a handler holds is `Unreviewed` work that the rules
  allow, or waits to ask. The definition of a version never changes
  (`DefinitionsStay`), so an old decision stays right. `Spellings` are
  the risks a row can hold: the levels and whatever the definitions spell.
- `DecisionsAreHonest`: `ApprovalsAreKept` relates the two tables in both
  directions, and the count follows from `FS_Singleton`.

*PostgreSQL.* `PgInv` (module `PostgresQueueInvariant`) has a part for the
committed tables and a part for each open transaction.

- `PgTablesOK` and `PgReceiptsOK` are what is left of `TablesOK` and `ReceiptsOK`:
  an execution that is cancelled says nothing any more about its targets, which
  is why `VerdictMatchesTargets` survives and `CancelledWasNeverDispatched` does
  not.
- `LocksOK`: no row is written by two transactions.
- `Consistent(k)`: each row that a transaction has written is a job taken over
  (`Taken`) or a lease ended (`Ended`), *of the committed row as it now is*, although
  others commit meanwhile; an execution it has decided has no target that could
  still be claimed; a result that is written and not committed is of a lease still
  held in the committed table.

The argument has three layers. The `...Moves` lemmas say what a change of the
committed tables must satisfy for the open transactions to stay consistent
(`QuietMoves`, `TransactionMoves`, `OneRowMoves`). `Publishes` is the criterion for a
commit: what the connection wrote becomes the table, and by `LocksOK` nobody else
wrote it. One lemma per statement then meets one of the criteria. That a row
cannot come back to life while a claim holds it is what `TakeoversAreLawful`
needs; that an UPDATE compares the status it waited for is what `PgDecisionStands`
needs. Nothing is assumed of the number of connections.

*Fleet.* `FleetInvariant` adds to the types what handlers hold and that they and
the credentials name rows that exist. `LockedOutStep` is the argument: a handler
that still knows a locked out runner is about to look at its status, every other
handler and every credential is about another runner.

*Scheduler.* `SlotsMoveOn` follows from two facts: a slot is added only together
with a `next` beyond the moment of the claim (`NextIsLater`, by division with
remainder in `Division`), and a claim asks whether the row is due, so that `next`
never goes back. `PauseHolds` is not inductive: `RunsUnderPause` adds that a
scheduler between its check and its run has not yet used its one run.

*Inventory.* `ReadsWhatWas` carries from SELECT to SELECT which environment and
which snapshots have been true since the request began; `half` (the statements of
a tag edit or a check under way) names rows that exist.

*Terminal.* `PromptInvariant`: the confirmation in hand is the one on the screen,
also on the form for the reason of a denial, whose row is the one first pressed.

*Worker.* `WorkerInvariant`: no two workers have a job of one attempt and none has
one ahead of the row; an attempt that is over has its excuse; an attempt that a
worker has yet to verify has not started its command. Bounding `runs` by
`excused` alone says nothing about a worker between its claim and its start,
which is why these three are needed. `WorkerTypes` adds that attempts and
deliveries stay within their maximum (`WithinBounds`).

*Backup.* `BackupInvariant`: before a backup is published rows refer to files that
are there, what the copied database refers to is copied or still to be copied, and
no restore has begun. `RestoreInvariant` is about the renames: `Progress` says, for
each step a restore can be at, where the old database and the old directory are
now (in place, or set aside), so that undoing from any step finds them; and that a
log lies beside the database it belongs to, unless the API was killed (`hot`).

*Artifacts.* Three stores and a manifest, written at different times.
`FreshIsClosed` says which sets of them can be up to date together, `RunIsFaithful`
what a run during which the API writes nothing has finished, and `OrderIsKept`,
which holds as long as the documented order is kept (`covered`), that everything
up to date has every record (`Covers`). Only the three together are inductive: a
repeated run with `--force` overwrites what an earlier one copied.

*Audit.* `IsStamped` gives each loose writer a time of its own, `HashesComeFirst`
says which events the backfill still has to reach, and `EventsFollow`, as long as
nothing was altered or written around another, that each hash rests on the last
one before it. The verdict needs both directions: a fold over the chain is
avoided, since each event is compared with its predecessor alone.

*Together.* `PartsAreIndependent`: a behaviour of `OperationsSpec` is a behaviour of
every part, so `OperationsTypes` and `OperationsAreSafe` hold of the very
specification that TLC checks, for every value of its constants.

The assumptions are those named in the modules: `MaxTries` is positive and
`MaxDeliver` at most 20 (`validateJetStreamConfig`), `Interval` is positive and every
schedule has an organisation, the bounds of the models are numbers.

*Only model-checked.*

- Liveness, since fairness and ENABLED are out of the prover's reach:
  `AbandonedIsReclaimed`, `QueuedIsDecided`, `RequestsAreAnswered`,
  `TargetsAreDecided`, `DueSchedulesAreClaimed`.
- The eight violations, which are behaviours and not theorems.

Every invariant and every action property of a passing run is a theorem.

## 5. Not modelled

- *Sessions, tokens, external identity:* one read per request and one UPDATE or
  the clock to end them; the rest is cryptography and an external provider.
- *Rate limiter:* a counter under one mutex, a single atomic step.
- *Tenant connections, row level security:* what a policy lets through is
  PostgreSQL's; the setting is made and dropped around each statement.
- *AI assistant, metrics, configuration, redaction, middleware:* no state that two
  steps share.
- *Schema migrations:* DDL at start; the audit backfill among them is in
  `AuditChain`.
- *SSH and credentials on the runner:* I/O on other hosts; `Worker` has outcomes.
- *CLI commands, web console, SDK, MCP server:* one request per command, partly
  generated code.
- *Loss of a scheduled run* (`automation.go:307`): the code claims first and runs
  afterwards. `CycleStops` is in the model; no document promises the run.
- *Migrating outputs to S3 and back while the API writes:* outputs written after
  the manifest was made are lost to the way back; `RecordsAreReadable` speaks only
  of moves during which nothing was written.

## 6. Plan

1. `Worker` as a refinement of one target of `JobQueue`'s contract, so that the
   two are connected by a theorem and not by inspection.
2. A contract for `PostgresQueue`, weaker than `ExecutionContract` by what a late
   cancellation does, and its refinement from `PgInv`.
3. `Governance` on PostgreSQL: approvals and keys under READ COMMITTED.
4. The loss of a scheduled run as a counted outcome (`automation.go:307`).
