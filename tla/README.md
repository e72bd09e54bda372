# A verification project for djogi

djogi is a Postgres-native data engine in Rust: typed models and queries,
transactions, an outbox, event subscriptions, schema migrations and their command
line. Most of its code turns typed descriptions into SQL text and is sequential.
What is hard is at the seams: what a Rust value believes about a database session,
what a crash leaves in a table, and what two processes do to the same rows. This
project models those seams in TLA+, checks the models with TLC on small instances and
proves with TLAPS what the safety of each of them rests on, for every instance.

Paths below are relative to `src/djogi/src/` unless they start with `djogi-cli/` or
`docs/`.

## 1. Inventory

| Part | State it keeps | Operations | Talks to |
|---|---|---|---|
| `atomic()` (`transaction.rs`, `context/mod.rs`) | `DjogiContext`: connection, auth, `applied_tenant_id`, `on_commit` queue, savepoint depth, poison flag | top-level and nested `atomic`, commit, rollback, drain, guards' `Drop`, `retry_on_conflict` | pool, session, every caller |
| Connection pool (`pg/pool.rs`, `pg/connection.rs`) | idle connections with whatever their sessions hold | checkout, give back, detach | `atomic()`, outbox, runner |
| Auth and tenants (`auth/context_ext.rs`) | the GUC `app.tenant_id` and the cache of it | `set_auth`, `set_tenant`, `ensure_tenant_set` | `atomic()`, row-level security |
| Outbox (`outbox/`, `bin/djogi-outbox-relay.rs`) | the outbox table: state, `retry_count`, `leased_until` | `emit_event`, `claim_pending`, `mark_published`, `mark_failed`, `recover_stale`, the relay loop | publishers, `atomic()` |
| Subscriptions (`notify.rs`) | a registry of weak listeners, a `Sender` per channel, a failed flag | `subscribe`, the watcher task, its exit guard, `recv` | LISTEN/NOTIFY |
| Migration runner (`migrate/runner.rs`, `ledger.rs`, `repair.rs`, `djogi-cli/src/migrations.rs`) | the ledger row of a version, the advisory lock of a bucket, the schema itself, a snapshot file | apply, fake apply, baseline, rollback, resume, repair, cleanup | pinned connections, workspace guard |
| Live migrations (`live_migrate/`) | plan rows: status, step, claim, rows done | daemon poll, claim, backfill chunks, gates, operator commands | advisory locks, `atomic()` |
| Planning (`migrate/compose.rs`, `diff.rs`, `segment.rs`, ...) | none | pure functions from two schemas to a plan | files, runner |
| Queries, expressions, relations, types | none | SQL text and binds, decoding | pool |
| Macros, CLI, shell, test support | none of their own | code generation, argument parsing | the above |

`PROJECT.json` lists all of them with their files, and for each one what is modelled.

### What makes each part correct, and what makes that hard

* **Transactions.** What a scope that failed did is never committed; callbacks run
  after the commit of what they are about; the tracker of the context agrees with
  the session; a connection goes back clean or not at all. Futures may be dropped at
  every await, so *every* statement may have been executed without the program
  knowing; savepoints pile up; the server restores settings behind the cache.
* **Outbox.** At-least-once delivery, with outcomes that are final. Leases expire
  under workers that are merely slow, two kinds of workers share a table, a
  decision is taken on a value read one statement earlier.
* **Subscriptions.** One live listener per pool, no receiver left on a dead one, no
  event lost without a word. The registry holds weak references, and three locks
  are taken one after the other by tasks that race with the listener's death.
* **Runner.** The ledger row must be a sound basis for recovery. Statements that
  cannot run in a transaction commit one by one, between two ledger writes; hosts
  share a database, and not everything that touches the row takes the lock.
* **Live migrations.** The steps of a plan must finish in order and a complete plan
  be complete, while an operator's commands, a rerun from the first step, daemons
  that resume a backfill, and crashes all write one row, and no write to the row
  asks what it replaces. Chunks of two loops take the same rows.

## 2. The modules

| Module | Models | Checked by | Proofs |
|---|---|---|---|
| `Atomic` | `atomic()`, its pool and the tenant cache | `MCAtomic` | `AtomicProofs`, `AtomicScopeProofs` |
| `AtomicPromise` | what `atomic()` promises: operations land together or are undone, callbacks follow | refined by `Atomic` | the refinement, in `AtomicScopeProofs` |
| `Outbox` | the outbox table, workers and relays | `MCOutbox` | `OutboxProofs` |
| `OutboxPromise` | the queue an outbox is: in once, out once for all | refined by `Outbox` | the refinement, in `OutboxProofs` |
| `Notify` | registry, listeners, watchers, receivers | `MCNotify` | `NotifyProofs`, `NotifyStreamProofs` |
| `NotifyPromise` | what a subscription promises: a channel's events in commit order, gaps announced | refined by `Notify` | the refinement, in `NotifyStreamProofs` |
| `Runner` | the versions of one bucket, their ledger rows and the bucket's lock | `MCRunner` | `RunnerProofs` |
| `RunnerPromise` | what a ledger promises: the schema changes in order, under a row that says so | refined by `Runner` | the refinement, in `RunnerProofs` |
| `LiveMigrate` | one live plan: operator, executor, backfill, daemons | `MCLiveMigrate` | `LiveProofs`, `LiveProgressProofs` |
| `LivePromise` | what the row of a plan promises: steps over finished ones, rows in chunks, a status that is true | refined by `LiveMigrate` | the refinement, in `LiveProgressProofs` |
| `LivePatterns` | the plans djogi emits, as sequences of step kinds | plans of `MCLiveMigrate` | `LiveProofs` |

The modules do not compose: the parts meet in Postgres, and each module carries the
few session or table rules it rests on (`Release`, `RollbackTo`, `Locked`, `Strong`).
`Outbox` uses of `atomic()` only what `AtomicPromise` states: a relay's batch is one
transaction that lands or does not.

### Atomic

`sess[c]` is what the Postgres session of connection slot `c` holds: transaction
state, writes, the tenant GUC, a stack of savepoints. `ctx[t]` is what the
`DjogiContext` of task `t` believes: its connection, auth, `applied`
(`applied_tenant_id`), the callback `queue`, one frame per nested scope (what
`run_nested_savepoint_atomic` snapshots), `poisoned`. `call[t]` is where
`retry_on_conflict` is. `landed`, `fired` and `undone` are history: what was
committed, whose callback ran, what belongs to a scope that did not return `Ok`.

| Action | Code |
|---|---|
| `Begin`, `BeginFails` | checkout and `BEGIN` in `run_pool_context_atomic` |
| `Commit`, `CommitPoisoned`, `CommitRefused`, `CommitLost` | `commit_in_place` and the ways it ends |
| `Drain`, `Return` | `drain_on_commit`, one callback at a time; `TopLevelAtomicGuard` disarmed |
| `ClosureFails`, `Cancel`, `ConnDies` | an error or panic, a dropped future, a lost session |
| `SetAuth`, `SetTenant`, `Create`, `CreateFails`, `AbandonTenant` | what a closure does |
| `NestedEnter`, `NestedEnterCancel`, `NestedRefused`, `NestedOk`, `NestedReleaseFails`, `NestedFails`, `NestedCancel` | `run_nested_savepoint_atomic` and `NestedAtomicCancellationGuard` |

An action is everything between two points at which the program can be interrupted
visibly. Two constants say what closures may do: `Swallow` lets one return `Ok`
after a refused statement, `AbandonStmt` lets one drop the future of a query
(`atomic_pool` allows it too: no abandoned statement reaches the next user of a connection).

### Outbox

`row` is the committed table, `tx[w]` what a relay's open transaction has changed, `work[w]`
the worker's place in its batch, with `read`, the `retry_count` that `mark_failed` selected
and `age`, the ticks since its claim. `leased_until` is kept as the time that is left of it,
in ticks, so that no clock needs a bound. `age` is what a relay's `now()`, the start of its
transaction, lags behind; it stops (`MaxAge`) where no lease and no delay tells ages apart.
Workers in `Relays` run a batch in one transaction (the relay binary); the others commit
statement by statement. `accepted` and `refused` record what the publisher said.

### Notify

Each critical section of the two mutexes, each access to the failed flag and each
await of `subscribe` is a step. `slot` is the registry's weak reference; `Strong`
says whether upgrading it would succeed, by looking at who holds an `Arc`. A
listener's `phase` shows the two steps of `WatcherExitGuard::drop` (`cleared`, then
`failed`), between which a `subscribe` can slip. Receivers carry their broadcast
buffer and, as history, what they have seen.

### Runner

`plans` holds the migrations of a bucket in version order, each a sequence of units: a
transactional segment, or one statement of a non-transactional one. `ledger[v]` is the
row of version `v` (`claim` stands for the in-flight claim in `partial_apply_note`,
`late` for `out_of_order_flag`), `effect[v]` the units whose changes are in the schema,
`lock` the session that holds the bucket's advisory lock, `run[h]` the command host `h`
is in: where its walk is, the ledger id it writes to, the steps it has counted. Writes
`WHERE id = ..` and writes `WHERE version = ..` are told apart (`UpdateById`,
`UpdateByVersion`), because a row can be deleted and inserted again under a command.
`rerun` is history: the versions whose row the CLI deleted over changes or under a
command, after which nobody's bookkeeping can know what the schema holds. Hosts in
`Strict` refuse a version older than an applied one (`HigherApplied`), the others flag it.

| Action | Code |
|---|---|
| `Command`, `CliApply`, `CliDelete` | library entry points; the CLI's look at the ledger and its cleanup |
| `Lock`, `GiveUp`, `Unlock`, `Stop` | the advisory lock, its bounded retry, its release, the end of the session |
| `Refuse`, `BeginApply`, `RunTx`, `FailTx`, `Claim`, `Exec`, `FailExec`, `Ack`, `Finish` | `apply_plan_inner`, `run_*_segment`; the last five also `repair_resume_body` |
| `BeginResume`, `Resolve` | `repair_resume_partial_apply`, `repair_partial_apply` |
| `BeginDown`, `DownNonTx`, `DownTx`, `FailDown`, `MarkRolledBack` | `rollback_handle_lock`, `rollback_inner` |

A failed statement leaves no trace in `effect`, and every unit can be undone: an
empty `down` is a lossy rollback, which the operator has to allow. An operator who
resolves a partial apply has done what the resolution asserts.

### LiveMigrate

`plan` is the plan file as its step kinds, `todo` the rows the backfill's predicate still
matches, `applied` the DDL steps that have committed, `row` the plan's row in
`djogi_live_plans`, `lock` the daemons' advisory lock, `proc[p]` what a terminal or a
daemon is doing: the step it works on, its own count of rows, the rows its open chunk
has updated. `fresh` is a `last_progress_at` younger than the stale threshold, `cut` that a
daemon has lost the session of its lock.

| Action | Code |
|---|---|
| `Walk`, `AskAbandon`, `Abandon` | `live run`, `resume`, `finalize`, `abandon` in `djogi-cli/src/live.rs`: a status is read, the work or the write follows |
| `Point`, `Ddl`, `BadStep`, `Compatibility`, `Gate`, `Fail`, `Stamp`, `Finish` | `run_plan` and `execute_step` in `live_migrate/executor.rs`; `BadStep` is a DDL step, a gate's status or the entry of a backfill that fails |
| `EnterLoop`, `Chunk`, `Commit`, `BadChunk` | `drive_chunks` and `run_one_chunk` in `live_migrate/backfill.rs`: a chunk's UPDATE, then its commit with count and status |
| `Poll`, `TryLock`, `Claim`, `ClearClaim`, `Unlock` | `read_candidates` and `drive_candidate` in `live_migrate/daemon.rs` |
| `BadPoll` | the same when a statement of the daemon's own fails, or its plan file cannot be read: it logs and moves on |
| `LoseLock` | the pinned session of `drive_candidate` drops: the server frees the lock, while the chunks go on over the pool |
| `Age`, `Crash` | the stale threshold passes; a process dies and leaves its claim |

Of the predicate of a backfill the model assumes what `backfill.rs:40-48` demands of the
pattern that emits it: a row that a chunk has updated leaves it for good (`Commit`: `todo' =
todo \ pick`). `ValidatingIsDrained`, `ProgressHonest`, `StuckOnlyAtMultiple`, `BackfillEnds`
and the theorems about them, `Shortens` among them, rest on that. The predicate of
`live_migrate/patterns/replacement_column.rs:120` keeps it for rows whose legacy value is not
NULL only: `SET new = old::type WHERE new IS NULL` matches a row with a NULL for ever, so that
a plan with fewer of them than a chunk holds is 'validating' with rows that match, and one
with more is never promoted. None of the above is said of such a table.

`LivePatterns` has the step kinds that each single pattern of `live_migrate/patterns/` emits.
Plans of several patterns are composed nowhere yet, and not modelled.

## 3. The runs

| Run | Question | Result |
|---|---|---|
| `atomic_scopes` | Is what failed ever committed, and do tracker, GUC and rows agree, for all shapes of nested scopes? | holds |
| `atomic_pool` | Do calls that share a connection leave anything to each other? Are retries right? Does it implement `AtomicPromise`? | holds |
| `atomic_swallowed_error` | `CallbackAfterCommit` when a closure ignores an error | **violated** |
| `atomic_abandoned_statement` | `RowTenant` when a closure drops a query | **violated** |
| `outbox_table` | Relay and bare worker on one table: are outcomes final and failures justified, does a worker keep its rows for lease and grace window? | holds |
| `outbox_relays` | Two relays: disjoint batches, retry budget, every event settled | holds |
| `outbox_mark_failed_window` | The claim that nobody takes the row inside `mark_failed` | **violated** |
| `notify` | Races over the registry slot; events, lag, termination; whether `subscribe` returns; does it implement `NotifyPromise`? | holds |
| `live_plan` | Do steps finish in order, is progress honest, do daemons keep apart and finish a backfill, under crashes, lost sessions, failed statements, reruns and abandonment? Does it implement `LivePromise`? | holds |
| `runner_recovery` | Is the ledger a sound basis for recovery, under crashes, other hosts and other versions? Does each command come to its end? Does it implement `RunnerPromise`? | holds |
| `runner_resume_skips_tx` | "Every segment ran successfully" after a resume | **violated** |
| `runner_cleanup_race` | The cleanup meets failed and rolled-back rows only | **violated** |

Each property has a mutant in `PROJECT.json`: a plausible bug in one definition that
makes TLC refute the property in the same run.

### What the violations show

* A closure that returns `Ok` after a statement failed makes `COMMIT` roll back, and
  Postgres answers without an error. `commit_in_place` takes that for a commit and
  runs the callbacks.
* A query future dropped while its `SET LOCAL app.tenant_id` is on the wire leaves
  `applied_tenant_id` behind the server. Going back to the earlier tenant then sends
  nothing, and the row is written under the other tenant.
* `mark_failed` reads and writes in two statements and does not say whose row it
  means. With the lease over, `recover_stale` and a second worker fit in between.
* `repair_resume_partial_apply` replays the non-transactional statements and marks
  the version applied, also when a transactional segment failed or was never reached.
* The CLI reads a row's status before it takes the lock, and deletes by version
  later. Another host may have brought the row to applied by then: the ledger loses
  the version, and it is run again.

### Disagreements and limits that no run is about

The models have these behaviours, where they are not said to be outside; no property is
stated about them.

Outbox and runner:

* The relay's comment at `bin/djogi-outbox-relay.rs:115-116` says that a crash leaves rows
  in 'processing', but the claim is part of the transaction that the crash rolls back
  (theorem `RelaysLeaveNoClaim`).
* `docs/spec/migrations.md:156` says that a failed version stays occupied until repair
  resolves it, but the CLI's apply deletes a failed row and starts over.
* `migrate/repair.rs:1120` names `failed` as the status that can be resumed, the code takes
  `pending` as well.
* A rollback that fails after its first statements leaves the row `applied` over half a
  schema, so that a retry is admitted although the documentation of `rollback_plan`
  expects it to be refused.
* Resume and repair make no out-of-order check and set no flag: a failed older version
  becomes applied after a newer one without a word. Apply sees applied versions only, so
  that a newer version may be applied over a failed or pending older one.
* `mark_applied` does not look at the number of rows it changed. After the cleanup race
  above, the snapshot file moves on without a ledger row (comment at
  `migrate/runner.rs:1704-1713`).

Live migrations:

* No write to the plan's row looks at the status it replaces (`live_migrate/state.rs:483`),
  so work that began before `live abandon` writes its own status over 'abandoned', which
  `state.rs:101-103` calls terminal. `EndedIsLeftAlone` states what does hold: nobody
  *begins* to work on a plan that has ended.
* After an operator gate the only command that accepts the plan is `abandon`, while the
  message at `djogi-cli/src/live.rs:775` says to resume with `djogi live run`. Nothing writes
  the statuses `running`, `paused` and `finalizing`, so that `live finalize` is never accepted
  and a plan that is still 'pending' fails at its backfill, whose comment
  (`live_migrate/backfill.rs:321-323`) expects the CLI to have promoted it.
* A table whose rows are an exact multiple of the chunk size ends with an empty chunk, which
  is reported as a stuck predicate (`backfill.rs:482`); `StuckOnlyAtMultiple` says that a
  loop alone on its table has no other way to get there.
* A dead daemon's claim is never taken over (`daemon.rs:52-54`); `BackfillEnds` excepts it.
* The advisory lock does not keep daemons from driving one plan at once. It is held by the
  pinned session (`daemon.rs:492`), the chunks run on other connections (`daemon.rs:540-544`,
  `669`), and nobody looks at the lock again: when its session drops, the daemon drives on. A
  second daemon that read its candidates before the first one's claim then gets the lock, and
  the claim's UPDATE does not look at the claim it replaces (`daemon.rs:771-773` says that
  claims cannot stomp each other). `OneDaemonDrives` states what is left: of the daemons that
  drive at once all but one have lost their session, and that one has the lock and the claim,
  which the others can neither take nor clear, because claims are written through the lost
  session only. What the two do to rows and statuses is in the run and in the proofs like the
  overlap of a daemon with a terminal: order, drained tables and the promise survive it, the
  count of rows may not (`ProgressHonest` is about loops that have not overlapped).
* A crash between the commit of a DDL step and the next write of the pointer makes `resume`
  run the step again; an ADD COLUMN then fails and the plan with it, terminally, although
  `executor.rs:127-131` calls that rerun safe.
* The first step of the index patterns is CREATE INDEX CONCURRENTLY, and `execute_ddl_step`
  runs a step in a transaction, where Postgres refuses it. The model has it as a DDL step
  that fails (`BadStep`).

### Bounds, and why they are enough

* `Atomic`: two nesting levels and two savepoints (a scope, one inside it, and one
  left behind by a dropped one); two tenants for what a tenant cache can confuse;
  two attempts, as retries are alike; one connection for two calls, so that what one
  leaves the other finds. Depth and sharing are checked in separate runs: a task
  sees another only through the connection it takes over, and `PoolClean`, which is
  proved for all bounds, says that this one is always fresh. The two calls are alike, so
  the run uses them as a symmetry set (none of its properties is a liveness property).
* `Outbox`: two rows, a batch of two, two workers, one retry, a lease and a threshold
  of one tick. One retry reaches both sides of the budget, two rows reach a batch
  that is half done; a third worker only repeats the second one's part.
* `Notify`: two subscribers, which race for the slot and of which one can be left behind;
  one channel, as channels meet only in the slot; two listeners, as it takes one that
  failed and its replacement; one death; a buffer of one, which two events overflow.
  That more of any of these adds nothing is what `NotifyProofs` shows for safety.
* `Runner`: two hosts, one of them strict, and one of two buckets. One version with a
  transactional unit, two statements and a transactional unit has every kind of boundary;
  it gets three ledger rows (the first, one that replaces it, one after that) and two
  crashes, so that a crash can hit the recovery from the first. Two versions, the older a
  statement and a transactional unit, the newer one unit, get two rows and one crash, which
  lets the older fail and come back after the newer.
* `LiveMigrate`: one terminal and two daemons; tables of up to three rows in chunks of two
  (empty, exact multiple, one more than a chunk, of which a crash between two chunks leaves
  a short one); two commands, so that a rerun meets what the first run left; two faults
  (crashes, lost sessions, failed statements), so that a second daemon can take over from
  one that lost its session and meet a fault of its own. Four plans: the pattern with every
  kind of step before its first gate, one that ends at a gate and has another behind it, one
  without a gate, which can complete, and one that begins with a cutover. Each plan is run
  over the tables that tell it something new (`Instances`), the three rows over the one that
  can complete. Of the tables of one size the run takes one (`MCSpec`): rows differ by their
  names only, and unlike a symmetry set this is sound for liveness too.
* The violation runs have one crash, as they need only one; two ledger rows where one
  replaces the other.

### Fairness

Liveness is checked for the outbox, for subscriptions, for the commands of the runner and
for backfills. Weak fairness is put on what a program does by itself: a worker's loop, a
task that the executor can run, the statements of a command, time. It is never put on what a
caller chooses, on crashes or on failures. That the relay loops for ever follows from its
`loop`; a daemon's loop polls at every interval, and time passes, so that progress grows
stale (of a terminal's commands only the open transaction of a chunk must end, since its row
locks would hold up the daemons' chunks; between transactions a command may stand still);
that a statement ends is the assumption of every program over a database; `GiveUp` is fair
because `acquire_advisory_lock` counts its attempts. `EventuallySettled` also needs that
aborts are finitely many (`MaxAborts`): a relay that crashes in each batch settles nothing.

## 4. What is proved

Each theorem holds for any value of the constants: any number of tasks, workers,
listeners, hosts or daemons, any plans, any bounds. The assumptions are the named
`ASSUME`s of the modules (bounds are numbers, null values are none of the real ones) and,
where a theorem has one of its own, the one it states. In every module one
inductive invariant carries the rest, with a second on top of it where some theorems need
more; TLC checked them on the small instances before they were proved.

### Atomic

`TypeCorrect` (`TypeOK`), `PoolStaysClean` (`PoolClean`: no session with a transaction, a
tenant or a savepoint in it is ever handed out by the pool) and `Inductive`, the invariant
`IInv` both follow from.

`PoolClean` alone is not inductive. Why is a connection clean when it comes back? Because
the call that gives it back had it to itself (`Owned`: a context's connection is not idle
and belongs to no other context) and because a call that has committed holds a cleared
session while it runs its callbacks (`Drained`). The type invariant needs that the marks a
frame took lie within the queue (`Fit`), since truncating to a mark beyond its end would
not yield a sequence. The proof has one lemma per group of actions (`TopLevelStep`,
`StatementStep`, `NestedStep`) with a step per action; `BodyStep`, `SessionStep` and
`LeaveScope` hold what actions of one shape share.

`PoolClean` would also hold of a program that never gives a connection back. `NoSlotLost`
says that none is lost: a slot that is not in the pool is held by exactly one call, and that
call is inside its scope (`SlotsAccounted`). Beside `IInv` it needs that a slot leaves the
pool only into a context (`Held`).

`AtomicScopeProofs` builds `ScopeInv` on that. A scope that fails undoes its work in three
places that know nothing of each other: the server rolls back to a savepoint, the context
truncates its queue, and auth goes back to a snapshot. Why do they agree? Because at each
point a scope was entered from, the savepoint's writes, the callbacks up to the frame's mark
and the operations made by then and not undone since were the same set, and the savepoint's
tenant was the applied one (`Point`, `Level`); while the transaction is active, now is such a
point too (`Stack`). What has been undone since was made above the frames that are left,
so the points below stay right (`StackTo`). An aborted transaction may hold savepoints of scopes
that are over, but names are depths and `ROLLBACK TO` finds the right one (`LatestFacts`,
`RollbackFacts`). A poisoned context may hold anything: it sends no more statements and is never
committed, so nothing is claimed of it. The histories are added per call (`Recorded`,
`Heard`, `Draining`), and no call touches the session or the operations of another one
(`Apart`, `SoundKeeps`, `OneCall`).

From `ScopesSound` follow, without further assumption, `NothingUndoneLands` and
`AttemptsLandOnce`. `TrackerStaysTrue` and `RowsUnderTheirTenant` assume that no
future of a running statement is dropped (`~AbandonStmt`); `CallbacksFollowCommit`, `OkIsDone`
and `AtomicRefines`, that `Atomic` implements `AtomicPromise`, assume that no closure returns
Ok after a failed statement (`~Swallow`). The violation runs show that neither can be dropped:
it is where the code leaves the promise to its callers. `PromiseSeparates` is the use of the
promise: whatever keeps it has `CallbackAfterCommit` and `UndoneNeverLands`.

### Outbox

`OutboxInv` is `TypeOK`, the shape of a worker's batch (`Shape`), what a relay has changed
and not committed (`Locks`), `RelaysDisjoint`, what published and failed rows rest on
(`PublishedAccepted`, `FailedJustified`) and why the mark a worker is about to make is right
(`Marks`). None of the safety properties is inductive: that relays do not share a row needs
that a claimed row is still 'pending' in the table while its claim is uncommitted; that
'failed' is justified needs to know what a worker is about to write. From it: `RelaysApart`,
`FailuresJustified`. `BudgetKept` assumes that all workers are relays, with an invariant of
its own (`Budget`: what a relay is about to requeue still has a retry left, because the row
it read is locked); two pool-backed workers can exceed the budget. `Grace` is about the
worker: within its lease and the grace window since its claim it loses no row. The guard of
`recover_stale` says so of the row's `leased_until`, and that is not enough: the time must
be the one this worker's claim has set, or a later one. `LeaseInv` carries that through the
marks, recoveries and claims of others: as long as a row of the worker is 'processing', what
is left of its lease is at least the lease less the worker's age. `Refines` proves that
`Outbox` implements `OutboxPromise`: the initial states map, and each action is an enqueue,
a publication, a failure or a stutter. `PromiseSettles`: whatever keeps it publishes
accepted rows only and never takes an outcome back.

For a table that only relays work on, more can be said, from what an open transaction may
hold (`Waits`): rows still to publish are claimed in it, and a row it has dealt with is
settled or has one retry more. `RelaysLeaveNoClaim`: a reader never meets a 'processing' row.
`RowsComeNearer` (`RowsShorten`): every change of a committed row brings it nearer to its
end, so that it changes `MaxRetry` + 1 times at most. It is the part of `EventuallySettled`
that needs no fairness.

### Notify

`NotifyInv` is `TypeOK`, what a call of `subscribe` holds at each of its steps (`Calls`) and
where the events of a receiver are (`Events`). `Calls` makes the three mutex sections safe
together: a call that has left the registry holds a listener whose phase it cannot see,
and only its Sender's presence in the map, or the listener's failure, keeps it from
waiting for ever. `OneListens` and `NobodyDeaf` follow; `RegistryKeeps` is the action property
that a late caller does not erase a replacement. `Events` orders each buffer before what the
watcher has still to pump, so that what a full buffer overwrites is older than what is left
and one report of lag stands for all that was skipped: `NothingLost`.

That is about one moment. `NotifyStreamProofs` proves what a subscriber sees over time:
`Refines` maps each live receiver to a stream of `NotifyPromise`, a LISTEN to its beginning, a
`recv` to the next event, to a reported gap or to the end, and every other step to none.
`NotifyInv` does not suffice, for two reasons. It says nothing of what has been received
already, so `Behind` puts that before the buffer, the inbox and every event to come. And
`Accounted` ends with the connection, while a receiver goes on draining its buffer after
it; so `Gapless` says of the buffer alone that nothing since the LISTEN is missing before any
of its events but what a pending report covers (`BeforeHead`: what the watcher has in hand
comes before the rest of its inbox). `Skipped` makes each report a true one.

### Runner

`RunnerInv` is `TypeOK`, what a row may say about its schema (`RowsOK`), what the holder of
the lock knows (`Holder`), and that a command has counted nothing before it begins
(`Fresh`). The heart is `Holder`: while a host works, the row lags behind what the host
remembers, and the claim in the row covers exactly what the row does not count yet.
`Forward` says so of apply and resume, `Backward` of a rollback, which works down from the
last statement. No other host can write the row meanwhile; all it can do is delete it,
and then the version is in `rerun`, where `NoSilentStep` does not apply. From it:
`Honest`, `NothingHidden`, `Undone`, and the action properties `Complete` and `Ordered`.

On top of it, `SureInv` (theorem `Sound`) says what a row is worth while a claim is open.
`OneInDoubt` is not inductive, and `RunnerInv` does not help: it bounds what a row may claim
too much, not what it may leave out. What is missing is that the holder's own count `done`
is the row's count, or one more between a statement and its acknowledgement (`Sure`); a
failed acknowledgement leaves the row as it was, and with it exactly one statement to look
at. `Sure` also says that a rollback without a row is one of a version in `rerun`.

`Shortens` (`CommandsShorten`) is the part of `CommandsEnd` that no fairness is needed for.
`Left` measures how far a command is from its end, by its station and by the units its walk
has before it; each step of the command lowers it, and no step of another host moves it. So
a command that is given its steps ends, whatever the plans are; that it is given them is
what TLC checks.

`Refines` maps `Runner` to `RunnerPromise`, the ledger as its reader sees it: rows and schema,
and none of the commands, lock, claims or counts. Every step of a command is a stutter or one
change of one row or one schema, and the order in which they may come is the promise:
`PLand` under an open row, with what comes before it in place; `PApply` over all statements;
`PUndo` under an applied row, the last statement first; `PRolledBack` over an empty schema.
Here `Sure` is needed again: the walk of a rollback does not look at the row between its
statements. `rerun` maps to `loose`: for these versions the promise keeps the order of the
changes, but not that a row answers for them. `PromiseUndoes`: whatever keeps the promise has
an untouched schema under a row that says 'rolled_back'.

### LiveMigrate

`LiveInv` is `TypeOK`, the places a terminal and a daemon can be at (`Shape`),
`StepsInOrder`, `CompleteIsDone` (a complete plan has its stamp, its DDL and its rows) and
`OneDaemonDrives`, which are inductive together: `InOrder`, `CompleteMeansDone`, `OneDaemon`.
The last one is about daemons whose sessions stand; one that has lost its session may be
anywhere in its work, and is kept from the claim by its own statements only (`ClearClaim`).
`EndedStaysAlone` is the action property.
`WaitingIsDrained` (`ValidatingIsDrained`) holds of the plans whose validation gate is
behind their backfills (`GatesAfterBackfills`): a hand-written plan that validates first
would be 'validating' with rows left. `PatternsOrdered` closes the gap for the plan of each
single pattern; of plans composed of several it says nothing.

`LiveProgressProofs` adds `ProgressInv`: as long as no two chunk loops have run at once, the
loop that runs counts converted rows (`Counting`), the row's count is not ahead of the
table, and while rows are left the converted ones are whole chunks (`Alone`). It needs to
know what a chunk's open transaction has picked, because the count moves when it commits:
fewer rows than a chunk are all that were left. `ProgressIsHonest` and
`StuckAtMultiples` follow.

When loops do overlap, counts may be wrong, but two things remain. `Shortens`
(`LoopsShorten`): a loop goes on only after a full chunk, and the rows of that chunk are
behind it even when another loop has converted them, so each loop comes nearer to its end by
the rows it has or can pick whenever it moves, and is set back by nobody; this is the part
of `BackfillEnds` that needs no fairness. And `Refines`: what a reader of the row sees is
`LivePromise`, whichever of the terminals and daemons wrote it. DDL commits over finished
steps, a transaction converts a chunk of rows at most and says 'validating' only with the
last of them, a gate is reached over all that is before it, the stamp comes before
'complete', and no status but a setback is written without its reason. `LiveInv` does not
say that a daemon's loop is at a backfill step: `Claim` looks at the row's step as it is now
and works at the step that the candidate query saw. `TurnInv` (`TurnsSound`) adds it, and
the size of what a chunk has picked. `PromiseCompletes` says what the promise is worth:
'complete' is said of finished plans only, and 'validating' of drained ones under
`GatesAfterBackfills`.

### Proved, and in no run

What a run's abstract specification says already is not checked beside it, and that it says
so is proved as well: `CallbackAfterCommit` (`PromiseSeparates`; a violation run is about
it), `UndoneWhenRolledBack` (`PromiseUndoes`), `CompleteIsDone` (`PromiseCompletes`).
`CommandsShorten`, `LoopsShorten` and `RowsShorten` are about measures that only the proofs
need, `SlotsAccounted` and `NothingClaimed` say where connections and claims can be; they
stand in the proof modules.

### Only model-checked

Every safety property the passing runs check of `Atomic`, `Outbox`, `Notify`, `Runner` and
`LiveMigrate` is a theorem, the refinements of the five abstract specifications with them.
Liveness is out of the prover's reach: `EventuallySettled`, `TerminationNoticed`,
`SubscribeReturns`, `CommandsEnd`, `BackfillEnds`. Of `CommandsEnd` and `BackfillEnds` the
theorems called `Shortens`, of `EventuallySettled` the theorem `RowsComeNearer` prove the
measure that a step lowers; that a step is taken in the end rests on fairness, and is
checked.

## 5. Not modelled

Most lines of the repository are pure: they turn typed descriptions into SQL text, decode
rows, parse arguments, generate code, or hold tests. They have no state that interleaves,
and unit tests reach them. The models cover the state machines; the rest is listed in
`PROJECT.json` as not modelled, with the reason for each part. In particular:

* Postgres itself, beyond what is stated in the modules: isolation anomalies and
  row-level security are taken as specified.
* In `Atomic`: isolation levels, callbacks that open further transactions, waiting for
  a pool that is exhausted.
* In `Outbox`: the order of publication, which the code does not promise.
* In `Runner`: fake apply and baseline, checksum repair, Phase 0 and the expansion of
  partitions; of the snapshot file and the drift check only that they may refuse (`Refuse`,
  also where the drift check is skipped because no version is applied). A failed statement
  leaves no trace in `effect`, destructive changes are taken as allowed.
* In `LiveMigrate`: predicates that updated rows do not leave (section 2); a COMMIT whose
  answer is lost (`Atomic` has it); how operations are classified and composed into a plan,
  the registration of compatibility hooks, the checksum of the plan file; several plans at
  once, which share nothing but the daemons' loop. Flags that confirm a destructive command
  are taken as given.
* Planning (`order_operations`, `toposort_add_tables`, the differ): pure functions whose
  specification would be their definition again.

## 6. What comes next

1. `Runner`: the snapshot file as state, with the drift check against it; fake apply and
   baseline.
2. `LiveMigrate`: backfill steps with rows of their own; the plan file's checksum.
