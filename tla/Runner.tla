-------------------------------- MODULE Runner --------------------------------
(***************************************************************************)
(* Applying, resuming, repairing and rolling back the migration versions   *)
(* of one bucket (djogi/src/migrate/runner.rs, ledger.rs, repair.rs and    *)
(* the apply command of djogi-cli/src/migrations.rs).                      *)
(*                                                                         *)
(* A migration is a sequence of units: a transactional segment, which      *)
(* lands whole, or one statement of a non-transactional segment, which     *)
(* commits by itself.  A ledger row is what a crash leaves behind: the     *)
(* runner claims a statement in it before running it and acknowledges it   *)
(* after, and resume trusts the count.  Hosts work on one database from    *)
(* workspaces of their own, so that only the advisory lock of the bucket   *)
(* keeps them apart.                                                       *)
(***************************************************************************)
EXTENDS Integers, Sequences, FiniteSets, FiniteSetsExt

CONSTANTS
  Hosts,     \* processes that run migration commands, one command at a time
  Strict,    \* the hosts whose out-of-order policy is Reject
  Buckets,   \* the buckets to choose from: per version, in version order,
             \* the kinds of its units, "tx" or "non"
  MaxRows,   \* per bucket, bound on the ledger rows ever inserted
  MaxStops,  \* per bucket, bound on crashes, lost sessions and failed writes
  NoHost,    \* the advisory lock is free
  NoTotal    \* total_steps IS NULL

ASSUME BucketsAssumption == Buckets \subseteq Seq(Seq({"tx", "non"}))
ASSUME HostsAssumption == Strict \subseteq Hosts /\ NoHost \notin Hosts
ASSUME BoundsAssumption ==
  MaxRows \in [Buckets -> Nat] /\ MaxStops \in [Buckets -> Nat] /\ NoTotal \notin Int

VARIABLES
  plans,   \* the migrations of the bucket, never written
  ledger,  \* [Versions -> Row], status "none" when there is no row
  rows,    \* rows inserted so far, the last id
  effect,  \* [Versions -> units whose changes are in the schema]
  lock,    \* the session that holds the bucket's advisory lock
  run,     \* [Hosts -> Run], the command each host is in
  rerun,   \* history: versions whose row was deleted over its changes or
           \* under a command
  stops    \* history: crashes and failed ledger writes so far

vars == <<plans, ledger, rows, effect, lock, run, rerun, stops>>

-----------------------------------------------------------------------------
(* Units, rows and commands.                                                *)

Versions == DOMAIN plans
Units(v) == DOMAIN plans[v]
NonTx(v) == {u \in Units(v) : plans[v][u] = "non"}
Tx(v) == Units(v) \ NonTx(v)

\* The non-transactional statements that the count n acknowledges.
StepsUpTo(v, u) == Cardinality({w \in NonTx(v) : w <= u})
Acked(v, n) == {u \in NonTx(v) : StepsUpTo(v, u) <= n}

\* The first unit of S from u on, and the last up to u; 0 when there is none.
From(S, u) == LET T == {v \in S : v >= u} IN IF T = {} THEN 0 ELSE Min(T)
UpTo(S, u) == LET T == {v \in S : v <= u} IN IF T = {} THEN 0 ELSE Max(T)

\* late is the out_of_order_flag, claim the progress claim in the row's note.
Row == [status : {"none", "pending", "applied", "faked", "rolled_back", "failed"},
        id : Nat, late : BOOLEAN,
        steps : Nat, total : Nat \cup {NoTotal}, claim : BOOLEAN]
NoRow == [status |-> "none", id |-> 0, late |-> FALSE,
          steps |-> 0, total |-> NoTotal, claim |-> FALSE]
Run == [ver : Nat, op : {"apply", "resume", "down", "repair"},
        pc : {"idle", "delete", "lock", "begin", "unit", "exec", "ack",
              "undo", "finish", "unlock"},
        at : Nat, id : Nat, done : Nat]
NoRun == [ver |-> 0, op |-> "apply", pc |-> "idle", at |-> 0, id |-> 0, done |-> 0]

Init ==
  /\ plans \in Buckets
  /\ ledger = [v \in Versions |-> NoRow] /\ rows = 0
  /\ effect = [v \in Versions |-> {}] /\ lock = NoHost
  /\ run = [h \in Hosts |-> NoRun]
  /\ rerun = {} /\ stops = 0

\* The row of the version a command is about.
Mine(h) == ledger[run[h].ver]

\* A statement WHERE id = ledger_id: it finds nothing once the row is gone.
UpdateById(h, new) ==
  ledger' = IF Mine(h).status # "none" /\ Mine(h).id = run[h].id
              THEN [ledger EXCEPT ![run[h].ver] = new] ELSE ledger

\* A statement WHERE version and app_label.
UpdateByVersion(h, new) ==
  ledger' = IF Mine(h).status = "none" THEN ledger
                                       ELSE [ledger EXCEPT ![run[h].ver] = new]

Go(h, pc) == run' = [run EXCEPT ![h].pc = pc]
At(h, pc) == run[h].pc = pc
Doing(h, op, pc) == run[h].op = op /\ At(h, pc)

-----------------------------------------------------------------------------
(* Commands and the lock.                                                   *)

\* A library caller of apply_plan, or an operator's repair or rollback.
Command(h, op, v) ==
  /\ At(h, "idle")
  /\ run' = [run EXCEPT ![h] = [NoRun EXCEPT !.ver = v, !.op = op, !.pc = "lock"]]
  /\ UNCHANGED <<plans, ledger, rows, effect, lock, rerun, stops>>

\* The apply command of the CLI reads the ledger without the lock: it skips an
\* applied version, refuses a pending one, cleans a failed or rolled-back one.
CliApply(h, v) ==
  /\ At(h, "idle")
  /\ ledger[v].status \in {"none", "failed", "rolled_back"}
  /\ run' = [run EXCEPT ![h] = [NoRun EXCEPT !.ver = v,
               !.pc = IF ledger[v].status = "none" THEN "lock" ELSE "delete"]]
  /\ UNCHANGED <<plans, ledger, rows, effect, lock, rerun, stops>>

\* delete_reapply_blocking_ledger_row: by version, whatever the status is now.
CliDelete(h) ==
  /\ At(h, "delete")
  /\ ledger' = [ledger EXCEPT ![run[h].ver] = NoRow]
  /\ rerun' = IF Mine(h).status # "none"
                    /\ (effect[run[h].ver] # {} \/ lock # NoHost)
                THEN rerun \cup {run[h].ver} ELSE rerun
  /\ Go(h, "lock")
  /\ UNCHANGED <<plans, rows, effect, lock, stops>>

\* Mutant: the key of the lock differs between hosts.
LockAnyway(h) ==
  /\ At(h, "lock")
  /\ lock' = h
  /\ Go(h, "begin")
  /\ UNCHANGED <<plans, ledger, rows, effect, rerun, stops>>

Lock(h) ==
  /\ At(h, "lock") /\ lock = NoHost
  /\ lock' = h
  /\ Go(h, "begin")
  /\ UNCHANGED <<plans, ledger, rows, effect, rerun, stops>>

\* Mutant: pg_advisory_lock instead, which waits for ever.
GiveUpNever(h) == At(h, "lock") /\ FALSE /\ UNCHANGED vars

\* 600 attempts of pg_try_advisory_lock found it taken.
GiveUp(h) ==
  /\ At(h, "lock") /\ lock # NoHost
  /\ run' = [run EXCEPT ![h] = NoRun]
  /\ UNCHANGED <<plans, ledger, rows, effect, lock, rerun, stops>>

Unlock(h) ==
  /\ At(h, "unlock")
  /\ lock' = NoHost
  /\ run' = [run EXCEPT ![h] = NoRun]
  /\ UNCHANGED <<plans, ledger, rows, effect, rerun, stops>>

\* The process or its session ends, or a ledger write fails and the command
\* returns: either way the session gives the lock up and writes nothing more.
Stop(h) ==
  /\ ~At(h, "idle") /\ stops < MaxStops[plans]
  /\ lock' = IF lock = h THEN NoHost ELSE lock
  /\ run' = [run EXCEPT ![h] = NoRun]
  /\ stops' = stops + 1
  /\ UNCHANGED <<plans, ledger, rows, effect, rerun>>

-----------------------------------------------------------------------------
(* apply_plan and repair_resume_partial_apply.                              *)

\* A preflight or the drift check refuses, or the version is taken: nothing
\* has been written.
Refuse(h) ==
  /\ At(h, "begin")
  /\ Go(h, "unlock")
  /\ UNCHANGED <<plans, ledger, rows, effect, lock, rerun, stops>>

\* find_higher_applied_version: pending and failed rows are no conflict.
HigherApplied(v) ==
  \E w \in Versions : w > v /\ ledger[w].status \in {"applied", "faked"}

\* insert_pending, on the unique (version, app_label).
Insert(h, v, late) ==
  /\ Doing(h, "apply", "begin") /\ ledger[v].status = "none" /\ rows < MaxRows[plans]
  /\ ledger' = [ledger EXCEPT ![v] = [NoRow EXCEPT
       !.status = "pending", !.id = rows + 1, !.late = late,
       !.total = IF NonTx(v) = {} THEN NoTotal ELSE Cardinality(NonTx(v))]]
  /\ rows' = rows + 1
  /\ run' = [run EXCEPT ![h] = [@ EXCEPT !.id = rows + 1, !.at = From(Units(v), 1),
               !.pc = IF Units(v) = {} THEN "finish" ELSE "unit"]]
  /\ UNCHANGED <<plans, effect, lock, rerun, stops>>

\* Mutant: nobody looks for a newer version.
BeginApplyBlind(h) == Insert(h, run[h].ver, FALSE)

\* The out-of-order check: a strict host refuses, another one flags the row.
BeginApply(h) ==
  LET late == HigherApplied(run[h].ver)
  IN  (late => h \notin Strict) /\ Insert(h, run[h].ver, late)

\* repair_resume_body's checks: a row whose count can be trusted and is short.
Resumable(r) ==
  /\ r.status \in {"failed", "pending"} /\ ~r.claim
  /\ r.total # NoTotal /\ r.steps < r.total

BeginResume(h) ==
  LET v == run[h].ver
      n == Mine(h).steps
  IN  /\ Doing(h, "resume", "begin") /\ Resumable(Mine(h))
      /\ run' = [run EXCEPT ![h] = [@ EXCEPT !.pc = "unit", !.id = Mine(h).id,
                   !.done = n, !.at = From(NonTx(v) \ Acked(v, n), 1)]]
      /\ UNCHANGED <<plans, ledger, rows, effect, lock, rerun, stops>>

\* Apply walks every unit, resume the non-transactional statements alone.
Walked(h) == IF run[h].op = "apply" THEN Units(run[h].ver) ELSE NonTx(run[h].ver)

\* Where the walk goes after unit u.
After(h, u) ==
  LET next == From(Walked(h), u + 1)
  IN  IF next = 0 THEN [run[h] EXCEPT !.pc = "finish", !.at = 0]
      ELSE [run[h] EXCEPT !.pc = "unit", !.at = next]

\* run_transactional_segment commits.
RunTx(h) ==
  /\ Doing(h, "apply", "unit") /\ run[h].at \in Tx(run[h].ver)
  /\ effect' = [effect EXCEPT ![run[h].ver] = @ \cup {run[h].at}]
  /\ run' = [run EXCEPT ![h] = After(h, run[h].at)]
  /\ UNCHANGED <<plans, ledger, rows, lock, rerun, stops>>

\* Mutant: apply goes on after the failure.
FailTxGoesOn(h) ==
  /\ Doing(h, "apply", "unit") /\ run[h].at \in Tx(run[h].ver)
  /\ run' = [run EXCEPT ![h] = After(h, run[h].at)]
  /\ UNCHANGED <<plans, ledger, rows, effect, lock, rerun, stops>>

\* It fails and rolls back: mark_failed, whose result is ignored.
FailTx(h) ==
  /\ Doing(h, "apply", "unit") /\ run[h].at \in Tx(run[h].ver)
  /\ UpdateById(h, [Mine(h) EXCEPT !.status = "failed", !.claim = FALSE])
  /\ Go(h, "unlock")
  /\ UNCHANGED <<plans, rows, effect, lock, rerun, stops>>

\* Mutant: the count is acknowledged before the statement runs.
ClaimCounts(h) ==
  /\ At(h, "unit") /\ run[h].op \in {"apply", "resume"} /\ run[h].at \in NonTx(run[h].ver)
  /\ UpdateById(h, [Mine(h) EXCEPT !.claim = TRUE, !.steps = run[h].done + 1])
  /\ Go(h, "exec")
  /\ UNCHANGED <<plans, rows, effect, lock, rerun, stops>>

\* Mutant: statements run without a claim.
ClaimSkipped(h) ==
  /\ At(h, "unit") /\ run[h].op \in {"apply", "resume"} /\ run[h].at \in NonTx(run[h].ver)
  /\ Go(h, "exec")
  /\ UNCHANGED <<plans, ledger, rows, effect, lock, rerun, stops>>

\* claim_non_tx_progress.
Claim(h) ==
  /\ At(h, "unit") /\ run[h].op \in {"apply", "resume"} /\ run[h].at \in NonTx(run[h].ver)
  /\ UpdateById(h, [Mine(h) EXCEPT !.claim = TRUE])
  /\ Go(h, "exec")
  /\ UNCHANGED <<plans, rows, effect, lock, rerun, stops>>

\* The statement commits.
Exec(h) ==
  /\ At(h, "exec")
  /\ effect' = [effect EXCEPT ![run[h].ver] = @ \cup {run[h].at}]
  /\ run' = [run EXCEPT ![h].pc = "ack", ![h].done = @ + 1]
  /\ UNCHANGED <<plans, ledger, rows, lock, rerun, stops>>

\* It fails: mark_partial.
FailExec(h) ==
  /\ At(h, "exec")
  /\ UpdateById(h, [Mine(h) EXCEPT !.status = "failed", !.steps = run[h].done, !.claim = FALSE])
  /\ Go(h, "unlock")
  /\ UNCHANGED <<plans, rows, effect, lock, rerun, stops>>

\* Mutant: the acknowledgement clears the claim and leaves the count.
AckUncounted(h) ==
  /\ At(h, "ack")
  /\ UpdateById(h, [Mine(h) EXCEPT !.claim = FALSE])
  /\ run' = [run EXCEPT ![h] = After(h, run[h].at)]
  /\ UNCHANGED <<plans, rows, effect, lock, rerun, stops>>

\* ack_non_tx_progress.
Ack(h) ==
  /\ At(h, "ack")
  /\ UpdateById(h, [Mine(h) EXCEPT !.steps = run[h].done, !.claim = FALSE])
  /\ run' = [run EXCEPT ![h] = After(h, run[h].at)]
  /\ UNCHANGED <<plans, rows, effect, lock, rerun, stops>>

AppliedRow(h) == [Mine(h) EXCEPT !.status = "applied", !.steps = run[h].done, !.claim = FALSE]

\* mark_applied, by id; resume finalises by version.
Finish(h) ==
  /\ At(h, "finish") /\ run[h].op \in {"apply", "resume"}
  /\ IF run[h].op = "apply" THEN UpdateById(h, AppliedRow(h)) ELSE UpdateByVersion(h, AppliedRow(h))
  /\ Go(h, "unlock")
  /\ UNCHANGED <<plans, rows, effect, lock, rerun, stops>>

-----------------------------------------------------------------------------
(* repair_partial_apply and rollback_plan.                                  *)

\* The operator resolves a partial apply, having made by hand what the
\* resolution asserts.  Status and steps change, and the note with its claim.
Resolve(h, status) ==
  LET v == run[h].ver
  IN  /\ Doing(h, "repair", "begin") /\ Mine(h).status \in {"failed", "pending"}
      /\ ledger' = [ledger EXCEPT ![v] =
           [Mine(h) EXCEPT !.status = status, !.claim = FALSE,
              !.steps = IF status = "applied" /\ Mine(h).total # NoTotal
                          THEN Mine(h).total ELSE Mine(h).steps]]
      /\ effect' = [effect EXCEPT ![v] = CASE status = "rolled_back" -> {}
                                           [] status = "applied" -> Units(v)
                                           [] status = "faked" -> @]
      /\ Go(h, "unlock")
      /\ UNCHANGED <<plans, rows, lock, rerun, stops>>

\* Rollback starts with the non-transactional statements, the last one first.
DownFrom(h, u) ==
  LET last == UpTo(NonTx(run[h].ver), u)
  IN  [run[h] EXCEPT !.pc = IF last = 0 THEN "undo" ELSE "unit", !.at = last]

\* Mutant: a rollback takes a partial apply, too.
BeginDownOpen(h) ==
  /\ Doing(h, "down", "begin") /\ Mine(h).status # "none"
  /\ run' = [run EXCEPT ![h] = DownFrom(h, Len(plans[run[h].ver]))]
  /\ UNCHANGED <<plans, ledger, rows, effect, lock, rerun, stops>>

BeginDown(h) ==
  /\ Doing(h, "down", "begin") /\ Mine(h).status \in {"applied", "faked"}
  /\ run' = [run EXCEPT ![h] = DownFrom(h, Len(plans[run[h].ver]))]
  /\ UNCHANGED <<plans, ledger, rows, effect, lock, rerun, stops>>

\* rollback_non_transactional_segment: one down statement commits.
DownNonTx(h) ==
  /\ Doing(h, "down", "unit")
  /\ effect' = [effect EXCEPT ![run[h].ver] = @ \ {run[h].at}]
  /\ run' = [run EXCEPT ![h] = DownFrom(h, run[h].at - 1)]
  /\ UNCHANGED <<plans, ledger, rows, lock, rerun, stops>>

\* One transaction undoes every transactional segment.
DownTx(h) ==
  /\ Doing(h, "down", "undo")
  /\ effect' = [effect EXCEPT ![run[h].ver] = @ \ Tx(run[h].ver)]
  /\ Go(h, "finish")
  /\ UNCHANGED <<plans, ledger, rows, lock, rerun, stops>>

\* A down statement fails: rollback returns and the ledger row stays as it was.
FailDown(h) ==
  /\ Doing(h, "down", "unit") \/ Doing(h, "down", "undo")
  /\ Go(h, "unlock")
  /\ UNCHANGED <<plans, ledger, rows, effect, lock, rerun, stops>>

MarkRolledBack(h) ==
  /\ Doing(h, "down", "finish")
  /\ UpdateByVersion(h, [Mine(h) EXCEPT !.status = "rolled_back", !.steps = 0,
                                         !.total = NoTotal, !.claim = FALSE])
  /\ Go(h, "unlock")
  /\ UNCHANGED <<plans, rows, effect, lock, rerun, stops>>

-----------------------------------------------------------------------------
(* The specification.                                                       *)

\* What a command does once it has been given.
Work(h) ==
  \/ CliDelete(h) \/ Lock(h) \/ GiveUp(h) \/ Unlock(h) \/ Refuse(h)
  \/ BeginApply(h) \/ BeginResume(h) \/ RunTx(h) \/ FailTx(h)
  \/ Claim(h) \/ Exec(h) \/ FailExec(h) \/ Ack(h) \/ Finish(h)
  \/ \E status \in {"rolled_back", "faked", "applied"} : Resolve(h, status)
  \/ BeginDown(h) \/ DownNonTx(h) \/ DownTx(h) \/ FailDown(h) \/ MarkRolledBack(h)

Next ==
  \E h \in Hosts :
    \/ Stop(h) \/ Work(h)
    \/ \E v \in Versions :
         \/ CliApply(h, v)
         \/ \E op \in {"apply", "resume", "down", "repair"} : Command(h, op, v)

Spec == Init /\ [][Next]_vars

\* A command that has been given runs on: every await ends, and the attempts to
\* take the lock are numbered.  Nobody has to give a command.
FairSpec == Spec /\ \A h \in Hosts : WF_vars(Work(h))

-----------------------------------------------------------------------------
(* Properties.                                                              *)

\* Rows, commands and the lock have their types; a command works on the schema
\* or the ledger behind the lock only while it holds it (runner.rs 1345-1366).
TypeOK ==
  /\ plans \in Buckets
  /\ ledger \in [Versions -> Row] /\ rows \in 0..MaxRows[plans]
  /\ effect \in [Versions -> SUBSET Nat]
  /\ \A v \in Versions : effect[v] \subseteq Units(v)
  /\ lock \in Hosts \cup {NoHost}
  /\ run \in [Hosts -> Run]
  /\ \A h \in Hosts : run[h].pc # "idle" => run[h].ver \in Versions
  /\ rerun \subseteq Versions /\ stops \in 0..MaxStops[plans]
  /\ \A h \in Hosts : lock = h <=> run[h].pc \notin {"idle", "delete", "lock"}

\* What the row counts as done is done: while a version is pending or failed,
\* the statements its applied_steps_count covers are in the schema, although
\* commands crash between statement and ledger, rows are deleted under a
\* running apply and another host applies again (ledger.rs 814-882).
LedgerHonest ==
  \A v \in Versions :
    ledger[v].status \in {"pending", "failed"}
      => Acked(v, ledger[v].steps) \subseteq effect[v]

\* A row without a claim hides nothing: when no command is at work and no row
\* was deleted over its changes or under a command, those past the count have not run
\* (ledger.rs 814-828, repair.rs 1317).
NoSilentStep ==
  \A v \in Versions \ rerun :
    ledger[v].status \in {"pending", "failed"} /\ ~ledger[v].claim /\ lock = NoHost
      => NonTx(v) \cap effect[v] \subseteq Acked(v, ledger[v].steps)

\* At most one statement is in doubt: whenever a reader looks, at work or after
\* any crash, the statements that ran are those the count acknowledges and the
\* next one at most (ledger.rs 814-828).
OneInDoubt ==
  \A v \in Versions \ rerun :
    ledger[v].status \in {"pending", "failed"}
      => NonTx(v) \cap effect[v] \subseteq Acked(v, ledger[v].steps + 1)

\* The version that a step makes applied, by the lock's holder alone.
Applies(h, v) ==
  /\ ledger'[v].status = "applied" /\ ledger[v].status # "applied" /\ lock = h

\* A row becomes applied only over the whole migration when apply says so, and
\* over every non-transactional statement when resume does (runner.rs 1701-1730,
\* repair.rs 1488-1526).
AppliedComplete ==
  [][\A h \in Hosts, v \in Versions : Applies(h, v) =>
       /\ run[h].op = "apply" => effect'[v] = Units(v)
       /\ run[h].op = "resume" => NonTx(v) \subseteq effect'[v]]_vars

\* When apply marks a version applied, no newer one is: on a strict host never,
\* on another only with the row's out_of_order_flag, although the check was
\* made before the first statement and sees neither pending nor failed newer
\* versions, which other hosts go on with (runner.rs 1408-1434, 4602).  Resume
\* and repair do not check.
InVersionOrder ==
  [][\A h \in Hosts, v \in Versions :
       Applies(h, v) /\ run[h].op = "apply" /\ HigherApplied(v)
         => ledger'[v].late /\ h \notin Strict]_vars

\* A row that says rolled_back is a schema without the migration, even after
\* rollbacks that failed or crashed half way (runner.rs 2665-2790).
UndoneWhenRolledBack ==
  \A v \in Versions : ledger[v].status = "rolled_back" => effect[v] = {}

\* What a reader of the ledger is promised (RunnerPromise): whatever is in the
\* schema was put there, and taken away, under a row that says so.
Promise == INSTANCE RunnerPromise WITH
  status <- [v \in Versions |-> ledger[v].status], schema <- effect, loose <- rerun
PromiseSpec == Promise!PSpec

\* Every command ends, however the others hold the lock (runner.rs 3563-3610).
CommandsEnd == \A h \in Hosts : ~At(h, "idle") ~> At(h, "idle")

\* "Every segment ran successfully" (ledger.rs 212) of a row that becomes
\* applied; resume runs the non-transactional segments alone (repair.rs 1440).
EverySegmentRan ==
  [][\A v \in Versions :
       ledger'[v].status = "applied" /\ ledger[v].status # "applied"
         => effect'[v] = Units(v)]_vars

\* An applied row stays until a rollback: the deletion is meant for failed and
\* rolled-back rows (djogi-cli migrations.rs 1888-1892).
AppliedRowKept ==
  [][\A v \in Versions : ledger[v].status = "applied"
       => ledger'[v].status \in {"applied", "rolled_back"}]_vars

=============================================================================
