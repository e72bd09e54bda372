------------------------------ MODULE LiveMigrate ------------------------------
(***************************************************************************)
(* One live migration plan: the operator's commands (djogi-cli live.rs),   *)
(* the executor that walks the plan's steps (live_migrate/executor.rs),    *)
(* the chunked backfill (backfill.rs) and the daemons that resume it       *)
(* (daemon.rs), all writing one row of djogi_live_plans (state.rs).        *)
(*                                                                         *)
(* No write to the row looks at the status it replaces: what keeps the     *)
(* actors apart is what each of them read before it began, the order of    *)
(* its own writes, and, between daemons only, an advisory lock, which is as    *)
(* good as the database session that took it.                              *)
(***************************************************************************)
EXTENDS Integers, Sequences, FiniteSets

CONSTANTS
  Clis,        \* terminals an operator runs one live command at a time in
  Daemons,     \* daemon processes, each with a pid of its own
  Rows,        \* rows a table may hold
  ChunkSize,   \* rows one chunk converts
  Plans,       \* the plan files, each a sequence of step kinds
  Nobody,      \* no claim, and the free advisory lock
  MaxCommands, \* bound on the commands ever started
  MaxFaults    \* bound on crashes, lost sessions and failed statements

Procs == Clis \cup Daemons

DdlKinds == {"expand_schema", "finalize_constraints", "cleanup_legacy_state",
             "run_reversible_schema_op"}
GateKinds == {"validate_backfill", "cutover_reads", "cutover_writes"}
Kinds == DdlKinds \cup GateKinds
           \cup {"begin_compatibility_window", "backfill_chunked"}

ASSUME ProcsAssumption == Clis \cap Daemons = {} /\ Nobody \notin Procs
ASSUME ChunkAssumption == ChunkSize \in Nat \ {0} /\ IsFiniteSet(Rows)
ASSUME PlansAssumption == Plans \subseteq Seq(Kinds) \ {<<>>}
ASSUME BoundsAssumption == MaxCommands \in Nat /\ MaxFaults \in Nat

VARIABLES
  plan,      \* the plan file, never written
  table,     \* the rows the backfill step has to convert, never written
  todo,      \* the rows its predicate still matches
  applied,   \* the DDL steps whose transaction committed
  row,       \* the plan's row in djogi_live_plans
  lock,      \* the daemon session with the plan's advisory lock
  proc,      \* [Procs -> Process], what each process is doing
  commands,  \* history: commands started
  faults,    \* history: crashes, lost sessions and failed statements
  crowded    \* history: two chunk loops have run at once

vars == <<plan, table, todo, applied, row, lock, proc, commands, faults, crowded>>

-----------------------------------------------------------------------------
(* The row and the processes.                                               *)

Statuses == {"pending", "running", "validating", "cutover", "complete",
             "abandoned", "failed_retriable", "failed_terminal"}
Terminal == {"complete", "abandoned", "failed_terminal"}

\* step 0 is the row whose current_step is NULL; fresh is a progress stamp
\* younger than the daemons' stale threshold.
Row == [status : Statuses, step : Nat, done : Nat, fresh : BOOLEAN,
        claim : Procs \cup {Nobody}, completed : BOOLEAN]

\* at is the step a process works on, total its own count of rows, first its
\* chunk loop's first turn, pick the rows its open chunk has updated; cut says
\* that the session of a daemon's lock has dropped, which it learns only from
\* that session's next statement.
Process == [pc : {"off", "dead", "point", "exec", "chunk", "commit", "fail",
                  "stamp", "finish", "abandon",
                  "lock", "claim", "resume", "clear", "unlock"},
            at : Nat, resume : BOOLEAN, total : Nat, first : BOOLEAN,
            pick : SUBSET Rows, cut : BOOLEAN]
Starting(pc, at, resume) == [pc |-> pc, at |-> at, resume |-> resume,
                          total |-> 0, first |-> TRUE, pick |-> {}, cut |-> FALSE]
Idle == Starting("off", 0, FALSE)

Kind(s) == IF s \in DOMAIN plan THEN plan[s] ELSE "none"
Backfills == {s \in DOMAIN plan : plan[s] = "backfill_chunked"}
Resumable == row.status = "running"
               /\ Kind(row.step) \in {"backfill_chunked", "validate_backfill"}

Init ==
  /\ plan \in Plans /\ table \in SUBSET Rows
  /\ todo = IF Backfills = {} THEN {} ELSE table
  /\ applied = {}
  /\ \E st \in {"pending", "running"} :
       row = [status |-> st, step |-> 0, done |-> 0, fresh |-> FALSE,
              claim |-> Nobody, completed |-> FALSE]
  /\ lock = Nobody /\ proc = [p \in Procs |-> Idle]
  /\ commands = 0 /\ faults = 0 /\ crowded = FALSE

Goto(p, pc) == proc' = [proc EXCEPT ![p].pc = pc]
\* A process that is through with its work forgets it; its session stays cut.
Leave(p, pc) ==
  proc' = [proc EXCEPT ![p] = [Starting(pc, 0, FALSE) EXCEPT !.cut = proc[p].cut]]
SetStatus(st) == row' = [row EXCEPT !.status = st]
Frozen == UNCHANGED <<plan, table>>
Counts == UNCHANGED <<commands, faults, crowded>>

-----------------------------------------------------------------------------
(* The operator's commands.                                                 *)

Accepts(cmd) == CASE cmd = "run"      -> {"pending", "running"}
                  [] cmd = "resume"   -> {"running", "paused"}
                  [] cmd = "finalize" -> {"finalizing"}

\* Mutant: resume takes the step the row points at for finished.
WalkOnward(c, cmd) ==
  /\ proc[c].pc = "off" /\ commands < MaxCommands
  /\ row.status \in Accepts(cmd)
  /\ proc' = [proc EXCEPT ![c] = Starting("point",
                IF cmd = "run" THEN 1 ELSE row.step + 1, cmd # "run")]
  /\ commands' = commands + 1
  /\ Frozen /\ UNCHANGED <<todo, applied, row, lock, faults, crowded>>

\* live run, live resume, live finalize: the status is read once, here.  A
\* run walks the plan from its first step, the others from the row's.
Walk(c, cmd) ==
  /\ proc[c].pc = "off" /\ commands < MaxCommands
  /\ row.status \in Accepts(cmd)
  /\ proc' = [proc EXCEPT ![c] = Starting("point",
                IF cmd = "run" \/ row.step = 0 THEN 1 ELSE row.step, cmd # "run")]
  /\ commands' = commands + 1
  /\ Frozen /\ UNCHANGED <<todo, applied, row, lock, faults, crowded>>

\* live abandon: the status read here is checked, and replaced by Abandon.
AskAbandon(c) ==
  /\ proc[c].pc = "off" /\ commands < MaxCommands
  /\ row.status \in {"pending", "running", "validating", "cutover"}
  /\ proc' = [proc EXCEPT ![c] = Starting("abandon", 0, FALSE)]
  /\ commands' = commands + 1
  /\ Frozen /\ UNCHANGED <<todo, applied, row, lock, faults, crowded>>

Abandon(c) ==
  /\ proc[c].pc = "abandon"
  /\ SetStatus("abandoned") /\ Leave(c, "off")
  /\ Frozen /\ Counts /\ UNCHANGED <<todo, applied, lock>>

-----------------------------------------------------------------------------
(* The executor.                                                            *)

\* Mutant: the pointer is written one step ahead.
PointAhead(c) ==
  /\ proc[c].pc = "point"
  /\ IF proc[c].at \in DOMAIN plan
       THEN row' = [row EXCEPT !.step = proc[c].at + 1] /\ Goto(c, "exec")
       ELSE Goto(c, "stamp") /\ UNCHANGED row
  /\ Frozen /\ Counts /\ UNCHANGED <<todo, applied, lock>>

\* update_step_index comes before the step; after the last one, completion.
Point(c) ==
  /\ proc[c].pc = "point"
  /\ IF proc[c].at \in DOMAIN plan
       THEN row' = [row EXCEPT !.step = proc[c].at] /\ Goto(c, "exec")
       ELSE Goto(c, "stamp") /\ UNCHANGED row
  /\ Frozen /\ Counts /\ UNCHANGED <<todo, applied, lock>>

Advance(c) == proc' =
  [proc EXCEPT ![c] = Starting("point", proc[c].at + 1, proc[c].resume)]

\* A DDL step is one transaction.  Run again it fails on what it has made
\* before (ADD COLUMN), or not (an empty step, SET NOT NULL).
Ddl(c) ==
  /\ proc[c].pc = "exec" /\ Kind(proc[c].at) \in DdlKinds
  /\ \/ Advance(c) /\ applied' = applied \cup {proc[c].at}
     \/ proc[c].at \in applied /\ Leave(c, "fail") /\ UNCHANGED applied
  /\ Frozen /\ Counts /\ UNCHANGED <<todo, row, lock>>

\* A step fails: its transaction rolls back, or the gate's status or the entry
\* of the chunk loop meets a database error.
BadStep(c) ==
  /\ proc[c].pc = "exec" /\ Kind(proc[c].at) # "begin_compatibility_window"
  /\ faults < MaxFaults /\ faults' = faults + 1
  /\ Leave(c, "fail")
  /\ Frozen /\ UNCHANGED <<todo, applied, row, lock, commands, crowded>>

\* The hooks of the compatibility window are registered elsewhere.
Compatibility(c) ==
  /\ proc[c].pc = "exec" /\ Kind(proc[c].at) = "begin_compatibility_window"
  /\ Advance(c)
  /\ Frozen /\ Counts /\ UNCHANGED <<todo, applied, row, lock>>

\* Mutant: the walk goes on past a gate.
GateOnward(c) ==
  /\ proc[c].pc = "exec" /\ Kind(proc[c].at) \in GateKinds
  /\ SetStatus("validating") /\ Advance(c)
  /\ Frozen /\ Counts /\ UNCHANGED <<todo, applied, lock>>

\* handle_operator_gate: the command ends here, paused.
Gate(c) ==
  /\ proc[c].pc = "exec" /\ Kind(proc[c].at) \in GateKinds
  /\ SetStatus(IF Kind(proc[c].at) = "validate_backfill"
                 THEN "validating" ELSE "cutover")
  /\ Leave(c, "off")
  /\ Frozen /\ Counts /\ UNCHANGED <<todo, applied, lock>>

\* record_failure: terminal from the executor, retriable from a daemon.
Fail(p) ==
  /\ proc[p].pc = "fail"
  /\ IF p \in Clis THEN SetStatus("failed_terminal") /\ Leave(p, "off")
                   ELSE SetStatus("failed_retriable") /\ Leave(p, "clear")
  /\ Frozen /\ Counts /\ UNCHANGED <<todo, applied, lock>>

\* The two writes of completion, in this order.
Stamp(c) ==
  /\ proc[c].pc = "stamp"
  /\ row' = [row EXCEPT !.completed = TRUE] /\ Goto(c, "finish")
  /\ Frozen /\ Counts /\ UNCHANGED <<todo, applied, lock>>

Finish(c) ==
  /\ proc[c].pc = "finish"
  /\ SetStatus("complete") /\ Leave(c, "off")
  /\ Frozen /\ Counts /\ UNCHANGED <<todo, applied, lock>>

-----------------------------------------------------------------------------
(* The chunk loop, of the executor's backfill step and of a daemon.         *)

Loops(p) == proc[p].pc \in {"chunk", "commit"}
AtBackfill(p) == \/ proc[p].pc = "exec" /\ Kind(proc[p].at) = "backfill_chunked"
                 \/ proc[p].pc = "resume"

\* drive_chunks reads the row before its first transaction.
EnterLoop(p) ==
  /\ AtBackfill(p)
  /\ IF row.status # "running"
       THEN Leave(p, "fail") /\ UNCHANGED crowded
       ELSE /\ proc' = [proc EXCEPT ![p].pc = "chunk", ![p].first = TRUE,
                          ![p].total = IF proc[p].resume THEN row.done ELSE 0]
            /\ crowded' = (crowded \/ \E q \in Procs \ {p} : Loops(q))
  /\ Frozen /\ UNCHANGED <<todo, applied, row, lock, commands, faults>>

\* The UPDATE of a chunk: LIMIT takes any rows its predicate matches, those
\* of another loop's open transaction with them.
Chunk(p) ==
  /\ proc[p].pc = "chunk"
  /\ \E S \in SUBSET todo :
       /\ Cardinality(S) <= ChunkSize /\ (Cardinality(S) < ChunkSize => S = todo)
       /\ proc' = [proc EXCEPT ![p].pc = "commit", ![p].pick = S]
  /\ Frozen /\ Counts /\ UNCHANGED <<todo, applied, row, lock>>

\* Mutant: only an empty chunk ends the loop.
AfterChunkToEmpty(p, n) ==
  IF n = 0 /\ ~proc[p].first THEN Leave(p, "fail")
  ELSE IF n = 0
  THEN IF p \in Clis THEN Advance(p)
       ELSE Leave(p, "clear")
  ELSE proc' = [proc EXCEPT ![p].pc = "chunk", ![p].first = FALSE,
                            ![p].total = @ + n, ![p].pick = {}]

\* What the loop does with a chunk of n rows that committed.
AfterChunk(p, n) ==
  IF n = 0 /\ ~proc[p].first THEN Leave(p, "fail")
  ELSE IF n < ChunkSize
  THEN IF p \in Clis THEN Advance(p)
       ELSE Leave(p, "clear")
  ELSE proc' = [proc EXCEPT ![p].pc = "chunk", ![p].first = FALSE,
                            ![p].total = @ + n, ![p].pick = {}]

\* The transaction of a chunk: rows, count and, after the last rows, the status.
CommitWith(p, done, last) ==
  /\ proc[p].pc = "commit"
  /\ row' = [row EXCEPT !.done = done, !.fresh = TRUE,
                        !.status = IF last THEN "validating" ELSE @]
  /\ AfterChunk(p, Cardinality(proc[p].pick))
  /\ todo' = todo \ proc[p].pick
  /\ Frozen /\ Counts /\ UNCHANGED <<applied, lock>>

\* Mutants: a full chunk counts as the last; the count is added twice.
CommitEager(p) ==
  LET n == Cardinality(proc[p].pick)
  IN  CommitWith(p, proc[p].total + n, n <= ChunkSize)
CommitAdds(p) ==
  LET n == Cardinality(proc[p].pick)
  IN  CommitWith(p, row.done + proc[p].total + n, n < ChunkSize)

\* Fewer rows than a chunk holds are the last ones.
Commit(p) ==
  LET n == Cardinality(proc[p].pick)
  IN  CommitWith(p, proc[p].total + n, n < ChunkSize)

BadChunk(p) ==
  /\ proc[p].pc = "commit"
  /\ faults < MaxFaults /\ faults' = faults + 1
  /\ Leave(p, "fail")
  /\ Frozen /\ UNCHANGED <<todo, applied, row, lock, commands, crowded>>

-----------------------------------------------------------------------------
(* A daemon's poll of one candidate.                                        *)

\* Mutant: a row without progress is not stale.
PollStamped(d) ==
  /\ proc[d].pc = "off" /\ Resumable /\ row.done > 0
  /\ row.claim = d \/ (row.claim = Nobody /\ ~row.fresh)
  /\ proc' = [proc EXCEPT ![d] = Starting("lock", row.step, FALSE)]
  /\ Frozen /\ Counts /\ UNCHANGED <<todo, applied, row, lock>>

\* read_candidates: a row of its own claim, or unclaimed and stale.
Poll(d) ==
  /\ proc[d].pc = "off" /\ Resumable
  /\ row.claim = d \/ (row.claim = Nobody /\ ~row.fresh)
  /\ proc' = [proc EXCEPT ![d] = Starting("lock", row.step, FALSE)]
  /\ Frozen /\ Counts /\ UNCHANGED <<todo, applied, row, lock>>

TryLock(d) ==
  /\ proc[d].pc = "lock"
  /\ IF lock = Nobody THEN lock' = d /\ Goto(d, "claim")
                      ELSE Leave(d, "off") /\ UNCHANGED lock
  /\ Frozen /\ Counts /\ UNCHANGED <<todo, applied, row>>

\* Mutant: the claim's UPDATE has the bucket key alone.
ClaimByKey(d) ==
  /\ proc[d].pc = "claim"
  /\ row' = [row EXCEPT !.claim = d]
  /\ proc' = [proc EXCEPT ![d].resume = TRUE, ![d].pc =
                IF Kind(proc[d].at) = "backfill_chunked" THEN "resume" ELSE "clear"]
  /\ Frozen /\ Counts /\ UNCHANGED <<todo, applied, lock>>

\* record_claim asserts status and step again, not the claim; what to do
\* goes by the step the SELECT saw.  It needs the session of the lock.
Claim(d) ==
  /\ proc[d].pc = "claim"
  /\ IF Resumable /\ ~proc[d].cut
       THEN /\ row' = [row EXCEPT !.claim = d]
            /\ proc' = [proc EXCEPT ![d].resume = TRUE, ![d].pc =
                          IF Kind(proc[d].at) = "backfill_chunked"
                            THEN "resume" ELSE "clear"]
       ELSE Leave(d, "unlock") /\ UNCHANGED row
  /\ Frozen /\ Counts /\ UNCHANGED <<todo, applied, lock>>

\* Mutant: the claim is cleared on a connection of the pool.
ClearOnPool(d) ==
  /\ proc[d].pc = "clear"
  /\ row' = [row EXCEPT !.claim = Nobody] /\ Leave(d, "unlock")
  /\ Frozen /\ Counts /\ UNCHANGED <<todo, applied, lock>>

\* The claim is cleared by the session of the lock, or stays.
ClearClaim(d) ==
  /\ proc[d].pc = "clear"
  /\ row' = [row EXCEPT !.claim = IF proc[d].cut THEN @ ELSE Nobody] /\ Leave(d, "unlock")
  /\ Frozen /\ Counts /\ UNCHANGED <<todo, applied, lock>>

Unlock(d) ==
  /\ proc[d].pc = "unlock"
  /\ lock' = IF lock = d THEN Nobody ELSE lock
  /\ proc' = [proc EXCEPT ![d] = Idle]
  /\ Frozen /\ Counts /\ UNCHANGED <<todo, applied, row>>

\* The session of the lock drops before its last statement, and the server
\* releases the lock.  The chunks run on other connections: a daemon that drives
\* goes on driving.
LoseLock(d) ==
  /\ lock = d /\ proc[d].pc # "unlock" /\ lock' = Nobody
  /\ faults < MaxFaults /\ faults' = faults + 1
  /\ proc' = [proc EXCEPT ![d].cut = TRUE]
  /\ Frozen /\ UNCHANGED <<todo, applied, row, commands, crowded>>

\* A daemon outlives the errors of its own statements: without the lock or the
\* claim it moves on, a plan file it cannot read or a failure it cannot record
\* leaves the row as it is, and a claim it cannot clear stays.
BadPoll(d) ==
  /\ faults < MaxFaults /\ faults' = faults + 1
  /\ \/ proc[d].pc = "lock" /\ Leave(d, "off")
     \/ proc[d].pc \in {"claim", "clear"} /\ Leave(d, "unlock")
     \/ proc[d].pc = "resume" /\ \E pc \in {"fail", "clear"} : Leave(d, pc)
     \/ proc[d].pc = "fail" /\ Leave(d, "clear")
  /\ Frozen /\ UNCHANGED <<todo, applied, row, lock, commands, crowded>>

\* The stale threshold passes.
Age == /\ row.fresh /\ row' = [row EXCEPT !.fresh = FALSE]
       /\ Frozen /\ Counts /\ UNCHANGED <<todo, applied, lock, proc>>

\* A process dies: its open transaction rolls back, its session's advisory
\* lock is released, its claim stays.  A daemon started again has a new pid.
Crash(p) ==
  /\ proc[p].pc \notin {"off", "dead"} /\ faults < MaxFaults
  /\ faults' = faults + 1
  /\ proc' = [proc EXCEPT ![p] = IF p \in Clis THEN Idle
                                 ELSE Starting("dead", 0, FALSE)]
  /\ lock' = IF lock = p THEN Nobody ELSE lock
  /\ Frozen /\ UNCHANGED <<todo, applied, row, commands, crowded>>

-----------------------------------------------------------------------------
CliStep(c) == \/ Abandon(c) \/ Point(c) \/ Ddl(c) \/ Compatibility(c) \/ Gate(c)
              \/ Fail(c) \/ Stamp(c) \/ Finish(c)
              \/ EnterLoop(c) \/ Chunk(c) \/ Commit(c)
DaemonStep(d) == \/ Poll(d) \/ TryLock(d) \/ Claim(d) \/ ClearClaim(d) \/ Unlock(d)
                 \/ Fail(d) \/ EnterLoop(d) \/ Chunk(d) \/ Commit(d)
Operator(c) == AskAbandon(c) \/ \E cmd \in {"run", "resume", "finalize"} : Walk(c, cmd)
Fault == \/ \E c \in Clis : BadStep(c)
         \/ \E d \in Daemons : BadPoll(d) \/ LoseLock(d)
         \/ \E p \in Procs : BadChunk(p) \/ Crash(p)

Next == \/ \E c \in Clis : CliStep(c) \/ Operator(c)
        \/ \E d \in Daemons : DaemonStep(d)
        \/ Age \/ Fault

Spec == Init /\ [][Next]_vars

\* A daemon takes its next step and polls again and again, an open transaction
\* ends (its row locks would hold up the chunks of others), time passes.  Commands
\* and faults are nobody's duty; a command may stand still between transactions.
Fairness == /\ \A d \in Daemons : WF_vars(DaemonStep(d))
            /\ \A c \in Clis : WF_vars(Commit(c))
            /\ WF_vars(Age)
FairSpec == Spec /\ Fairness

-----------------------------------------------------------------------------
(* What must hold.                                                          *)

\* Every variable has a value the code can give it.
TypeOK ==
  /\ plan \in Plans /\ table \subseteq Rows /\ todo \subseteq table
  /\ applied \subseteq {s \in DOMAIN plan : plan[s] \in DdlKinds}
  /\ row \in Row /\ row.step \in 0..Len(plan)
  /\ row.claim \in Daemons \cup {Nobody} /\ lock \in Daemons \cup {Nobody}
  /\ proc \in [Procs -> Process]
  /\ \A p \in Procs : proc[p].at <= Len(plan) + 1
  /\ commands \in 0..MaxCommands /\ faults \in 0..MaxFaults /\ crowded \in BOOLEAN

\* The step the row points at, or that any process works on, is only ever
\* reached over finished steps: every DDL step before it committed, a backfill
\* step before it has converted every row, and no operator gate is before it.
\* Two terminals, a daemon and crashes all move the pointer, a rerun moves it
\* back, and resume trusts it (executor.rs run_plan).
Reached(s) ==
  \A t \in DOMAIN plan : t < s =>
    /\ plan[t] \in DdlKinds => t \in applied
    /\ plan[t] = "backfill_chunked" => todo = {}
    /\ plan[t] \notin GateKinds
StepsInOrder == /\ Reached(row.step)
                /\ \A p \in Procs : Reached(proc[p].at)
                /\ \A s \in applied : Reached(s)

\* A plan whose rows wait for validation has no row left to convert: of two
\* loops over the same rows the one that finds less than a chunk has not
\* mistaken the other's open transaction for an empty table
\* (backfill.rs run_one_chunk promotes on rows_affected < chunk_size).
ValidatingIsDrained == row.status = "validating" => todo = {}

\* A complete plan has its completion stamp, all its DDL and all its rows
\* (executor.rs run_plan: stamp first, so that a crash leaves a stamp on a
\* running row and never a complete row without evidence).
CompleteIsDone ==
  row.status = "complete" => row.completed /\ Reached(Len(plan) + 1)

\* While chunk loops have not overlapped, the row never claims more converted
\* rows than there are: a rolled back chunk is not counted, a resume does not
\* count a committed one again (backfill.rs drive_chunks).
ProgressHonest == ~crowded => row.done <= Cardinality(table \ todo)

\* A chunk loop alone on its table takes the empty chunk for a stuck predicate
\* only if the table's rows are a multiple of the chunk size, whatever crashes
\* and resumes came before (backfill.rs:482): then every chunk was full, and
\* the last one of them has not ended the loop.
StuckOnlyAtMultiple ==
  \A p \in Procs :
    proc[p].pc = "commit" /\ proc[p].pick = {} /\ ~proc[p].first
      => crowded \/ Cardinality(table) % ChunkSize = 0

\* A daemon whose session stands works under its lock and its claim, though it
\* may act on a candidate list read before another one's whole turn, and though
\* a daemon that has lost its session without knowing may still convert rows of
\* the same plan: that one neither takes nor clears the claim, since both go
\* through the session it has lost (daemon.rs drive_candidate, clear_claim).
\* Of any daemons that drive at once all but one have lost their lock.
UnderLock(d) == proc[d].pc \notin {"off", "dead", "lock"} /\ ~proc[d].cut
OneDaemonDrives ==
  \A d \in Daemons : UnderLock(d) =>
    /\ lock = d
    /\ proc[d].pc \in {"resume", "chunk", "commit", "fail", "clear"} => row.claim = d

\* Nobody begins to work on a plan that has ended: not a daemon either that
\* read its candidates before the operator abandoned the plan (daemon.rs
\* CLAIM_UPDATE_SQL).  Work begun before may still write its own status over a
\* terminal one: no write to the row asks what it replaces (state.rs:483).
Working(p) == proc[p].pc \notin {"off", "dead", "lock", "claim", "unlock"}
EndedIsLeftAlone ==
  [][row.status \in Terminal
       => \A p \in Procs : Working(p)' => Working(p)]_vars

\* A running backfill is finished by the daemons, or fails visibly, as long as
\* one of them lives and no dead one's claim is on the row: candidates are rows
\* without a claim or with the poller's own, and nobody clears a dead daemon's
\* (daemon.rs CANDIDATE_QUERY_SQL, poll_once).  A daemon that could not clear
\* its claim, its session being lost, finds the row as its own again.
BackfillEnds ==
  (Resumable /\ Kind(row.step) = "backfill_chunked")
    ~> \/ ~Resumable
       \/ \E d \in Daemons : proc[d].pc = "dead" /\ row.claim = d
       \/ \A d \in Daemons : proc[d].pc = "dead"

\* What the reader of a plan's row is promised (LivePromise), whoever writes it
\* and whatever that writer has read before (executor.rs, backfill.rs, state.rs).
Promise == INSTANCE LivePromise WITH status <- row.status, stamped <- row.completed
PromiseSpec == Promise!PSpec
==============================================================================
