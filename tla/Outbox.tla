-------------------------------- MODULE Outbox --------------------------------
(***************************************************************************)
(* The consumer side of the transactional outbox: one outbox table and its *)
(* workers (djogi/src/outbox/worker.rs, djogi/src/bin/djogi-outbox-relay.rs).*)
(*                                                                         *)
(* A worker claims a batch, publishes its rows one by one and marks each   *)
(* one published or failed.  The relay binary does so inside one atomic()  *)
(* scope per batch (Relays); a worker that calls the primitives on a       *)
(* pool-backed context commits every statement on its own, which is what   *)
(* the lease and recover_stale are for.  Both kinds may serve one table.   *)
(*                                                                         *)
(* Time is kept as what is left of each leased_until, in ticks, so that no *)
(* clock has to be bounded.                                                *)
(***************************************************************************)
EXTENDS Integers, FiniteSets

CONSTANTS
  Rows,       \* outbox rows, numbered in created_at order
  Workers,    \* processes that serve the table
  Relays,     \* those that run a batch inside one transaction
  BatchSize,  \* claim_pending's batch_size
  MaxRetry,   \* MAX_RETRY_COUNT
  Lease,      \* claim_pending's lease_duration, in ticks
  Threshold,  \* recover_stale's stale_threshold, in ticks
  MaxAborts,  \* bound on crashes and failed statements
  NoRow,      \* no row at hand
  Null        \* leased_until IS NULL

ASSUME RowsAssumption == Rows \subseteq Nat /\ IsFiniteSet(Rows) /\ NoRow \notin Rows
ASSUME WorkersAssumption == Relays \subseteq Workers
ASSUME LimitsAssumption ==
  /\ BatchSize \in Nat \ {0} /\ MaxRetry \in Nat /\ MaxAborts \in Nat
  /\ Lease \in Nat \ {0} /\ Threshold \in Nat
  /\ Null \notin Int

VARIABLES
  row,      \* [Rows -> Row], the committed table
  tx,       \* [Workers -> rows the worker's open transaction has changed]
  work,     \* [Workers -> Work]
  accepted, \* history: rows a publish call reported Ok for
  refused,  \* history: rows a publish call reported a permanent error for
  aborts    \* history: crashes and failed statements so far

vars == <<row, tx, work, accepted, refused, aborts>>

-----------------------------------------------------------------------------
(* Rows and what the statements do to them.                                 *)

\* What is left of the time until leased_until, in ticks.
Timer == {Null} \cup Int

Row == [state : {"absent", "pending", "processing", "published", "failed"},
        retry : Nat, left : Timer]

\* A row once its producer's transaction has committed (emit_event).
Fresh == [state |-> "pending", retry |-> 0, left |-> Null]

\* The delay before retry n: 2^n seconds up to 1024.
Backoff(n) == IF n < 10 THEN 2^n ELSE 1024

\* Mutant: a row that was re-queued with a backoff is never due.
DueWhenNull(x) == x.state = "pending" /\ x.left = Null

\* leased_until IS NULL OR leased_until <= now()
Due(x) == x.state = "pending" /\ (x.left = Null \/ x.left <= 0)

\* Mutant: a claim keeps the time a re-queued row had to wait for.
ClaimedUnleased(x) == [x EXCEPT !.state = "processing"]

Claimed(x) == [x EXCEPT !.state = "processing", !.left = Lease]

\* UPDATE .. SET state = 'published' WHERE state = 'processing'
Published(x) ==
  IF x.state = "processing" THEN [x EXCEPT !.state = "published"] ELSE x

\* Mutants of the decision: one retry too many; one too few.
WithinBudgetLate(x)  == x.retry <= MaxRetry
WithinBudgetEarly(x) == x.retry + 1 < MaxRetry
\* Is there a retry left?
WithinBudget(x) == x.retry < MaxRetry

\* Mutant: the UPDATE of mark_failed does not look at the state.
FailedAnyway(x, decision, read, elapsed) ==
  IF decision = "requeue"
  THEN [state |-> "pending", retry |-> x.retry + 1, left |-> Backoff(read + 1) - elapsed]
  ELSE [x EXCEPT !.state = "failed"]

\* Mutant: the retry counter goes the wrong way.
FailedCountsDown(x, decision, read, elapsed) ==
  IF x.state # "processing" THEN x
  ELSE IF decision = "requeue"
  THEN [state |-> "pending", retry |-> x.retry - 1, left |-> Backoff(read + 1) - elapsed]
  ELSE [x EXCEPT !.state = "failed"]

\* The UPDATE of mark_failed, WHERE state = 'processing'.  The delay comes from
\* the retry_count the SELECT read; now() is when the transaction began.
Failed(x, decision, read, elapsed) ==
  IF x.state # "processing" THEN x
  ELSE IF decision = "requeue"
  THEN [state |-> "pending", retry |-> x.retry + 1, left |-> Backoff(read + 1) - elapsed]
  ELSE [x EXCEPT !.state = "failed"]

\* leased_until < now() - stale_threshold
Stale(x) == x.state = "processing" /\ x.left # Null /\ x.left < -Threshold

Recovered(x) == [x EXCEPT !.state = "pending", !.left = Null]

-----------------------------------------------------------------------------
(* Workers.                                                                 *)

\* todo: claimed rows still to publish; at, step: the row at hand and what is
\* to be done with it; read: the retry_count the SELECT of mark_failed saw;
\* age: ticks since its claim, with which a relay's transaction began.
Work == [todo : SUBSET Rows, at : Rows \cup {NoRow},
         step : {"next", "ok", "transient", "permanent", "requeue", "fail"},
         read : Nat, age : Nat]

AtRest == [todo |-> {}, at |-> NoRow, step |-> "next", read |-> 0, age |-> 0]

\* A transaction's changes are a function from the rows it has locked.
NoChanges == [r \in {} |-> Fresh]

TypeOK ==
  /\ row \in [Rows -> Row]
  /\ DOMAIN tx = Workers
  /\ \A w \in Workers : DOMAIN tx[w] \subseteq Rows /\ tx[w] \in [DOMAIN tx[w] -> Row]
  /\ work \in [Workers -> Work]
  /\ accepted \subseteq Rows /\ refused \subseteq Rows
  /\ aborts \in 0..MaxAborts

Init ==
  /\ row = [r \in Rows |-> [Fresh EXCEPT !.state = "absent"]]
  /\ tx = [w \in Workers |-> NoChanges]
  /\ work = [w \in Workers |-> AtRest]
  /\ accepted = {} /\ refused = {} /\ aborts = 0

Locked == UNION {DOMAIN tx[w] : w \in Workers}

Resting(w) == work[w].todo = {} /\ work[w].at = NoRow /\ tx[w] = NoChanges

\* What worker w reads of row r: its own changes before the committed row.
See(w, r) == IF r \in DOMAIN tx[w] THEN tx[w][r] ELSE row[r]

\* Worker w writes x over row r: in its transaction, or straight to the table.
\* No one waits for a row lock: a locked row is 'pending' to everyone else, and
\* these statements only change rows that are 'processing'.
Write(w, r, x) ==
  IF w \in Relays THEN tx' = [tx EXCEPT ![w][r] = x] /\ UNCHANGED row
                  ELSE row' = [row EXCEPT ![r] = x] /\ UNCHANGED tx

\* The producer's transaction commits (emit_event): all or nothing.
Emit(r) ==
  /\ row[r].state = "absent"
  /\ row' = [row EXCEPT ![r] = Fresh]
  /\ UNCHANGED <<tx, work, accepted, refused, aborts>>

\* Mutant: a locked row is claimed as well.
AvailableLocked == {r \in Rows : Due(row[r])}

\* FOR UPDATE SKIP LOCKED
Available == {r \in Rows : Due(row[r])} \ Locked

\* ORDER BY created_at LIMIT batch_size
Oldest(S, A) ==
  /\ S \subseteq A
  /\ Cardinality(S) = IF Cardinality(A) < BatchSize THEN Cardinality(A) ELSE BatchSize
  /\ \A r \in S, q \in A \ S : r < q

\* claim_pending; a relay's is the first statement of its transaction.
Claim(w) ==
  /\ Resting(w)
  /\ \E S \in SUBSET Available :
       /\ S # {} /\ Oldest(S, Available)
       /\ work' = [work EXCEPT ![w].todo = S, ![w].age = 0]
       /\ IF w \in Relays
          THEN /\ tx' = [tx EXCEPT ![w] = [r \in S |-> Claimed(row[r])]]
               /\ UNCHANGED row
          ELSE /\ row' = [r \in Rows |-> IF r \in S THEN Claimed(row[r]) ELSE row[r]]
               /\ UNCHANGED tx
  /\ UNCHANGED <<accepted, refused, aborts>>

\* publish of one claimed row; RETURNING gives them in no particular order.
PublishOk(w, r) ==
  /\ work[w].at = NoRow /\ r \in work[w].todo
  /\ work' = [work EXCEPT ![w].at = r, ![w].step = "ok"]
  /\ accepted' = accepted \cup {r}
  /\ UNCHANGED <<row, tx, refused, aborts>>

\* A provider error counts as transient.
PublishFails(w, r) ==
  /\ work[w].at = NoRow /\ r \in work[w].todo
  /\ \/ /\ work' = [work EXCEPT ![w].at = r, ![w].step = "transient"]
        /\ UNCHANGED refused
     \/ /\ work' = [work EXCEPT ![w].at = r, ![w].step = "permanent"]
        /\ refused' = refused \cup {r}
  /\ UNCHANGED <<row, tx, accepted, aborts>>

\* The row at hand is dealt with.
RowDone(w) == [work[w] EXCEPT !.todo = @ \ {work[w].at}, !.at = NoRow,
                            !.step = "next", !.read = 0]

MarkPublished(w) ==
  /\ work[w].step = "ok"
  /\ Write(w, work[w].at, Published(See(w, work[w].at)))
  /\ work' = [work EXCEPT ![w] = RowDone(w)]
  /\ UNCHANGED <<accepted, refused, aborts>>

\* mark_failed, the SELECT: nothing to do when the row is not 'processing'.
MarkFailedRead(w) ==
  /\ work[w].step \in {"transient", "permanent"}
  /\ LET x == See(w, work[w].at) IN
     IF x.state # "processing" THEN work' = [work EXCEPT ![w] = RowDone(w)]
     ELSE work' = [work EXCEPT ![w].read = x.retry,
            ![w].step = IF @ = "transient" /\ WithinBudget(x) THEN "requeue" ELSE "fail"]
  /\ UNCHANGED <<row, tx, accepted, refused, aborts>>

\* mark_failed, the UPDATE: a statement of its own.
MarkFailedWrite(w) ==
  /\ work[w].step \in {"requeue", "fail"}
  /\ Write(w, work[w].at,
           Failed(See(w, work[w].at), work[w].step, work[w].read,
                  IF w \in Relays THEN work[w].age ELSE 0))
  /\ work' = [work EXCEPT ![w] = RowDone(w)]
  /\ UNCHANGED <<accepted, refused, aborts>>

\* The relay's transaction commits.
CommitBatch(w) ==
  /\ work[w].todo = {} /\ tx[w] # NoChanges
  /\ row' = [r \in Rows |-> See(w, r)]
  /\ tx' = [tx EXCEPT ![w] = NoChanges]
  /\ work' = [work EXCEPT ![w] = AtRest]
  /\ UNCHANGED <<accepted, refused, aborts>>

\* A worker dies in the middle of a batch, or one of its statements fails: a
\* relay's transaction is rolled back, another worker's rows stay as they are.
Abort(w) ==
  /\ ~Resting(w) /\ aborts < MaxAborts
  /\ tx' = [tx EXCEPT ![w] = NoChanges]
  /\ work' = [work EXCEPT ![w] = AtRest]
  /\ aborts' = aborts + 1
  /\ UNCHANGED <<row, accepted, refused>>

\* recover_stale, between two batches, outside any transaction.
RecoverStale(w) ==
  /\ Resting(w)
  /\ row' = [r \in Rows |-> IF Stale(row[r]) THEN Recovered(row[r]) ELSE row[r]]
  /\ UNCHANGED <<tx, work, accepted, refused, aborts>>

\* One tick; a timer stops where no statement can tell the difference.
Older(x) ==
  IF x.left = Null \/ x.left < -Threshold THEN x ELSE [x EXCEPT !.left = @ - 1]

\* Bound: beyond it no delay and no lease tells ages apart.
MaxAge(w) == IF w \in Relays THEN Backoff(MaxRetry + 1) ELSE Lease + Threshold + 1

Tick ==
  /\ row' = [r \in Rows |-> Older(row[r])]
  /\ tx' = [w \in Workers |-> [r \in DOMAIN tx[w] |-> Older(tx[w][r])]]
  /\ work' = [w \in Workers |->
       IF ~Resting(w) /\ work[w].age < MaxAge(w)
       THEN [work[w] EXCEPT !.age = @ + 1] ELSE work[w]]
  /\ UNCHANGED <<accepted, refused, aborts>>

\* What a live worker keeps doing.
Serve(w) ==
  \/ Claim(w)
  \/ \E r \in Rows : PublishOk(w, r) \/ PublishFails(w, r)
  \/ MarkPublished(w) \/ MarkFailedRead(w) \/ MarkFailedWrite(w)
  \/ CommitBatch(w)

Next ==
  \/ \E r \in Rows : Emit(r)
  \/ \E w \in Workers : Serve(w) \/ Abort(w) \/ RecoverStale(w)
  \/ Tick

Spec == Init /\ [][Next]_vars

\* The poll loop goes on and time passes; nothing says that a publish succeeds,
\* that events are emitted, or that workers crash.
FairSpec ==
  /\ Spec /\ WF_vars(Tick)
  /\ \A w \in Workers : WF_vars(Serve(w)) /\ WF_vars(RecoverStale(w))

-----------------------------------------------------------------------------
(* Properties.                                                              *)

\* What the outbox promises (OutboxPromise): an event enters once, is published
\* only after a publish call reported Ok, and 'published' and 'failed' are final
\* even when a worker whose lease ran out marks the row late.
Promise == INSTANCE OutboxPromise WITH
  status <- [r \in Rows |-> IF row[r].state \in {"pending", "processing"}
                            THEN "queued" ELSE row[r].state]
PromiseSpec == Promise!PSpec

\* A row ends as 'failed' only when a publish call reported a permanent error
\* or its retries were used up (mark_failed).
FailedJustified ==
  \A r \in Rows : row[r].state = "failed" =>
    r \in refused \/ row[r].retry >= MaxRetry

\* No row is retried more often than MAX_RETRY_COUNT: a batch that was rolled
\* back does not count, one that was committed does.
RetryBudget == \A r \in Rows : row[r].retry <= MaxRetry

\* Two relays never work on one row: its lock, not its state, keeps the second
\* away while the first one's claim is uncommitted (SKIP LOCKED).
RelaysDisjoint ==
  \A v, w \in Relays : v # w => DOMAIN tx[v] \cap DOMAIN tx[w] = {}

\* A worker without a transaction that is still within its lease and the grace
\* window loses none of its rows to recover_stale: such a row goes back to the
\* queue only by a counted failure, whoever has claimed, recovered and marked it
\* before and since (claim_pending, recover_stale).
GraceKept ==
  [][\A w \in Workers \ Relays, r \in Rows :
       /\ r \in work[w].todo /\ work[w].age <= Lease + Threshold
       /\ row[r].state = "processing" /\ row'[r].state = "pending"
       => row'[r].retry > row[r].retry]_vars

\* Every event is eventually published or failed, although relays crash and
\* publishers fail (the poll loop, retry backoff and rollback together).
EventuallySettled ==
  \A r \in Rows :
    row[r].state = "pending" ~> row[r].state \in {"published", "failed"}

\* worker.rs: "The row is still in state='processing' so no other worker can
\* claim it during this window": between the SELECT and the UPDATE of
\* mark_failed.
WindowKept ==
  [][\A w, v \in Workers :
       work[w].step \in {"requeue", "fail"} /\ v # w
         => work[w].at \notin work'[v].todo \ work[v].todo]_vars

=============================================================================
