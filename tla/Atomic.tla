------------------------------- MODULE Atomic -------------------------------
(***************************************************************************)
(* atomic(): transactions and nested savepoints over pooled connections    *)
(* (djogi/src/transaction.rs, djogi/src/context/mod.rs).                    *)
(*                                                                         *)
(* Each task runs retry_on_conflict around one atomic(&mut pool_ctx, ..)   *)
(* call.  The call checks a connection out of the pool, opens a            *)
(* transaction, runs a closure that may query, swap its auth, register     *)
(* on_commit callbacks and open nested atomic() scopes, and ends by commit *)
(* or rollback.  Any closure may fail or panic, any future may be dropped, *)
(* any statement may be refused by the server, the connection may die.     *)
(*                                                                         *)
(* sess[c] is what the Postgres session of connection slot c holds; ctx[t] *)
(* is what the DjogiContext of task t believes.  Most properties relate    *)
(* the two.                                                                *)
(***************************************************************************)
EXTENDS Integers, Sequences, FiniteSets

CONSTANTS
  Tasks,        \* callers of atomic()
  Conns,        \* connection slots of the pool
  Tenants,      \* tenant ids an AuthContext may carry
  Effects,      \* rows a closure may create, each with its on_commit callback
  MaxDepth,     \* bound on the nesting of atomic() scopes
  MaxSavepoints,\* bound on the savepoints a session holds: dropped scopes leave
                \* theirs behind, and a closure may drop any number of them
  MaxAttempts,  \* the attempts argument of retry_on_conflict
  NoConn,       \* "no connection held"
  NoTenant,     \* empty app.tenant_id; also an auth without tenant_id
  NoAuth,       \* no AuthContext attached
  Swallow,      \* TRUE: a closure may return Ok after a failed statement
  AbandonStmt   \* TRUE: a closure may drop the future of a running statement

ASSUME TenantsAssumption ==
  /\ NoTenant \notin Tenants
  /\ NoAuth \notin Tenants \cup {NoTenant}
ASSUME ConnsAssumption == NoConn \notin Conns
ASSUME BoundsAssumption ==
  /\ MaxDepth \in Nat
  /\ MaxSavepoints \in Nat
  /\ MaxAttempts \in Nat \ {0}
  /\ Swallow \in BOOLEAN
  /\ AbandonStmt \in BOOLEAN

VARIABLES
  sess,     \* [Conns -> Session], the server's side of every slot
  idle,     \* slots the pool can hand out
  ctx,      \* [Tasks -> Context], the transaction-backed DjogiContext
  call,     \* [Tasks -> Call], where the call stands
  parent,   \* [Tasks -> Auth], auth of the pool-backed context
  landed,   \* history: operations committed by the server
  fired,    \* history: operations whose on_commit callback ran
  undone    \* history: operations of scopes that did not return Ok

vars == <<sess, idle, ctx, call, parent, landed, fired, undone>>

-----------------------------------------------------------------------------
(* Types.                                                                   *)

Guc  == Tenants \cup {NoTenant}
Auth == Guc \cup {NoAuth}

\* An effect in one attempt of one task.
Op == Tasks \X (1..MaxAttempts) \X Effects

\* One SAVEPOINT the server remembers: what ROLLBACK TO goes back to.
Savepoint == [name : Nat, guc : Guc, wr : SUBSET Op]

Session == [st  : {"idle", "active", "aborted", "dead"},
            guc : Guc, wr : SUBSET Op, sps : Seq(Savepoint)]

FreshSession == [st |-> "idle", guc |-> NoTenant, wr |-> {}, sps |-> <<>>]
DeadSession  == [FreshSession EXCEPT !.st = "dead"]

\* What run_nested_savepoint_atomic snapshots before it enters the closure
\* (made is history: the operations already made at that point).
Frame == [cb : Nat, auth : Auth, applied : Guc, made : SUBSET Op]

Context == [conn : Conns \cup {NoConn}, auth : Auth, applied : Guc,
            queue : Seq(Op), frames : Seq(Frame), poisoned : BOOLEAN]

NoContext == [conn |-> NoConn, auth |-> NoAuth, applied |-> NoTenant,
              queue |-> <<>>, frames |-> <<>>, poisoned |-> FALSE]

Outcomes == {"none", "ok", "err", "lost", "poisoned", "cancelled"}

Call == [pc : {"start", "body", "drain", "done"}, attempt : 1..MaxAttempts,
         made : SUBSET Op, outcome : Outcomes]

TypeOK ==
  /\ sess \in [Conns -> Session]
  /\ idle \subseteq Conns
  /\ ctx \in [Tasks -> Context]
  /\ call \in [Tasks -> Call]
  /\ parent \in [Tasks -> Auth]
  /\ landed \subseteq Op
  /\ fired \subseteq Op
  /\ undone \subseteq Op

Init ==
  /\ sess = [c \in Conns |-> FreshSession]
  /\ idle = Conns
  /\ ctx = [t \in Tasks |-> NoContext]
  /\ call = [t \in Tasks |-> [pc |-> "start", attempt |-> 1, made |-> {},
                              outcome |-> "none"]]
  /\ parent \in [Tasks -> Auth]
  /\ landed = {} /\ fired = {} /\ undone = {}

-----------------------------------------------------------------------------
(* The server's answer to a statement.                                      *)

Sess(t) == sess[ctx[t].conn]

\* An error inside a transaction aborts it.
Refuse(s) == [s EXCEPT !.st = "aborted"]

\* SET LOCAL app.tenant_id
SetGuc(s, x) == [s EXCEPT !.guc = x]

PushSavepoint(s, d) ==
  [s EXCEPT !.sps = Append(@, [name |-> d, guc |-> s.guc, wr |-> s.wr])]

\* The most recent savepoint called sp_<d>, if there is one.
Latest(s, d) ==
  {i \in 1..Len(s.sps) :
     s.sps[i].name = d /\ \A j \in (i + 1)..Len(s.sps) : s.sps[j].name # d}

\* RELEASE SAVEPOINT sp_<d>: also forgets every later savepoint.
Release(s, d) ==
  IF Latest(s, d) = {} THEN {Refuse(s)}
  ELSE {[s EXCEPT !.sps = SubSeq(@, 1, i - 1)] : i \in Latest(s, d)}

\* ROLLBACK TO SAVEPOINT sp_<d>: keeps that savepoint, restores writes and GUC.
RollbackTo(s, d) ==
  IF Latest(s, d) = {} THEN {Refuse(s)}
  ELSE {[st |-> "active", guc |-> s.sps[i].guc, wr |-> s.sps[i].wr,
         sps |-> SubSeq(s.sps, 1, i)] : i \in Latest(s, d)}

-----------------------------------------------------------------------------
(* The pool's side.                                                         *)

\* PgConnection dropped clean: the slot goes back with its session as it is
\* (RecyclingMethod::Fast issues no ROLLBACK and no RESET).
GiveBack(t, s) ==
  /\ sess' = [sess EXCEPT ![ctx[t].conn] = s]
  /\ idle' = idle \cup {ctx[t].conn}

\* PgConnection::detach: the socket is closed, the slot's next user gets a
\* new session.
Detach(t) == GiveBack(t, FreshSession)

\* Mutant: the guard gives the connection back whatever happened.
DropGuardNoDetach(t, clean, s) ==
  IF s.st # "dead" THEN GiveBack(t, s) ELSE Detach(t)

\* TopLevelAtomicGuard::drop: give back when clean, detach otherwise.
DropGuard(t, clean, s) ==
  IF clean /\ s.st # "dead" THEN GiveBack(t, s) ELSE Detach(t)

\* The session after ROLLBACK, if it got through.
AfterRollback(t, ok) ==
  IF ok /\ Sess(t).st # "dead" THEN FreshSession ELSE Sess(t)

\* retry_on_conflict after an attempt: run the closure again on a transient
\* error, otherwise the call is over.
Again(k) == [pc |-> "start", attempt |-> k.attempt + 1, made |-> {},
             outcome |-> "none"]
Over(k, kind) == [pc |-> "done", attempt |-> k.attempt, made |-> k.made,
                  outcome |-> IF kind = "transient" THEN "err" ELSE kind]

\* Mutants: one attempt too many; a lost connection counts as transient.
NextOffByOne(k, kind) ==
  IF kind = "transient" /\ k.attempt <= MaxAttempts THEN Again(k) ELSE Over(k, kind)
NextRetriesLost(k, kind) ==
  IF kind \in {"transient", "lost"} /\ k.attempt < MaxAttempts THEN Again(k)
  ELSE Over(k, kind)

NextAttempt(k, kind) ==
  IF kind = "transient" /\ k.attempt < MaxAttempts THEN Again(k) ELSE Over(k, kind)

\* One attempt ends: its context is gone.
Finish(t, kind) ==
  /\ ctx' = [ctx EXCEPT ![t] = NoContext]
  /\ call' = [call EXCEPT ![t] = NextAttempt(@, kind)]

\* Every operation of this attempt belongs to a scope that did not return Ok.
UndoAll(t) == undone' = undone \cup call[t].made

InBody(t) == call[t].pc = "body"
Depth(t)  == Len(ctx[t].frames)

-----------------------------------------------------------------------------
(* Top-level scope: run_pool_context_atomic.                                *)

\* pool.get and BEGIN succeed; the transaction context starts from the
\* parent's auth with no tenant applied.  BEGIN inside an open transaction
\* would only warn, hence the test on st.
Begin(t) ==
  /\ call[t].pc = "start"
  /\ \E c \in idle :
       /\ idle' = idle \ {c}
       /\ sess' = [sess EXCEPT ![c].st = IF @ = "idle" THEN "active" ELSE @]
       /\ ctx' = [ctx EXCEPT ![t] = [NoContext EXCEPT !.conn = c,
                                                      !.auth = parent[t]]]
  /\ call' = [call EXCEPT ![t].pc = "body"]
  /\ UNCHANGED <<parent, landed, fired, undone>>

\* Checkout times out (transient), or BEGIN is refused and the guard detaches.
BeginFails(t) ==
  /\ call[t].pc = "start"
  /\ \/ Finish(t, "transient") /\ UNCHANGED sess
     \/ /\ Finish(t, "err")
        /\ \E c \in idle : sess' = [sess EXCEPT ![c] = FreshSession]
  /\ UNCHANGED <<idle, parent, landed, fired, undone>>

\* The closure returned Ok.  Without Swallow it does so only when the last
\* statement it sent succeeded (it propagates errors with `?`).
ClosureOk(t) == InBody(t) /\ (Swallow \/ Sess(t).st # "aborted")

\* COMMIT succeeds.  On an aborted transaction the server rolls back and
\* still answers without an error, which commit_in_place takes for a commit.
Commit(t) ==
  /\ ClosureOk(t) /\ Depth(t) = 0 /\ ~ctx[t].poisoned
  /\ Sess(t).st \in {"active", "aborted"}
  /\ landed' = landed \cup (IF Sess(t).st = "active" THEN Sess(t).wr ELSE {})
  /\ sess' = [sess EXCEPT ![ctx[t].conn] = FreshSession]
  /\ call' = [call EXCEPT ![t].pc = "drain"]
  /\ UNCHANGED <<idle, ctx, parent, fired, undone>>

\* A poisoned context is rolled back instead: commit_in_place returns
\* TransactionPoisoned, and the connection is clean if ROLLBACK succeeded.
CommitPoisoned(t) ==
  /\ ClosureOk(t) /\ Depth(t) = 0 /\ ctx[t].poisoned
  /\ \E rolledBack \in BOOLEAN :
       DropGuard(t, rolledBack, AfterRollback(t, rolledBack))
  /\ Finish(t, "poisoned") /\ UndoAll(t)
  /\ UNCHANGED <<parent, landed, fired>>

\* COMMIT is refused (serialization failure, deferred constraint): nothing
\* landed, the callbacks die with the context, the guard stays dirty.
CommitRefused(t) ==
  /\ ClosureOk(t) /\ Depth(t) = 0 /\ ~ctx[t].poisoned
  /\ Sess(t).st = "active"
  /\ DropGuard(t, FALSE, FreshSession)
  /\ \E kind \in {"transient", "err"} : Finish(t, kind)
  /\ UndoAll(t)
  /\ UNCHANGED <<parent, landed, fired>>

\* The connection is lost under COMMIT: it may have landed or not, and the
\* error is not transient.
CommitLost(t) ==
  /\ ClosureOk(t) /\ Depth(t) = 0 /\ ~ctx[t].poisoned
  /\ Sess(t).st \in {"active", "dead"}
  /\ \E lands \in BOOLEAN :
       landed' = landed \cup (IF lands THEN Sess(t).wr ELSE {})
  /\ DropGuard(t, FALSE, DeadSession)
  /\ Finish(t, "lost")
  /\ UNCHANGED <<parent, fired, undone>>

\* drain_on_commit: the callbacks run one after the other, in order; one that
\* returns Err or whose future panics is logged and the next one runs.
Drain(t) ==
  /\ call[t].pc = "drain"
  /\ ctx[t].queue # <<>>
  /\ fired' = fired \cup {Head(ctx[t].queue)}
  /\ ctx' = [ctx EXCEPT ![t].queue = Tail(@)]
  /\ UNCHANGED <<sess, idle, call, parent, landed, undone>>

\* The guard is clean: the connection goes back, the parent takes the auth.
Return(t) ==
  /\ call[t].pc = "drain"
  /\ ctx[t].queue = <<>>
  /\ DropGuard(t, TRUE, Sess(t))
  /\ parent' = [parent EXCEPT ![t] = ctx[t].auth]
  /\ Finish(t, "ok")
  /\ UNCHANGED <<landed, fired, undone>>

\* The closure returned Err or panicked: rollback_in_place drops the callbacks
\* and rolls back; the original error decides on the retry.
ClosureFails(t) ==
  /\ InBody(t) /\ Depth(t) = 0
  /\ \E rolledBack \in BOOLEAN :
       DropGuard(t, rolledBack, AfterRollback(t, rolledBack))
  /\ \E kind \in {"transient", "err"} : Finish(t, kind)
  /\ UndoAll(t)
  /\ UNCHANGED <<parent, landed, fired>>

\* The caller drops the whole future (a timeout, a select!, a shutdown), or a
\* callback panics before it returns its future, at any await.  A COMMIT in
\* flight may still land.
Cancel(t) ==
  /\ call[t].pc \in {"body", "drain"}
  /\ \E inCommit \in BOOLEAN :
       /\ inCommit => /\ ClosureOk(t) /\ Depth(t) = 0 /\ ~ctx[t].poisoned
                      /\ Sess(t).st = "active"
       /\ landed' = landed \cup (IF inCommit THEN Sess(t).wr ELSE {})
       /\ undone' = undone \cup
            (IF inCommit \/ call[t].pc = "drain" THEN {} ELSE call[t].made)
  /\ DropGuard(t, FALSE, Sess(t))
  /\ Finish(t, "cancelled")
  /\ UNCHANGED <<parent, fired>>

\* The backend terminates the session: the transaction is gone.
ConnDies(t) ==
  /\ InBody(t) /\ Sess(t).st # "dead"
  /\ sess' = [sess EXCEPT ![ctx[t].conn] = DeadSession]
  /\ UNCHANGED <<idle, ctx, call, parent, landed, fired, undone>>

-----------------------------------------------------------------------------
(* Inside a closure: statements and auth.                                   *)

\* Statements get through to the server only on a context that is not
\* poisoned (reject_if_transaction_poisoned).
CanQuery(t) == InBody(t) /\ ~ctx[t].poisoned /\ Sess(t).st = "active"

\* set_auth(a): no statement is sent.
SetAuth(t, a) ==
  /\ InBody(t) /\ a # NoAuth
  /\ ctx' = [ctx EXCEPT ![t].auth = a]
  /\ UNCHANGED <<sess, idle, call, parent, landed, fired, undone>>

\* set_tenant(x), called by hand.
SetTenant(t, x) ==
  /\ CanQuery(t)
  /\ sess' = [sess EXCEPT ![ctx[t].conn] = SetGuc(@, x)]
  /\ ctx' = [ctx EXCEPT ![t].applied = x]
  /\ UNCHANGED <<idle, call, parent, landed, fired, undone>>

\* Mutant: "a tenant is set" is enough, whichever it is.
NeedsAnyTenant(t) == ctx[t].auth \in Tenants /\ ctx[t].applied = NoTenant

\* Does auto_set_tenant send a SET LOCAL before a query?  Not without auth,
\* and not when the tenant it wants is the one it applied last
\* (ensure_tenant_set); auth without tenant clears what was applied.
NeedsTenant(t) == ctx[t].auth # NoAuth /\ ctx[t].applied # ctx[t].auth

AfterTenant(t) == IF NeedsTenant(t) THEN SetGuc(Sess(t), ctx[t].auth) ELSE Sess(t)

\* Model::create on a tenant-keyed model, with an on_commit callback about the
\* row: SET LOCAL when needed, then the INSERT, then the callback is queued.
Create(t, e) ==
  LET op == <<t, call[t].attempt, e>> IN
  /\ CanQuery(t) /\ op \notin call[t].made
  /\ sess' = [sess EXCEPT ![ctx[t].conn] =
                [AfterTenant(t) EXCEPT !.wr = @ \cup {op}]]
  /\ ctx' = [ctx EXCEPT ![t].applied = IF NeedsTenant(t) THEN ctx[t].auth ELSE @,
                        ![t].queue = Append(@, op)]
  /\ call' = [call EXCEPT ![t].made = @ \cup {op}]
  /\ UNCHANGED <<idle, parent, landed, fired, undone>>

\* The same call when the server refuses the SET LOCAL or the INSERT.
CreateFails(t) ==
  /\ CanQuery(t)
  /\ \/ sess' = [sess EXCEPT ![ctx[t].conn] = Refuse(@)] /\ UNCHANGED ctx
     \/ /\ sess' = [sess EXCEPT ![ctx[t].conn] = Refuse(AfterTenant(t))]
        /\ ctx' = [ctx EXCEPT ![t].applied =
                     IF NeedsTenant(t) THEN ctx[t].auth ELSE @]
  /\ UNCHANGED <<idle, call, parent, landed, fired, undone>>

\* The closure drops a query's future while its SET LOCAL is on the wire: the
\* server runs it, the context never records it.
AbandonTenant(t) ==
  /\ AbandonStmt /\ CanQuery(t) /\ NeedsTenant(t)
  /\ sess' = [sess EXCEPT ![ctx[t].conn] = AfterTenant(t)]
  /\ UNCHANGED <<idle, ctx, call, parent, landed, fired, undone>>

-----------------------------------------------------------------------------
(* Nested scopes: run_nested_savepoint_atomic.  The SAVEPOINT statements go   *)
(* straight to the connection, poisoned context or not.                     *)

InnerFrame(t) == ctx[t].frames[Depth(t)]
PopFrame(t)   == SubSeq(ctx[t].frames, 1, Depth(t) - 1)

\* Mutant: auth and applied_tenant_id keep the values of the scope.
RestoreQueueOnly(t, i) ==
  [ctx[t] EXCEPT !.queue = SubSeq(@, 1, ctx[t].frames[i].cb),
                 !.frames = SubSeq(@, 1, i - 1)]

\* Undo in memory what the frame at depth i and those above it did.
RestoreParentState(t, i) ==
  LET f == ctx[t].frames[i] IN
  [ctx[t] EXCEPT !.queue = SubSeq(@, 1, f.cb), !.auth = f.auth,
                 !.applied = f.applied, !.frames = SubSeq(@, 1, i - 1)]

\* NestedAtomicCancellationGuard::drop also poisons the context.
Unpoisoned(t, i) == RestoreParentState(t, i)   \* mutant: it does not
CancelledContext(t, i) == [RestoreParentState(t, i) EXCEPT !.poisoned = TRUE]

\* A scope that ends well leaves queue and auth as they are.
DiscardingContext(t) == RestoreParentState(t, Depth(t))   \* mutant
ReleasedContext(t)   == [ctx[t] EXCEPT !.frames = PopFrame(t)]

UndoScope(t, i) ==
  undone' = undone \cup (call[t].made \ ctx[t].frames[i].made)

\* SAVEPOINT sp_<depth> succeeds and the inner closure starts.
NestedEnter(t) ==
  /\ InBody(t) /\ Depth(t) < MaxDepth /\ Sess(t).st = "active"
  /\ Len(Sess(t).sps) < MaxSavepoints
  /\ sess' = [sess EXCEPT ![ctx[t].conn] = PushSavepoint(@, Depth(t) + 1)]
  /\ ctx' = [ctx EXCEPT ![t].frames = Append(@,
       [cb |-> Len(ctx[t].queue), auth |-> ctx[t].auth,
        applied |-> ctx[t].applied, made |-> call[t].made])]
  /\ UNCHANGED <<idle, call, parent, landed, fired, undone>>

\* The closure drops a nested atomic() future that still waits for its
\* SAVEPOINT: the guard is armed already and poisons the context.
NestedEnterCancel(t) ==
  /\ InBody(t) /\ Depth(t) < MaxDepth
  /\ ctx' = [ctx EXCEPT ![t].poisoned = TRUE]
  /\ \/ UNCHANGED sess
     \/ /\ Sess(t).st = "active" /\ Len(Sess(t).sps) < MaxSavepoints
        /\ sess' = [sess EXCEPT ![ctx[t].conn] = PushSavepoint(@, Depth(t) + 1)]
  /\ UNCHANGED <<idle, call, parent, landed, fired, undone>>

\* SAVEPOINT is refused: the scope is not entered.
NestedRefused(t) ==
  /\ InBody(t) /\ Depth(t) < MaxDepth /\ Sess(t).st = "active"
  /\ sess' = [sess EXCEPT ![ctx[t].conn] = Refuse(@)]
  /\ UNCHANGED <<idle, ctx, call, parent, landed, fired, undone>>

\* The inner closure returned Ok and RELEASE succeeds: its callbacks and its
\* auth stay with the parent scope.
NestedOk(t) ==
  /\ ClosureOk(t) /\ Depth(t) > 0 /\ Sess(t).st = "active"
  /\ \E s \in Release(Sess(t), Depth(t)) :
       sess' = [sess EXCEPT ![ctx[t].conn] = s]
  /\ ctx' = [ctx EXCEPT ![t] = ReleasedContext(t)]
  /\ UNCHANGED <<idle, call, parent, landed, fired, undone>>

\* The inner closure returned Ok and RELEASE fails: the scope returns Err, but
\* its callbacks and its auth stay with the parent scope.
NestedReleaseFails(t) ==
  /\ ClosureOk(t) /\ Depth(t) > 0
  /\ sess' = [sess EXCEPT ![ctx[t].conn] = IF @.st = "dead" THEN @ ELSE Refuse(@)]
  /\ ctx' = [ctx EXCEPT ![t] = ReleasedContext(t)]
  /\ UndoScope(t, Depth(t))
  /\ UNCHANGED <<idle, call, parent, landed, fired>>

\* The inner closure returned Err or panicked: the parent's queue and auth are
\* restored, then ROLLBACK TO and RELEASE.  Their failure is only logged.
NestedFails(t) ==
  /\ InBody(t) /\ Depth(t) > 0
  /\ ctx' = [ctx EXCEPT ![t] = RestoreParentState(t, Depth(t))]
  /\ UndoScope(t, Depth(t))
  /\ \/ Sess(t).st = "dead" /\ UNCHANGED sess
     \/ /\ Sess(t).st # "dead"
        /\ \E back \in RollbackTo(Sess(t), Depth(t)) :
           \E s \in Release(back, Depth(t)) \cup {Refuse(back), Refuse(Sess(t))} :
             sess' = [sess EXCEPT ![ctx[t].conn] = s]
  /\ UNCHANGED <<idle, call, parent, landed, fired>>

\* A closure drops a nested atomic() future (and every scope inside it):
\* NestedAtomicCancellationGuard::drop restores the parent's state and poisons
\* the context, the savepoints stay where they are.  A RELEASE of the
\* innermost scope may have been on the wire.
NestedCancel(t, i) ==
  /\ InBody(t) /\ i \in 1..Depth(t)
  /\ ctx' = [ctx EXCEPT ![t] = CancelledContext(t, i)]
  /\ UndoScope(t, i)
  /\ \/ UNCHANGED sess
     \/ /\ Sess(t).st = "active"
        /\ \E s \in Release(Sess(t), Depth(t)) :
             sess' = [sess EXCEPT ![ctx[t].conn] = s]
  /\ UNCHANGED <<idle, call, parent, landed, fired>>

-----------------------------------------------------------------------------

TopLevel(t) ==
  \/ Begin(t) \/ BeginFails(t) \/ Commit(t) \/ CommitPoisoned(t)
  \/ CommitRefused(t) \/ CommitLost(t) \/ Drain(t) \/ Return(t)
  \/ ClosureFails(t) \/ Cancel(t) \/ ConnDies(t)

Statement(t) ==
  \/ \E a \in Auth : SetAuth(t, a)
  \/ \E x \in Tenants : SetTenant(t, x)
  \/ \E e \in Effects : Create(t, e)
  \/ CreateFails(t) \/ AbandonTenant(t)

Nested(t) ==
  \/ NestedEnter(t) \/ NestedEnterCancel(t) \/ NestedRefused(t) \/ NestedOk(t)
  \/ NestedReleaseFails(t) \/ NestedFails(t)
  \/ \E i \in 1..MaxDepth : NestedCancel(t, i)

Next == \E t \in Tasks : TopLevel(t) \/ Statement(t) \/ Nested(t)

Spec == Init /\ [][Next]_vars

-----------------------------------------------------------------------------
(* Properties.                                                              *)

\* Every slot the pool can hand out holds a session without transaction, GUC
\* or savepoint: TopLevelAtomicGuard gives back only connections known clean,
\* which RecyclingMethod::Fast relies on.
PoolClean == \A c \in idle : sess[c] = FreshSession

\* While the transaction can run queries, applied_tenant_id is the value
\* app.tenant_id has on the server, through every mixture of nested scopes
\* that were released, rolled back to, or failed half-way: the reason why
\* AuthStateSnapshot exists.
TrackerMatches ==
  \A t \in Tasks : CanQuery(t) => Sess(t).guc = ctx[t].applied

\* A row created under an auth with a tenant is written while app.tenant_id is
\* that tenant, and under an auth without one while it is empty, whatever the
\* scopes entered and left before did to both (auto_set_tenant).
RowTenant ==
  [][\A t \in Tasks :
       call'[t].made # call[t].made /\ ctx'[t].conn # NoConn /\ ctx[t].auth # NoAuth
         => sess'[ctx[t].conn].guc = ctx[t].auth]_vars

\* An operation whose scope, or a scope around it, returned Err, panicked or
\* was dropped is never committed, whatever the callers around it do next:
\* rollback, savepoints and poisoning together.
UndoneNeverLands == landed \cap undone = {}

\* An on_commit callback runs only for an operation that was committed
\* (commit_in_place, truncate_on_commit_queue).
CallbackAfterCommit == fired \subseteq landed

\* When atomic() returned Ok, everything its surviving scopes did is committed
\* and their callbacks ran.
OkMeansDone ==
  \A t \in Tasks : call[t].outcome = "ok" =>
    call[t].made \ undone \subseteq landed \cap fired

\* Of the attempts of one retry_on_conflict at most one commits: an attempt
\* whose COMMIT may have landed is never run again (is_transient).
OneAttemptLands ==
  \A p, q \in landed : p[1] = q[1] => p[2] = q[2]

\* What atomic() promises its callers (AtomicPromise), with the same history.
Promise == INSTANCE AtomicPromise
PromiseSpec == Promise!Spec

=============================================================================
