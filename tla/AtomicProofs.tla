---------------------------- MODULE AtomicProofs ----------------------------
(***************************************************************************)
(* Proofs about Atomic, for any tasks, connections, tenants and bounds:    *)
(* type correctness, and that the pool never hands out a session with      *)
(* state in it.                                                            *)
(*                                                                         *)
(* PoolClean is not inductive: it needs to know that a call inside its     *)
(* scope owns its connection alone (otherwise one call's statements would  *)
(* dirty a slot another one has just given back), and that a call that     *)
(* drains its callbacks holds a session COMMIT has already cleared.        *)
(***************************************************************************)
EXTENDS Atomic, TLAPS

\* The callback marks of a context's frames fit its queue, innermost last, so
\* that truncate_on_commit_queue only ever shortens it.
Fit(x) ==
  \A i \in 1..Len(x.frames) :
    /\ x.frames[i].cb <= Len(x.queue)
    /\ \A j \in 1..Len(x.frames) : i <= j => x.frames[i].cb <= x.frames[j].cb

\* A call inside its scope owns a connection that is not in the pool; a call
\* outside holds none; no two calls hold the same one.
Owned ==
  /\ \A t \in Tasks :
       IF call[t].pc \in {"body", "drain"} THEN ctx[t].conn \in Conns \ idle
                                           ELSE ctx[t].conn = NoConn
  /\ \A t, u \in Tasks : t # u /\ ctx[t].conn = ctx[u].conn => ctx[t].conn = NoConn

\* After COMMIT the session is empty and no scope is open.
Drained ==
  \A t \in Tasks : call[t].pc = "drain" =>
    sess[ctx[t].conn] = FreshSession /\ ctx[t].frames = <<>>

\* The inductive invariant.
IInv ==
  /\ TypeOK
  /\ Owned
  /\ Drained
  /\ PoolClean
  /\ \A t \in Tasks : Fit(ctx[t])

-----------------------------------------------------------------------------
(* The server's answers have the type of a session.                         *)

LEMMA FreshType == FreshSession \in Session /\ DeadSession \in Session
<1>1. <<>> \in Seq(Savepoint) /\ {} \in SUBSET Op /\ NoTenant \in Guc
  BY DEF Guc
<1>2. FreshSession \in Session
  BY <1>1 DEF FreshSession, Session
<1>3. QED
  BY <1>2 DEF DeadSession, Session

LEMMA RefuseType == \A s \in Session : Refuse(s) \in Session
  BY DEF Refuse, Session

LEMMA ReleaseType ==
  \A s \in Session, d \in Nat : \A r \in Release(s, d) : r \in Session
<1> SUFFICES ASSUME NEW s \in Session, NEW d \in Nat, NEW r \in Release(s, d)
             PROVE  r \in Session
  OBVIOUS
<1>1. CASE Latest(s, d) = {}
  BY <1>1, RefuseType DEF Release
<1>2. CASE Latest(s, d) # {}
  <2>1. PICK i \in Latest(s, d) : r = [s EXCEPT !.sps = SubSeq(@, 1, i - 1)]
    BY <1>2 DEF Release
  <2>2. i \in 1..Len(s.sps) /\ s.sps \in Seq(Savepoint)
    BY DEF Latest, Session
  <2>3. SubSeq(s.sps, 1, i - 1) \in Seq(Savepoint)
    BY <2>2
  <2>4. QED
    BY <2>1, <2>3 DEF Session
<1>3. QED
  BY <1>1, <1>2

LEMMA RollbackToType ==
  \A s \in Session, d \in Nat : \A r \in RollbackTo(s, d) : r \in Session
<1> SUFFICES ASSUME NEW s \in Session, NEW d \in Nat, NEW r \in RollbackTo(s, d)
             PROVE  r \in Session
  OBVIOUS
<1>1. CASE Latest(s, d) = {}
  BY <1>1, RefuseType DEF RollbackTo
<1>2. CASE Latest(s, d) # {}
  <2>1. PICK i \in Latest(s, d) :
          r = [st |-> "active", guc |-> s.sps[i].guc, wr |-> s.sps[i].wr,
               sps |-> SubSeq(s.sps, 1, i)]
    BY <1>2 DEF RollbackTo
  <2>2. i \in 1..Len(s.sps) /\ s.sps \in Seq(Savepoint)
    BY DEF Latest, Session
  <2>3. s.sps[i] \in Savepoint /\ SubSeq(s.sps, 1, i) \in Seq(Savepoint)
    BY <2>2
  <2>4. QED
    BY <2>1, <2>3 DEF Session, Savepoint
<1>3. QED
  BY <1>1, <1>2

LEMMA PushType ==
  \A s \in Session, d \in Nat : PushSavepoint(s, d) \in Session
<1> SUFFICES ASSUME NEW s \in Session, NEW d \in Nat
             PROVE  PushSavepoint(s, d) \in Session
  OBVIOUS
<1> DEFINE sp == [name |-> d, guc |-> s.guc, wr |-> s.wr]
<1>1. sp \in Savepoint
  BY DEF Session, Savepoint
<1>2. s.sps \in Seq(Savepoint)
  BY DEF Session
<1>3. Append(s.sps, sp) \in Seq(Savepoint)
  <2> HIDE DEF sp
  <2>1. QED
    BY <1>1, <1>2
<1>4. PushSavepoint(s, d) = [s EXCEPT !.sps = Append(s.sps, sp)]
  BY DEF PushSavepoint
<1> HIDE DEF sp
<1> DEFINE new == Append(s.sps, sp)
<1>5. new \in Seq(Savepoint)
  BY <1>3
<1> HIDE DEF new
<1>6. [s EXCEPT !.sps = new] \in Session
  BY <1>5 DEF Session
<1>7. QED
  BY <1>4, <1>6 DEF new

LEMMA GucType == \A s \in Session, x \in Guc : SetGuc(s, x) \in Session
  BY DEF SetGuc, Session

LEMMA NoContextType == NoContext \in Context /\ Fit(NoContext)
<1>1. <<>> \in Seq(Op) /\ <<>> \in Seq(Frame)
  OBVIOUS
<1>2. QED
  BY <1>1 DEF NoContext, Context, Fit, Auth, Guc

-----------------------------------------------------------------------------
(* The two ways a step of a call goes: it stays in its scope and changes its *)
(* own session and context, or it leaves the scope through DropGuard and     *)
(* Finish.                                                                   *)

\* What every step preserves, whatever it does to sess, idle, ctx and call.
HistoryOK == landed \in SUBSET Op /\ fired \in SUBSET Op /\ undone \in SUBSET Op
             /\ parent \in [Tasks -> Auth]

LEMMA StayInScope ==
  ASSUME NEW t \in Tasks, IInv, HistoryOK',
         call[t].pc \in {"body", "drain"},
         NEW s \in Session, NEW x \in Context, NEW k \in Call,
         x.conn = ctx[t].conn, Fit(x),
         k.pc \in {"body", "drain"},
         k.pc = "drain" => s = FreshSession /\ x.frames = <<>>,
         sess' = [sess EXCEPT ![ctx[t].conn] = s],
         ctx' = [ctx EXCEPT ![t] = x],
         call' = [call EXCEPT ![t] = k],
         idle' = idle
  PROVE  IInv'
<1>1. ctx[t].conn \in Conns \ idle
  BY DEF IInv, Owned
<1>2. TypeOK'
  BY DEF IInv, TypeOK, HistoryOK
<1>3. Owned'
  BY DEF IInv, Owned, TypeOK
<1>4. Drained'
  <2> SUFFICES ASSUME NEW u \in Tasks, call'[u].pc = "drain"
               PROVE  sess'[ctx'[u].conn] = FreshSession /\ ctx'[u].frames = <<>>
    BY DEF Drained
  <2>1. CASE u = t
    BY <2>1, <1>1 DEF IInv, TypeOK
  <2>2. CASE u # t
    <3>1. call[u].pc = "drain" /\ ctx'[u] = ctx[u] /\ ctx[u].conn \in Conns
      BY <2>2 DEF IInv, TypeOK, Owned
    <3>2. ctx[u].conn # ctx[t].conn
      BY <3>1, <2>2, ConnsAssumption DEF IInv, Owned
    <3>3. QED
      BY <3>1, <3>2 DEF IInv, Drained, TypeOK
  <2>3. QED
    BY <2>1, <2>2
<1>5. PoolClean'
  BY <1>1 DEF IInv, PoolClean, TypeOK
<1>6. \A u \in Tasks : Fit(ctx'[u])
  BY DEF IInv, TypeOK
<1>7. (\A u \in Tasks : Fit(ctx[u]))'
  BY <1>6 DEF Fit
<1>8. QED
  BY <1>2, <1>3, <1>4, <1>5, <1>7 DEF IInv

LEMMA NextAttemptType ==
  ASSUME NEW k \in Call,
         NEW kind \in {"transient", "ok", "err", "lost", "poisoned", "cancelled"}
  PROVE  /\ NextAttempt(k, kind) \in Call
         /\ NextAttempt(k, kind).pc \in {"start", "done"}
<1>1. k.attempt < MaxAttempts => Again(k) \in Call /\ Again(k).pc = "start"
  BY BoundsAssumption DEF Again, Call, Outcomes
<1>2. Over(k, kind) \in Call /\ Over(k, kind).pc = "done"
  BY DEF Over, Call, Outcomes
<1>3. QED
  BY <1>1, <1>2 DEF NextAttempt

LEMMA LeaveScope ==
  ASSUME NEW t \in Tasks, IInv, HistoryOK',
         call[t].pc \in {"body", "drain"},
         NEW clean \in BOOLEAN, NEW s \in Session,
         clean => s = FreshSession \/ s.st = "dead",
         NEW kind \in {"transient", "ok", "err", "lost", "poisoned", "cancelled"},
         DropGuard(t, clean, s),
         Finish(t, kind)
  PROVE  IInv'
<1> DEFINE c == ctx[t].conn
           k == NextAttempt(call[t], kind)
<1>1. c \in Conns \ idle /\ c # NoConn
  BY ConnsAssumption DEF IInv, Owned
<1>2. sess' = [sess EXCEPT ![c] = FreshSession] /\ idle' = idle \cup {c}
  BY DEF DropGuard, GiveBack, Detach, FreshSession
<1>3. ctx' = [ctx EXCEPT ![t] = NoContext]
  BY DEF Finish
<1>4. /\ call' = [call EXCEPT ![t] = k]
      /\ k \in Call
      /\ k.pc \in {"start", "done"}
  BY NextAttemptType DEF Finish, IInv, TypeOK
<1> HIDE DEF k
<1>5. TypeOK'
  BY <1>1, <1>2, <1>3, <1>4, FreshType, NoContextType DEF IInv, TypeOK, HistoryOK
<1>6. Owned'
  <2>1. \A u \in Tasks \ {t} : ctx[u].conn # c
    BY <1>1 DEF IInv, Owned
  <2>2. ctx'[t].conn = NoConn /\ \A u \in Tasks \ {t} : ctx'[u] = ctx[u] /\ call'[u] = call[u]
    BY <1>3, <1>4 DEF NoContext, IInv, TypeOK
  <2>3. call'[t] = k
    BY <1>4 DEF IInv, TypeOK
  <2>4. QED
    BY <1>2, <1>4, <2>1, <2>2, <2>3 DEF IInv, Owned
<1>7. Drained'
  BY <1>1, <1>2, <1>3, <1>4 DEF IInv, Drained, Owned, TypeOK
<1>8. PoolClean'
  BY <1>1, <1>2 DEF IInv, PoolClean, TypeOK
<1>9. \A u \in Tasks : Fit(ctx'[u])
  BY <1>3, NoContextType DEF IInv, TypeOK
<1>10. (\A u \in Tasks : Fit(ctx[u]))'
  BY <1>9 DEF Fit
<1>11. QED
  BY <1>5, <1>6, <1>7, <1>8, <1>10 DEF IInv

-----------------------------------------------------------------------------
(* Facts about a call inside its scope.                                     *)

LEMMA InScope ==
  ASSUME NEW t \in Tasks, IInv, call[t].pc \in {"body", "drain"}
  PROVE  /\ ctx[t] \in Context /\ call[t] \in Call
         /\ Sess(t) \in Session
         /\ Depth(t) \in Nat
         /\ Fit(ctx[t])
         /\ Sess(t).wr \in SUBSET Op /\ call[t].made \in SUBSET Op
<1>1. ctx[t] \in Context /\ call[t] \in Call /\ ctx[t].conn \in Conns
  BY DEF IInv, TypeOK, Owned
<1>2. Sess(t) \in Session
  BY <1>1 DEF IInv, TypeOK, Sess
<1>3. QED
  BY <1>1, <1>2 DEF IInv, Depth, Context, Call, Session

LEMMA RestoreType ==
  ASSUME NEW x \in Context, Fit(x), NEW i \in 1..Len(x.frames)
  PROVE  LET y == [x EXCEPT !.queue = SubSeq(@, 1, x.frames[i].cb),
                            !.auth = x.frames[i].auth,
                            !.applied = x.frames[i].applied,
                            !.frames = SubSeq(@, 1, i - 1)]
         IN  y \in Context /\ y.conn = x.conn /\ Fit(y)
<1> DEFINE f == x.frames[i]
           y == [x EXCEPT !.queue = SubSeq(@, 1, f.cb), !.auth = f.auth,
                          !.applied = f.applied, !.frames = SubSeq(@, 1, i - 1)]
<1> HIDE DEF y
<1>0. x.frames \in Seq(Frame) /\ x.queue \in Seq(Op)
  BY DEF Context
<1>1. /\ x.frames \in Seq(Frame) /\ x.queue \in Seq(Op)
      /\ f \in Frame /\ f.cb \in Nat /\ f.cb <= Len(x.queue)
  <2>1. f \in Frame
    BY <1>0
  <2>2. QED
    BY <1>0, <2>1 DEF Frame, Fit
<1>2. /\ SubSeq(x.queue, 1, f.cb) \in Seq(Op) /\ Len(SubSeq(x.queue, 1, f.cb)) = f.cb
      /\ SubSeq(x.frames, 1, i - 1) \in Seq(Frame)
      /\ Len(SubSeq(x.frames, 1, i - 1)) = i - 1
      /\ \A j \in 1..(i - 1) : SubSeq(x.frames, 1, i - 1)[j] = x.frames[j]
  <2>1. SubSeq(x.queue, 1, f.cb) \in Seq(Op) /\ Len(SubSeq(x.queue, 1, f.cb)) = f.cb
    BY <1>1, SMTT(30)
  <2>2. SubSeq(x.frames, 1, i - 1) \in Seq(Frame)
    BY <1>1, SMTT(30)
  <2>3. /\ Len(SubSeq(x.frames, 1, i - 1)) = i - 1
        /\ \A j \in 1..(i - 1) : SubSeq(x.frames, 1, i - 1)[j] = x.frames[j]
    BY <1>1, SMTT(30)
  <2>4. QED
    BY <2>1, <2>2, <2>3
<1>3. y \in Context /\ y.conn = x.conn
  <2>1. f.auth \in Auth /\ f.applied \in Guc
    BY <1>1 DEF Frame
  <2>2. QED
    BY <1>2, <2>1 DEF Context, y
<1>4. Fit(y)
  <2>1. \A j \in 1..(i - 1) : x.frames[j].cb <= f.cb
    BY DEF Fit, Context
  <2>2. Len(y.queue) = f.cb /\ Len(y.frames) = i - 1
        /\ \A j \in 1..(i - 1) : y.frames[j] = x.frames[j]
    BY <1>2, <1>3 DEF Context, y
  <2>3. \A j \in 1..Len(x.frames) : x.frames[j].cb \in Nat
    <3>1. \A j \in 1..Len(x.frames) : x.frames[j] \in Frame
      BY <1>0
    <3>2. QED
      BY <3>1 DEF Frame
  <2>4. \A j, l \in 1..Len(x.frames) : j <= l => x.frames[j].cb <= x.frames[l].cb
    BY DEF Fit
  <2>5. Len(x.frames) \in Nat
    BY <1>1
  <2>6. 1..(i - 1) \subseteq 1..Len(x.frames)
    BY <2>5
  <2>7. \A j \in 1..(i - 1) : y.frames[j].cb <= Len(y.queue)
    BY <2>1, <2>2
  <2>8. \A j, l \in 1..(i - 1) : j <= l => y.frames[j].cb <= y.frames[l].cb
    BY <2>2, <2>4, <2>6
  <2>9. QED
    BY <2>2, <2>7, <2>8 DEF Fit
<1>5. QED
  BY <1>3, <1>4 DEF y

LEMMA PopType ==
  ASSUME NEW x \in Context, Fit(x), Len(x.frames) > 0
  PROVE  LET y == [x EXCEPT !.frames = SubSeq(x.frames, 1, Len(x.frames) - 1)]
         IN  y \in Context /\ y.conn = x.conn /\ Fit(y)
<1> DEFINE n == Len(x.frames)
           y == [x EXCEPT !.frames = SubSeq(x.frames, 1, n - 1)]
<1>1. x.frames \in Seq(Frame) /\ n \in Nat /\ n > 0
  BY DEF Context
<1>2. /\ SubSeq(x.frames, 1, n - 1) \in Seq(Frame)
      /\ Len(SubSeq(x.frames, 1, n - 1)) = n - 1
      /\ \A j \in 1..(n - 1) : SubSeq(x.frames, 1, n - 1)[j] = x.frames[j]
  BY <1>1
<1>3. y \in Context /\ y.conn = x.conn /\ y.queue = x.queue
      /\ y.frames = SubSeq(x.frames, 1, n - 1)
  BY <1>2 DEF Context
<1>4. QED
  BY <1>1, <1>2, <1>3 DEF Fit

LEMMA PushFrameType ==
  ASSUME NEW x \in Context, Fit(x), NEW m \in SUBSET Op
  PROVE  LET y == [x EXCEPT !.frames = Append(@,
                     [cb |-> Len(x.queue), auth |-> x.auth,
                      applied |-> x.applied, made |-> m])]
         IN  y \in Context /\ y.conn = x.conn /\ Fit(y)
<1> DEFINE n == Len(x.frames)
           f == [cb |-> Len(x.queue), auth |-> x.auth, applied |-> x.applied,
                 made |-> m]
           y == [x EXCEPT !.frames = Append(@, f)]
<1>1. x.frames \in Seq(Frame) /\ n \in Nat /\ Len(x.queue) \in Nat
  BY DEF Context
<1>2. f \in Frame /\ f.cb = Len(x.queue)
  BY <1>1 DEF Context, Frame
<1> HIDE DEF f
<1>3. /\ Append(x.frames, f) \in Seq(Frame)
      /\ Len(Append(x.frames, f)) = n + 1
      /\ Append(x.frames, f)[n + 1] = f
      /\ \A j \in 1..n : Append(x.frames, f)[j] = x.frames[j]
  BY <1>1, <1>2
<1>4. y \in Context /\ y.conn = x.conn /\ y.queue = x.queue
      /\ y.frames = Append(x.frames, f)
  BY <1>3 DEF Context
<1> HIDE DEF y
<1>5. \A j \in 1..(n + 1) : j \in 1..n \/ j = n + 1
  BY <1>1
<1>6. \A j \in 1..(n + 1) : y.frames[j].cb <= Len(y.queue)
  BY <1>1, <1>2, <1>3, <1>4, <1>5 DEF Fit
<1>7. \A j, l \in 1..(n + 1) : j <= l => y.frames[j].cb <= y.frames[l].cb
  BY <1>1, <1>2, <1>3, <1>4, <1>5 DEF Fit
<1>8. QED
  BY <1>3, <1>4, <1>6, <1>7 DEF Fit, f, y

LEMMA QueueType ==
  ASSUME NEW x \in Context, Fit(x), NEW op \in Op, NEW g \in Guc
  PROVE  LET y == [x EXCEPT !.applied = g, !.queue = Append(@, op)]
         IN  y \in Context /\ y.conn = x.conn /\ Fit(y)
<1> DEFINE y == [x EXCEPT !.applied = g, !.queue = Append(@, op)]
<1>1. x.queue \in Seq(Op) /\ x.frames \in Seq(Frame)
  BY DEF Context
<1>2. Append(x.queue, op) \in Seq(Op) /\ Len(Append(x.queue, op)) = Len(x.queue) + 1
  BY <1>1
<1>3. y \in Context /\ y.conn = x.conn /\ y.frames = x.frames
      /\ Len(y.queue) = Len(x.queue) + 1
  BY <1>2 DEF Context
<1>4. \A j \in 1..Len(x.frames) : x.frames[j].cb \in Nat
  <2>1. \A j \in 1..Len(x.frames) : x.frames[j] \in Frame
    BY <1>1
  <2>2. QED
    BY <2>1 DEF Frame
<1>5. Len(x.queue) \in Nat
  BY <1>1
<1> HIDE DEF y
<1>6. QED
  BY <1>3, <1>4, <1>5 DEF Fit, y

LEMMA Unchanged ==
  ASSUME NEW t \in Tasks, IInv
  PROVE  /\ ctx = [ctx EXCEPT ![t] = ctx[t]]
         /\ call = [call EXCEPT ![t] = call[t]]
         /\ sess = [sess EXCEPT ![ctx[t].conn] = Sess(t)]
  BY DEF IInv, TypeOK, Sess

LEMMA History ==
  ASSUME IInv,
         landed' \in SUBSET Op, fired' \in SUBSET Op, undone' \in SUBSET Op,
         parent' \in [Tasks -> Auth]
  PROVE  HistoryOK'
  BY DEF HistoryOK

\* Steps that change only the session and the context of a call in its body.
LEMMA BodyStep ==
  ASSUME NEW t \in Tasks, IInv, InBody(t), Depth(t) >= 0,
         NEW s \in Session, NEW x \in Context, x.conn = ctx[t].conn, Fit(x),
         NEW k \in Call, k.pc = "body",
         sess' = [sess EXCEPT ![ctx[t].conn] = s],
         ctx' = [ctx EXCEPT ![t] = x],
         call' = [call EXCEPT ![t] = k],
         UNCHANGED <<idle, parent, landed, fired>>,
         undone' \in SUBSET Op
  PROVE  IInv'
<1>1. HistoryOK'
  BY DEF IInv, TypeOK, HistoryOK
<1>2. call[t].pc = "body"
  BY DEF InBody
<1>3. QED
  BY <1>1, <1>2, StayInScope

\* A step in the body that changes nothing but the call's own session.
LEMMA SessionStep ==
  ASSUME NEW t \in Tasks, IInv, InBody(t), NEW s \in Session,
         sess' = [sess EXCEPT ![ctx[t].conn] = s],
         UNCHANGED <<idle, ctx, call, parent, landed, fired, undone>>
  PROVE  IInv'
<1>1. call[t] \in Call /\ call[t].pc = "body" /\ ctx[t] \in Context
      /\ Fit(ctx[t]) /\ Depth(t) >= 0
  BY InScope DEF InBody
<1>2. ctx' = [ctx EXCEPT ![t] = ctx[t]]
  BY Unchanged
<1>3. call' = [call EXCEPT ![t] = call[t]]
  BY Unchanged
<1>4. undone' \in SUBSET Op
  BY DEF IInv, TypeOK
<1> DEFINE x == ctx[t]
           k == call[t]
<1>5. k \in Call /\ k.pc = "body" /\ x \in Context /\ Fit(x) /\ x.conn = ctx[t].conn
  BY <1>1
<1>6. ctx' = [ctx EXCEPT ![t] = x] /\ call' = [call EXCEPT ![t] = k]
  BY <1>2, <1>3
<1>7. Depth(t) >= 0 /\ UNCHANGED <<idle, parent, landed, fired>>
  BY <1>1
<1> HIDE DEF x, k
<1>8. QED
  BY <1>4, <1>5, <1>6, <1>7, BodyStep

-----------------------------------------------------------------------------
(* One lemma per group of actions.                                          *)

LEMMA StatementStep ==
  ASSUME NEW t \in Tasks, IInv, Statement(t)
  PROVE  IInv'
<1>1. ASSUME NEW a \in Auth, SetAuth(t, a) PROVE IInv'
  <2> DEFINE x == [ctx[t] EXCEPT !.auth = a]
  <2>1. /\ InBody(t) /\ call[t].pc = "body"
        /\ ctx' = [ctx EXCEPT ![t] = x] /\ sess' = sess /\ call' = call
        /\ UNCHANGED <<idle, parent, landed, fired, undone>>
    BY <1>1 DEF SetAuth, InBody, IInv, TypeOK
  <2>2. Sess(t) \in Session /\ call[t] \in Call /\ ctx[t] \in Context
        /\ Fit(ctx[t]) /\ Depth(t) >= 0
    BY <2>1, InScope
  <2>3. x \in Context /\ x.conn = ctx[t].conn
        /\ x.frames = ctx[t].frames /\ x.queue = ctx[t].queue
    BY <2>2 DEF Context
  <2>4. Fit(x)
    BY <2>2, <2>3 DEF Fit
  <2> HIDE DEF x
  <2>5. undone' \in SUBSET Op
    BY <2>1 DEF IInv, TypeOK
  <2>6. /\ sess' = [sess EXCEPT ![ctx[t].conn] = Sess(t)]
        /\ call' = [call EXCEPT ![t] = call[t]]
    BY <2>1, Unchanged
  <2>7. QED
    BY <2>1, <2>2, <2>3, <2>4, <2>5, <2>6, BodyStep
<1>2. ASSUME NEW g \in Tenants, SetTenant(t, g) PROVE IInv'
  <2> DEFINE x == [ctx[t] EXCEPT !.applied = g]
             s == SetGuc(Sess(t), g)
  <2>1. /\ InBody(t) /\ call[t].pc = "body"
        /\ ctx' = [ctx EXCEPT ![t] = x] /\ call' = call
        /\ sess' = [sess EXCEPT ![ctx[t].conn] = s]
        /\ UNCHANGED <<idle, parent, landed, fired, undone>>
    BY <1>2 DEF SetTenant, CanQuery, InBody, IInv, TypeOK, Sess
  <2>2. Sess(t) \in Session /\ call[t] \in Call /\ ctx[t] \in Context
        /\ Fit(ctx[t]) /\ Depth(t) >= 0 /\ g \in Guc
    BY <2>1, InScope DEF Guc
  <2>3. x \in Context /\ x.conn = ctx[t].conn
        /\ x.frames = ctx[t].frames /\ x.queue = ctx[t].queue
    BY <2>2 DEF Context
  <2>4. Fit(x) /\ s \in Session
    BY <2>2, <2>3, GucType DEF Fit
  <2> HIDE DEF x, s
  <2>5. undone' \in SUBSET Op
    BY <2>1 DEF IInv, TypeOK
  <2>6. call' = [call EXCEPT ![t] = call[t]]
    BY <2>1, Unchanged
  <2>7. QED
    BY <2>1, <2>2, <2>3, <2>4, <2>5, <2>6, BodyStep
<1>3. ASSUME NEW e \in Effects, Create(t, e) PROVE IInv'
  <2> DEFINE op == <<t, call[t].attempt, e>>
             g == IF NeedsTenant(t) THEN ctx[t].auth ELSE ctx[t].applied
             x == [ctx[t] EXCEPT !.applied = g, !.queue = Append(@, op)]
             s == [AfterTenant(t) EXCEPT !.wr = @ \cup {op}]
             k == [call[t] EXCEPT !.made = @ \cup {op}]
  <2>1. InBody(t) /\ call[t].pc = "body"
    BY <1>3 DEF Create, CanQuery, InBody
  <2>2. Sess(t) \in Session /\ call[t] \in Call /\ ctx[t] \in Context
        /\ Fit(ctx[t]) /\ Depth(t) >= 0
    BY <2>1, InScope
  <2>3. op \in Op
    BY <2>2 DEF Op, Call
  <2> HIDE DEF op
  <2>4. /\ ctx' = [ctx EXCEPT ![t] = x]
        /\ sess' = [sess EXCEPT ![ctx[t].conn] = s]
        /\ call' = [call EXCEPT ![t] = k]
        /\ UNCHANGED <<idle, parent, landed, fired, undone>>
    BY <1>3 DEF Create, IInv, TypeOK, op
  <2>5. ctx[t].applied \in Guc
        /\ (NeedsTenant(t) => ctx[t].auth \in Guc) /\ AfterTenant(t) \in Session
    BY <2>2, GucType DEF NeedsTenant, AfterTenant, Context, Auth
  <2>6. g \in Guc
    BY <2>5
  <2>7. s \in Session
    BY <2>3, <2>5 DEF Session
  <2>8. k \in Call /\ k.pc = "body"
    BY <2>1, <2>2, <2>3 DEF Call
  <2> HIDE DEF g, s, k
  <2>9. x \in Context /\ x.conn = ctx[t].conn /\ Fit(x)
    BY <2>2, <2>3, <2>6, QueueType
  <2> HIDE DEF x
  <2>10. undone' \in SUBSET Op
    BY <2>4 DEF IInv, TypeOK
  <2>11. QED
    BY <2>1, <2>2, <2>4, <2>7, <2>8, <2>9, <2>10, BodyStep
<1>4. ASSUME CreateFails(t) PROVE IInv'
  <2> DEFINE g == IF NeedsTenant(t) THEN ctx[t].auth ELSE ctx[t].applied
             x == [ctx[t] EXCEPT !.applied = g]
  <2>1. InBody(t) /\ call[t].pc = "body" /\ call' = call
        /\ UNCHANGED <<idle, parent, landed, fired, undone>>
    BY <1>4 DEF CreateFails, CanQuery, InBody
  <2>2. Sess(t) \in Session /\ call[t] \in Call /\ ctx[t] \in Context
        /\ Fit(ctx[t]) /\ Depth(t) >= 0
    BY <2>1, InScope
  <2>3. AfterTenant(t) \in Session /\ g \in Guc
    BY <2>2, GucType DEF NeedsTenant, AfterTenant, Context, Auth
  <2>4. Refuse(Sess(t)) \in Session /\ Refuse(AfterTenant(t)) \in Session
    BY <2>2, <2>3, RefuseType
  <2> HIDE DEF g
  <2>5. x \in Context /\ x.conn = ctx[t].conn
        /\ x.frames = ctx[t].frames /\ x.queue = ctx[t].queue
    BY <2>2, <2>3 DEF Context
  <2>6. Fit(x)
    BY <2>2, <2>5 DEF Fit
  <2>7. undone' \in SUBSET Op
    BY <2>1 DEF IInv, TypeOK
  <2>8. CASE sess' = [sess EXCEPT ![ctx[t].conn] = Refuse(Sess(t))] /\ ctx' = ctx
    <3> QED BY <2>1, <2>4, <2>8, SessionStep
  <2>9. CASE /\ sess' = [sess EXCEPT ![ctx[t].conn] = Refuse(AfterTenant(t))]
             /\ ctx' = [ctx EXCEPT ![t] = x]
    <3> HIDE DEF x
    <3>1. call' = [call EXCEPT ![t] = call[t]]
      BY <2>1, Unchanged
    <3> QED BY <2>1, <2>2, <2>4, <2>5, <2>6, <2>7, <2>9, <3>1, BodyStep
  <2>10. QED
    BY <1>4, <2>8, <2>9 DEF CreateFails, Sess, IInv, TypeOK, g
<1>5. ASSUME AbandonTenant(t) PROVE IInv'
  <2>1. /\ InBody(t) /\ call[t].pc = "body" /\ NeedsTenant(t)
        /\ ctx' = ctx /\ call' = call
        /\ sess' = [sess EXCEPT ![ctx[t].conn] = AfterTenant(t)]
        /\ UNCHANGED <<idle, parent, landed, fired, undone>>
    BY <1>5 DEF AbandonTenant, CanQuery, InBody
  <2>2. Sess(t) \in Session /\ call[t] \in Call /\ ctx[t] \in Context
        /\ Fit(ctx[t]) /\ Depth(t) >= 0
    BY <2>1, InScope
  <2>3. AfterTenant(t) \in Session
    BY <2>1, <2>2, GucType DEF NeedsTenant, AfterTenant, Context, Auth
  <2>4. QED
    BY <2>1, <2>3, SessionStep
<1>6. QED
  BY <1>1, <1>2, <1>3, <1>4, <1>5 DEF Statement

LEMMA NestedStep ==
  ASSUME NEW t \in Tasks, IInv, Nested(t)
  PROVE  IInv'
<1>1. /\ InBody(t) /\ call[t].pc = "body" /\ call' = [call EXCEPT ![t] = call[t]]
      /\ UNCHANGED <<idle, parent, landed, fired>>
  <2>1. InBody(t) /\ call' = call /\ UNCHANGED <<idle, parent, landed, fired>>
    BY DEF Nested, NestedEnter, NestedEnterCancel, NestedRefused, NestedOk, NestedReleaseFails,
           NestedFails, NestedCancel, ClosureOk
  <2>2. QED
    BY <2>1, Unchanged DEF InBody
<1>2. /\ Sess(t) \in Session /\ call[t] \in Call /\ ctx[t] \in Context
      /\ Fit(ctx[t]) /\ Depth(t) >= 0 /\ Depth(t) \in Nat
      /\ call[t].made \in SUBSET Op
  BY <1>1, InScope
<1>3. undone \in SUBSET Op
  BY DEF IInv, TypeOK
<1>4. \A i : undone \cup (call[t].made \ ctx[t].frames[i].made) \in SUBSET Op
  BY <1>2, <1>3
<1>5. Refuse(Sess(t)) \in Session
  BY <1>2, RefuseType
<1>6. ASSUME NEW i \in 1..Depth(t)
      PROVE  /\ RestoreParentState(t, i) \in Context
             /\ RestoreParentState(t, i).conn = ctx[t].conn
             /\ Fit(RestoreParentState(t, i))
  BY <1>2, RestoreType DEF RestoreParentState, Depth
<1>7. ASSUME Depth(t) > 0
      PROVE  /\ ReleasedContext(t) \in Context
             /\ ReleasedContext(t).conn = ctx[t].conn
             /\ Fit(ReleasedContext(t))
  BY <1>2, <1>7, PopType DEF ReleasedContext, PopFrame, Depth
<1>8. CASE NestedEnter(t)
  <2> DEFINE f == [cb |-> Len(ctx[t].queue), auth |-> ctx[t].auth,
                   applied |-> ctx[t].applied, made |-> call[t].made]
             x == [ctx[t] EXCEPT !.frames = Append(@, f)]
             s == PushSavepoint(Sess(t), Depth(t) + 1)
  <2>1. /\ sess' = [sess EXCEPT ![ctx[t].conn] = s]
        /\ ctx' = [ctx EXCEPT ![t] = x]
        /\ undone' = undone
    BY <1>8 DEF NestedEnter, Sess, IInv, TypeOK
  <2>2. x \in Context /\ x.conn = ctx[t].conn /\ Fit(x)
    BY <1>2, PushFrameType
  <2>3. s \in Session
    BY <1>2, PushType
  <2> HIDE DEF x, s
  <2>4. QED
    BY <1>1, <1>2, <1>3, <2>1, <2>2, <2>3, BodyStep
<1>9. CASE NestedRefused(t)
  <2>1. /\ sess' = [sess EXCEPT ![ctx[t].conn] = Refuse(Sess(t))]
        /\ ctx' = ctx /\ undone' = undone
    BY <1>9 DEF NestedRefused, Sess, IInv, TypeOK
  <2>2. ctx' = [ctx EXCEPT ![t] = ctx[t]]
    BY <2>1, Unchanged
  <2>3. QED
    BY <1>1, <1>2, <1>3, <1>5, <2>1, <2>2, BodyStep
<1>10. CASE NestedOk(t)
  <2>1. PICK s \in Release(Sess(t), Depth(t)) :
          sess' = [sess EXCEPT ![ctx[t].conn] = s]
    BY <1>10 DEF NestedOk
  <2>2. Depth(t) > 0 /\ ctx' = [ctx EXCEPT ![t] = ReleasedContext(t)]
        /\ undone' = undone
    BY <1>10 DEF NestedOk
  <2>3. s \in Session
    BY <1>2, <2>1, ReleaseType
  <2>4. QED
    BY <1>1, <1>2, <1>3, <1>7, <2>1, <2>2, <2>3, BodyStep
<1>11. CASE NestedReleaseFails(t)
  <2> DEFINE s == IF Sess(t).st = "dead" THEN Sess(t) ELSE Refuse(Sess(t))
  <2>1. /\ sess' = [sess EXCEPT ![ctx[t].conn] = s]
        /\ Depth(t) > 0 /\ ctx' = [ctx EXCEPT ![t] = ReleasedContext(t)]
        /\ undone' = undone \cup (call[t].made \ ctx[t].frames[Depth(t)].made)
    BY <1>11 DEF NestedReleaseFails, UndoScope, Sess
  <2>2. s \in Session
    BY <1>2, <1>5
  <2> HIDE DEF s
  <2>3. undone' \in SUBSET Op
    BY <1>4, <2>1
  <2>4. QED
    BY <1>1, <1>2, <1>7, <2>1, <2>2, <2>3, BodyStep
<1>12. CASE NestedFails(t)
  <2>1. /\ ctx' = [ctx EXCEPT ![t] = RestoreParentState(t, Depth(t))]
        /\ Depth(t) > 0
        /\ undone' = undone \cup (call[t].made \ ctx[t].frames[Depth(t)].made)
    BY <1>12 DEF NestedFails, UndoScope
  <2>2. Depth(t) \in 1..Depth(t)
    BY <1>2, <2>1
  <2>3. \E s \in Session : sess' = [sess EXCEPT ![ctx[t].conn] = s]
    <3>1. CASE UNCHANGED sess
      BY <3>1, <1>2, Unchanged
    <3>2. ASSUME NEW back \in RollbackTo(Sess(t), Depth(t)),
                 NEW s \in Release(back, Depth(t)) \cup {Refuse(back), Refuse(Sess(t))},
                 sess' = [sess EXCEPT ![ctx[t].conn] = s]
          PROVE  \E r \in Session : sess' = [sess EXCEPT ![ctx[t].conn] = r]
      <4>1. back \in Session
        BY <1>2, RollbackToType
      <4>2. s \in Session
        BY <1>2, <1>5, <4>1, ReleaseType, RefuseType
      <4>3. QED
        BY <4>2, <3>2
    <3>3. QED
      BY <1>12, <3>1, <3>2 DEF NestedFails
  <2>4. PICK s \in Session : sess' = [sess EXCEPT ![ctx[t].conn] = s]
    BY <2>3
  <2>5. undone' \in SUBSET Op
    BY <1>4, <2>1
  <2>6. QED
    BY <1>1, <1>2, <1>6, <2>1, <2>2, <2>4, <2>5, BodyStep
<1>13. ASSUME NEW i \in 1..MaxDepth, NestedCancel(t, i) PROVE IInv'
  <2> DEFINE x == CancelledContext(t, i)
  <2>1. /\ ctx' = [ctx EXCEPT ![t] = x] /\ i \in 1..Depth(t)
        /\ undone' = undone \cup (call[t].made \ ctx[t].frames[i].made)
    BY <1>13 DEF NestedCancel, UndoScope
  <2>2. /\ RestoreParentState(t, i) \in Context
        /\ RestoreParentState(t, i).conn = ctx[t].conn
        /\ Fit(RestoreParentState(t, i))
    BY <1>6, <2>1
  <2>3. x \in Context /\ x.conn = ctx[t].conn
        /\ x.frames = RestoreParentState(t, i).frames
        /\ x.queue = RestoreParentState(t, i).queue
    BY <2>2 DEF Context, CancelledContext
  <2>4. Fit(x)
    BY <2>2, <2>3 DEF Fit
  <2>5. PICK s \in Session : sess' = [sess EXCEPT ![ctx[t].conn] = s]
    <3>1. CASE UNCHANGED sess
      BY <3>1, <1>2, Unchanged
    <3>2. ASSUME NEW s \in Release(Sess(t), Depth(t)),
                 sess' = [sess EXCEPT ![ctx[t].conn] = s]
          PROVE  \E r \in Session : sess' = [sess EXCEPT ![ctx[t].conn] = r]
      BY <1>2, <3>2, ReleaseType
    <3>3. QED
      BY <1>13, <3>1, <3>2 DEF NestedCancel
  <2>6. undone' \in SUBSET Op
    BY <1>4, <2>1
  <2> HIDE DEF x
  <2>7. QED
    BY <1>1, <1>2, <2>1, <2>3, <2>4, <2>5, <2>6, BodyStep
<1>14. CASE NestedEnterCancel(t)
  <2> DEFINE x == [ctx[t] EXCEPT !.poisoned = TRUE]
  <2>1. ctx' = [ctx EXCEPT ![t] = x] /\ undone' = undone
    BY <1>14 DEF NestedEnterCancel
  <2>2. x \in Context /\ x.conn = ctx[t].conn
        /\ x.frames = ctx[t].frames /\ x.queue = ctx[t].queue
    BY <1>2 DEF Context
  <2>3. Fit(x)
    BY <1>2, <2>2 DEF Fit
  <2>4. Depth(t) + 1 \in Nat
    BY <1>2
  <2>5. PushSavepoint(Sess(t), Depth(t) + 1) \in Session
    BY <1>2, <2>4, PushType
  <2>6. PICK s \in Session : sess' = [sess EXCEPT ![ctx[t].conn] = s]
    BY <1>14, <1>2, <2>5, Unchanged DEF NestedEnterCancel, Sess
  <2> HIDE DEF x
  <2>7. QED
    BY <1>1, <1>2, <1>3, <2>1, <2>2, <2>3, <2>6, BodyStep
<1>15. QED
  BY <1>8, <1>9, <1>10, <1>11, <1>12, <1>13, <1>14 DEF Nested


LEMMA BeginStep ==
  ASSUME NEW t \in Tasks, IInv, Begin(t)
  PROVE  IInv'
<1>1. PICK c \in idle :
        /\ idle' = idle \ {c}
        /\ sess' = [sess EXCEPT ![c].st = IF @ = "idle" THEN "active" ELSE @]
        /\ ctx' = [ctx EXCEPT ![t] = [NoContext EXCEPT !.conn = c, !.auth = parent[t]]]
  BY DEF Begin
<1>2. /\ call[t].pc = "start" /\ call' = [call EXCEPT ![t].pc = "body"]
      /\ UNCHANGED <<parent, landed, fired, undone>>
  BY DEF Begin
<1> DEFINE x == [NoContext EXCEPT !.conn = c, !.auth = parent[t]]
           s == [sess[c] EXCEPT !.st = IF @ = "idle" THEN "active" ELSE @]
           k == [call[t] EXCEPT !.pc = "body"]
<1>3. c \in Conns /\ c # NoConn
  BY ConnsAssumption DEF IInv, TypeOK
<1>4. x \in Context /\ x.conn = c /\ x.frames = <<>> /\ x.queue = <<>>
  BY <1>3, NoContextType DEF IInv, TypeOK, Context, NoContext
<1>5. s \in Session
  BY <1>3 DEF IInv, TypeOK, Session
<1>6. k \in Call /\ k.pc = "body"
  BY DEF IInv, TypeOK, Call
<1>7. /\ ctx' = [ctx EXCEPT ![t] = x]
      /\ sess' = [sess EXCEPT ![c] = s]
      /\ call' = [call EXCEPT ![t] = k]
  BY <1>1, <1>2
<1> HIDE DEF x, s, k
<1>8. TypeOK'
  BY <1>1, <1>2, <1>4, <1>5, <1>6, <1>7 DEF IInv, TypeOK
<1>9. Owned'
  <2>1. \A u \in Tasks : ctx[u].conn # c
    BY <1>1, <1>3 DEF IInv, Owned
  <2>2. ctx'[t] = x /\ call'[t] = k
        /\ \A u \in Tasks \ {t} : ctx'[u] = ctx[u] /\ call'[u] = call[u]
    BY <1>7 DEF IInv, TypeOK
  <2>3. QED
    BY <1>1, <1>3, <1>4, <1>6, <2>1, <2>2 DEF IInv, Owned, TypeOK
<1>10. Drained'
  <2> SUFFICES ASSUME NEW u \in Tasks, call'[u].pc = "drain"
               PROVE  sess'[ctx'[u].conn] = FreshSession /\ ctx'[u].frames = <<>>
    BY DEF Drained
  <2>1. u # t
    BY <1>6, <1>7 DEF IInv, TypeOK
  <2>2. call[u].pc = "drain" /\ ctx'[u] = ctx[u]
    BY <2>1, <1>7 DEF IInv, TypeOK
  <2>3. ctx[u].conn # c /\ ctx[u].conn \in Conns
    BY <1>1, <2>2 DEF IInv, Owned
  <2>4. QED
    BY <1>7, <2>2, <2>3 DEF IInv, Drained, TypeOK
<1>11. PoolClean'
  BY <1>1, <1>7 DEF IInv, PoolClean, TypeOK
<1>12. Fit(x)
  BY <1>4 DEF Fit
<1>13. \A u \in Tasks : Fit(ctx'[u])
  BY <1>7, <1>12 DEF IInv, TypeOK
<1>14. (\A u \in Tasks : Fit(ctx[u]))'
  BY <1>13 DEF Fit
<1>15. QED
  BY <1>8, <1>9, <1>10, <1>11, <1>14 DEF IInv

LEMMA BeginFailsStep ==
  ASSUME NEW t \in Tasks, IInv, BeginFails(t)
  PROVE  IInv'
<1>1. PICK kind \in {"transient", "err"} : Finish(t, kind)
  BY DEF BeginFails
<1>2. call[t].pc = "start" /\ UNCHANGED <<idle, parent, landed, fired, undone>>
  BY DEF BeginFails
<1> DEFINE k == NextAttempt(call[t], kind)
<1>3. /\ call' = [call EXCEPT ![t] = k] /\ ctx' = [ctx EXCEPT ![t] = NoContext]
      /\ k \in Call /\ k.pc \in {"start", "done"}
  BY <1>1, NextAttemptType DEF Finish, IInv, TypeOK
<1> HIDE DEF k
<1>4. sess' = sess
  BY DEF BeginFails, IInv, PoolClean, TypeOK
<1>5. TypeOK'
  BY <1>2, <1>3, <1>4, NoContextType DEF IInv, TypeOK
<1>6. Owned'
  <2>1. ctx'[t].conn = NoConn /\ call'[t] = k
        /\ \A u \in Tasks \ {t} : ctx'[u] = ctx[u] /\ call'[u] = call[u]
    BY <1>3 DEF NoContext, IInv, TypeOK
  <2>2. ctx[t].conn = NoConn
    BY <1>2 DEF IInv, Owned
  <2>3. QED
    BY <1>2, <1>3, <2>1, <2>2 DEF IInv, Owned
<1>7. Drained'
  BY <1>3, <1>4 DEF IInv, Drained, TypeOK
<1>8. PoolClean'
  BY <1>2, <1>4 DEF IInv, PoolClean
<1>9. \A u \in Tasks : Fit(ctx'[u])
  BY <1>3, NoContextType DEF IInv, TypeOK
<1>10. (\A u \in Tasks : Fit(ctx[u]))'
  BY <1>9 DEF Fit
<1>11. QED
  BY <1>5, <1>6, <1>7, <1>8, <1>10 DEF IInv

LEMMA RollbackType ==
  ASSUME NEW t \in Tasks, Sess(t) \in Session, NEW ok \in BOOLEAN
  PROVE  /\ AfterRollback(t, ok) \in Session
         /\ ok => \/ AfterRollback(t, ok) = FreshSession
                  \/ AfterRollback(t, ok).st = "dead"
  BY FreshType DEF AfterRollback

LEMMA TopLevelStep ==
  ASSUME NEW t \in Tasks, IInv, TopLevel(t)
  PROVE  IInv'
<1>1. CASE Begin(t)
  BY <1>1, BeginStep
<1>2. CASE BeginFails(t)
  BY <1>2, BeginFailsStep
<1>3. landed \in SUBSET Op /\ fired \in SUBSET Op /\ undone \in SUBSET Op
      /\ parent \in [Tasks -> Auth]
  BY DEF IInv, TypeOK
<1> DEFINE Busy == call[t].pc \in {"body", "drain"}
<1>4. ASSUME Busy
      PROVE  /\ ctx[t] \in Context /\ call[t] \in Call /\ Sess(t) \in Session
             /\ Fit(ctx[t])
             /\ Sess(t).wr \in SUBSET Op /\ call[t].made \in SUBSET Op
  BY <1>4, InScope
<1>5. CASE Commit(t)
  <2> DEFINE k == [call[t] EXCEPT !.pc = "drain"]
  <2>1. /\ Busy /\ Depth(t) = 0
        /\ sess' = [sess EXCEPT ![ctx[t].conn] = FreshSession]
        /\ call' = [call EXCEPT ![t] = k]
        /\ UNCHANGED <<idle, ctx, parent, fired, undone>>
        /\ landed' = landed \cup (IF Sess(t).st = "active" THEN Sess(t).wr ELSE {})
    BY <1>5 DEF Commit, ClosureOk, InBody
  <2>2. landed' \in SUBSET Op
    BY <1>3, <1>4, <2>1
  <2>3. HistoryOK'
    BY <1>3, <2>1, <2>2 DEF HistoryOK
  <2>4. k \in Call /\ k.pc = "drain"
    BY <1>4, <2>1 DEF Call
  <2>5. ctx[t].frames = <<>>
    BY <1>4, <2>1 DEF Depth, Context
  <2>6. ctx' = [ctx EXCEPT ![t] = ctx[t]]
    BY <2>1, Unchanged
  <2> HIDE DEF k
  <2>7. QED
    BY <1>4, <2>1, <2>3, <2>4, <2>5, <2>6, FreshType, StayInScope
<1>6. CASE Drain(t)
  <2> DEFINE x == [ctx[t] EXCEPT !.queue = Tail(@)]
  <2>1. /\ call[t].pc = "drain" /\ ctx[t].queue # <<>>
        /\ fired' = fired \cup {Head(ctx[t].queue)}
        /\ ctx' = [ctx EXCEPT ![t] = x]
        /\ UNCHANGED <<sess, idle, call, parent, landed, undone>>
    BY <1>6 DEF Drain
  <2>2. ctx[t].queue \in Seq(Op)
    BY <1>4, <2>1 DEF Context
  <2>3. Head(ctx[t].queue) \in Op /\ Tail(ctx[t].queue) \in Seq(Op)
    BY <2>1, <2>2
  <2>4. HistoryOK'
    BY <1>3, <2>1, <2>3 DEF HistoryOK
  <2>5. Sess(t) = FreshSession /\ ctx[t].frames = <<>>
    BY <2>1 DEF IInv, Drained, Sess
  <2>6. x \in Context /\ x.conn = ctx[t].conn /\ x.frames = <<>>
    BY <1>4, <2>1, <2>3, <2>5 DEF Context
  <2> HIDE DEF x
  <2>7. Fit(x)
    BY <2>6 DEF Fit
  <2>8. /\ call' = [call EXCEPT ![t] = call[t]]
        /\ sess' = [sess EXCEPT ![ctx[t].conn] = Sess(t)]
    BY <2>1, Unchanged
  <2>9. QED
    BY <1>4, <2>1, <2>4, <2>5, <2>6, <2>7, <2>8, StayInScope
<1>7. CASE ConnDies(t)
  <2>1. /\ call[t].pc = "body"
        /\ sess' = [sess EXCEPT ![ctx[t].conn] = DeadSession]
        /\ UNCHANGED <<idle, ctx, call, parent, landed, fired, undone>>
    BY <1>7 DEF ConnDies, InBody
  <2>2. HistoryOK'
    BY <1>3, <2>1 DEF HistoryOK
  <2>3. /\ call' = [call EXCEPT ![t] = call[t]]
        /\ ctx' = [ctx EXCEPT ![t] = ctx[t]]
    BY <2>1, Unchanged
  <2>4. QED
    BY <1>4, <2>1, <2>2, <2>3, FreshType, StayInScope
<1>8. CASE CommitPoisoned(t) \/ ClosureFails(t)
  <2>1. PICK ok \in BOOLEAN : DropGuard(t, ok, AfterRollback(t, ok))
    BY <1>8 DEF CommitPoisoned, ClosureFails
  <2>2. PICK kind \in {"poisoned", "transient", "err"} : Finish(t, kind)
    BY <1>8 DEF CommitPoisoned, ClosureFails
  <2>3. Busy /\ UNCHANGED <<parent, landed, fired>>
        /\ undone' = undone \cup call[t].made
    BY <1>8 DEF CommitPoisoned, ClosureFails, ClosureOk, InBody, UndoAll
  <2>4. undone' \in SUBSET Op
    BY <1>3, <1>4, <2>3
  <2>5. HistoryOK'
    BY <1>3, <2>3, <2>4 DEF HistoryOK
  <2>6. /\ AfterRollback(t, ok) \in Session
        /\ ok => \/ AfterRollback(t, ok) = FreshSession
                 \/ AfterRollback(t, ok).st = "dead"
    BY <1>4, <2>3, RollbackType
  <2>7. QED
    BY <2>1, <2>2, <2>3, <2>5, <2>6, LeaveScope
<1>9. CASE CommitRefused(t)
  <2>1. Busy /\ DropGuard(t, FALSE, FreshSession)
        /\ UNCHANGED <<parent, landed, fired>>
        /\ undone' = undone \cup call[t].made
    BY <1>9 DEF CommitRefused, ClosureOk, InBody, UndoAll
  <2>2. PICK kind \in {"transient", "err"} : Finish(t, kind)
    BY <1>9 DEF CommitRefused
  <2>3. undone' \in SUBSET Op
    BY <1>3, <1>4, <2>1
  <2>4. HistoryOK'
    BY <1>3, <2>1, <2>3 DEF HistoryOK
  <2>5. QED
    BY <2>1, <2>2, <2>4, FreshType, LeaveScope
<1>10. CASE CommitLost(t)
  <2>1. Busy /\ DropGuard(t, FALSE, DeadSession) /\ Finish(t, "lost")
        /\ UNCHANGED <<parent, fired, undone>>
    BY <1>10 DEF CommitLost, ClosureOk, InBody
  <2>2. landed' \in SUBSET Op
    BY <1>3, <1>4, <1>10, <2>1 DEF CommitLost
  <2>3. HistoryOK'
    BY <1>3, <2>1, <2>2 DEF HistoryOK
  <2>4. QED
    BY <2>1, <2>3, FreshType, LeaveScope
<1>11. CASE Return(t)
  <2>1. call[t].pc = "drain" /\ DropGuard(t, TRUE, Sess(t)) /\ Finish(t, "ok")
        /\ UNCHANGED <<landed, fired, undone>>
        /\ parent' = [parent EXCEPT ![t] = ctx[t].auth]
    BY <1>11 DEF Return
  <2>2. parent' \in [Tasks -> Auth]
    BY <1>3, <1>4, <2>1 DEF Context
  <2>3. HistoryOK'
    BY <1>3, <2>1, <2>2 DEF HistoryOK
  <2>4. Sess(t) = FreshSession
    BY <2>1 DEF IInv, Drained, Sess
  <2>5. QED
    BY <1>4, <2>1, <2>3, <2>4, LeaveScope
<1>12. CASE Cancel(t)
  <2>1. Busy /\ DropGuard(t, FALSE, Sess(t)) /\ Finish(t, "cancelled")
        /\ UNCHANGED <<parent, fired>>
    BY <1>12 DEF Cancel
  <2>2. landed' \in SUBSET Op /\ undone' \in SUBSET Op
    BY <1>3, <1>4, <1>12, <2>1 DEF Cancel
  <2>3. HistoryOK'
    BY <1>3, <2>1, <2>2 DEF HistoryOK
  <2>4. QED
    BY <1>4, <2>1, <2>3, LeaveScope
<1>13. QED
  BY <1>1, <1>2, <1>5, <1>6, <1>7, <1>8, <1>9, <1>10, <1>11, <1>12 DEF TopLevel

-----------------------------------------------------------------------------
(* The invariant holds of every reachable state.                            *)

LEMMA InitInv == Init => IInv
<1> SUFFICES ASSUME Init PROVE IInv
  OBVIOUS
<1>1. [pc |-> "start", attempt |-> 1, made |-> {}, outcome |-> "none"] \in Call
  BY BoundsAssumption DEF Call, Outcomes
<1>2. TypeOK
  BY <1>1, FreshType, NoContextType DEF Init, TypeOK
<1>3. Owned
  BY DEF Init, Owned, NoContext
<1>4. Drained /\ PoolClean /\ \A t \in Tasks : Fit(ctx[t])
  BY NoContextType DEF Init, Drained, PoolClean
<1>5. QED
  BY <1>2, <1>3, <1>4 DEF IInv

LEMMA NextInv == IInv /\ [Next]_vars => IInv'
<1> SUFFICES ASSUME IInv, [Next]_vars PROVE IInv'
  OBVIOUS
<1>1. ASSUME NEW t \in Tasks, TopLevel(t) \/ Statement(t) \/ Nested(t)
      PROVE  IInv'
  BY <1>1, TopLevelStep, StatementStep, NestedStep
<1>2. CASE UNCHANGED vars
  BY <1>2 DEF vars, IInv, TypeOK, Owned, Drained, PoolClean, Fit
<1>3. QED
  BY <1>1, <1>2 DEF Next

\* The inductive invariant holds throughout: a call owns its connection alone
\* (DjogiPool::get hands a slot to one caller), a call that drains its callbacks
\* holds a session COMMIT has cleared, and the queue marks a nested scope
\* restores to (truncate_on_commit_queue) lie within the queue.
THEOREM Inductive == Spec => []IInv
<1>1. QED
  BY InitInv, NextInv, PTL DEF Spec

\* Every variable keeps its type, whatever tasks, connections, tenants, effects
\* and bounds: sessions and contexts (DjogiContext) stay well-formed through every
\* restore, rollback, retry and dropped future.
THEOREM TypeCorrect == Spec => []TypeOK
<1>1. IInv => TypeOK
  BY DEF IInv
<1>2. QED
  BY <1>1, Inductive, PTL

\* The pool never hands out a session that still carries a transaction, an
\* app.tenant_id or a savepoint of an earlier call: TopLevelAtomicGuard gives
\* back only connections it knows to be clean and detaches the others.
THEOREM PoolStaysClean == Spec => []PoolClean
<1>1. IInv => PoolClean
  BY DEF IInv
<1>2. QED
  BY <1>1, Inductive, PTL

-----------------------------------------------------------------------------
(* Every slot of the pool is accounted for.                                 *)

\* A slot that the pool cannot hand out is in use.
Held == \A c \in Conns \ idle : \E t \in Tasks : ctx[t].conn = c

\* A slot is in the pool or held by exactly one call, which is inside its scope.
SlotsAccounted ==
  \A c \in Conns :
    IF c \in idle THEN \A t \in Tasks : ctx[t].conn # c
    ELSE \E t \in Tasks : /\ ctx[t].conn = c /\ call[t].pc \in {"body", "drain"}
                          /\ \A u \in Tasks \ {t} : ctx[u].conn # c

\* A step of t that leaves its connection alone, or gives it back.
LEMMA KeepsHeld ==
  ASSUME NEW t \in Tasks, IInv, Held,
         \A u \in Tasks \ {t} : ctx'[u] = ctx[u],
         \/ idle' = idle /\ ctx'[t].conn = ctx[t].conn
         \/ idle' = idle \cup {ctx[t].conn}
  PROVE  Held'
<1> SUFFICES ASSUME NEW c \in Conns \ idle' PROVE \E u \in Tasks : ctx'[u].conn = c
  BY DEF Held
<1>1. PICK u \in Tasks : ctx[u].conn = c
  BY DEF Held
<1>2. CASE u = t
  BY <1>1, <1>2
<1>3. CASE u # t
  BY <1>1, <1>3
<1>4. QED
  BY <1>2, <1>3

LEMMA NextHeld == IInv /\ Held /\ [Next]_vars => Held'
<1> SUFFICES ASSUME IInv, Held, [Next]_vars PROVE Held'
  OBVIOUS
<1>0. DOMAIN ctx = Tasks /\ \A t \in Tasks : ctx[t] \in Context
  BY DEF IInv, TypeOK
<1>1. ASSUME NEW t \in Tasks, Begin(t) PROVE Held'
  <2>1. PICK c \in idle :
          /\ idle' = idle \ {c}
          /\ ctx' = [ctx EXCEPT ![t] = [NoContext EXCEPT !.conn = c, !.auth = parent[t]]]
    BY <1>1 DEF Begin
  <2>2. ctx'[t].conn = c /\ \A u \in Tasks \ {t} : ctx'[u] = ctx[u]
    BY <1>0, <2>1 DEF NoContext
  <2>3. \A d \in Conns \ idle : \E u \in Tasks : u # t /\ ctx[u].conn = d
    BY <1>1, ConnsAssumption DEF Held, IInv, Owned, Begin
  <2>4. QED
    BY <2>1, <2>2, <2>3 DEF Held
<1>2. ASSUME NEW t \in Tasks, BeginFails(t) PROVE Held'
  <2>1. ctx' = [ctx EXCEPT ![t] = NoContext] /\ idle' = idle
    BY <1>2 DEF BeginFails, Finish
  <2>2. ctx[t].conn = NoConn
    BY <1>2 DEF BeginFails, IInv, Owned
  <2>3. QED
    BY <1>0, <2>1, <2>2, KeepsHeld DEF NoContext
<1>3. ASSUME NEW t \in Tasks,
             \/ CommitPoisoned(t) \/ CommitRefused(t) \/ CommitLost(t) \/ Return(t)
             \/ ClosureFails(t) \/ Cancel(t)
      PROVE  Held'
  <2>1. idle' = idle \cup {ctx[t].conn} /\ ctx' = [ctx EXCEPT ![t] = NoContext]
    BY <1>3 DEF CommitPoisoned, CommitRefused, CommitLost, Return, ClosureFails, Cancel,
       DropGuard, Detach, GiveBack, Finish
  <2>2. QED
    BY <1>0, <2>1, KeepsHeld
<1>4. ASSUME NEW t \in Tasks, NEW x, ctx' = [ctx EXCEPT ![t] = x], x.conn = ctx[t].conn,
             idle' = idle
      PROVE  Held'
  BY <1>0, <1>4, KeepsHeld
<1>5. ASSUME NEW t \in Tasks, UNCHANGED <<idle, ctx>> PROVE Held'
  BY <1>5, KeepsHeld
<1>6. ASSUME NEW t \in Tasks, Commit(t) \/ Drain(t) \/ ConnDies(t) PROVE Held'
  <2>1. CASE Commit(t) \/ ConnDies(t)
    BY <1>5, <2>1 DEF Commit, ConnDies
  <2>2. CASE Drain(t)
    <3> DEFINE x == [ctx[t] EXCEPT !.queue = Tail(@)]
    <3>1. x.conn = ctx[t].conn /\ idle' = idle /\ ctx' = [ctx EXCEPT ![t] = x]
      BY <1>0, <2>2 DEF Drain, Context
    <3> HIDE DEF x
    <3>2. QED
      BY <3>1, <1>4
  <2>3. QED
    BY <1>6, <2>1, <2>2
<1>7. ASSUME NEW t \in Tasks, Statement(t) PROVE Held'
  <2>1. ASSUME NEW a \in Auth, SetAuth(t, a) PROVE Held'
    <3>1. PICK x : x = [ctx[t] EXCEPT !.auth = a]
      OBVIOUS
    <3>2. x.conn = ctx[t].conn /\ ctx' = [ctx EXCEPT ![t] = x] /\ idle' = idle
      BY <1>0, <2>1, <3>1 DEF SetAuth, Context
    <3>3. QED
      BY <3>2, <1>4
  <2>2. ASSUME NEW g, ctx' = [ctx EXCEPT ![t].applied = g], idle' = idle PROVE Held'
    <3>1. PICK x : x = [ctx[t] EXCEPT !.applied = g]
      OBVIOUS
    <3>2. x.conn = ctx[t].conn /\ ctx' = [ctx EXCEPT ![t] = x]
      BY <1>0, <2>2, <3>1 DEF Context
    <3>3. QED
      BY <2>2, <3>2, <1>4
  <2>3. ASSUME NEW v \in Tenants, SetTenant(t, v) PROVE Held'
    BY <2>2, <2>3 DEF SetTenant
  <2>4. ASSUME NEW e \in Effects, Create(t, e) PROVE Held'
    <3>1. PICK g, q : ctx' = [ctx EXCEPT ![t].applied = g, ![t].queue = q]
      BY <2>4 DEF Create
    <3>2. PICK x : x = [ctx[t] EXCEPT !.applied = g, !.queue = q]
      OBVIOUS
    <3>3. x.conn = ctx[t].conn /\ ctx' = [ctx EXCEPT ![t] = x]
      BY <1>0, <3>1, <3>2 DEF Context
    <3>4. idle' = idle
      BY <2>4 DEF Create
    <3>5. QED
      BY <3>3, <3>4, <1>4
  <2>5. CASE CreateFails(t)
    <3>1. idle' = idle /\ (ctx' = ctx \/ \E g : ctx' = [ctx EXCEPT ![t].applied = g])
      BY <2>5 DEF CreateFails
    <3>2. QED
      BY <2>2, <3>1, <1>5
  <2>6. CASE AbandonTenant(t)
    BY <2>6, <1>5 DEF AbandonTenant
  <2>7. QED
    BY <1>7, <2>1, <2>3, <2>4, <2>5, <2>6 DEF Statement
<1>8. ASSUME NEW t \in Tasks, Nested(t) PROVE Held'
  <2>1. idle' = idle
    BY <1>8 DEF Nested, NestedEnter, NestedEnterCancel, NestedRefused, NestedOk,
       NestedReleaseFails, NestedFails, NestedCancel
  <2>2. PICK x \in Context : x = ctx[t]
    BY <1>0
  <2>3. CASE NestedEnter(t)
    <3>1. PICK f : ctx' = [ctx EXCEPT ![t].frames = Append(@, f)]
      BY <2>3 DEF NestedEnter
    <3>2. PICK y : y = [x EXCEPT !.frames = Append(@, f)]
      OBVIOUS
    <3>3. y.conn = x.conn /\ ctx' = [ctx EXCEPT ![t] = y]
      BY <1>0, <2>2, <3>1, <3>2 DEF Context
    <3>4. QED
      BY <1>4, <2>1, <2>2, <3>3
  <2>4. CASE NestedEnterCancel(t)
    <3>1. PICK y : y = [x EXCEPT !.poisoned = TRUE]
      OBVIOUS
    <3>2. y.conn = x.conn /\ ctx' = [ctx EXCEPT ![t] = y]
      BY <1>0, <2>2, <2>4, <3>1 DEF NestedEnterCancel, Context
    <3>3. QED
      BY <1>4, <2>1, <2>2, <3>2
  <2>5. CASE NestedRefused(t)
    BY <2>5, <1>5 DEF NestedRefused
  <2>6. CASE NestedOk(t) \/ NestedReleaseFails(t)
    <3>1. ctx' = [ctx EXCEPT ![t] = ReleasedContext(t)]
      BY <2>6 DEF NestedOk, NestedReleaseFails
    <3>2. ReleasedContext(t).conn = ctx[t].conn
      BY <2>2 DEF ReleasedContext, Context
    <3>3. QED
      BY <1>4, <2>1, <3>1, <3>2
  <2>7. \A i : /\ RestoreParentState(t, i).conn = ctx[t].conn
               /\ CancelledContext(t, i).conn = ctx[t].conn
    BY <2>2 DEF RestoreParentState, CancelledContext, Context
  <2>8. CASE NestedFails(t)
    <3>1. ctx' = [ctx EXCEPT ![t] = RestoreParentState(t, Depth(t))]
      BY <2>8 DEF NestedFails
    <3>2. QED
      BY <1>4, <2>1, <2>7, <3>1
  <2>9. ASSUME NEW i \in 1..MaxDepth, NestedCancel(t, i) PROVE Held'
    <3>1. ctx' = [ctx EXCEPT ![t] = CancelledContext(t, i)]
      BY <2>9 DEF NestedCancel
    <3>2. QED
      BY <1>4, <2>1, <2>7, <3>1
  <2>10. QED
    BY <1>8, <2>3, <2>4, <2>5, <2>6, <2>8, <2>9 DEF Nested
<1>9. CASE UNCHANGED vars
  BY <1>9 DEF vars, Held
<1>10. QED
  BY <1>1, <1>2, <1>3, <1>6, <1>7, <1>8, <1>9 DEF Next, TopLevel

\* No way out of atomic() loses a connection or leaves it with two calls: however
\* a commit, a rollback, a retry or a dropped future ends, the slot is in the pool
\* again or still held by the one call inside its scope (TopLevelAtomicGuard).
THEOREM NoSlotLost == Spec => []SlotsAccounted
<1>1. Init => Held
  BY DEF Init, Held
<1>2. IInv /\ Held => SlotsAccounted
  <2> SUFFICES ASSUME IInv, Held, NEW c \in Conns
               PROVE  IF c \in idle THEN \A t \in Tasks : ctx[t].conn # c
                      ELSE \E t \in Tasks :
                             /\ ctx[t].conn = c /\ call[t].pc \in {"body", "drain"}
                             /\ \A u \in Tasks \ {t} : ctx[u].conn # c
    BY DEF SlotsAccounted
  <2>1. c # NoConn
    BY ConnsAssumption
  <2>2. CASE c \in idle
    BY <2>1, <2>2 DEF IInv, Owned
  <2>3. CASE c \notin idle
    <3>1. PICK t \in Tasks : ctx[t].conn = c
      BY <2>3 DEF Held
    <3>2. QED
      BY <2>1, <2>3, <3>1 DEF IInv, Owned
  <2>4. QED
    BY <2>2, <2>3
<1>3. QED
  BY <1>1, <1>2, Inductive, NextHeld, PTL DEF Spec

=============================================================================
