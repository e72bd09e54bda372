------------------------- MODULE AtomicScopeProofs -------------------------
(***************************************************************************)
(* What the nested scopes of Atomic add up to, for any tasks, tenants,     *)
(* effects and bounds: what failed is never committed, the tracker and the *)
(* rows agree with the server, callbacks follow their commit, and          *)
(* atomic() implements AtomicPromise.                                      *)
(***************************************************************************)
EXTENDS AtomicProofs

(***************************************************************************)
(* The inductive invariant.  A failing scope undoes its work three times:  *)
(* the server rolls back to a savepoint, the context truncates its queue,  *)
(* and auth goes back to a snapshot.  They agree because at every point a  *)
(* scope was entered from, the savepoint, the queue's mark and the         *)
(* snapshot are about the same operations (Point): those made so far that  *)
(* no failed scope has taken back.  While the transaction is active, now   *)
(* is such a point too.  An aborted transaction may have savepoints of     *)
(* scopes that are over, but none of them is reached again; a poisoned     *)
(* context may have anything, and is never committed.                      *)
(***************************************************************************)

Image(q, n) == {q[j] : j \in 1..n}
Unique(q) == \A i, j \in 1..Len(q) : q[i] = q[j] => i = j

\* At a point where a call had made m: writes w and tenant g on the server, n
\* callbacks of queue q and the applied tenant a in the context.
Point(w, g, q, n, a, m, un) ==
  w = m \ un /\ Image(q, n) = w /\ (~AbandonStmt => g = a)

\* The point scope i of context x was entered from.
Level(s, x, k, un, i) ==
  LET f == x.frames[i] IN
  /\ Point(s.sps[i].wr, s.sps[i].guc, x.queue, f.cb, f.applied, f.made, un)
  /\ f.made \subseteq k.made
  /\ \A j \in 1..i : x.frames[j].made \subseteq f.made

Stack(s, x, k, un) ==
  /\ Len(x.frames) <= Len(s.sps)
  /\ \A i \in 1..Len(s.sps) : s.sps[i].name = i
  /\ \A i \in 1..Len(x.frames) : Level(s, x, k, un, i)
  /\ s.st = "active" =>
       /\ Len(s.sps) = Len(x.frames)
       /\ Point(s.wr, s.guc, x.queue, Len(x.queue), x.applied, k.made, un)

\* A call in its closure: session s, context x, call k.
Inside(s, x, k, un) ==
  /\ s.st # "idle" /\ (s.st = "dead" => s.wr = {})
  /\ Unique(x.queue) /\ Image(x.queue, Len(x.queue)) \subseteq k.made
  /\ ~x.poisoned /\ s.st # "dead" => Stack(s, x, k, un)

\* A call that runs the callbacks q it has left.
Draining(q, k, la, fi, un) ==
  /\ Unique(q) /\ Image(q, Len(q)) \subseteq (k.made \cap la) \ fi
  /\ k.made \ un \subseteq la /\ k.made \ un \subseteq fi \cup Image(q, Len(q))

\* What the histories say about task t.
Recorded(t, k, la, un) ==
  /\ \A op \in k.made : op[1] = t /\ op[2] = k.attempt
  /\ \A op \in un : op[1] = t => op[2] < k.attempt \/ op \in k.made
  /\ \A op \in la : op[1] = t => op[2] = k.attempt /\ k.pc \in {"drain", "done"}
  /\ k.pc = "start" => k.made = {}
  /\ k.outcome = "ok" => k.pc = "done"

\* Callbacks of task t, when no closure returns Ok after a failed statement.
Heard(t, x, k, la, fi, un) ==
  ~Swallow =>
    /\ \A op \in fi : op[1] = t => op \in la
    /\ k.pc = "drain" => Draining(x.queue, k, la, fi, un)
    /\ k.outcome = "ok" => k.made \ un \subseteq la \cap fi

Sound(t, s, x, k, la, fi, un) ==
  /\ Recorded(t, k, la, un) /\ Heard(t, x, k, la, fi, un)
  /\ k.pc = "body" => Inside(s, x, k, un)

ScopeInv ==
  /\ IInv /\ UndoneNeverLands
  /\ \A t \in Tasks : Sound(t, sess[ctx[t].conn], ctx[t], call[t], landed, fired, undone)
-----------------------------------------------------------------------------
(* Queues.                                                                  *)

LEMMA PrefixFacts ==
  ASSUME NEW q \in Seq(Op), NEW m \in 0..Len(q)
  PROVE  /\ SubSeq(q, 1, m) \in Seq(Op) /\ Len(SubSeq(q, 1, m)) = m
         /\ \A n \in 0..m : Image(SubSeq(q, 1, m), n) = Image(q, n)
         /\ Unique(q) => Unique(SubSeq(q, 1, m))
  <1>0. SubSeq(q, 1, m) \in Seq(Op) OBVIOUS
  <1>1. PICK p : p = SubSeq(q, 1, m) /\ p \in Seq(Op) BY <1>0
  <1>2. Len(p) = m /\ \A i \in 1..m : p[i] = q[i] BY <1>1
  <1>3. ASSUME NEW n \in 0..m PROVE Image(p, n) = Image(q, n)
    <2>1. \A i \in 1..n : p[i] = q[i] BY <1>2
    <2> QED BY <2>1 DEF Image
  <1>4. Unique(q) => Unique(p) BY <1>2 DEF Unique
  <1> QED BY <1>1, <1>2, <1>3, <1>4

LEMMA AppendFacts ==
  ASSUME NEW q \in Seq(Op), NEW op \in Op
  PROVE  /\ Append(q, op) \in Seq(Op) /\ Len(Append(q, op)) = Len(q) + 1
         /\ \A n \in 0..Len(q) : Image(Append(q, op), n) = Image(q, n)
         /\ Image(Append(q, op), Len(q) + 1) = Image(q, Len(q)) \cup {op}
         /\ Unique(q) /\ op \notin Image(q, Len(q)) => Unique(Append(q, op))
  <1>0. Append(q, op) \in Seq(Op) OBVIOUS
  <1>1. PICK p : p = Append(q, op) /\ p \in Seq(Op) BY <1>0
  <1>2. Len(p) = Len(q) + 1 /\ p[Len(q) + 1] = op /\ \A i \in 1..Len(q) : p[i] = q[i]
    BY <1>1
  <1>3. Len(q) \in Nat OBVIOUS
  <1>4. ASSUME NEW n \in 0..Len(q) PROVE Image(p, n) = Image(q, n)
    <2>1. \A i \in 1..n : p[i] = q[i] BY <1>2, <1>3
    <2> QED BY <2>1 DEF Image
  <1>5. Image(p, Len(q) + 1) = Image(q, Len(q)) \cup {op}
    <2>1. 1..(Len(q) + 1) = 1..Len(q) \cup {Len(q) + 1} BY <1>3
    <2> QED BY <1>2, <2>1 DEF Image
  <1>6. ASSUME Unique(q), op \notin Image(q, Len(q)) PROVE Unique(p)
    <2>1. \A i \in 1..Len(q) : p[i] # op BY <1>2, <1>6 DEF Image
    <2> QED BY <1>2, <1>3, <1>6, <2>1 DEF Unique
  <1> QED BY <1>1, <1>2, <1>4, <1>5, <1>6

LEMMA TailFacts ==
  ASSUME NEW q \in Seq(Op), q # <<>>, Unique(q)
  PROVE  /\ Head(q) \in Image(q, Len(q)) /\ Unique(Tail(q))
         /\ Image(Tail(q), Len(Tail(q))) = Image(q, Len(q)) \ {Head(q)}
  <1>0. Tail(q) \in Seq(Op) OBVIOUS
  <1>1. PICK p : p = Tail(q) /\ p \in Seq(Op) BY <1>0
  <1>2. /\ Len(q) \in Nat \ {0} /\ Len(p) = Len(q) - 1 /\ Head(q) = q[1]
        /\ \A i \in 1..Len(p) : p[i] = q[i + 1]
    BY <1>1
  <1>3. Head(q) \in Image(q, Len(q)) BY <1>2 DEF Image
  <1>4. Unique(p)
    <2>1. \A i \in 1..Len(p) : i + 1 \in 1..Len(q) BY <1>2
    <2> QED BY <1>2, <2>1 DEF Unique
  <1>5. Image(p, Len(p)) \subseteq Image(q, Len(q)) \ {Head(q)}
    <2>1. \A i \in 1..Len(p) : i + 1 \in 1..Len(q) /\ i + 1 # 1 BY <1>2
    <2>2. \A i \in 1..Len(q) : q[i] = Head(q) => i = 1 BY <1>2 DEF Unique
    <2> QED BY <1>2, <2>1, <2>2 DEF Image
  <1>6. Image(q, Len(q)) \ {Head(q)} \subseteq Image(p, Len(p))
    <2>1. ASSUME NEW i \in 1..Len(q), q[i] # Head(q) PROVE q[i] \in Image(p, Len(p))
      <3>1. i - 1 \in 1..Len(p) /\ q[i] = p[i - 1] BY <1>2, <2>1
      <3> QED BY <3>1 DEF Image
    <2> QED BY <2>1 DEF Image
  <1> QED BY <1>1, <1>3, <1>4, <1>5, <1>6

-----------------------------------------------------------------------------
(* Savepoints.                                                              *)

\* The savepoint of the innermost scope is the one of its depth.
LEMMA LatestFacts ==
  ASSUME NEW s \in Session, NEW d \in 1..Len(s.sps),
         \A i \in 1..Len(s.sps) : s.sps[i].name = i
  PROVE  Latest(s, d) = {d}
  BY DEF Latest

\* The transaction state after the statements that leave a scope.
LEMMA LeavingState ==
  ASSUME NEW s \in Session, NEW d \in Nat
  PROVE  /\ \A r \in Release(s, d) : r.st \in {s.st, "aborted"}
         /\ \A r \in RollbackTo(s, d) : r.st \in {"active", "aborted"}
  <1>1. Refuse(s).st = "aborted" BY DEF Refuse, Session
  <1>2. ASSUME NEW r \in Release(s, d) PROVE r.st \in {s.st, "aborted"}
    BY <1>1, <1>2 DEF Release, Session
  <1>3. ASSUME NEW r \in RollbackTo(s, d) PROVE r.st \in {"active", "aborted"}
    BY <1>1, <1>3 DEF RollbackTo
  <1> QED BY <1>2, <1>3

\* A context is left with its first n scopes, over a session that still has
\* their savepoints.
Left(s, x, k, un, r, y, l, vn, n) ==
  /\ n \in 0..Len(x.frames)
  /\ Len(y.frames) = n /\ \A i \in 1..n : y.frames[i] = x.frames[i]
  /\ \A i \in 1..n : Image(y.queue, x.frames[i].cb) = Image(x.queue, x.frames[i].cb)
  /\ Len(r.sps) \in n..Len(s.sps) /\ \A i \in 1..Len(r.sps) : r.sps[i] = s.sps[i]
  /\ \A i \in 1..n : x.frames[i].made \ vn = x.frames[i].made \ un
  /\ k.made \subseteq l.made
  /\ r.st = "active" =>
       /\ Len(r.sps) = n
       /\ Point(r.wr, r.guc, y.queue, Len(y.queue), y.applied, l.made, vn)

\* The points those scopes were entered from are still right.
LEMMA StackTo ==
  ASSUME NEW s \in Session, NEW x \in Context, NEW k \in Call, NEW un,
         NEW r \in Session, NEW y \in Context, NEW l \in Call, NEW vn, NEW n,
         Stack(s, x, k, un), Left(s, x, k, un, r, y, l, vn, n)
  PROVE  Stack(r, y, l, vn)
  <1> USE DEF Left
  <1>1. Len(x.frames) \in Nat /\ Len(s.sps) \in Nat /\ Len(r.sps) \in Nat /\ n \in Nat
    BY DEF Session, Context
  <1>2. n <= Len(r.sps) BY <1>1
  <1>3. \A i \in 1..Len(r.sps) : r.sps[i].name = i
    <2>1. \A i \in 1..Len(r.sps) : i \in 1..Len(s.sps) BY <1>1
    <2> QED BY <2>1 DEF Stack
  <1>4. ASSUME NEW i \in 1..n PROVE Level(r, y, l, vn, i)
    <2>1. i \in 1..Len(x.frames) /\ r.sps[i] = s.sps[i] BY <1>1, <1>2
    <2>2. Level(s, x, k, un, i) BY <2>1 DEF Stack
    <2>3. \A j \in 1..i : y.frames[j] = x.frames[j] /\ y.frames[i] = x.frames[i]
      <3>1. 1..i \subseteq 1..n BY <1>1
      <3> QED BY <3>1
    <2>4. y.frames[i] = x.frames[i] OBVIOUS
    <2>5. Point(r.sps[i].wr, r.sps[i].guc, y.queue, y.frames[i].cb, y.frames[i].applied,
                y.frames[i].made, vn)
      BY <2>1, <2>2, <2>4 DEF Level, Point
    <2>6. y.frames[i].made \subseteq l.made BY <2>2, <2>4 DEF Level
    <2>7. \A j \in 1..i : y.frames[j].made \subseteq y.frames[i].made
      BY <2>2, <2>3, <2>4 DEF Level
    <2> QED BY <2>5, <2>6, <2>7 DEF Level
  <1> QED BY <1>2, <1>3, <1>4 DEF Stack

\* A scope is entered: its frame f and its savepoint p are of now.
Pushed(s, x, k, r, y, f, p) ==
  /\ s.st = "active" /\ r.st = "active" /\ r.wr = s.wr /\ r.guc = s.guc
  /\ y.frames = Append(x.frames, f) /\ y.queue = x.queue /\ y.applied = x.applied
  /\ f.cb = Len(x.queue) /\ f.applied = x.applied /\ f.made = k.made
  /\ r.sps = Append(s.sps, p)
  /\ p.name = Len(x.frames) + 1 /\ p.guc = s.guc /\ p.wr = s.wr

LEMMA StackPush ==
  ASSUME NEW s \in Session, NEW x \in Context, NEW k \in Call, NEW un,
         NEW r \in Session, NEW y \in Context, NEW f, NEW p,
         Stack(s, x, k, un), Pushed(s, x, k, r, y, f, p)
  PROVE  Stack(r, y, k, un)
  <1> USE DEF Pushed
  <1>0. PICK d \in Nat : d = Len(x.frames)
    <2>1. x.frames \in Seq(Frame) BY DEF Context
    <2> QED BY <2>1
  <1>1. /\ d \in Nat /\ Len(s.sps) = d
        /\ Point(s.wr, s.guc, x.queue, Len(x.queue), x.applied, k.made, un)
    BY <1>0 DEF Stack
  <1>2. /\ Len(y.frames) = d + 1 /\ y.frames[d + 1] = f
        /\ \A i \in 1..d : y.frames[i] = x.frames[i]
    <2>1. x.frames \in Seq(Frame) BY DEF Context
    <2> QED BY <1>0, <2>1
  <1>3. /\ Len(r.sps) = d + 1 /\ r.sps[d + 1] = p
        /\ \A i \in 1..d : r.sps[i] = s.sps[i]
    <2>1. s.sps \in Seq(Savepoint) BY DEF Session
    <2> QED BY <1>1, <2>1
  <1>4. \A i \in 1..(d + 1) : r.sps[i].name = i
    <2>1. \A i \in 1..d : s.sps[i].name = i BY <1>1 DEF Stack
    <2>2. p.name = d + 1 BY <1>0
    <2> QED BY <1>1, <1>3, <2>1, <2>2
  <1>5. ASSUME NEW i \in 1..d PROVE Level(r, y, k, un, i)
    <2>1. Level(s, x, k, un, i) BY <1>0 DEF Stack
    <2>2. y.frames[i] = x.frames[i] /\ r.sps[i] = s.sps[i] BY <1>2, <1>3
    <2>3. \A j \in 1..i : y.frames[j] = x.frames[j]
      <3>1. 1..i \subseteq 1..d BY <1>1
      <3> QED BY <1>2, <3>1
    <2> QED BY <2>1, <2>2, <2>3 DEF Level
  <1>6. Level(r, y, k, un, d + 1)
    <2>1. Point(p.wr, p.guc, y.queue, f.cb, f.applied, f.made, un) BY <1>1
    <2>2. ASSUME NEW j \in 1..(d + 1) PROVE y.frames[j].made \subseteq k.made
      <3>1. CASE j \in 1..d
        <4>1. Level(r, y, k, un, j) BY <1>5, <3>1
        <4> QED BY <4>1 DEF Level
      <3>2. CASE j = d + 1 BY <1>2, <3>2
      <3>3. j \in 1..d \/ j = d + 1 BY <1>0
      <3> QED BY <3>1, <3>2, <3>3
    <2> QED BY <1>2, <1>3, <2>1, <2>2 DEF Level
  <1>7. \A i \in 1..(d + 1) : Level(r, y, k, un, i)
    <2>1. \A i \in 1..(d + 1) : i \in 1..d \/ i = d + 1 BY <1>1
    <2> QED BY <1>5, <1>6, <2>1
  <1>8. Point(r.wr, r.guc, y.queue, Len(y.queue), y.applied, k.made, un) BY <1>1
  <1> QED BY <1>1, <1>2, <1>3, <1>4, <1>7, <1>8 DEF Stack

-----------------------------------------------------------------------------
(* One call's steps and the others.                                         *)

\* What task t adds to the histories is nothing to task u.
LEMMA SoundKeeps ==
  ASSUME NEW t \in Tasks, NEW u \in Tasks \ {t},
         NEW s \in Session, NEW x \in Context, NEW k \in Call,
         NEW la, NEW fi, NEW un, NEW A, NEW B, NEW Z,
         \A op \in A \cup Z : op[1] = t, ~Swallow => \A op \in B : op[1] = t,
         Sound(u, s, x, k, la, fi, un)
  PROVE  Sound(u, s, x, k, la \cup A, fi \cup B, un \cup Z)
  <1>1. \A op \in k.made : op \notin A \cup Z /\ (~Swallow => op \notin B)
    BY DEF Sound, Recorded
  <1>2. k.made \ (un \cup Z) = k.made \ un BY <1>1
  <1>3. Recorded(u, k, la \cup A, un \cup Z) BY DEF Sound, Recorded
  <1>4. Heard(u, x, k, la \cup A, fi \cup B, un \cup Z)
    <2>1. Heard(u, x, k, la, fi, un) BY DEF Sound
    <2>2. ASSUME ~Swallow, k.pc = "drain"
          PROVE  Draining(x.queue, k, la \cup A, fi \cup B, un \cup Z)
      <3>1. Draining(x.queue, k, la, fi, un) BY <2>1, <2>2 DEF Heard
      <3> QED BY <1>1, <1>2, <2>2, <3>1 DEF Draining
    <2>3. ASSUME ~Swallow, k.outcome = "ok"
          PROVE  k.made \ (un \cup Z) \subseteq (la \cup A) \cap (fi \cup B)
      BY <1>2, <2>1, <2>3 DEF Heard
    <2>4. ASSUME ~Swallow, NEW op \in fi \cup B, op[1] = u PROVE op \in la \cup A
      BY <2>1, <2>4 DEF Heard
    <2> QED BY <2>2, <2>3, <2>4 DEF Heard
  <1>5. ASSUME k.pc = "body" PROVE Inside(s, x, k, un \cup Z)
    <2>1. Inside(s, x, k, un) BY <1>5 DEF Sound
    <2>2. ASSUME Stack(s, x, k, un) PROVE Stack(s, x, k, un \cup Z)
      <3>1. ASSUME NEW i \in 1..Len(x.frames) PROVE Level(s, x, k, un \cup Z, i)
        <4>1. Level(s, x, k, un, i) BY <2>2 DEF Stack
        <4>2. x.frames[i].made \ (un \cup Z) = x.frames[i].made \ un
          BY <1>1, <4>1 DEF Level
        <4> QED BY <4>1, <4>2 DEF Level, Point
      <3> QED BY <1>2, <2>2, <3>1 DEF Stack, Point
    <2> QED BY <2>1, <2>2 DEF Inside
  <1> QED BY <1>3, <1>4, <1>5 DEF Sound

\* Two calls inside their scopes have a session each.
LEMMA Apart ==
  ASSUME IInv, NEW t \in Tasks, NEW u \in Tasks \ {t}, call[u].pc = "body",
         call[t].pc \in {"body", "drain"}
  PROVE  ctx[u].conn # ctx[t].conn /\ ctx[u].conn \in Conns
  BY ConnsAssumption DEF IInv, Owned

\* Nothing happens to the calls of other tasks.
OthersKeep(t) ==
  \A u \in Tasks \ {t} :
    /\ ctx'[u] = ctx[u] /\ call'[u] = call[u]
    /\ call[u].pc = "body" => sess'[ctx[u].conn] = sess[ctx[u].conn]

\* Operations of task t land (A), have their callback run (B) and are undone (Z).
Adds(t, A, B, Z) ==
  /\ \A op \in A \cup Z : op[1] = t
  /\ ~Swallow => \A op \in B : op[1] = t
  /\ landed' = landed \cup A /\ fired' = fired \cup B /\ undone' = undone \cup Z

LEMMA OneCall ==
  ASSUME ScopeInv, IInv', NEW t \in Tasks, OthersKeep(t),
         NEW A, NEW B, NEW Z, Adds(t, A, B, Z), UndoneNeverLands',
         Sound(t, sess'[ctx'[t].conn], ctx'[t], call'[t], landed', fired', undone')
  PROVE  ScopeInv'
  <1>1. ASSUME NEW u \in Tasks \ {t}
        PROVE  Sound(u, sess'[ctx'[u].conn], ctx'[u], call'[u], landed', fired', undone')
    <2>1. PICK s, x, k : s = sess[ctx[u].conn] /\ x = ctx[u] /\ k = call[u] OBVIOUS
    <2>2. x \in Context /\ k \in Call BY <2>1 DEF ScopeInv, IInv, TypeOK
    <2>3. Sound(u, s, x, k, landed, fired, undone) BY <2>1 DEF ScopeInv
    <2>4. ctx'[u] = x /\ call'[u] = k BY <2>1 DEF OthersKeep
    <2>5. CASE k.pc = "body"
      <3>1. s \in Session /\ sess'[ctx'[u].conn] = s
        BY <2>1, <2>4, <2>5 DEF ScopeInv, IInv, TypeOK, Owned, OthersKeep
      <3> QED BY <2>2, <2>3, <2>4, <3>1, SoundKeeps DEF Adds
    <2>6. CASE k.pc # "body"
      <3>1. Sound(u, FreshSession, x, k, landed, fired, undone) BY <2>3, <2>6 DEF Sound
      <3>2. Sound(u, FreshSession, x, k, landed', fired', undone')
        BY <2>2, <3>1, SoundKeeps, FreshType DEF Adds
      <3> QED BY <2>4, <2>6, <3>2 DEF Sound
    <2> QED BY <2>5, <2>6
  <1> QED BY <1>1 DEF ScopeInv

\* What a step makes of a session, a context and a call has their types.
LEMMA There ==
  ASSUME IInv, IInv', NEW t \in Tasks, InBody(t), NEW s, NEW x, NEW k,
         sess' = [sess EXCEPT ![ctx[t].conn] = s],
         ctx' = [ctx EXCEPT ![t] = x], call' = [call EXCEPT ![t] = k]
  PROVE  s \in Session /\ x \in Context /\ k \in Call /\ undone' \in SUBSET Op
  <1>1. ctx[t].conn \in Conns BY DEF IInv, Owned, InBody
  <1>2. sess'[ctx[t].conn] = s /\ ctx'[t] = x /\ call'[t] = k BY <1>1 DEF IInv, TypeOK
  <1> QED BY <1>1, <1>2 DEF IInv, TypeOK

\* Task t stays in its closure, with session s, context x and call k, and Z undone.
Changes(t, s, x, k, Z) ==
  /\ sess' = [sess EXCEPT ![ctx[t].conn] = s]
  /\ ctx' = [ctx EXCEPT ![t] = x] /\ x.conn = ctx[t].conn
  /\ call' = [call EXCEPT ![t] = k]
  /\ k.pc = "body" /\ k.attempt = call[t].attempt /\ k.outcome = call[t].outcome
  /\ call[t].made \subseteq k.made
  /\ \A op \in k.made : op[1] = t /\ op[2] = k.attempt
  /\ landed' = landed /\ fired' = fired
  /\ undone' = undone \cup Z /\ Z \subseteq call[t].made

LEMMA Moves ==
  ASSUME ScopeInv, IInv', NEW t \in Tasks, InBody(t), NEW s, NEW x, NEW k, NEW Z,
         Changes(t, s, x, k, Z), Inside(s, x, k, undone')
  PROVE  ScopeInv'
  <1> USE DEF Changes
  <1>0. s \in Session /\ x \in Context /\ k \in Call BY There DEF ScopeInv
  <1>1. PICK k0 : k0 = call[t] OBVIOUS
  <1>2. k0.pc = "body" /\ ctx[t].conn \in Conns /\ k0.made \subseteq Op
    BY <1>1 DEF InBody, ScopeInv, IInv, Owned, TypeOK, Call
  <1>3. /\ \A op \in k0.made : op[1] = t
        /\ \A op \in undone : op[1] = t => op[2] < k0.attempt \/ op \in k0.made
        /\ \A op \in landed : op[1] # t
        /\ k0.outcome # "ok"
        /\ ~Swallow => \A op \in fired : op[1] # t
    BY <1>1, <1>2 DEF ScopeInv, Sound, Recorded, Heard
  <1>4. UndoneNeverLands' BY <1>1, <1>3 DEF ScopeInv, UndoneNeverLands
  <1>5. /\ sess'[ctx'[t].conn] = s /\ ctx'[t] = x /\ call'[t] = k
        /\ OthersKeep(t)
    <2>1. ctx'[t] = x /\ call'[t] = k /\ sess'[ctx'[t].conn] = s
      BY <1>0, <1>2 DEF ScopeInv, IInv, TypeOK
    <2>2. ASSUME NEW u \in Tasks \ {t}
          PROVE  /\ ctx'[u] = ctx[u] /\ call'[u] = call[u]
                 /\ call[u].pc = "body" => sess'[ctx[u].conn] = sess[ctx[u].conn]
      <3>1. ctx'[u] = ctx[u] /\ call'[u] = call[u] BY DEF ScopeInv, IInv, TypeOK
      <3>2. ASSUME call[u].pc = "body" PROVE sess'[ctx[u].conn] = sess[ctx[u].conn]
        <4>1. ctx[u].conn # ctx[t].conn /\ ctx[u].conn \in Conns
          BY <1>1, <1>2, <3>2, Apart DEF ScopeInv
        <4> QED BY <4>1 DEF ScopeInv, IInv, TypeOK
      <3> QED BY <3>1, <3>2
    <2> QED BY <2>1, <2>2 DEF OthersKeep
  <1>6. Recorded(t, k, landed, undone')
    BY <1>1, <1>3 DEF Recorded
  <1>7. Heard(t, x, k, landed, fired, undone') BY <1>1, <1>3 DEF Heard
  <1>8. Sound(t, s, x, k, landed', fired', undone') BY <1>6, <1>7 DEF Sound
  <1>9. \A op \in {} \cup Z : op[1] = t BY <1>1, <1>3
  <1> DEFINE N == {}
  <1>10. Adds(t, N, N, Z) BY <1>9 DEF Adds
  <1> HIDE DEF N
  <1>11. Sound(t, sess'[ctx'[t].conn], ctx'[t], call'[t], landed', fired', undone')
    BY <1>5, <1>8
  <1> QED BY <1>4, <1>5, <1>10, <1>11, OneCall

\* An attempt ends: A has landed and Z is undone.
Concludes(t, kind, A, Z) ==
  /\ call[t].pc \in {"start", "body", "drain"} /\ Finish(t, kind)
  /\ \A u \in Tasks \ {t} :
       call[u].pc = "body" => sess'[ctx[u].conn] = sess[ctx[u].conn]
  /\ A \subseteq call[t].made /\ landed' = landed \cup A
  /\ Z \subseteq call[t].made /\ undone' = undone \cup Z
  /\ fired' = fired /\ landed' \cap undone' = {}
  /\ A # {} \/ call[t].pc = "drain" => kind # "transient"
  /\ kind = "ok" /\ ~Swallow => call[t].made \ undone' \subseteq landed \cap fired

\* The call is over, or starts again.
LEMMA Ends ==
  ASSUME ScopeInv, IInv', NEW t \in Tasks, NEW kind, NEW A, NEW Z,
         kind \in {"transient", "ok", "err", "lost", "poisoned", "cancelled"},
         Concludes(t, kind, A, Z)
  PROVE  ScopeInv'
  <1> USE DEF Concludes
  <1>1. PICK k0 : k0 = call[t] OBVIOUS
  <1>2. PICK k : k = NextAttempt(k0, kind) OBVIOUS
  <1>3. k0 \in Call /\ k0.attempt \in Nat BY <1>1 DEF ScopeInv, IInv, TypeOK, Call
  <1>4. /\ ctx'[t] = NoContext /\ call'[t] = k
        /\ \A u \in Tasks \ {t} : ctx'[u] = ctx[u] /\ call'[u] = call[u]
    BY <1>1, <1>2 DEF Finish, ScopeInv, IInv, TypeOK
  <1>5. /\ \A op \in k0.made : op[1] = t /\ op[2] = k0.attempt
        /\ \A op \in undone : op[1] = t => op[2] < k0.attempt \/ op \in k0.made
        /\ \A op \in landed : op[1] = t => op[2] = k0.attempt /\ k0.pc = "drain"
        /\ k0.outcome # "ok"
        /\ ~Swallow => \A op \in fired : op[1] = t => op \in landed
    BY <1>1 DEF ScopeInv, Sound, Recorded, Heard
  <1>6. \/ kind = "transient" /\ k = Again(k0)
        \/ k = Over(k0, kind)
    BY <1>2 DEF NextAttempt
  <1>7. ASSUME kind = "transient", k = Again(k0)
        PROVE  Sound(t, sess'[ctx'[t].conn], NoContext, k, landed', fired', undone')
    <2>1. /\ k.pc = "start" /\ k.made = {} /\ k.outcome = "none"
          /\ k.attempt = k0.attempt + 1
      BY <1>7 DEF Again
    <2>2. landed' = landed /\ \A op \in landed : op[1] # t BY <1>1, <1>5, <1>7
    <2>3. \A op \in undone' : op[1] = t => op[2] < k.attempt
      <3>1. \A op \in undone' : op[1] = t => op[2] < k0.attempt \/ op[2] = k0.attempt
        BY <1>1, <1>5
      <3>2. \A n : n < k0.attempt \/ n = k0.attempt => n < k.attempt \/ n \notin Int
        BY <1>3, <2>1
      <3>3. \A op \in undone' : op[2] \in Int BY BoundsAssumption DEF IInv, TypeOK, Op
      <3> QED BY <3>1, <3>2, <3>3
    <2>4. Recorded(t, k, landed', undone') BY <2>1, <2>2, <2>3 DEF Recorded
    <2>5. Heard(t, NoContext, k, landed', fired', undone')
      BY <1>5, <2>1, <2>2 DEF Heard
    <2> QED BY <2>1, <2>4, <2>5 DEF Sound
  <1>8. ASSUME k = Over(k0, kind)
        PROVE  Sound(t, sess'[ctx'[t].conn], NoContext, k, landed', fired', undone')
    <2>1. /\ k.pc = "done" /\ k.made = k0.made /\ k.attempt = k0.attempt
          /\ k.outcome = "ok" => kind = "ok"
      BY <1>8 DEF Over
    <2>2. Recorded(t, k, landed', undone') BY <1>1, <1>5, <2>1 DEF Recorded
    <2>3. Heard(t, NoContext, k, landed', fired', undone') BY <1>1, <1>5, <2>1 DEF Heard
    <2> QED BY <2>1, <2>2, <2>3 DEF Sound
  <1>9. Sound(t, sess'[ctx'[t].conn], NoContext, k, landed', fired', undone')
    BY <1>6, <1>7, <1>8
  <1>10. UndoneNeverLands' BY DEF UndoneNeverLands
  <1> DEFINE N == {}
  <1>11. Adds(t, A, N, Z) BY <1>1, <1>5 DEF Adds
  <1> HIDE DEF N
  <1>12. OthersKeep(t) BY <1>4 DEF OthersKeep
  <1>13. Sound(t, sess'[ctx'[t].conn], ctx'[t], call'[t], landed', fired', undone')
    BY <1>4, <1>9
  <1> QED BY <1>10, <1>11, <1>12, <1>13, OneCall

\* What a call in its closure starts a step from.
LEMMA Here ==
  ASSUME ScopeInv, NEW t \in Tasks, InBody(t)
  PROVE  \E s \in Session, x \in Context, k \in Call :
           /\ s = sess[ctx[t].conn] /\ x = ctx[t] /\ k = call[t] /\ k.pc = "body"
           /\ Inside(s, x, k, undone) /\ undone \in SUBSET Op /\ k.made \subseteq Op
           /\ \A op \in k.made : op[1] = t /\ op[2] = k.attempt
           /\ \A op \in undone : op[1] = t => op[2] < k.attempt \/ op \in k.made
           /\ Fit(x) /\ x.conn \in Conns
           /\ sess = [sess EXCEPT ![ctx[t].conn] = s]
           /\ ctx = [ctx EXCEPT ![t] = x] /\ call = [call EXCEPT ![t] = k]
  <1>1. PICK s, x, k : s = sess[ctx[t].conn] /\ x = ctx[t] /\ k = call[t] OBVIOUS
  <1>2. k.pc = "body" /\ x.conn \in Conns BY <1>1 DEF InBody, ScopeInv, IInv, Owned
  <1>3. s \in Session /\ x \in Context /\ k \in Call /\ undone \in SUBSET Op
    BY <1>1, <1>2 DEF ScopeInv, IInv, TypeOK
  <1>4. k.made \subseteq Op BY <1>3 DEF Call
  <1>5. Inside(s, x, k, undone) /\ Recorded(t, k, landed, undone)
    BY <1>1, <1>2 DEF ScopeInv, Sound
  <1>6. Fit(x) BY <1>1 DEF ScopeInv, IInv
  <1>7. /\ sess = [sess EXCEPT ![ctx[t].conn] = s]
        /\ ctx = [ctx EXCEPT ![t] = x] /\ call = [call EXCEPT ![t] = k]
    BY <1>1, Unchanged DEF ScopeInv, Sess
  <1>8. /\ \A op \in k.made : op[1] = t /\ op[2] = k.attempt
        /\ \A op \in undone : op[1] = t => op[2] < k.attempt \/ op \in k.made
    BY <1>5 DEF Recorded
  <1> QED BY <1>1, <1>2, <1>3, <1>4, <1>5, <1>6, <1>7, <1>8

\* A step that enters and leaves no scope.
Stays(s, x, k, r, y, l, un) ==
  /\ y.frames = x.frames /\ (x.poisoned => y.poisoned)
  /\ r.sps = s.sps \/ r.st = "dead"
  /\ r.st # "idle" /\ (r.st = "dead" => r.wr = {}) /\ (s.st = "dead" => r.st = "dead")
  /\ Unique(y.queue) /\ Image(y.queue, Len(y.queue)) \subseteq l.made
  /\ \A i \in 1..Len(x.frames) :
       Image(y.queue, x.frames[i].cb) = Image(x.queue, x.frames[i].cb)
  /\ k.made \subseteq l.made
  /\ ~x.poisoned /\ r.st = "active" =>
       /\ s.st = "active"
       /\ Point(s.wr, s.guc, x.queue, Len(x.queue), x.applied, k.made, un)
            => Point(r.wr, r.guc, y.queue, Len(y.queue), y.applied, l.made, un)

LEMMA SameScopes ==
  ASSUME NEW s \in Session, NEW x \in Context, NEW k \in Call, NEW un,
         NEW r \in Session, NEW y \in Context, NEW l \in Call,
         Inside(s, x, k, un), Stays(s, x, k, r, y, l, un)
  PROVE  Inside(r, y, l, un)
  <1> USE DEF Stays
  <1>1. ASSUME ~y.poisoned, r.st # "dead" PROVE Stack(r, y, l, un)
    <2>1. Stack(s, x, k, un) /\ ~x.poisoned BY <1>1 DEF Inside
    <2>2. PICK n \in Nat : n = Len(x.frames)
      <3>1. x.frames \in Seq(Frame) BY DEF Context
      <3> QED BY <3>1
    <2>3. Len(s.sps) \in Nat /\ n <= Len(s.sps) /\ Len(y.frames) = n
      BY <2>1, <2>2 DEF Stack, Session
    <2>4. r.st = "active" =>
           /\ Len(r.sps) = n
           /\ Point(r.wr, r.guc, y.queue, Len(y.queue), y.applied, l.made, un)
      BY <1>1, <2>1, <2>2 DEF Stack
    <2>5. n \in 0..Len(x.frames) /\ Len(r.sps) \in n..Len(s.sps)
      BY <1>1, <2>2, <2>3
    <2>6. \A i \in 1..n : y.frames[i] = x.frames[i] OBVIOUS
    <2>7. \A i \in 1..Len(r.sps) : r.sps[i] = s.sps[i] BY <1>1
    <2>8. \A i \in 1..n : Image(y.queue, x.frames[i].cb) = Image(x.queue, x.frames[i].cb)
      BY <2>2
    <2>9. \A i \in 1..n : x.frames[i].made \ un = x.frames[i].made \ un OBVIOUS
    <2>10. Left(s, x, k, un, r, y, l, un, n)
      BY <2>3, <2>4, <2>5, <2>6, <2>7, <2>8, <2>9 DEF Left
    <2> QED BY <2>1, <2>10, StackTo
  <1> QED BY <1>1 DEF Inside

\* The statements of a closure.
LEMMA StatementScope ==
  ASSUME ScopeInv, NEW t \in Tasks, Statement(t)
  PROVE  ScopeInv'
  <1>0. IInv' /\ InBody(t)
    <2>1. IInv BY DEF ScopeInv
    <2> QED BY <2>1, StatementStep DEF Statement, SetAuth, SetTenant, Create, CreateFails,
                                       AbandonTenant, CanQuery
  <1>1. PICK s \in Session, x \in Context, k \in Call :
           /\ s = sess[ctx[t].conn] /\ x = ctx[t] /\ k = call[t] /\ k.pc = "body"
           /\ Inside(s, x, k, undone) /\ undone \in SUBSET Op /\ k.made \subseteq Op
           /\ \A op \in k.made : op[1] = t /\ op[2] = k.attempt
           /\ \A op \in undone : op[1] = t => op[2] < k.attempt \/ op \in k.made
           /\ Fit(x) /\ x.conn \in Conns
           /\ sess = [sess EXCEPT ![ctx[t].conn] = s]
           /\ ctx = [ctx EXCEPT ![t] = x] /\ call = [call EXCEPT ![t] = k]
    BY <1>0, Here
  <1>2. Sess(t) = s /\ IInv BY <1>1 DEF Sess, ScopeInv
  <1>3. Unique(x.queue) /\ Image(x.queue, Len(x.queue)) \subseteq k.made
        /\ (s.st = "dead" => s.wr = {}) /\ s.st # "idle"
    BY <1>1 DEF Inside
  <1>4. ASSUME NEW r, NEW y, NEW l, Changes(t, r, y, l, {})
        PROVE  r \in Session /\ y \in Context /\ l \in Call
    BY <1>0, <1>2, <1>4, There DEF Changes
  <1>5. SUFFICES \E r, y, l : Changes(t, r, y, l, {}) /\ Inside(r, y, l, undone)
    <2>1. PICK r, y, l : Changes(t, r, y, l, {}) /\ Inside(r, y, l, undone) BY <1>5
    <2>2. Inside(r, y, l, undone') BY <2>1 DEF Changes
    <2> QED BY <1>0, <2>1, <2>2, Moves
  <1>6. ASSUME NEW a \in Auth, SetAuth(t, a)
        PROVE  \E r, y, l : Changes(t, r, y, l, {}) /\ Inside(r, y, l, undone)
    <2>1. PICK y : y = [x EXCEPT !.auth = a] OBVIOUS
    <2>2. /\ y.conn = x.conn /\ y.frames = x.frames /\ y.queue = x.queue
          /\ y.poisoned = x.poisoned /\ y.applied = x.applied
      BY <2>1 DEF Context
    <2>3. Changes(t, s, y, k, {}) BY <1>1, <1>6, <2>1, <2>2 DEF SetAuth, Changes
    <2>4. Inside(s, y, k, undone) BY <1>1, <2>2 DEF Inside, Stack, Level
    <2> QED BY <2>3, <2>4
  <1>7. ASSUME CanQuery(t), NEW r, NEW y, NEW l, Changes(t, r, y, l, {}),
               y.frames = x.frames, y.queue = x.queue, y.poisoned = x.poisoned, l = k,
               r.sps = s.sps, r.wr = s.wr,
               \/ r.st = "aborted"
               \/ r.st = "active" /\ (~AbandonStmt /\ s.guc = x.applied => r.guc = y.applied)
        PROVE  Inside(r, y, l, undone)
    <2>1. s.st = "active" BY <1>2, <1>7 DEF CanQuery
    <2>2. r \in Session /\ y \in Context BY <1>4, <1>7
    <2>3. r.st # "idle" /\ r.st # "dead" BY <1>7
    <2>4. r.st = "active" /\ Point(s.wr, s.guc, x.queue, Len(x.queue), x.applied, k.made, undone)
            => Point(r.wr, r.guc, y.queue, Len(y.queue), y.applied, l.made, undone)
      BY <1>7 DEF Point
    <2>5. Stays(s, x, k, r, y, l, undone) BY <1>3, <1>7, <2>1, <2>3, <2>4 DEF Stays
    <2> QED BY <1>1, <1>7, <2>2, <2>5, SameScopes
  <1>8. ASSUME CanQuery(t), NEW r \in Session, NEW y, Changes(t, r, y, k, {}),
               y.frames = x.frames, y.queue = x.queue, y.poisoned = x.poisoned,
               r.sps = s.sps, r.wr = s.wr,
               \/ r.st = "aborted"
               \/ r.st = "active" /\ (~AbandonStmt /\ s.guc = x.applied => r.guc = y.applied)
        PROVE  \E v, w, l : Changes(t, v, w, l, {}) /\ Inside(v, w, l, undone)
    BY <1>7, <1>8
  <1>9. AfterTenant(t) \in Session /\ AfterTenant(t).sps = s.sps /\ AfterTenant(t).wr = s.wr
        /\ AfterTenant(t).st = s.st
        /\ AfterTenant(t).guc = IF NeedsTenant(t) THEN x.auth ELSE s.guc
    <2>1. NeedsTenant(t) => x.auth \in Guc BY <1>1 DEF NeedsTenant, Context, Auth
    <2>2. NeedsTenant(t) => SetGuc(s, x.auth) \in Session BY <2>1, GucType
    <2> QED BY <1>1, <1>2, <2>1, <2>2 DEF AfterTenant, SetGuc, Session
  <1>10. ASSUME NEW g \in Tenants, SetTenant(t, g)
         PROVE  \E r, y, l : Changes(t, r, y, l, {}) /\ Inside(r, y, l, undone)
    <2>1. PICK r, y : r = SetGuc(s, g) /\ y = [x EXCEPT !.applied = g] OBVIOUS
    <2>2. r \in Session BY <2>1, GucType DEF Guc
    <2>3. r.sps = s.sps /\ r.wr = s.wr /\ r.st = s.st /\ r.guc = g
      BY <2>1 DEF SetGuc, Session
    <2>4. /\ y.conn = x.conn /\ y.frames = x.frames /\ y.queue = x.queue
          /\ y.poisoned = x.poisoned /\ y.applied = g
      BY <2>1 DEF Context
    <2>5. CanQuery(t) /\ s.st = "active" BY <1>2, <1>10 DEF SetTenant, CanQuery
    <2>6. Changes(t, r, y, k, {})
      BY <1>1, <1>2, <1>10, <2>1, <2>4 DEF SetTenant, Changes, Sess
    <2> QED BY <1>8, <2>2, <2>3, <2>4, <2>5, <2>6
  <1>11. ASSUME CreateFails(t)
         PROVE  \E r, y, l : Changes(t, r, y, l, {}) /\ Inside(r, y, l, undone)
    <2>1. PICK r0 \in {s, AfterTenant(t)}, y \in {x, [x EXCEPT !.applied = x.auth]} :
            /\ sess' = [sess EXCEPT ![ctx[t].conn] = Refuse(r0)]
            /\ ctx' = [ctx EXCEPT ![t] = y]
      <3>1. sess[ctx[t].conn] = s /\ ctx[t] = x BY <1>1
      <3>2. CASE sess' = [sess EXCEPT ![ctx[t].conn] = Refuse(@)] /\ UNCHANGED ctx
        <4>1. /\ sess' = [sess EXCEPT ![ctx[t].conn] = Refuse(s)]
              /\ ctx' = [ctx EXCEPT ![t] = x]
          BY <1>1, <3>2
        <4> QED BY <4>1
      <3>3. CASE /\ sess' = [sess EXCEPT ![ctx[t].conn] = Refuse(AfterTenant(t))]
                 /\ ctx' = [ctx EXCEPT ![t].applied =
                             IF NeedsTenant(t) THEN ctx[t].auth ELSE @]
        <4>1. CASE NeedsTenant(t)
          <5>1. ctx' = [ctx EXCEPT ![t] = [x EXCEPT !.applied = x.auth]]
            BY <3>1, <3>3, <4>1
          <5> QED BY <3>3, <5>1
        <4>2. CASE ~NeedsTenant(t)
          <5>1. [x EXCEPT !.applied = x.applied] = x BY DEF Context
          <5>2. ctx' = [ctx EXCEPT ![t] = [x EXCEPT !.applied = x.applied]]
            BY <3>1, <3>3, <4>2
          <5>3. ctx' = [ctx EXCEPT ![t] = x] BY <5>1, <5>2
          <5> QED BY <3>3, <5>3
        <4> QED BY <4>1, <4>2
      <3> QED BY <1>11, <3>2, <3>3 DEF CreateFails
    <2>2. r0 \in Session /\ r0.sps = s.sps /\ r0.wr = s.wr BY <1>9
    <2>3. PICK r : r = Refuse(r0) OBVIOUS
    <2>4. r \in Session /\ r.st = "aborted" /\ r.sps = s.sps /\ r.wr = s.wr
      BY <2>2, <2>3, RefuseType DEF Refuse, Session
    <2>5. /\ y.conn = x.conn /\ y.frames = x.frames /\ y.queue = x.queue
          /\ y.poisoned = x.poisoned
      BY DEF Context
    <2>6. CanQuery(t) /\ UNCHANGED <<call, landed, fired, undone>> BY <1>11 DEF CreateFails
    <2>7. Changes(t, r, y, k, {}) BY <1>1, <2>1, <2>3, <2>5, <2>6 DEF Changes
    <2> QED BY <1>8, <2>4, <2>5, <2>6, <2>7
  <1>12. ASSUME AbandonTenant(t)
         PROVE  \E r, y, l : Changes(t, r, y, l, {}) /\ Inside(r, y, l, undone)
    <2>1. PICK r : r = AfterTenant(t) OBVIOUS
    <2>2. CanQuery(t) /\ AbandonStmt /\ s.st = "active"
      BY <1>2, <1>12 DEF AbandonTenant, CanQuery
    <2>3. Changes(t, r, x, k, {}) BY <1>1, <1>12, <2>1 DEF AbandonTenant, Changes
    <2>4. r \in Session /\ r.sps = s.sps /\ r.wr = s.wr /\ r.st = "active"
      BY <1>9, <2>1, <2>2
    <2> QED BY <1>8, <2>2, <2>3, <2>4
  <1>13. ASSUME NEW e \in Effects, Create(t, e)
         PROVE  \E r, y, l : Changes(t, r, y, l, {}) /\ Inside(r, y, l, undone)
    <2>1. PICK op : op = <<t, k.attempt, e>> OBVIOUS
    <2>2. CanQuery(t) /\ op \notin k.made BY <1>1, <1>13, <2>1 DEF Create
    <2>3. PICK r : r = [AfterTenant(t) EXCEPT !.wr = @ \cup {op}] OBVIOUS
    <2>4. PICK y : y = [x EXCEPT !.applied = IF NeedsTenant(t) THEN x.auth ELSE @,
                                 !.queue = Append(@, op)] OBVIOUS
    <2>5. PICK l : l = [k EXCEPT !.made = @ \cup {op}] OBVIOUS
    <2>6. /\ sess' = [sess EXCEPT ![ctx[t].conn] = r]
          /\ ctx' = [ctx EXCEPT ![t] = y] /\ call' = [call EXCEPT ![t] = l]
          /\ UNCHANGED <<landed, fired, undone>>
      <3>1. sess' = [sess EXCEPT ![ctx[t].conn] = r] BY <1>1, <1>13, <2>1, <2>3 DEF Create
      <3>2. ctx' = [ctx EXCEPT ![t] = [ctx[t] EXCEPT
                      !.applied = IF NeedsTenant(t) THEN ctx[t].auth ELSE @,
                      !.queue = Append(@, op)]]
        BY <1>1, <1>13, <2>1 DEF Create
      <3>3. ctx' = [ctx EXCEPT ![t] = y] BY <1>1, <2>4, <3>2
      <3>4. call' = [call EXCEPT ![t] = l] BY <1>1, <1>13, <2>1, <2>5 DEF Create
      <3>5. UNCHANGED <<landed, fired, undone>> BY <1>13 DEF Create
      <3> QED BY <3>1, <3>3, <3>4, <3>5
    <2>7. /\ r.st = s.st /\ r.sps = s.sps /\ r.wr = s.wr \cup {op}
          /\ r.guc = IF NeedsTenant(t) THEN x.auth ELSE s.guc
      BY <1>9, <2>3 DEF Session
    <2>8. /\ y.conn = x.conn /\ y.frames = x.frames /\ y.poisoned = x.poisoned
          /\ y.applied = IF NeedsTenant(t) THEN x.auth ELSE x.applied
          /\ y.queue = Append(x.queue, op)
      BY <2>4 DEF Context
    <2>9. /\ l.pc = k.pc /\ l.attempt = k.attempt /\ l.outcome = k.outcome
          /\ l.made = k.made \cup {op}
      BY <2>5 DEF Call
    <2>10. op[1] = t /\ op[2] = k.attempt BY <2>1
    <2>11. Changes(t, r, y, l, {}) BY <1>1, <2>6, <2>8, <2>9, <2>10 DEF Changes
    <2>12. r \in Session /\ y \in Context /\ l \in Call BY <1>4, <2>11
    <2>13. op \in Op /\ k.attempt \in Int
      BY <2>1, <2>9, <2>12, BoundsAssumption DEF Call, Op
    <2>14. op \notin undone BY <1>1, <2>2, <2>10, <2>13
    <2>15. /\ Len(y.queue) = Len(x.queue) + 1 /\ Len(x.queue) \in Nat
           /\ \A n \in 0..Len(x.queue) : Image(y.queue, n) = Image(x.queue, n)
           /\ Image(y.queue, Len(y.queue)) = Image(x.queue, Len(x.queue)) \cup {op}
           /\ Unique(y.queue)
      <3>1. x.queue \in Seq(Op) BY DEF Context
      <3>2. op \notin Image(x.queue, Len(x.queue)) BY <1>3, <2>2
      <3> QED BY <1>3, <2>8, <2>13, <3>1, <3>2, AppendFacts
    <2>16. \A i \in 1..Len(x.frames) : x.frames[i].cb \in 0..Len(x.queue)
      <3>1. x.frames \in Seq(Frame) BY DEF Context
      <3>2. \A i \in 1..Len(x.frames) : x.frames[i] \in Frame BY <3>1
      <3>3. \A i \in 1..Len(x.frames) : x.frames[i].cb \in Nat BY <3>2 DEF Frame
      <3> QED BY <1>1, <2>15, <3>3 DEF Fit
    <2>17. s.st = "active" BY <1>2, <2>2 DEF CanQuery
    <2>18. Point(s.wr, s.guc, x.queue, Len(x.queue), x.applied, k.made, undone)
             => Point(r.wr, r.guc, y.queue, Len(y.queue), y.applied, l.made, undone)
      BY <2>7, <2>8, <2>9, <2>14, <2>15 DEF Point
    <2>19. /\ Image(y.queue, Len(y.queue)) \subseteq l.made /\ k.made \subseteq l.made
           /\ \A i \in 1..Len(x.frames) :
                Image(y.queue, x.frames[i].cb) = Image(x.queue, x.frames[i].cb)
      BY <1>3, <2>9, <2>15, <2>16
    <2>20. Stays(s, x, k, r, y, l, undone)
      BY <2>7, <2>8, <2>15, <2>17, <2>18, <2>19 DEF Stays
    <2>21. Inside(r, y, l, undone) BY <1>1, <2>12, <2>20, SameScopes
    <2> QED BY <2>11, <2>21
  <1> QED BY <1>6, <1>10, <1>11, <1>12, <1>13 DEF Statement

-----------------------------------------------------------------------------
(* Nested scopes.                                                           *)

\* The innermost scope d is left with Z undone: nothing, or all it has made.
Exits(s, x, k, un, r, y, d, Z) ==
  /\ d \in Nat /\ d = Len(x.frames) /\ d > 0
  /\ y.frames = SubSeq(x.frames, 1, d - 1) /\ y.poisoned = x.poisoned
  /\ y.queue = x.queue \/ y.queue = SubSeq(x.queue, 1, x.frames[d].cb)
  /\ Z \in SUBSET Op /\ (Z = {} \/ Z = k.made \ x.frames[d].made)
  /\ r.st # "idle" /\ (r.st = "dead" => r.wr = {}) /\ (s.st = "dead" => r.st = "dead")
  /\ Stack(s, x, k, un) /\ ~x.poisoned /\ r.st # "dead" =>
       /\ \/ r.sps = s.sps \/ r.sps = SubSeq(s.sps, 1, d)
          \/ r.sps = SubSeq(s.sps, 1, d - 1)
       /\ r.st = "active" =>
            /\ Len(r.sps) = d - 1
            /\ Point(r.wr, r.guc, y.queue, Len(y.queue), y.applied, k.made, un \cup Z)

LEMMA LeaveInside ==
  ASSUME NEW s \in Session, NEW x \in Context, NEW k \in Call, NEW un \in SUBSET Op,
         NEW r \in Session, NEW y \in Context, NEW d, NEW Z,
         Inside(s, x, k, un), Fit(x), Exits(s, x, k, un, r, y, d, Z)
  PROVE  Inside(r, y, k, un \cup Z)
  <1> USE DEF Exits
  <1>1. x.queue \in Seq(Op) /\ x.frames \in Seq(Frame) /\ s.sps \in Seq(Savepoint)
    BY DEF Context, Session
  <1>2. \A i \in 1..d : x.frames[i].cb \in 0..Len(x.queue)
    <2>1. \A i \in 1..d : x.frames[i] \in Frame BY <1>1
    <2>2. \A i \in 1..d : x.frames[i].cb \in Nat BY <2>1 DEF Frame
    <2> QED BY <1>1, <2>2 DEF Fit
  <1>3. Unique(x.queue) /\ Image(x.queue, Len(x.queue)) \subseteq k.made BY DEF Inside
  <1>4. PICK m \in 0..Len(x.queue) : m = x.frames[d].cb BY <1>2
  <1>5. /\ Len(SubSeq(x.queue, 1, m)) = m
        /\ \A n \in 0..m : Image(SubSeq(x.queue, 1, m), n) = Image(x.queue, n)
        /\ Unique(SubSeq(x.queue, 1, m))
    BY <1>1, <1>3, PrefixFacts
  <1>6. Image(x.queue, m) \subseteq Image(x.queue, Len(x.queue))
    <2>1. 1..m \subseteq 1..Len(x.queue) BY <1>1
    <2> QED BY <2>1 DEF Image
  <1>7. Unique(y.queue) /\ Image(y.queue, Len(y.queue)) \subseteq k.made
    <2>1. CASE y.queue = x.queue BY <1>3, <2>1
    <2>2. CASE y.queue = SubSeq(x.queue, 1, m)
      <3>1. Image(y.queue, Len(y.queue)) = Image(x.queue, m) BY <1>1, <1>5, <2>2
      <3> QED BY <1>3, <1>5, <1>6, <2>2, <3>1
    <2> QED BY <1>4, <2>1, <2>2
  <1>8. \A i \in 1..(d - 1) :
          Image(y.queue, x.frames[i].cb) = Image(x.queue, x.frames[i].cb)
    <2>1. \A i \in 1..(d - 1) : i \in 1..d /\ x.frames[i].cb \in 0..m
      <3>1. \A i \in 1..(d - 1) : i \in 1..d /\ i <= d OBVIOUS
      <3> QED BY <1>2, <1>4, <3>1 DEF Fit
    <2>2. CASE y.queue = SubSeq(x.queue, 1, m) BY <1>5, <2>1, <2>2
    <2> QED BY <1>4, <2>2
  <1>9. Len(y.frames) = d - 1 /\ \A i \in 1..(d - 1) : y.frames[i] = x.frames[i]
    BY <1>1
  <1>10. ASSUME Stack(s, x, k, un), ~x.poisoned, r.st # "dead"
         PROVE  Stack(r, y, k, un \cup Z)
    <2>1. d <= Len(s.sps) /\ Level(s, x, k, un, d) BY <1>10 DEF Stack
    <2>2. \A i \in 1..(d - 1) : x.frames[i].made \subseteq x.frames[d].made
      BY <2>1 DEF Level
    <2>3. \A i \in 1..(d - 1) : x.frames[i].made \ (un \cup Z) = x.frames[i].made \ un
      BY <2>2
    <2>4. /\ Len(r.sps) \in (d - 1)..Len(s.sps)
          /\ \A i \in 1..Len(r.sps) : r.sps[i] = s.sps[i]
      <3>1. CASE r.sps = s.sps BY <1>1, <2>1, <3>1
      <3>2. CASE r.sps = SubSeq(s.sps, 1, d) BY <1>1, <2>1, <3>2
      <3>3. CASE r.sps = SubSeq(s.sps, 1, d - 1) BY <1>1, <2>1, <3>3
      <3> QED BY <1>10, <3>1, <3>2, <3>3
    <2>5. PICK n \in 0..Len(x.frames) : n = d - 1
      <3>1. d - 1 \in 0..Len(x.frames) OBVIOUS
      <3> QED BY <3>1
    <2>6. PICK vn \in SUBSET Op : vn = un \cup Z
      <3>1. un \cup Z \in SUBSET Op OBVIOUS
      <3> QED BY <3>1
    <2>7. Len(y.frames) = n /\ \A i \in 1..n : y.frames[i] = x.frames[i] BY <1>9, <2>5
    <2>8. \A i \in 1..n : Image(y.queue, x.frames[i].cb) = Image(x.queue, x.frames[i].cb)
      BY <1>8, <2>5
    <2>9. Len(r.sps) \in n..Len(s.sps) /\ \A i \in 1..Len(r.sps) : r.sps[i] = s.sps[i]
      BY <2>4, <2>5
    <2>10. \A i \in 1..n : x.frames[i].made \ vn = x.frames[i].made \ un
      BY <2>3, <2>5, <2>6
    <2>11. r.st = "active" =>
             /\ Len(r.sps) = n
             /\ Point(r.wr, r.guc, y.queue, Len(y.queue), y.applied, k.made, vn)
      BY <1>10, <2>5, <2>6
    <2>12. k.made \subseteq k.made OBVIOUS
    <2>13. Left(s, x, k, un, r, y, k, vn, n)
      BY <2>5, <2>7, <2>8, <2>9, <2>10, <2>11, <2>12 DEF Left
    <2> QED BY <1>10, <2>6, <2>13, StackTo
  <1> QED BY <1>7, <1>10 DEF Inside


LEMMA FirstFacts ==
  ASSUME NEW S, NEW q \in Seq(S), NEW n \in Nat, n <= Len(q)
  PROVE  /\ SubSeq(q, 1, n) \in Seq(S) /\ Len(SubSeq(q, 1, n)) = n
         /\ \A i \in 1..n : SubSeq(q, 1, n)[i] = q[i]
  OBVIOUS

\* The server's answers to the statements that leave scope d.
LEMMA ReleaseFacts ==
  ASSUME NEW s \in Session, NEW d \in Nat, d \in 1..Len(s.sps),
         \A i \in 1..Len(s.sps) : s.sps[i].name = i, NEW r \in Release(s, d)
  PROVE  r.sps = SubSeq(s.sps, 1, d - 1) /\ r.wr = s.wr /\ r.guc = s.guc /\ r.st = s.st
  <1>1. Latest(s, d) = {d} BY LatestFacts
  <1>2. r = [s EXCEPT !.sps = SubSeq(@, 1, d - 1)] BY <1>1 DEF Release
  <1> QED BY <1>2 DEF Session

LEMMA RollbackFacts ==
  ASSUME NEW s \in Session, NEW d \in Nat, d \in 1..Len(s.sps),
         \A i \in 1..Len(s.sps) : s.sps[i].name = i,
         NEW b \in RollbackTo(s, d), NEW r \in Release(b, d)
  PROVE  /\ b \in Session /\ b.sps = SubSeq(s.sps, 1, d)
         /\ r \in Session /\ r.sps = SubSeq(s.sps, 1, d - 1) /\ r.st = "active"
         /\ r.wr = s.sps[d].wr /\ r.guc = s.sps[d].guc
  <1>1. Latest(s, d) = {d} BY LatestFacts
  <1>2. /\ b.st = "active" /\ b.guc = s.sps[d].guc /\ b.wr = s.sps[d].wr
        /\ b.sps = SubSeq(s.sps, 1, d)
    BY <1>1 DEF RollbackTo
  <1>3. b \in Session /\ r \in Session BY RollbackToType, ReleaseType
  <1>4. s.sps \in Seq(Savepoint) BY DEF Session
  <1>5. Len(b.sps) = d /\ \A i \in 1..d : b.sps[i] = s.sps[i] BY <1>2, <1>4
  <1>6. /\ r.sps = SubSeq(b.sps, 1, d - 1) /\ r.wr = b.wr /\ r.guc = b.guc
        /\ r.st = b.st
    <2>1. d \in 1..Len(b.sps) /\ \A i \in 1..Len(b.sps) : b.sps[i].name = i BY <1>5
    <2> QED BY <1>3, <2>1, ReleaseFacts
  <1>7. SubSeq(b.sps, 1, d - 1) = SubSeq(s.sps, 1, d - 1)
    <2>1. PICK p, q : p = SubSeq(b.sps, 1, d - 1) /\ q = SubSeq(s.sps, 1, d - 1) OBVIOUS
    <2>2. b.sps \in Seq(Savepoint) BY <1>3 DEF Session
    <2>3. PICK n \in Nat : n = d - 1 /\ n <= Len(b.sps) /\ n <= Len(s.sps) BY <1>5
    <2>4. p \in Seq(Savepoint) /\ Len(p) = n /\ \A i \in 1..n : p[i] = b.sps[i]
      BY <2>1, <2>2, <2>3, FirstFacts
    <2>5. q \in Seq(Savepoint) /\ Len(q) = n /\ \A i \in 1..n : q[i] = s.sps[i]
      BY <1>4, <2>1, <2>3, FirstFacts
    <2>6. \A i \in 1..n : p[i] = q[i]
      <3>1. 1..n \subseteq 1..d BY <2>3
      <3> QED BY <1>5, <2>4, <2>5, <3>1
    <2>7. p = q BY <2>4, <2>5, <2>6
    <2> QED BY <2>1, <2>7
  <1> QED BY <1>2, <1>3, <1>6, <1>7

\* Entering a scope, or failing to.
LEMMA EnterScope ==
  ASSUME ScopeInv, NEW t \in Tasks, IInv', InBody(t),
         NestedEnter(t) \/ NestedEnterCancel(t) \/ NestedRefused(t)
  PROVE  ScopeInv'
  <1>1. PICK s \in Session, x \in Context, k \in Call :
           /\ s = sess[ctx[t].conn] /\ x = ctx[t] /\ k = call[t] /\ k.pc = "body"
           /\ Inside(s, x, k, undone) /\ undone \in SUBSET Op /\ k.made \subseteq Op
           /\ \A op \in k.made : op[1] = t /\ op[2] = k.attempt
           /\ \A op \in undone : op[1] = t => op[2] < k.attempt \/ op \in k.made
           /\ Fit(x) /\ x.conn \in Conns
           /\ sess = [sess EXCEPT ![ctx[t].conn] = s]
           /\ ctx = [ctx EXCEPT ![t] = x] /\ call = [call EXCEPT ![t] = k]
    BY Here
  <1>2. PICK d : d = Len(x.frames) OBVIOUS
  <1>3. Sess(t) = s /\ Depth(t) = d /\ d \in Nat /\ IInv
    BY <1>1, <1>2 DEF Sess, Depth, Context, ScopeInv
  <1>4. /\ Unique(x.queue) /\ Image(x.queue, Len(x.queue)) \subseteq k.made
        /\ (s.st = "dead" => s.wr = {}) /\ s.st # "idle"
    BY <1>1 DEF Inside
  <1>5. SUFFICES \E r, y : Changes(t, r, y, k, {}) /\ Inside(r, y, k, undone)
    <2>1. PICK r, y : Changes(t, r, y, k, {}) /\ Inside(r, y, k, undone) BY <1>5
    <2>2. Inside(r, y, k, undone') BY <2>1 DEF Changes
    <2> QED BY <2>1, <2>2, Moves
  <1>6. PICK v : v = PushSavepoint(s, d + 1) OBVIOUS
  <1>7. PICK p : p = [name |-> d + 1, guc |-> s.guc, wr |-> s.wr] OBVIOUS
  <1>8. /\ v \in Session /\ v.sps = Append(s.sps, p) /\ v.st = s.st
        /\ v.wr = s.wr /\ v.guc = s.guc
    <2>1. d + 1 \in Nat BY <1>3
    <2> QED BY <1>6, <1>7, <2>1, PushType DEF PushSavepoint, Session
  <1>9. ASSUME NestedEnter(t)
        PROVE  \E r, y : Changes(t, r, y, k, {}) /\ Inside(r, y, k, undone)
    <2>1. PICK f : f = [cb |-> Len(x.queue), auth |-> x.auth, applied |-> x.applied,
                        made |-> k.made]
      OBVIOUS
    <2>2. PICK y : y = [x EXCEPT !.frames = Append(@, f)] OBVIOUS
    <2>3. /\ y.conn = x.conn /\ y.queue = x.queue /\ y.applied = x.applied
          /\ y.poisoned = x.poisoned /\ y.frames = Append(x.frames, f)
      BY <2>2 DEF Context
    <2>4. /\ sess' = [sess EXCEPT ![ctx[t].conn] = v]
          /\ ctx' = [ctx EXCEPT ![t] = y] /\ s.st = "active"
          /\ UNCHANGED <<call, landed, fired, undone>>
      BY <1>1, <1>3, <1>6, <1>9, <2>1, <2>2 DEF NestedEnter
    <2>5. Changes(t, v, y, k, {}) BY <1>1, <2>3, <2>4 DEF Changes
    <2>6. y \in Context BY <1>3, <2>5, There DEF Changes
    <2>7. ASSUME Stack(s, x, k, undone) PROVE Stack(v, y, k, undone)
      <3>1. f.cb = Len(x.queue) /\ f.applied = x.applied /\ f.made = k.made BY <2>1
      <3>2. p.name = Len(x.frames) + 1 /\ p.guc = s.guc /\ p.wr = s.wr BY <1>2, <1>7
      <3>3. Pushed(s, x, k, v, y, f, p) BY <1>8, <2>3, <2>4, <3>1, <3>2 DEF Pushed
      <3> QED BY <2>6, <2>7, <1>8, <3>3, StackPush
    <2>8. Inside(v, y, k, undone) BY <1>1, <1>8, <2>3, <2>4, <2>7 DEF Inside
    <2> QED BY <2>5, <2>8
  <1>10. ASSUME NestedEnterCancel(t)
         PROVE  \E r, y : Changes(t, r, y, k, {}) /\ Inside(r, y, k, undone)
    <2>1. PICK y : y = [x EXCEPT !.poisoned = TRUE] OBVIOUS
    <2>2. y.conn = x.conn /\ y.queue = x.queue /\ y.poisoned BY <2>1 DEF Context
    <2>3. PICK r \in {s, v} : sess' = [sess EXCEPT ![ctx[t].conn] = r]
      BY <1>1, <1>3, <1>6, <1>10 DEF NestedEnterCancel
    <2>4. Changes(t, r, y, k, {})
      BY <1>1, <1>10, <2>1, <2>2, <2>3 DEF NestedEnterCancel, Changes
    <2>5. Inside(r, y, k, undone) BY <1>4, <1>8, <2>2 DEF Inside
    <2> QED BY <2>4, <2>5
  <1>11. ASSUME NestedRefused(t)
         PROVE  \E r, y : Changes(t, r, y, k, {}) /\ Inside(r, y, k, undone)
    <2>1. PICK r : r = Refuse(s) OBVIOUS
    <2>2. r \in Session /\ r.sps = s.sps /\ r.st = "aborted"
      BY <2>1, RefuseType DEF Refuse, Session
    <2>3. Changes(t, r, x, k, {}) /\ s.st = "active"
      BY <1>1, <1>3, <1>11, <2>1 DEF NestedRefused, Changes
    <2>4. Stays(s, x, k, r, x, k, undone) BY <1>4, <2>2, <2>3 DEF Stays
    <2>5. Inside(r, x, k, undone) BY <1>1, <2>2, <2>4, SameScopes
    <2> QED BY <2>3, <2>5
  <1> QED BY <1>9, <1>10, <1>11

\* Leaving a scope: released, rolled back or abandoned.
LEMMA ExitScope ==
  ASSUME ScopeInv, NEW t \in Tasks, IInv', InBody(t),
         \/ NestedOk(t) \/ NestedReleaseFails(t) \/ NestedFails(t)
         \/ \E i \in 1..MaxDepth : NestedCancel(t, i)
  PROVE  ScopeInv'
  <1>1. PICK s \in Session, x \in Context, k \in Call :
           /\ s = sess[ctx[t].conn] /\ x = ctx[t] /\ k = call[t] /\ k.pc = "body"
           /\ Inside(s, x, k, undone) /\ undone \in SUBSET Op /\ k.made \subseteq Op
           /\ \A op \in k.made : op[1] = t /\ op[2] = k.attempt
           /\ \A op \in undone : op[1] = t => op[2] < k.attempt \/ op \in k.made
           /\ Fit(x) /\ x.conn \in Conns
           /\ sess = [sess EXCEPT ![ctx[t].conn] = s]
           /\ ctx = [ctx EXCEPT ![t] = x] /\ call = [call EXCEPT ![t] = k]
    BY Here
  <1>2. x.frames \in Seq(Frame) /\ x.queue \in Seq(Op) /\ s.sps \in Seq(Savepoint)
    BY DEF Context, Session
  <1>3. PICK d \in Nat : d = Len(x.frames) BY <1>2
  <1>4. Sess(t) = s /\ Depth(t) = d /\ IInv BY <1>1, <1>3 DEF Sess, Depth, ScopeInv
  <1>5. /\ Unique(x.queue) /\ Image(x.queue, Len(x.queue)) \subseteq k.made
        /\ (s.st = "dead" => s.wr = {}) /\ s.st # "idle"
    BY <1>1 DEF Inside
  <1>6. SUFFICES \E r, y, Z : Changes(t, r, y, k, Z) /\ Inside(r, y, k, undone \cup Z)
    <2>1. PICK r, y, Z : Changes(t, r, y, k, Z) /\ Inside(r, y, k, undone \cup Z)
      BY <1>6
    <2>2. Inside(r, y, k, undone') BY <2>1 DEF Changes
    <2> QED BY <2>1, <2>2, Moves
  <1>7. \A i \in 1..d : x.frames[i].cb \in 0..Len(x.queue)
    <2>1. \A i \in 1..d : x.frames[i] \in Frame BY <1>2, <1>3
    <2>2. \A i \in 1..d : x.frames[i].cb \in Nat BY <2>1 DEF Frame
    <2> QED BY <1>1, <1>2, <1>3, <2>2 DEF Fit
  <1>8. ASSUME Stack(s, x, k, undone), d > 0
        PROVE  /\ d \in 1..Len(s.sps) /\ \A i \in 1..Len(s.sps) : s.sps[i].name = i
               /\ Level(s, x, k, undone, d)
    BY <1>2, <1>3, <1>8 DEF Stack
  <1>9. ASSUME NestedOk(t)
        PROVE  \E r, y, Z : Changes(t, r, y, k, Z) /\ Inside(r, y, k, undone \cup Z)
    <2>1. PICK r \in Release(s, d) : sess' = [sess EXCEPT ![ctx[t].conn] = r]
      BY <1>4, <1>9 DEF NestedOk
    <2>2. PICK y : y = [x EXCEPT !.frames = SubSeq(x.frames, 1, d - 1)] OBVIOUS
    <2>3. /\ y.conn = x.conn /\ y.queue = x.queue /\ y.applied = x.applied
          /\ y.poisoned = x.poisoned /\ y.frames = SubSeq(x.frames, 1, d - 1)
      BY <2>2 DEF Context
    <2>4. d > 0 /\ s.st = "active" /\ ctx' = [ctx EXCEPT ![t] = y]
          /\ UNCHANGED <<call, landed, fired, undone>>
      BY <1>1, <1>4, <1>9, <2>2 DEF NestedOk, ReleasedContext, PopFrame
    <2>5. PICK Z \in SUBSET Op : Z = {} OBVIOUS
    <2>6. Changes(t, r, y, k, Z) BY <1>1, <2>1, <2>3, <2>4, <2>5 DEF Changes
    <2>7. r \in Session /\ y \in Context BY <1>4, <2>6, There DEF Changes
    <2>8. r.st \in {"active", "aborted"} BY <2>1, <2>4, LeavingState
    <2>9. ASSUME Stack(s, x, k, undone)
          PROVE  /\ r.sps = SubSeq(s.sps, 1, d - 1) /\ Len(r.sps) = d - 1
                 /\ Point(r.wr, r.guc, y.queue, Len(y.queue), y.applied, k.made,
                          undone \cup Z)
      <3>1. d \in 1..Len(s.sps) /\ \A i \in 1..Len(s.sps) : s.sps[i].name = i
        BY <1>8, <2>4, <2>9
      <3>2. r.sps = SubSeq(s.sps, 1, d - 1) /\ r.wr = s.wr /\ r.guc = s.guc
        BY <2>1, <3>1, ReleaseFacts
      <3>3. PICK n \in Nat : n = d - 1 BY <2>4
      <3>4. n <= Len(s.sps) BY <3>1, <3>3
      <3>5. Len(r.sps) = n BY <1>2, <3>2, <3>3, <3>4, FirstFacts
      <3>6. Point(s.wr, s.guc, x.queue, Len(x.queue), x.applied, k.made, undone)
        BY <2>4, <2>9 DEF Stack
      <3> QED BY <2>3, <2>5, <3>2, <3>3, <3>5, <3>6
    <2>10. Exits(s, x, k, undone, r, y, d, Z) BY <1>3, <2>3, <2>4, <2>5, <2>8, <2>9 DEF Exits
    <2>11. Inside(r, y, k, undone \cup Z) BY <1>1, <2>7, <2>10, LeaveInside
    <2> QED BY <2>6, <2>11
  <1>10. ASSUME NestedReleaseFails(t)
         PROVE  \E r, y, Z : Changes(t, r, y, k, Z) /\ Inside(r, y, k, undone \cup Z)
    <2>1. PICK r : r = IF s.st = "dead" THEN s ELSE Refuse(s) OBVIOUS
    <2>2. PICK y : y = [x EXCEPT !.frames = SubSeq(x.frames, 1, d - 1)] OBVIOUS
    <2>3. /\ y.conn = x.conn /\ y.queue = x.queue /\ y.applied = x.applied
          /\ y.poisoned = x.poisoned /\ y.frames = SubSeq(x.frames, 1, d - 1)
      BY <2>2 DEF Context
    <2>4. PICK Z : Z = k.made \ x.frames[d].made OBVIOUS
    <2>5. /\ d > 0 /\ sess' = [sess EXCEPT ![ctx[t].conn] = r]
          /\ ctx' = [ctx EXCEPT ![t] = y] /\ undone' = undone \cup Z
          /\ UNCHANGED <<call, landed, fired>>
      BY <1>1, <1>4, <1>10, <2>1, <2>2, <2>4
         DEF NestedReleaseFails, ReleasedContext, PopFrame, UndoScope
    <2>6. Changes(t, r, y, k, Z) BY <1>1, <2>3, <2>4, <2>5 DEF Changes
    <2>7. r \in Session /\ y \in Context BY <1>4, <2>6, There DEF Changes
    <2>8. /\ r.st \in {"aborted", "dead"} /\ r.sps = s.sps /\ (r.st = "dead" => r = s)
          /\ (s.st = "dead" => r.st = "dead")
      BY <2>1 DEF Refuse, Session
    <2>9. Z \in SUBSET Op BY <1>1, <2>4
    <2>10. Exits(s, x, k, undone, r, y, d, Z)
      BY <1>3, <1>5, <2>3, <2>4, <2>5, <2>8, <2>9 DEF Exits
    <2>11. Inside(r, y, k, undone \cup Z) BY <1>1, <2>7, <2>10, LeaveInside
    <2> QED BY <2>6, <2>11
  <1>11. ASSUME NestedFails(t)
         PROVE  \E r, y, Z : Changes(t, r, y, k, Z) /\ Inside(r, y, k, undone \cup Z)
    <2>1. PICK f : f = x.frames[d] OBVIOUS
    <2>2. PICK y : y = [x EXCEPT !.queue = SubSeq(@, 1, f.cb), !.auth = f.auth,
                                 !.applied = f.applied, !.frames = SubSeq(@, 1, d - 1)]
      OBVIOUS
    <2>3. /\ y.conn = x.conn /\ y.queue = SubSeq(x.queue, 1, f.cb) /\ y.applied = f.applied
          /\ y.poisoned = x.poisoned /\ y.frames = SubSeq(x.frames, 1, d - 1)
      BY <2>2 DEF Context
    <2>4. PICK Z : Z = k.made \ f.made OBVIOUS
    <2>5. /\ d > 0 /\ ctx' = [ctx EXCEPT ![t] = y] /\ undone' = undone \cup Z
          /\ UNCHANGED <<call, landed, fired>>
      BY <1>1, <1>4, <1>11, <2>1, <2>2, <2>4 DEF NestedFails, RestoreParentState, UndoScope
    <2>6. Z \in SUBSET Op BY <1>1, <2>4
    <2>7. \E r : /\ sess' = [sess EXCEPT ![ctx[t].conn] = r]
                 /\ \/ s.st = "dead" /\ r = s
                    \/ /\ s.st # "dead"
                       /\ \E b \in RollbackTo(s, d) :
                            r \in Release(b, d) \cup {Refuse(b), Refuse(s)}
      BY <1>1, <1>4, <1>11 DEF NestedFails
    <2>8. PICK r : /\ sess' = [sess EXCEPT ![ctx[t].conn] = r]
                   /\ \/ s.st = "dead" /\ r = s
                      \/ /\ s.st # "dead"
                         /\ \E b \in RollbackTo(s, d) :
                              r \in Release(b, d) \cup {Refuse(b), Refuse(s)}
      BY <2>7
    <2>9. Changes(t, r, y, k, Z) BY <1>1, <2>3, <2>4, <2>5, <2>8 DEF Changes
    <2>10. r \in Session /\ y \in Context BY <1>4, <2>9, There DEF Changes
    <2>11. \/ s.st = "dead" /\ r = s
           \/ s.st # "dead" /\ r.st \in {"active", "aborted"}
      <3>1. Refuse(s).st = "aborted" BY DEF Refuse, Session
      <3>2. ASSUME NEW b \in RollbackTo(s, d),
                   r \in Release(b, d) \cup {Refuse(b), Refuse(s)}
            PROVE  r.st \in {"active", "aborted"}
        <4>1. b \in Session /\ b.st \in {"active", "aborted"}
          BY RollbackToType, LeavingState
        <4>2. Refuse(b).st = "aborted" BY <4>1 DEF Refuse, Session
        <4>3. r \in Release(b, d) => r.st \in {b.st, "aborted"} BY <4>1, LeavingState
        <4> QED BY <3>1, <3>2, <4>1, <4>2, <4>3
      <3> QED BY <2>8, <3>2
    <2>12. ASSUME Stack(s, x, k, undone), r.st # "dead"
           PROVE  /\ \/ r.sps = s.sps \/ r.sps = SubSeq(s.sps, 1, d)
                     \/ r.sps = SubSeq(s.sps, 1, d - 1)
                  /\ r.st = "active" =>
                       /\ r.sps = SubSeq(s.sps, 1, d - 1)
                       /\ r.wr = s.sps[d].wr /\ r.guc = s.sps[d].guc
      <3>1. d \in 1..Len(s.sps) /\ \A i \in 1..Len(s.sps) : s.sps[i].name = i
        BY <1>8, <2>5, <2>12
      <3>2. PICK b \in RollbackTo(s, d) : r \in Release(b, d) \cup {Refuse(b), Refuse(s)}
        BY <2>8, <2>12
      <3>3. CASE r \in Release(b, d) BY <3>1, <3>3, RollbackFacts
      <3>4. CASE r = Refuse(s)
        <4>1. r.st = "aborted" /\ r.sps = s.sps BY <3>4 DEF Refuse, Session
        <4> QED BY <4>1
      <3>5. CASE r = Refuse(b)
        <4>1. b \in Session BY RollbackToType
        <4>2. b.sps = SubSeq(s.sps, 1, d)
          <5>1. Latest(s, d) = {d} BY <3>1, LatestFacts
          <5> QED BY <5>1 DEF RollbackTo
        <4>3. r.st = "aborted" /\ r.sps = b.sps BY <3>5, <4>1 DEF Refuse, Session
        <4> QED BY <4>2, <4>3
      <3> QED BY <3>2, <3>3, <3>4, <3>5
    <2>13. ASSUME Stack(s, x, k, undone), r.st = "active"
           PROVE  /\ Len(r.sps) = d - 1
                  /\ Point(r.wr, r.guc, y.queue, Len(y.queue), y.applied, k.made,
                           undone \cup Z)
      <3>1. d \in 1..Len(s.sps) /\ Level(s, x, k, undone, d) BY <1>8, <2>5, <2>13
      <3>2. /\ r.sps = SubSeq(s.sps, 1, d - 1) /\ r.wr = s.sps[d].wr
            /\ r.guc = s.sps[d].guc
        BY <2>12, <2>13
      <3>3. PICK n \in Nat : n = d - 1 BY <2>5
      <3>4. n <= Len(s.sps) BY <3>1, <3>3
      <3>5. Len(r.sps) = n BY <1>2, <3>2, <3>3, <3>4, FirstFacts
      <3>6. PICK m \in 0..Len(x.queue) : m = f.cb BY <1>7, <2>1, <2>5
      <3>7. Len(y.queue) = m /\ Image(y.queue, m) = Image(x.queue, m)
        <4>1. m \in 0..m BY <1>2, <3>6
        <4> QED BY <1>2, <2>3, <3>6, <4>1, PrefixFacts
      <3>8. /\ Point(s.sps[d].wr, s.sps[d].guc, x.queue, m, f.applied, f.made, undone)
            /\ f.made \subseteq k.made
        BY <2>1, <3>1, <3>6 DEF Level
      <3>9. k.made \ (undone \cup Z) = f.made \ undone BY <2>4, <3>8
      <3> QED BY <2>3, <3>2, <3>3, <3>5, <3>7, <3>8, <3>9 DEF Point
    <2>14. Exits(s, x, k, undone, r, y, d, Z)
      BY <1>3, <1>5, <2>1, <2>3, <2>4, <2>5, <2>6, <2>11, <2>12, <2>13 DEF Exits
    <2>15. Inside(r, y, k, undone \cup Z) BY <1>1, <2>10, <2>14, LeaveInside
    <2> QED BY <2>9, <2>15
  <1>12. ASSUME NEW i \in 1..MaxDepth, NestedCancel(t, i)
         PROVE  \E r, y, Z : Changes(t, r, y, k, Z) /\ Inside(r, y, k, undone \cup Z)
    <2>1. PICK f : f = x.frames[i] OBVIOUS
    <2>2. PICK y : y = [[x EXCEPT !.queue = SubSeq(@, 1, f.cb), !.auth = f.auth,
                                  !.applied = f.applied, !.frames = SubSeq(@, 1, i - 1)]
                        EXCEPT !.poisoned = TRUE]
      OBVIOUS
    <2>3. y.conn = x.conn /\ y.queue = SubSeq(x.queue, 1, f.cb) /\ y.poisoned
      BY <2>2 DEF Context
    <2>4. PICK Z : Z = k.made \ f.made OBVIOUS
    <2>5. /\ i \in 1..d /\ ctx' = [ctx EXCEPT ![t] = y] /\ undone' = undone \cup Z
          /\ UNCHANGED <<call, landed, fired>>
      BY <1>1, <1>4, <1>12, <2>1, <2>2, <2>4
         DEF NestedCancel, CancelledContext, RestoreParentState, UndoScope
    <2>6. PICK r : /\ sess' = [sess EXCEPT ![ctx[t].conn] = r]
                   /\ r = s \/ (s.st = "active" /\ r \in Release(s, d))
      BY <1>1, <1>4, <1>12 DEF NestedCancel
    <2>7. Changes(t, r, y, k, Z) BY <1>1, <2>3, <2>4, <2>5, <2>6 DEF Changes
    <2>8. r.st \in {s.st, "aborted"} /\ (r.st = "dead" => r.wr = {})
      <3>1. CASE r = s BY <1>5, <3>1
      <3>2. CASE s.st = "active" /\ r \in Release(s, d) BY <3>2, LeavingState
      <3> QED BY <2>6, <3>1, <3>2
    <2>9. PICK m \in 0..Len(x.queue) : m = f.cb BY <1>7, <2>1, <2>5
    <2>10. Unique(y.queue) /\ Image(y.queue, Len(y.queue)) \subseteq k.made
      <3>1. m \in 0..m /\ 1..m \subseteq 1..Len(x.queue) BY <1>2, <2>9
      <3>2. Unique(y.queue) /\ Image(y.queue, Len(y.queue)) = Image(x.queue, m)
        BY <1>2, <1>5, <2>3, <2>9, <3>1, PrefixFacts
      <3>3. Image(x.queue, m) \subseteq Image(x.queue, Len(x.queue)) BY <3>1 DEF Image
      <3> QED BY <1>5, <3>2, <3>3
    <2>11. Inside(r, y, k, undone \cup Z) BY <1>5, <2>3, <2>8, <2>10 DEF Inside
    <2> QED BY <2>7, <2>11
  <1> QED BY <1>9, <1>10, <1>11, <1>12

LEMMA NestedScope ==
  ASSUME ScopeInv, NEW t \in Tasks, Nested(t)
  PROVE  ScopeInv'
  <1>1. IInv' BY NestedStep DEF ScopeInv
  <1>2. InBody(t)
    BY DEF Nested, NestedEnter, NestedEnterCancel, NestedRefused, NestedOk,
           NestedReleaseFails, NestedFails, NestedCancel, ClosureOk
  <1> QED BY <1>1, <1>2, EnterScope, ExitScope DEF Nested

-----------------------------------------------------------------------------
(* The top-level scope.                                                     *)

\* A connection given back, or detached, is nobody else's.
LEMMA OthersUntouched ==
  ASSUME IInv, NEW t \in Tasks, call[t].pc \in {"body", "drain"}, NEW s,
         sess' = [sess EXCEPT ![ctx[t].conn] = s]
  PROVE  \A u \in Tasks \ {t} :
           call[u].pc = "body" => sess'[ctx[u].conn] = sess[ctx[u].conn]
  <1> SUFFICES ASSUME NEW u \in Tasks \ {t}, call[u].pc = "body"
               PROVE  sess'[ctx[u].conn] = sess[ctx[u].conn]
    OBVIOUS
  <1>1. ctx[u].conn # ctx[t].conn /\ ctx[u].conn \in Conns BY Apart
  <1> QED BY <1>1 DEF IInv, TypeOK

LEMMA Dropped ==
  ASSUME NEW t, NEW clean, NEW s, DropGuard(t, clean, s)
  PROVE  \E r : sess' = [sess EXCEPT ![ctx[t].conn] = r]
  BY DEF DropGuard, GiveBack, Detach

\* What the server would commit of a call in its closure.
LEMMA Writes ==
  ASSUME ScopeInv, NEW t \in Tasks, InBody(t)
  PROVE  /\ Sess(t).st = "dead" => Sess(t).wr = {}
         /\ Sess(t).st = "active" /\ ~ctx[t].poisoned =>
              /\ Sess(t).wr = call[t].made \ undone
              /\ Image(ctx[t].queue, Len(ctx[t].queue)) = Sess(t).wr
         /\ Unique(ctx[t].queue) /\ call[t].pc = "body"
         /\ \A op \in call[t].made : op[1] = t /\ op[2] = call[t].attempt
         /\ \A op \in landed : op[1] # t
         /\ ~Swallow => \A op \in fired : op[1] # t
  <1>1. call[t].pc = "body" BY DEF InBody
  <1>2. Inside(Sess(t), ctx[t], call[t], undone) /\ Recorded(t, call[t], landed, undone)
        /\ Heard(t, ctx[t], call[t], landed, fired, undone)
    BY <1>1 DEF ScopeInv, Sound, Sess
  <1>3. ASSUME Sess(t).st = "active", ~ctx[t].poisoned
        PROVE  /\ Sess(t).wr = call[t].made \ undone
               /\ Image(ctx[t].queue, Len(ctx[t].queue)) = Sess(t).wr
    <2>1. Stack(Sess(t), ctx[t], call[t], undone) BY <1>2, <1>3 DEF Inside
    <2> QED BY <1>3, <2>1 DEF Stack, Point
  <1> QED BY <1>1, <1>2, <1>3 DEF Inside, Recorded, Heard

\* Attempts that end without a commit.
LEMMA UndoneEnds ==
  ASSUME ScopeInv, IInv', NEW t \in Tasks,
         CommitPoisoned(t) \/ CommitRefused(t) \/ ClosureFails(t)
  PROVE  ScopeInv'
  <1>1. InBody(t) /\ UndoAll(t) /\ UNCHANGED <<landed, fired>>
    BY DEF CommitPoisoned, CommitRefused, ClosureFails, ClosureOk
  <1>2. PICK kind \in {"transient", "err", "poisoned"} : Finish(t, kind)
    BY DEF CommitPoisoned, CommitRefused, ClosureFails
  <1>3. \E r : sess' = [sess EXCEPT ![ctx[t].conn] = r]
    BY Dropped DEF CommitPoisoned, CommitRefused, ClosureFails
  <1>4. IInv /\ call[t].pc = "body" /\ landed \cap undone = {}
    BY <1>1 DEF ScopeInv, InBody, UndoneNeverLands
  <1>5. \A u \in Tasks \ {t} :
          call[u].pc = "body" => sess'[ctx[u].conn] = sess[ctx[u].conn]
    BY <1>3, <1>4, OthersUntouched
  <1>6. \A op \in call[t].made : op \notin landed BY <1>1, Writes
  <1>7. PICK N, M : N = {} /\ M = call[t].made OBVIOUS
  <1>8. /\ landed' = landed \cup N /\ undone' = undone \cup M
        /\ N \subseteq call[t].made /\ M \subseteq call[t].made
        /\ landed' \cap undone' = {}
    BY <1>1, <1>4, <1>6, <1>7 DEF UndoAll
  <1>9. Concludes(t, kind, N, M) BY <1>1, <1>2, <1>4, <1>5, <1>7, <1>8 DEF Concludes
  <1> QED BY <1>9, Ends

\* An attempt ends with nothing more undone: A has landed.
Keeps(t, kind, A) ==
  /\ call[t].pc \in {"start", "body", "drain"} /\ Finish(t, kind)
  /\ \A u \in Tasks \ {t} :
       call[u].pc = "body" => sess'[ctx[u].conn] = sess[ctx[u].conn]
  /\ A \subseteq call[t].made \ undone /\ landed' = landed \cup A
  /\ undone' = undone /\ fired' = fired
  /\ A # {} \/ call[t].pc = "drain" => kind # "transient"
  /\ kind = "ok" /\ ~Swallow => call[t].made \ undone \subseteq landed \cap fired

LEMMA KeptEnds ==
  ASSUME ScopeInv, IInv', NEW t \in Tasks, NEW kind, NEW A,
         kind \in {"transient", "ok", "err", "lost", "poisoned", "cancelled"},
         Keeps(t, kind, A)
  PROVE  ScopeInv'
  <1>1. PICK N : N = {} OBVIOUS
  <1>2. /\ N \subseteq call[t].made /\ undone' = undone \cup N /\ A \subseteq call[t].made
        /\ landed' \cap undone' = {}
    BY <1>1 DEF Keeps, ScopeInv, UndoneNeverLands
  <1>3. Concludes(t, kind, A, N) BY <1>2 DEF Keeps, Concludes
  <1> QED BY <1>3, Ends

LEMMA ReturnScope ==
  ASSUME ScopeInv, IInv', NEW t \in Tasks,
         BeginFails(t) \/ CommitLost(t) \/ Return(t) \/ Cancel(t)
  PROVE  ScopeInv'
  <1>1. IInv /\ landed \cap undone = {} BY DEF ScopeInv, UndoneNeverLands
  <1>2. ASSUME NEW clean, NEW s, DropGuard(t, clean, s), call[t].pc \in {"body", "drain"}
        PROVE  \A u \in Tasks \ {t} :
                 call[u].pc = "body" => sess'[ctx[u].conn] = sess[ctx[u].conn]
    BY <1>1, <1>2, Dropped, OthersUntouched
  <1>3. PICK N : N = {} OBVIOUS
  <1>4. CASE BeginFails(t)
    <2>1. PICK kind \in {"transient", "err"} : Finish(t, kind) BY <1>4 DEF BeginFails
    <2>2. \A u \in Tasks \ {t} :
            call[u].pc = "body" => sess'[ctx[u].conn] = sess[ctx[u].conn]
      BY <1>1, <1>4 DEF BeginFails, IInv, Owned, TypeOK
    <2>3. /\ call[t].pc = "start" /\ N \subseteq call[t].made \ undone
          /\ landed' = landed \cup N /\ UNCHANGED <<fired, undone>>
      BY <1>3, <1>4 DEF BeginFails
    <2>4. Keeps(t, kind, N) BY <1>3, <2>1, <2>2, <2>3 DEF Keeps
    <2> QED BY <2>4, KeptEnds
  <1>5. CASE CommitLost(t)
    <2>1. /\ InBody(t) /\ ~ctx[t].poisoned /\ Sess(t).st \in {"active", "dead"}
          /\ Finish(t, "lost") /\ UNCHANGED <<fired, undone>>
          /\ DropGuard(t, FALSE, DeadSession)
      BY <1>5 DEF CommitLost, ClosureOk
    <2>2. PICK lands \in BOOLEAN : landed' = landed \cup (IF lands THEN Sess(t).wr ELSE {})
      BY <1>5 DEF CommitLost
    <2>3. PICK A : A = IF lands THEN Sess(t).wr ELSE {} OBVIOUS
    <2>4. A \subseteq call[t].made \ undone /\ landed' = landed \cup A /\ call[t].pc = "body"
      BY <2>1, <2>2, <2>3, Writes
    <2>5. Keeps(t, "lost", A) BY <1>2, <2>1, <2>4 DEF Keeps
    <2> QED BY <2>5, KeptEnds
  <1>6. CASE Return(t)
    <2>1. /\ call[t].pc = "drain" /\ ctx[t].queue = <<>> /\ Finish(t, "ok")
          /\ landed' = landed \cup N /\ UNCHANGED <<fired, undone>>
          /\ DropGuard(t, TRUE, Sess(t)) /\ N \subseteq call[t].made \ undone
      BY <1>3, <1>6 DEF Return
    <2>2. ~Swallow => call[t].made \ undone \subseteq landed \cap fired
      <3>1. ~Swallow => Draining(<<>>, call[t], landed, fired, undone)
        BY <2>1 DEF ScopeInv, Sound, Heard
      <3>2. Image(<<>>, Len(<<>>)) = {} BY DEF Image
      <3> QED BY <3>1, <3>2 DEF Draining
    <2>3. Keeps(t, "ok", N) BY <1>2, <1>3, <2>1, <2>2 DEF Keeps
    <2> QED BY <2>3, KeptEnds
  <1>7. CASE Cancel(t)
    <2>1. /\ call[t].pc \in {"body", "drain"} /\ Finish(t, "cancelled") /\ fired' = fired
          /\ DropGuard(t, FALSE, Sess(t))
      BY <1>7 DEF Cancel
    <2>2. PICK inCommit \in BOOLEAN :
            /\ inCommit => /\ InBody(t) /\ ~ctx[t].poisoned /\ Sess(t).st = "active"
            /\ landed' = landed \cup (IF inCommit THEN Sess(t).wr ELSE {})
            /\ undone' = undone \cup
                 (IF inCommit \/ call[t].pc = "drain" THEN {} ELSE call[t].made)
      BY <1>7 DEF Cancel, ClosureOk
    <2>3. CASE inCommit
      <3>1. PICK A : A = Sess(t).wr OBVIOUS
      <3>2. A \subseteq call[t].made \ undone /\ landed' = landed \cup A /\ undone' = undone
        BY <2>2, <2>3, <3>1, Writes
      <3>3. Keeps(t, "cancelled", A) BY <1>2, <2>1, <3>2 DEF Keeps
      <3> QED BY <3>3, KeptEnds
    <2>4. CASE ~inCommit /\ call[t].pc = "drain"
      <3>1. /\ N \subseteq call[t].made \ undone /\ landed' = landed \cup N
            /\ undone' = undone
        BY <1>3, <2>2, <2>4
      <3>2. Keeps(t, "cancelled", N) BY <1>2, <2>1, <3>1 DEF Keeps
      <3> QED BY <3>2, KeptEnds
    <2>5. CASE ~inCommit /\ call[t].pc = "body"
      <3>1. PICK M : M = call[t].made OBVIOUS
      <3>2. landed' = landed \cup N /\ undone' = undone \cup M
        BY <1>3, <2>2, <2>5, <3>1
      <3>3. \A op \in call[t].made : op \notin landed BY <2>5, Writes DEF InBody
      <3>4. /\ N \subseteq call[t].made /\ M \subseteq call[t].made
            /\ landed' \cap undone' = {}
        BY <1>1, <1>3, <3>1, <3>2, <3>3
      <3>5. Concludes(t, "cancelled", N, M)
        BY <1>2, <1>3, <2>1, <2>5, <3>2, <3>4 DEF Concludes
      <3> QED BY <3>5, Ends
    <2> QED BY <2>1, <2>3, <2>4, <2>5
  <1> QED BY <1>4, <1>5, <1>6, <1>7

\* The steps after which the call goes on.
LEMMA BeginScope ==
  ASSUME ScopeInv, IInv', NEW t \in Tasks, Begin(t)
  PROVE  ScopeInv'
  <1>1. PICK c \in idle :
          /\ sess' = [sess EXCEPT ![c].st = IF @ = "idle" THEN "active" ELSE @]
          /\ ctx' = [ctx EXCEPT ![t] = [NoContext EXCEPT !.conn = c, !.auth = parent[t]]]
    BY DEF Begin
  <1>2. /\ call[t].pc = "start" /\ call' = [call EXCEPT ![t].pc = "body"]
        /\ UNCHANGED <<landed, fired, undone>>
    BY DEF Begin
  <1>3. IInv /\ c \in Conns /\ sess[c] = FreshSession BY DEF ScopeInv, IInv, TypeOK, PoolClean
  <1>4. PICK s, x, k : s = sess'[c] /\ x = ctx'[t] /\ k = call'[t] OBVIOUS
  <1>5. s.st = "active" /\ s.guc = NoTenant /\ s.wr = {} /\ s.sps = <<>>
    BY <1>1, <1>3, <1>4 DEF IInv, TypeOK, FreshSession
  <1>6. /\ x.conn = c /\ x.queue = <<>> /\ x.frames = <<>> /\ x.applied = NoTenant
        /\ ~x.poisoned
    BY <1>1, <1>3, <1>4 DEF IInv, TypeOK, NoContext
  <1>7. /\ k.pc = "body" /\ k.made = call[t].made /\ k.attempt = call[t].attempt
        /\ k.outcome = call[t].outcome
    BY <1>2, <1>3, <1>4 DEF IInv, TypeOK, Call
  <1>8. Recorded(t, call[t], landed, undone) /\ Heard(t, ctx[t], call[t], landed, fired, undone)
    BY DEF ScopeInv, Sound
  <1>9. k.made = {} /\ Recorded(t, k, landed, undone) /\ Heard(t, x, k, landed, fired, undone)
    BY <1>2, <1>7, <1>8 DEF Recorded, Heard
  <1>10. Inside(s, x, k, undone)
    <2>1. Unique(<<>>) /\ Image(<<>>, 0) = {} /\ Len(<<>>) = 0 BY DEF Unique, Image
    <2>2. Point(s.wr, s.guc, x.queue, Len(x.queue), x.applied, k.made, undone)
      BY <1>5, <1>6, <1>9, <2>1 DEF Point
    <2>3. Stack(s, x, k, undone) BY <1>5, <1>6, <2>2 DEF Stack
    <2> QED BY <1>5, <1>6, <1>9, <2>1, <2>3 DEF Inside
  <1>11. Sound(t, s, x, k, landed', fired', undone') BY <1>2, <1>9, <1>10 DEF Sound
  <1>12. OthersKeep(t) BY <1>1, <1>2, <1>3 DEF OthersKeep, IInv, Owned, TypeOK
  <1>13. PICK N : N = {} OBVIOUS
  <1>14. Adds(t, N, N, N) /\ UndoneNeverLands'
    BY <1>2, <1>13 DEF Adds, UndoneNeverLands, ScopeInv
  <1> QED BY <1>4, <1>6, <1>11, <1>12, <1>14, OneCall

LEMMA CommitScope ==
  ASSUME ScopeInv, IInv', NEW t \in Tasks, Commit(t)
  PROVE  ScopeInv'
  <1>1. /\ InBody(t) /\ (Swallow \/ Sess(t).st # "aborted") /\ ~ctx[t].poisoned
        /\ Sess(t).st \in {"active", "aborted"} /\ UNCHANGED <<ctx, fired, undone>>
        /\ sess' = [sess EXCEPT ![ctx[t].conn] = FreshSession]
        /\ call' = [call EXCEPT ![t].pc = "drain"]
    BY DEF Commit, ClosureOk
  <1>2. PICK A : /\ A = IF Sess(t).st = "active" THEN Sess(t).wr ELSE {}
                 /\ landed' = landed \cup A
    BY DEF Commit
  <1>3. PICK k : k = call'[t] OBVIOUS
  <1>4. /\ k.pc = "drain" /\ k.made = call[t].made /\ k.attempt = call[t].attempt
        /\ k.outcome = call[t].outcome
    BY <1>1, <1>3 DEF ScopeInv, IInv, TypeOK, Call
  <1>5. Recorded(t, call[t], landed, undone) /\ Heard(t, ctx[t], call[t], landed, fired, undone)
    BY DEF ScopeInv, Sound
  <1>6. A \subseteq call[t].made \ undone BY <1>1, <1>2, Writes
  <1>7. Recorded(t, k, landed', undone')
    <2>1. call[t].pc = "body" BY <1>1, Writes
    <2> QED BY <1>1, <1>2, <1>4, <1>5, <1>6, <2>1 DEF Recorded
  <1>8. Heard(t, ctx[t], k, landed', fired', undone')
    <2>1. ASSUME ~Swallow PROVE Draining(ctx[t].queue, k, landed', fired', undone')
      BY <1>1, <1>2, <1>4, <2>1, Writes DEF Draining
    <2>2. k.outcome # "ok" BY <1>4, <1>7 DEF Recorded
    <2> QED BY <1>1, <1>2, <1>5, <2>1, <2>2 DEF Heard
  <1>9. Sound(t, sess'[ctx'[t].conn], ctx'[t], call'[t], landed', fired', undone')
    BY <1>1, <1>3, <1>4, <1>7, <1>8 DEF Sound
  <1>10. OthersKeep(t)
    <2>1. call[t].pc = "body" /\ IInv BY <1>1 DEF InBody, ScopeInv
    <2>2. \A u \in Tasks \ {t} :
            call[u].pc = "body" => sess'[ctx[u].conn] = sess[ctx[u].conn]
      BY <1>1, <2>1, OthersUntouched
    <2>3. \A u \in Tasks \ {t} : ctx'[u] = ctx[u] /\ call'[u] = call[u]
      BY <1>1, <2>1 DEF IInv, TypeOK
    <2> QED BY <2>2, <2>3 DEF OthersKeep
  <1>11. PICK N : N = {} OBVIOUS
  <1>12. Adds(t, A, N, N) BY <1>1, <1>2, <1>6, <1>11, Writes DEF Adds
  <1>13. UndoneNeverLands' BY <1>1, <1>2, <1>6 DEF UndoneNeverLands, ScopeInv
  <1> QED BY <1>9, <1>10, <1>12, <1>13, OneCall

LEMMA DrainScope ==
  ASSUME ScopeInv, IInv', NEW t \in Tasks, Drain(t)
  PROVE  ScopeInv'
  <1>1. PICK q : q = ctx[t].queue OBVIOUS
  <1>2. /\ call[t].pc = "drain" /\ q # <<>> /\ UNCHANGED <<sess, call, landed, undone>>
        /\ fired' = fired \cup {Head(q)} /\ ctx' = [ctx EXCEPT ![t].queue = Tail(@)]
    BY <1>1 DEF Drain
  <1>3. q \in Seq(Op) BY <1>1 DEF ScopeInv, IInv, TypeOK, Context
  <1>4. PICK x : x = ctx'[t] OBVIOUS
  <1>5. x.queue = Tail(q) /\ \A u \in Tasks \ {t} : ctx'[u] = ctx[u]
    BY <1>1, <1>2, <1>4 DEF ScopeInv, IInv, TypeOK, Context
  <1>6. Recorded(t, call[t], landed, undone) /\ Heard(t, ctx[t], call[t], landed, fired, undone)
    BY DEF ScopeInv, Sound
  <1>7. ASSUME ~Swallow
        PROVE  /\ Head(q) \in call[t].made \cap landed /\ Head(q)[1] = t
               /\ Draining(x.queue, call[t], landed, fired', undone)
    <2>1. Draining(q, call[t], landed, fired, undone) BY <1>1, <1>2, <1>6, <1>7 DEF Heard
    <2>2. /\ Head(q) \in Image(q, Len(q)) /\ Unique(Tail(q))
          /\ Image(Tail(q), Len(Tail(q))) = Image(q, Len(q)) \ {Head(q)}
      BY <1>2, <1>3, <2>1, TailFacts DEF Draining
    <2>3. Head(q) \in call[t].made \cap landed BY <2>1, <2>2 DEF Draining
    <2>4. Head(q)[1] = t BY <1>6, <2>3 DEF Recorded
    <2>5. Draining(x.queue, call[t], landed, fired', undone)
      BY <1>2, <1>5, <2>1, <2>2 DEF Draining
    <2> QED BY <2>3, <2>4, <2>5
  <1>8. call[t].outcome # "ok" BY <1>2, <1>6 DEF Recorded
  <1>9. Heard(t, x, call[t], landed, fired', undone) BY <1>2, <1>6, <1>7, <1>8 DEF Heard
  <1>10. Sound(t, sess'[ctx'[t].conn], ctx'[t], call'[t], landed', fired', undone')
    BY <1>2, <1>4, <1>6, <1>9 DEF Sound
  <1>11. OthersKeep(t) BY <1>2, <1>5 DEF OthersKeep
  <1>12. PICK N, B : N = {} /\ B = {Head(q)} OBVIOUS
  <1>13. Adds(t, N, B, N) /\ UndoneNeverLands'
    BY <1>2, <1>7, <1>12 DEF Adds, UndoneNeverLands, ScopeInv
  <1> QED BY <1>10, <1>11, <1>13, OneCall

LEMMA DeathScope ==
  ASSUME ScopeInv, IInv', NEW t \in Tasks, ConnDies(t)
  PROVE  ScopeInv'
  <1>1. InBody(t) /\ sess' = [sess EXCEPT ![ctx[t].conn] = DeadSession]
        /\ UNCHANGED <<ctx, call, landed, fired, undone>>
    BY DEF ConnDies
  <1>2. PICK s \in Session, x \in Context, k \in Call :
           /\ s = sess[ctx[t].conn] /\ x = ctx[t] /\ k = call[t] /\ k.pc = "body"
           /\ Inside(s, x, k, undone) /\ undone \in SUBSET Op /\ k.made \subseteq Op
           /\ \A op \in k.made : op[1] = t /\ op[2] = k.attempt
           /\ \A op \in undone : op[1] = t => op[2] < k.attempt \/ op \in k.made
           /\ Fit(x) /\ x.conn \in Conns
           /\ sess = [sess EXCEPT ![ctx[t].conn] = s]
           /\ ctx = [ctx EXCEPT ![t] = x] /\ call = [call EXCEPT ![t] = k]
    BY <1>1, Here
  <1>3. PICK N : N = {} OBVIOUS
  <1>4. Changes(t, DeadSession, x, k, N) BY <1>1, <1>2, <1>3 DEF Changes
  <1>5. DeadSession.st = "dead" /\ DeadSession.wr = {} BY DEF DeadSession, FreshSession
  <1>6. Inside(DeadSession, x, k, undone') BY <1>1, <1>2, <1>5 DEF Inside
  <1> QED BY <1>1, <1>4, <1>6, Moves

-----------------------------------------------------------------------------
(* The invariant holds of every reachable state.                            *)

LEMMA InitScope == Init => ScopeInv
  <1> SUFFICES ASSUME Init PROVE ScopeInv OBVIOUS
  <1>1. IInv BY InitInv
  <1>2. UndoneNeverLands BY DEF Init, UndoneNeverLands
  <1>3. ASSUME NEW t \in Tasks
        PROVE  Sound(t, sess[ctx[t].conn], ctx[t], call[t], landed, fired, undone)
    <2>1. /\ call[t].pc = "start" /\ call[t].made = {} /\ call[t].outcome = "none"
          /\ landed = {} /\ fired = {} /\ undone = {}
      BY DEF Init
    <2>2. Recorded(t, call[t], landed, undone) BY <2>1 DEF Recorded
    <2>3. Heard(t, ctx[t], call[t], landed, fired, undone) BY <2>1 DEF Heard
    <2> QED BY <2>1, <2>2, <2>3 DEF Sound
  <1> QED BY <1>1, <1>2, <1>3 DEF ScopeInv

LEMMA SameScope == ScopeInv /\ UNCHANGED vars => ScopeInv'
  <1> SUFFICES ASSUME ScopeInv, UNCHANGED vars PROVE ScopeInv' OBVIOUS
  <1>1. IInv' BY NextInv DEF ScopeInv
  <1>2. UndoneNeverLands' BY DEF vars, ScopeInv, UndoneNeverLands
  <1> QED BY <1>1, <1>2 DEF vars, ScopeInv

LEMMA NextScope == ScopeInv /\ [Next]_vars => ScopeInv'
  <1> SUFFICES ASSUME ScopeInv, [Next]_vars PROVE ScopeInv' OBVIOUS
  <1>1. IInv' BY NextInv DEF ScopeInv
  <1>2. ASSUME NEW t \in Tasks, TopLevel(t) PROVE ScopeInv'
    BY <1>1, <1>2, BeginScope, CommitScope, DrainScope, DeathScope, ReturnScope, UndoneEnds
       DEF TopLevel
  <1>3. ASSUME NEW t \in Tasks, Statement(t) \/ Nested(t) PROVE ScopeInv'
    BY <1>3, StatementScope, NestedScope
  <1> QED BY <1>2, <1>3, SameScope DEF Next

\* The inductive invariant holds throughout: savepoint, callback mark and auth
\* snapshot of every open scope (run_nested_savepoint_atomic) are about the same
\* operations, and so is now, whatever scopes were left before and however.
THEOREM ScopesSound == Spec => []ScopeInv
  <1> QED BY InitScope, NextScope, PTL DEF Spec

\* What a scope did that failed, panicked or was dropped is never committed by
\* the scopes around it: ROLLBACK TO takes it back, or the transaction is aborted,
\* or the context is poisoned and commit_in_place refuses it.
THEOREM NothingUndoneLands == Spec => []UndoneNeverLands
  <1>1. ScopeInv => UndoneNeverLands BY DEF ScopeInv
  <1> QED BY <1>1, ScopesSound, PTL

\* retry_on_conflict commits at most one of its attempts: is_transient is false
\* whenever a COMMIT may have landed.
THEOREM AttemptsLandOnce == Spec => []OneAttemptLands
  <1>1. ASSUME ScopeInv PROVE OneAttemptLands
    <2>1. ASSUME NEW p \in landed, NEW q \in landed, p[1] = q[1] PROVE p[2] = q[2]
      <3>1. PICK t \in Tasks : p[1] = t BY <1>1 DEF ScopeInv, IInv, TypeOK, Op
      <3>2. Recorded(t, call[t], landed, undone) BY <1>1 DEF ScopeInv, Sound
      <3> QED BY <2>1, <3>1, <3>2 DEF Recorded
    <2> QED BY <2>1 DEF OneAttemptLands
  <1> QED BY <1>1, ScopesSound, PTL

\* Where a query runs, the context's applied_tenant_id is what app.tenant_id is on
\* the server, if no future of a running statement is dropped.
LEMMA Tracked ==
  ASSUME ~AbandonStmt, ScopeInv, NEW t \in Tasks, CanQuery(t)
  PROVE  Sess(t).guc = ctx[t].applied
  <1>1. call[t].pc = "body" /\ ~ctx[t].poisoned /\ Sess(t).st = "active"
    BY DEF CanQuery, InBody
  <1>2. Inside(Sess(t), ctx[t], call[t], undone) BY <1>1 DEF ScopeInv, Sound, Sess
  <1> QED BY <1>1, <1>2 DEF Inside, Stack, Point

\* AuthStateSnapshot restores applied_tenant_id to what the server's ROLLBACK TO
\* restores app.tenant_id to, for every nesting of scopes.  A dropped statement
\* future is excluded: the source does not handle it.
THEOREM TrackerStaysTrue ==
  ASSUME ~AbandonStmt PROVE Spec => []TrackerMatches
  <1>1. ScopeInv => TrackerMatches BY Tracked DEF TrackerMatches
  <1> QED BY <1>1, ScopesSound, PTL

\* Only Model::create makes operations in an attempt that goes on.
LEMMA OnlyCreateMakes ==
  ASSUME IInv, NEW t \in Tasks, [Next]_vars, call'[t].made # call[t].made,
         ctx'[t].conn # NoConn
  PROVE  \E e \in Effects : Create(t, e)
  <1>1. ASSUME NEW u \in Tasks, NEW kind, Finish(u, kind) PROVE FALSE
    <2>1. CASE u = t
      BY <1>1, <2>1 DEF Finish, NoContext, IInv, TypeOK
    <2>2. CASE u # t BY <1>1, <2>2 DEF Finish, IInv, TypeOK
    <2> QED BY <2>1, <2>2
  <1>2. call # call' /\ ~UNCHANGED vars BY DEF vars
  <1>3. PICK u \in Tasks : TopLevel(u) \/ Statement(u) \/ Nested(u) BY <1>2 DEF Next
  <1>4. ASSUME TopLevel(u) PROVE FALSE
    <2>1. CASE Begin(u)
      <3>1. call' = [call EXCEPT ![u].pc = "body"] BY <2>1 DEF Begin
      <3> QED BY <3>1 DEF IInv, TypeOK, Call
    <2>2. CASE Commit(u)
      <3>1. call' = [call EXCEPT ![u].pc = "drain"] BY <2>2 DEF Commit
      <3> QED BY <3>1 DEF IInv, TypeOK, Call
    <2>3. CASE Drain(u) \/ ConnDies(u) BY <1>2, <2>3 DEF Drain, ConnDies
    <2>4. CASE \/ BeginFails(u) \/ CommitPoisoned(u) \/ CommitRefused(u) \/ CommitLost(u)
               \/ Return(u) \/ ClosureFails(u) \/ Cancel(u)
      BY <1>1, <2>4 DEF BeginFails, CommitPoisoned, CommitRefused, CommitLost, Return,
                        ClosureFails, Cancel
    <2> QED BY <1>4, <2>1, <2>2, <2>3, <2>4 DEF TopLevel
  <1>5. ~Nested(u)
    BY <1>2 DEF Nested, NestedEnter, NestedEnterCancel, NestedRefused, NestedOk,
                NestedReleaseFails, NestedFails, NestedCancel
  <1>6. PICK e \in Effects : Create(u, e)
    BY <1>2, <1>3, <1>4, <1>5 DEF Statement, SetAuth, SetTenant, CreateFails, AbandonTenant
  <1>7. u = t BY <1>6 DEF Create, IInv, TypeOK
  <1> QED BY <1>6, <1>7

\* auto_set_tenant: every row is written under the tenant its auth asks for.
THEOREM RowsUnderTheirTenant ==
  ASSUME ~AbandonStmt PROVE Spec => RowTenant
  <1> DEFINE Written ==
        \A t \in Tasks :
          call'[t].made # call[t].made /\ ctx'[t].conn # NoConn /\ ctx[t].auth # NoAuth
            => sess'[ctx[t].conn].guc = ctx[t].auth
  <1>1. ASSUME ScopeInv, [Next]_vars PROVE Written
    <2> SUFFICES ASSUME NEW t \in Tasks, call'[t].made # call[t].made,
                        ctx'[t].conn # NoConn, ctx[t].auth # NoAuth
                 PROVE  sess'[ctx[t].conn].guc = ctx[t].auth
      OBVIOUS
    <2>1. IInv BY <1>1 DEF ScopeInv
    <2>2. PICK e \in Effects : Create(t, e) BY <1>1, <2>1, OnlyCreateMakes
    <2>3. CanQuery(t) /\ ctx[t].conn \in Conns
      BY <2>1, <2>2 DEF Create, CanQuery, InBody, IInv, Owned
    <2>4. Sess(t).guc = ctx[t].applied BY <1>1, <2>3, Tracked
    <2>5. Sess(t) \in Session /\ ctx[t].auth \in Auth
      BY <2>1, <2>3 DEF IInv, TypeOK, Sess, Context
    <2>6. AfterTenant(t) \in Session /\ AfterTenant(t).guc = ctx[t].auth
      <3>1. CASE NeedsTenant(t)
        <4>1. AfterTenant(t) = SetGuc(Sess(t), ctx[t].auth) /\ ctx[t].auth \in Guc
          BY <2>5, <3>1 DEF AfterTenant, Auth
        <4>2. SetGuc(Sess(t), ctx[t].auth).guc = ctx[t].auth
          BY <2>5 DEF SetGuc, Session
        <4> QED BY <2>5, <4>1, <4>2, GucType
      <3>2. CASE ~NeedsTenant(t) BY <2>4, <2>5, <3>2 DEF AfterTenant, NeedsTenant
      <3> QED BY <3>1, <3>2
    <2>7. PICK a : a = AfterTenant(t) OBVIOUS
    <2>8. PICK op :
            sess' = [sess EXCEPT ![ctx[t].conn] = [a EXCEPT !.wr = @ \cup {op}]]
      BY <2>2, <2>7 DEF Create
    <2>9. [a EXCEPT !.wr = @ \cup {op}].guc = a.guc BY <2>6, <2>7 DEF Session
    <2>10. sess'[ctx[t].conn] = [a EXCEPT !.wr = @ \cup {op}]
      BY <2>1, <2>3, <2>8 DEF IInv, TypeOK
    <2> QED BY <2>6, <2>7, <2>9, <2>10
  <1>2. ScopeInv /\ [Next]_vars => [Written]_vars BY <1>1
  <1> QED BY <1>2, ScopesSound, PTL DEF Spec, RowTenant

\* drain_on_commit: a callback runs only for what was committed, if no closure
\* returns Ok after a failed statement.  (One that does gets a COMMIT the server
\* turns into a rollback, which commit_in_place does not notice.)
THEOREM CallbacksFollowCommit ==
  ASSUME ~Swallow PROVE Spec => []CallbackAfterCommit
  <1>1. ASSUME ScopeInv PROVE CallbackAfterCommit
    <2>1. ASSUME NEW op \in fired PROVE op \in landed
      <3>1. PICK t \in Tasks : op[1] = t BY <1>1 DEF ScopeInv, IInv, TypeOK, Op
      <3>2. Heard(t, ctx[t], call[t], landed, fired, undone) BY <1>1 DEF ScopeInv, Sound
      <3> QED BY <1>1, <3>1, <3>2 DEF Heard
    <2> QED BY <2>1 DEF CallbackAfterCommit
  <1> QED BY <1>1, ScopesSound, PTL

\* When atomic() returns Ok, what its surviving scopes did is committed and every
\* callback of it has run (commit_in_place, drain_on_commit), under the same
\* assumption.
THEOREM OkIsDone ==
  ASSUME ~Swallow PROVE Spec => []OkMeansDone
  <1>1. ASSUME ScopeInv PROVE OkMeansDone
    BY <1>1 DEF OkMeansDone, ScopeInv, Sound, Heard
  <1> QED BY <1>1, ScopesSound, PTL

-----------------------------------------------------------------------------
(* atomic() implements AtomicPromise.                                       *)

LEMMA TopLevelPromise ==
  ASSUME ~Swallow, ScopeInv, NEW t \in Tasks, TopLevel(t)
  PROVE  Promise!Next \/ UNCHANGED <<landed, fired, undone>>
  <1>1. IInv /\ call[t].made \subseteq Op /\ Op = Promise!Operation
    BY DEF ScopeInv, IInv, TypeOK, Call, Op, Promise!Operation
  <1>2. ASSUME InBody(t), ~ctx[t].poisoned, NEW A,
               A = {} \/ (A = Sess(t).wr /\ Sess(t).st \in {"active", "dead"}),
               landed' = landed \cup A, UNCHANGED <<fired, undone>>
        PROVE  Promise!Next
    <2>1. A \subseteq call[t].made \ undone BY <1>2, Writes
    <2>2. Promise!Land(t, A) BY <1>2, <2>1, Writes DEF Promise!Land
    <2>3. A \in SUBSET Promise!Operation BY <1>1, <2>1
    <2> QED BY <2>2, <2>3 DEF Promise!Next
  <1>3. ASSUME InBody(t), undone' = undone \cup call[t].made, UNCHANGED <<landed, fired>>
        PROVE  Promise!Next
    <2>1. Promise!Undo(call[t].made) BY <1>3, Writes DEF Promise!Undo
    <2> QED BY <1>1, <2>1 DEF Promise!Next
  <1>4. CASE Begin(t) \/ BeginFails(t) \/ Return(t) \/ ConnDies(t)
    BY <1>4 DEF Begin, BeginFails, Return, ConnDies
  <1>5. CASE CommitPoisoned(t) \/ CommitRefused(t) \/ ClosureFails(t)
    BY <1>3, <1>5 DEF CommitPoisoned, CommitRefused, ClosureFails, ClosureOk, UndoAll
  <1>6. CASE Commit(t)
    <2>1. PICK A : A = (IF Sess(t).st = "active" THEN Sess(t).wr ELSE {})
                   /\ landed' = landed \cup A
      BY <1>6 DEF Commit
    <2> QED BY <1>2, <1>6, <2>1 DEF Commit, ClosureOk
  <1>7. CASE CommitLost(t)
    <2>1. PICK lands \in BOOLEAN : landed' = landed \cup (IF lands THEN Sess(t).wr ELSE {})
      BY <1>7 DEF CommitLost
    <2>2. PICK A : A = IF lands THEN Sess(t).wr ELSE {} OBVIOUS
    <2> QED BY <1>2, <1>7, <2>1, <2>2 DEF CommitLost, ClosureOk
  <1>8. CASE Cancel(t)
    <2>1. PICK inCommit \in BOOLEAN :
            /\ inCommit => /\ InBody(t) /\ ~ctx[t].poisoned /\ Sess(t).st = "active"
            /\ landed' = landed \cup (IF inCommit THEN Sess(t).wr ELSE {})
            /\ undone' = undone \cup
                 (IF inCommit \/ call[t].pc = "drain" THEN {} ELSE call[t].made)
      BY <1>8 DEF Cancel, ClosureOk
    <2>2. fired' = fired /\ call[t].pc \in {"body", "drain"} BY <1>8 DEF Cancel
    <2>3. CASE inCommit
      <3>1. PICK A : A = Sess(t).wr OBVIOUS
      <3> QED BY <1>2, <2>1, <2>2, <2>3, <3>1
    <2>4. CASE ~inCommit BY <1>3, <2>1, <2>2, <2>4 DEF InBody
    <2> QED BY <2>3, <2>4
  <1>9. CASE Drain(t)
    <2>1. PICK q : q = ctx[t].queue /\ q \in Seq(Op) BY DEF ScopeInv, IInv, TypeOK, Context
    <2>2. /\ call[t].pc = "drain" /\ q # <<>> /\ fired' = fired \cup {Head(q)}
          /\ UNCHANGED <<landed, undone>>
      BY <1>9, <2>1 DEF Drain
    <2>3. Draining(q, call[t], landed, fired, undone)
      BY <2>1, <2>2 DEF ScopeInv, Sound, Heard
    <2>4. Head(q) \in (call[t].made \cap landed) \ fired
      BY <2>1, <2>2, <2>3, TailFacts DEF Draining
    <2>5. Promise!Fire(Head(q)) BY <2>2, <2>4 DEF Promise!Fire
    <2> QED BY <1>1, <2>4, <2>5 DEF Promise!Next
  <1> QED BY <1>4, <1>5, <1>6, <1>7, <1>8, <1>9 DEF TopLevel

LEMMA PromiseStep ==
  ASSUME ~Swallow, ScopeInv, [Next]_vars
  PROVE  Promise!Next \/ UNCHANGED <<landed, fired, undone>>
  <1>1. ASSUME NEW t \in Tasks, Statement(t) PROVE UNCHANGED <<landed, fired, undone>>
    BY <1>1 DEF Statement, SetAuth, SetTenant, Create, CreateFails, AbandonTenant
  <1>2. ASSUME NEW t \in Tasks, Nested(t)
        PROVE  Promise!Next \/ UNCHANGED <<landed, fired, undone>>
    <2>1. InBody(t) /\ UNCHANGED <<landed, fired>>
      BY <1>2 DEF Nested, NestedEnter, NestedEnterCancel, NestedRefused, NestedOk,
                  NestedReleaseFails, NestedFails, NestedCancel, ClosureOk
    <2>2. undone' = undone \/ \E i : UndoScope(t, i)
      BY <1>2 DEF Nested, NestedEnter, NestedEnterCancel, NestedRefused, NestedOk,
                  NestedReleaseFails, NestedFails, NestedCancel
    <2>3. ASSUME NEW i, UndoScope(t, i) PROVE Promise!Next
      <3>1. PICK Z : Z = call[t].made \ ctx[t].frames[i].made OBVIOUS
      <3>2. Z \subseteq call[t].made /\ undone' = undone \cup Z BY <2>3, <3>1 DEF UndoScope
      <3>3. Promise!Undo(Z) BY <2>1, <3>2, Writes DEF Promise!Undo
      <3>4. Z \in SUBSET Promise!Operation
        BY <3>2 DEF ScopeInv, IInv, TypeOK, Call, Op, Promise!Operation
      <3> QED BY <3>3, <3>4 DEF Promise!Next
    <2> QED BY <2>1, <2>2, <2>3
  <1>3. CASE UNCHANGED vars BY <1>3 DEF vars
  <1> QED BY <1>1, <1>2, <1>3, TopLevelPromise DEF Next

\* atomic() keeps its promise: what a transaction did is committed as a whole or
\* undone, and a callback runs once at most, after the commit, through every
\* nesting of scopes, retry, refusal and dropped future.
THEOREM AtomicRefines ==
  ASSUME ~Swallow PROVE Spec => PromiseSpec
  <1>1. Init => Promise!Init BY DEF Init, Promise!Init
  <1>2. ScopeInv /\ [Next]_vars => [Promise!Next]_<<landed, fired, undone>> BY PromiseStep
  <1> QED BY <1>1, <1>2, ScopesSound, PTL DEF Spec, PromiseSpec, Promise!Spec

\* Whatever keeps the promise runs callbacks of committed operations only, and
\* commits nothing of a scope that did not return Ok (commit_in_place, savepoints).
THEOREM PromiseSeparates == PromiseSpec => [](CallbackAfterCommit /\ UndoneNeverLands)
  <1> DEFINE Parted == CallbackAfterCommit /\ UndoneNeverLands
  <1>1. Promise!Init => Parted
    BY DEF Promise!Init, CallbackAfterCommit, UndoneNeverLands
  <1>2. Parted /\ [Promise!Next]_<<landed, fired, undone>> => Parted'
    BY DEF Promise!Next, Promise!Land, Promise!Undo, Promise!Fire,
       CallbackAfterCommit, UndoneNeverLands
  <1> QED BY <1>1, <1>2, PTL DEF PromiseSpec, Promise!Spec
=============================================================================
