---------------------------- MODULE OutboxProofs ----------------------------
(***************************************************************************)
(* What Outbox promises for any rows, workers, relays and settings.        *)
(***************************************************************************)
EXTENDS Outbox, TLAPS

(***************************************************************************)
(* The inductive invariant.  None of the safety properties is inductive:   *)
(* that two relays never share a row needs to know that a claimed row is   *)
(* still 'pending' in the table while its claim is uncommitted (Held);     *)
(* that 'failed' is justified needs to know what a worker is about to      *)
(* write (Mark) and what a relay has written and not committed (Held).     *)
(***************************************************************************)

\* The batch of worker w: a relay has locked what it still has to publish, a
\* pool-backed worker never has anything uncommitted.
Batch(w) ==
  /\ work[w].at \in work[w].todo \cup {NoRow}
  /\ (work[w].step = "next") <=> (work[w].at = NoRow)
  /\ \A r \in work[w].todo : row[r].state # "absent"
  /\ w \in Relays => work[w].todo \subseteq DOMAIN tx[w]
  /\ w \notin Relays => DOMAIN tx[w] = {}
Shape == \A w \in Workers : Batch(w)

\* A row a relay has changed and not committed, and what the commit will make of it.
Held(w, r) ==
  /\ row[r].state = "pending"
  /\ tx[w][r].state # "absent" /\ tx[w][r].retry >= row[r].retry
  /\ tx[w][r].state = "published" => r \in accepted
  /\ tx[w][r].state = "failed" => r \in refused \/ tx[w][r].retry >= MaxRetry
Locks == \A w \in Workers : \A r \in DOMAIN tx[w] : Held(w, r)

\* 'published' comes after some publish call's Ok.
PublishedAccepted == \A r \in Rows : row[r].state = "published" => r \in accepted

\* The mark worker w is about to make is justified.
Mark(w) ==
  /\ work[w].step = "ok" => work[w].at \in accepted
  /\ work[w].step = "permanent" => work[w].at \in refused
  /\ work[w].step = "fail" =>
       work[w].at \in refused \/ See(w, work[w].at).retry >= MaxRetry
Marks == \A w \in Workers : Mark(w)

\* Everything at once.
OutboxInv == /\ TypeOK /\ Shape /\ Locks /\ RelaysDisjoint
             /\ PublishedAccepted /\ FailedJustified /\ Marks

-----------------------------------------------------------------------------
\* The retry delay is a number of ticks.
LEMMA BackoffInt == \A n \in Nat : Backoff(n) \in Int
  BY DEF Backoff

\* What the statements make of a row.
LEMMA RowOps ==
  ASSUME NEW x \in Row
  PROVE  /\ Claimed(x) \in Row /\ Claimed(x).state = "processing"
         /\ Claimed(x).retry = x.retry
         /\ Recovered(x) \in Row /\ Recovered(x).state = "pending"
         /\ Recovered(x).retry = x.retry
         /\ Older(x) \in Row /\ Older(x).state = x.state /\ Older(x).retry = x.retry
         /\ Published(x) \in Row /\ Published(x).retry = x.retry
         /\ Published(x).state = IF x.state = "processing" THEN "published" ELSE x.state
         /\ Fresh \in Row
  <1>1. /\ Claimed(x) \in Row /\ Claimed(x).state = "processing"
        /\ Claimed(x).retry = x.retry
    <2>1. Lease \in Timer BY LimitsAssumption DEF Timer
    <2> QED BY <2>1 DEF Row, Claimed
  <1>2. /\ Recovered(x) \in Row /\ Recovered(x).state = "pending"
        /\ Recovered(x).retry = x.retry
    BY DEF Row, Timer, Recovered
  <1>3. Older(x) \in Row /\ Older(x).state = x.state /\ Older(x).retry = x.retry
    <2>1. CASE x.left = Null BY <2>1 DEF Older
    <2>2. CASE x.left \in Int BY <2>2, LimitsAssumption DEF Row, Timer, Older
    <2> QED BY <2>1, <2>2 DEF Row, Timer
  <1>4. /\ Published(x) \in Row /\ Published(x).retry = x.retry
        /\ Published(x).state = IF x.state = "processing" THEN "published" ELSE x.state
    BY DEF Row, Published
  <1>5. Fresh \in Row BY DEF Row, Timer, Fresh
  <1> QED BY <1>1, <1>2, <1>3, <1>4, <1>5

\* What the UPDATE of mark_failed makes of row x is z.
Requeued(x, d, z) ==
  /\ z \in Row
  /\ x.state # "processing" => z = x
  /\ x.state = "processing" /\ d = "requeue" =>
       z.state = "pending" /\ z.retry = x.retry + 1
  /\ x.state = "processing" /\ d = "fail" =>
       z.state = "failed" /\ z.retry = x.retry

\* The UPDATE of mark_failed, whatever delay it computes.
LEMMA FailedRow ==
  ASSUME NEW x \in Row, NEW d \in {"requeue", "fail"}, NEW n \in Nat, NEW e \in Nat
  PROVE  Requeued(x, d, Failed(x, d, n, e))
  <1>1. Backoff(n + 1) - e \in Int BY BackoffInt
  <1> HIDE DEF Backoff
  <1> QED BY <1>1 DEF Row, Timer, Failed, Requeued

\* What a worker sees of a row.
LEMMA SeeRow ==
  ASSUME TypeOK, NEW w \in Workers, NEW r \in Rows
  PROVE  See(w, r) \in Row
  BY DEF TypeOK, See

\* The empty table.
LEMMA InitInv == ASSUME Init PROVE OutboxInv
  <1>1. TypeOK
    BY LimitsAssumption, RowsAssumption
       DEF Init, TypeOK, Row, Timer, Fresh, NoChanges, AtRest, Work
  <1>2. Shape BY WorkersAssumption DEF Init, Shape, Batch, NoChanges, AtRest
  <1>3. Locks BY DEF Init, Locks, NoChanges
  <1>4. RelaysDisjoint BY WorkersAssumption DEF Init, RelaysDisjoint, NoChanges
  <1>5. PublishedAccepted /\ FailedJustified
    BY DEF Init, PublishedAccepted, FailedJustified, Fresh
  <1>6. Marks BY DEF Init, Marks, Mark, AtRest
  <1> QED BY <1>1, <1>2, <1>3, <1>4, <1>5, <1>6 DEF OutboxInv

\* emit_event keeps the invariant: nobody holds a row that was not there.
LEMMA EmitInv == ASSUME OutboxInv, NEW q \in Rows, Emit(q) PROVE OutboxInv'
  <1>1. TypeOK' BY RowOps DEF OutboxInv, Emit, TypeOK, Row, Fresh
  <1>2. Shape' BY DEF OutboxInv, Emit, TypeOK, Shape, Batch, Work, Fresh
  <1>3. Locks' BY DEF OutboxInv, Emit, TypeOK, Locks, Held, Fresh
  <1>4. RelaysDisjoint' BY DEF OutboxInv, Emit, RelaysDisjoint
  <1>5. PublishedAccepted' /\ FailedJustified'
    BY DEF OutboxInv, Emit, TypeOK, PublishedAccepted, FailedJustified, Fresh
  <1>6. Marks' 
    BY DEF OutboxInv, Emit, TypeOK, Marks, Mark, Locks, Held, Shape, Batch, See, Fresh, Row, Work
  <1> QED BY <1>1, <1>2, <1>3, <1>4, <1>5, <1>6 DEF OutboxInv

\* claim_pending keeps it: SKIP LOCKED leaves other relays' rows alone.
LEMMA ClaimInv == ASSUME OutboxInv, NEW w \in Workers, Claim(w) PROVE OutboxInv'
  <1> USE DEF OutboxInv
  <1>1. PICK S \in SUBSET Available :
          /\ S # {}
          /\ work' = [work EXCEPT ![w].todo = S, ![w].age = 0]
          /\ IF w \in Relays
             THEN /\ tx' = [tx EXCEPT ![w] = [r \in S |-> Claimed(row[r])]]
                  /\ UNCHANGED row
             ELSE /\ row' = [r \in Rows |-> IF r \in S THEN Claimed(row[r]) ELSE row[r]]
                  /\ UNCHANGED tx
    BY DEF Claim
  <1>2. /\ Resting(w) /\ UNCHANGED <<accepted, refused, aborts>>
        /\ S \subseteq Rows /\ \A r \in S : row[r].state = "pending"
        /\ \A v \in Workers : S \cap DOMAIN tx[v] = {}
    BY DEF Claim, Available, Locked, Due
  <1>3. \A r \in Rows : /\ Claimed(row[r]) \in Row
                        /\ Claimed(row[r]).state = "processing"
                        /\ Claimed(row[r]).retry = row[r].retry
    BY RowOps DEF TypeOK
  <1> HIDE DEF Claimed
  <1>4. TypeOK'
    <2>1. row' \in [Rows -> Row] BY <1>1, <1>3 DEF TypeOK
    <2>2. work' \in [Workers -> Work]
      <3>0. work[w] \in Work /\ S \in SUBSET Rows BY <1>2 DEF TypeOK
      <3>1. [work[w] EXCEPT !.todo = S, !.age = 0] \in Work
        BY <3>0 DEF Work
      <3>2. work' = [work EXCEPT ![w] = [work[w] EXCEPT !.todo = S, !.age = 0]]
        BY <1>1 DEF TypeOK
      <3> QED BY <3>1, <3>2 DEF TypeOK
    <2>3. DOMAIN tx' = Workers BY <1>1 DEF TypeOK
    <2>4. ASSUME NEW v \in Workers
          PROVE  (DOMAIN tx[v] \subseteq Rows /\ tx[v] \in [DOMAIN tx[v] -> Row])'
      <3>1. CASE v = w /\ w \in Relays
        <4>1. tx'[v] = [r \in S |-> Claimed(row[r])] BY <1>1, <3>1 DEF TypeOK
        <4> QED BY <4>1, <1>2, <1>3
      <3>2. CASE v # w \/ w \notin Relays
        <4>1. tx'[v] = tx[v] BY <1>1, <3>2 DEF TypeOK
        <4> QED BY <4>1 DEF TypeOK
      <3> QED BY <3>1, <3>2
    <2> QED BY <2>1, <2>2, <2>3, <2>4, <1>2 DEF TypeOK
  <1>a. /\ work'[w].todo = S /\ work'[w].at = work[w].at
        /\ work'[w].step = work[w].step
        /\ \A v \in Workers \ {w} : work'[v] = work[v]
    BY <1>1 DEF TypeOK, Work
  <1>b. /\ \A v \in Workers \ {w} : tx'[v] = tx[v]
        /\ tx'[w] = IF w \in Relays THEN [r \in S |-> Claimed(row[r])] ELSE tx[w]
        /\ \A r \in Rows : row'[r] = IF r \in S /\ w \notin Relays
                                     THEN Claimed(row[r]) ELSE row[r]
    BY <1>1, <1>2 DEF TypeOK
  <1>5. Shape'
    <2> SUFFICES ASSUME NEW v \in Workers PROVE Batch(v)' BY DEF Shape
    <2>1. CASE v = w BY <2>1, <1>a, <1>b, <1>2, <1>3 DEF TypeOK, Shape, Batch, Work, Resting
    <2>2. CASE v # w
      <3>1. \A r \in Rows : row[r].state # "absent" => row'[r].state # "absent"
        BY <1>b, <1>3
      <3> QED BY <2>2, <3>1, <1>a, <1>b DEF TypeOK, Shape, Batch, Work
    <2> QED BY <2>1, <2>2
  <1>6. Locks'
    <2> SUFFICES ASSUME NEW v \in Workers, NEW r \in DOMAIN tx'[v] PROVE Held(v, r)'
      BY DEF Locks
    <2>1. CASE v = w /\ w \in Relays
      <3>1. r \in S /\ tx'[v][r] = Claimed(row[r]) /\ row'[r] = row[r] BY <2>1, <1>b, <1>2
      <3> QED BY <3>1, <1>2, <1>3 DEF TypeOK, Row, Held
    <2>2. CASE v # w \/ w \notin Relays
      <3>1. tx'[v] = tx[v] /\ r \in Rows /\ row'[r] = row[r]
        BY <2>2, <1>b, <1>2 DEF TypeOK
      <3> QED BY <3>1, <1>2 DEF Locks, Held
    <2> QED BY <2>1, <2>2
  <1>7. RelaysDisjoint' BY <1>1, <1>2, WorkersAssumption DEF RelaysDisjoint, TypeOK
  <1>8. PublishedAccepted' /\ FailedJustified'
    BY <1>1, <1>2, <1>3 DEF TypeOK, PublishedAccepted, FailedJustified
  <1>9. Marks'
    <2> SUFFICES ASSUME NEW v \in Workers PROVE Mark(v)' BY DEF Marks
    <2>1. CASE v = w
      <3>1. work'[w].step = "next" BY <1>2, <1>a DEF Resting, Shape, Batch
      <3> QED BY <2>1, <3>1 DEF Mark
    <2>2. CASE v # w
      <3>1. /\ work'[v] = work[v] /\ tx'[v] = tx[v] /\ accepted' = accepted
            /\ refused' = refused
        BY <2>2, <1>2, <1>a, <1>b
      <3>2. Mark(v) BY DEF Marks
      <3>3. ASSUME work[v].step = "fail" PROVE See(v, work[v].at).retry' = See(v, work[v].at).retry
        <4>1. work[v].at \in Rows
          BY <3>3 DEF TypeOK, Work, Shape, Batch
        <4>2. row'[work[v].at].retry = row[work[v].at].retry BY <1>b, <1>3, <4>1
        <4> QED BY <3>1, <4>2 DEF See
      <3> QED BY <3>1, <3>2, <3>3 DEF Mark
    <2> QED BY <2>1, <2>2
  <1> QED BY <1>4, <1>5, <1>6, <1>7, <1>8, <1>9

\* A worker takes one of its rows up.
LEMMA TakeUp ==
  ASSUME OutboxInv, NEW w \in Workers, NEW r \in work[w].todo, work[w].at = NoRow,
         NEW st \in {"ok", "transient", "permanent"},
         work' = [work EXCEPT ![w].at = r, ![w].step = st],
         UNCHANGED <<row, tx, aborts>>,
         accepted \subseteq accepted', accepted' \subseteq Rows,
         refused \subseteq refused', refused' \subseteq Rows,
         st = "ok" => r \in accepted', st = "permanent" => r \in refused'
  PROVE  OutboxInv'
  <1> USE DEF OutboxInv
  <1>1. r \in Rows /\ r # NoRow BY RowsAssumption DEF TypeOK, Work
  <1>2. TypeOK'
    <2>1. PICK k \in Work : k = work[w] BY DEF TypeOK
    <2>2. [k EXCEPT !.at = r, !.step = st] \in Work BY <1>1 DEF Work
    <2>3. work' = [work EXCEPT ![w] = [k EXCEPT !.at = r, !.step = st]]
      BY <2>1 DEF TypeOK
    <2>4. work' \in [Workers -> Work] BY <2>2, <2>3 DEF TypeOK
    <2> QED BY <2>4 DEF TypeOK
  <1>3. /\ work'[w].at = r /\ work'[w].step = st /\ work'[w].todo = work[w].todo
        /\ \A v \in Workers \ {w} : work'[v] = work[v]
    <2>1. DOMAIN work = Workers /\ work[w] \in Work BY DEF TypeOK
    <2> QED BY <2>1 DEF Work
  <1>4. Shape'
    <2> SUFFICES ASSUME NEW v \in Workers PROVE Batch(v)' BY DEF Shape
    <2>1. Batch(v) BY DEF Shape
    <2>2. CASE v = w BY <2>1, <2>2, <1>1, <1>3 DEF Batch
    <2>3. CASE v # w BY <2>1, <2>3, <1>3 DEF Batch
    <2> QED BY <2>2, <2>3
  <1>5. Locks' BY DEF Locks, Held
  <1>6. RelaysDisjoint' BY DEF RelaysDisjoint
  <1>7. PublishedAccepted' /\ FailedJustified' BY DEF PublishedAccepted, FailedJustified
  <1>8. Marks'
    <2> SUFFICES ASSUME NEW v \in Workers PROVE Mark(v)' BY DEF Marks
    <2>1. CASE v = w BY <2>1, <1>3 DEF Mark
    <2>2. CASE v # w BY <2>2, <1>3 DEF Marks, Mark, See
    <2> QED BY <2>1, <2>2
  <1> QED BY <1>2, <1>4, <1>5, <1>6, <1>7, <1>8

\* publish keeps it, whatever it reports.
LEMMA PublishInv ==
  ASSUME OutboxInv, NEW w \in Workers, NEW r \in Rows,
         PublishOk(w, r) \/ PublishFails(w, r)
  PROVE  OutboxInv'
  <1>1. CASE PublishOk(w, r) BY <1>1, TakeUp DEF PublishOk, OutboxInv, TypeOK
  <1>2. CASE PublishFails(w, r) BY <1>2, TakeUp DEF PublishFails, OutboxInv, TypeOK
  <1> QED BY <1>1, <1>2

\* A worker writes x over the row at hand and is done with it.
Legal(w, x) ==
  LET y == See(w, work[w].at)
  IN  \/ x = y
      \/ /\ y.state = "processing" /\ x.state # "absent" /\ x.retry >= y.retry
         /\ x.state = "published" => work[w].at \in accepted
         /\ x.state = "failed" => work[w].at \in refused \/ x.retry >= MaxRetry

\* A legal write keeps the invariant, in a relay's transaction or in the table.
LEMMA PutDown ==
  ASSUME OutboxInv, NEW w \in Workers, work[w].at # NoRow, NEW x \in Row,
         Write(w, work[w].at, x), Legal(w, x),
         work' = [work EXCEPT ![w] = RowDone(w)],
         UNCHANGED <<accepted, refused, aborts>>
  PROVE  OutboxInv'
  <1> USE DEF OutboxInv
  <1> DEFINE r == work[w].at
             y == See(w, r)
  <1>1. r \in Rows /\ r \in work[w].todo BY DEF TypeOK, Work, Shape, Batch
  <1>2. RowDone(w) \in Work BY <1>1 DEF RowDone, TypeOK, Work
  <1>3. /\ work'[w].at = NoRow /\ work'[w].step = "next"
        /\ work'[w].todo \subseteq work[w].todo
        /\ \A v \in Workers \ {w} : work'[v] = work[v]
    BY <1>2 DEF TypeOK, Work, RowDone
  <1>4. \/ /\ w \in Relays /\ UNCHANGED row /\ r \in DOMAIN tx[w] /\ y = tx[w][r]
           /\ tx' = [tx EXCEPT ![w] = [tx[w] EXCEPT ![r] = x]]
        \/ /\ w \notin Relays /\ UNCHANGED tx /\ DOMAIN tx[w] = {} /\ y = row[r]
           /\ row' = [row EXCEPT ![r] = x]
    BY <1>1 DEF Write, TypeOK, Shape, Batch, See
  <1>5. /\ \A v \in Workers \ {w} : tx'[v] = tx[v]
        /\ \A q \in Rows \ {r} : row'[q] = row[q]
        /\ \A v \in Workers : DOMAIN tx'[v] = DOMAIN tx[v]
        /\ \A q \in DOMAIN tx[w] \ {r} : tx'[w][q] = tx[w][q]
        /\ r \in DOMAIN tx[w] => tx'[w][r] = x /\ tx[w][r] = y
        /\ row'[r] = row[r] \/ (row'[r] = x /\ row[r] = y)
        /\ DOMAIN tx' = Workers
    BY <1>1, <1>4 DEF TypeOK
  <1>6. Legal(w, x) /\ y \in Row BY <1>1, SeeRow
  <1>7. TypeOK'
    <2>1. row' \in [Rows -> Row] BY <1>1, <1>4 DEF TypeOK
    <2>2. work' \in [Workers -> Work] BY <1>2 DEF TypeOK
    <2>3. ASSUME NEW v \in Workers
          PROVE  (DOMAIN tx[v] \subseteq Rows /\ tx[v] \in [DOMAIN tx[v] -> Row])'
      <3>1. CASE v = w /\ w \in Relays
        <4>1. tx'[w] = [tx[w] EXCEPT ![r] = x] BY <1>4, <3>1 DEF TypeOK
        <4>2. tx[w] \in [DOMAIN tx[w] -> Row] /\ DOMAIN tx[w] \subseteq Rows BY DEF TypeOK
        <4> QED BY <3>1, <4>1, <4>2
      <3>2. CASE v # w \/ w \notin Relays
        <4>1. tx'[v] = tx[v] BY <1>4, <1>5, <3>2
        <4> QED BY <4>1 DEF TypeOK
      <3> QED BY <3>1, <3>2
    <2> QED BY <1>5, <2>1, <2>2, <2>3 DEF TypeOK
  <1> HIDE DEF r, y
  <1>8. /\ \A q \in Rows : row[q].state # "absent" => row'[q].state # "absent"
        /\ \A q \in Rows : row'[q].retry >= row[q].retry
        /\ \A q \in Rows : row[q].state = "pending" => row'[q] = row[q]
    <2> SUFFICES ASSUME NEW q \in Rows
        PROVE  /\ row[q].state # "absent" => row'[q].state # "absent"
               /\ row'[q].retry >= row[q].retry
               /\ row[q].state = "pending" => row'[q] = row[q]
      OBVIOUS
    <2>1. row[q] \in Row BY DEF TypeOK
    <2>2. CASE row'[q] = row[q] BY <2>1, <2>2 DEF Row
    <2>3. CASE q = r /\ row'[r] = x /\ row[r] = y
      BY <2>1, <2>3, <1>6 DEF Legal, Row, r, y
    <2> QED BY <1>5, <2>2, <2>3
  <1>9. Shape'
    <2> SUFFICES ASSUME NEW v \in Workers PROVE Batch(v)' BY DEF Shape
    <2>1. CASE v = w BY <2>1, <1>3, <1>5, <1>8 DEF Shape, Batch, TypeOK, Work
    <2>2. CASE v # w BY <2>2, <1>3, <1>5, <1>8 DEF Shape, Batch, TypeOK, Work
    <2> QED BY <2>1, <2>2
  <1>10. Locks'
    <2> SUFFICES ASSUME NEW v \in Workers, NEW q \in DOMAIN tx[v] PROVE Held(v, q)'
      BY <1>5 DEF Locks
    <2>1. q \in Rows /\ Held(v, q) /\ row'[q] = row[q] /\ tx[v][q] \in Row /\ row[q] \in Row
      BY <1>8 DEF TypeOK, Locks, Held
    <2>2. CASE v = w /\ q = r
      <3>1. tx'[v][q] = x /\ tx[v][q] = y BY <1>5, <2>2
      <3> QED BY <3>1, <2>1, <2>2, <1>6 DEF Held, Legal, Row, r, y
    <2>3. CASE v # w \/ q # r BY <2>1, <2>3, <1>5 DEF Held
    <2> QED BY <2>2, <2>3
  <1>11. RelaysDisjoint' BY <1>5, WorkersAssumption DEF RelaysDisjoint
  <1>12. PublishedAccepted' /\ FailedJustified'
    <2> SUFFICES ASSUME NEW q \in Rows
                 PROVE  /\ row'[q].state = "published" => q \in accepted
                        /\ row'[q].state = "failed" => q \in refused \/ row'[q].retry >= MaxRetry
      BY DEF PublishedAccepted, FailedJustified
    <2>1. CASE row'[q] = row[q] BY <2>1 DEF PublishedAccepted, FailedJustified
    <2>2. CASE q = r /\ row'[r] = x /\ row[r] = y
      <3>1. /\ row[r].state = "published" => r \in accepted
            /\ row[r].state = "failed" => r \in refused \/ row[r].retry >= MaxRetry
        BY <1>1 DEF PublishedAccepted, FailedJustified
      <3>2. \/ x = y
            \/ /\ x.state = "published" => r \in accepted
               /\ x.state = "failed" => r \in refused \/ x.retry >= MaxRetry
        BY <1>6 DEF Legal, r, y
      <3> QED BY <2>2, <3>1, <3>2
    <2> QED BY <1>5, <2>1, <2>2
  <1>13. Marks'
    <2> SUFFICES ASSUME NEW v \in Workers PROVE Mark(v)' BY DEF Marks
    <2>1. CASE v = w BY <2>1, <1>3 DEF Mark
    <2>2. CASE v # w
      <3>1. /\ work'[v] = work[v] /\ tx'[v] = tx[v] /\ Mark(v) /\ work[v] \in Work
            /\ work[v].at # NoRow => work[v].at \in Rows
        BY <2>2, <1>3, <1>5 DEF Marks, TypeOK, Work
      <3>2. work[v].step = "fail" => work[v].at # NoRow BY DEF Shape, Batch
      <3>3. \A q \in Rows : row[q] \in Row /\ row'[q] \in Row BY <1>7 DEF TypeOK
      <3>4. work[v].step = "fail" =>
              See(v, work[v].at)' \in Row /\ See(v, work[v].at)'.retry >= See(v, work[v].at).retry
        BY <3>1, <3>2, <3>3, <1>7, <1>8 DEF See, Row, TypeOK
      <3>5. work[v].step = "fail" => See(v, work[v].at) \in Row BY <3>1, <3>2, SeeRow
      <3> QED BY <3>1, <3>4, <3>5, LimitsAssumption DEF Mark, Row
    <2> QED BY <2>1, <2>2
  <1> QED BY <1>7, <1>9, <1>10, <1>11, <1>12, <1>13

\* mark_published and the UPDATE of mark_failed keep it.
LEMMA MarkInv ==
  ASSUME OutboxInv, NEW w \in Workers, MarkPublished(w) \/ MarkFailedWrite(w)
  PROVE  OutboxInv'
  <1> DEFINE y == See(w, work[w].at)
  <1>1. work[w].at # NoRow /\ work[w].at \in Rows
    BY DEF OutboxInv, MarkPublished, MarkFailedWrite, TypeOK, Shape, Batch, Work
  <1>2. y \in Row BY <1>1, SeeRow DEF OutboxInv
  <1> HIDE DEF y
  <1>3. CASE MarkPublished(w)
    <2>1. Published(y) \in Row /\ Published(y).retry = y.retry
          /\ Published(y).state = IF y.state = "processing" THEN "published" ELSE y.state
      BY <1>2, RowOps
    <2>2. Legal(w, Published(y))
      <3>1. CASE y.state = "processing"
        BY <3>1, <2>1, <1>2, <1>3
           DEF y, Legal, MarkPublished, OutboxInv, Marks, Mark, Row
      <3>2. CASE y.state # "processing" BY <3>2 DEF y, Legal, Published
      <3> QED BY <3>1, <3>2
    <2> QED BY <1>1, <1>3, <2>1, <2>2, PutDown DEF MarkPublished, y
  <1>4. CASE MarkFailedWrite(w)
    <2> DEFINE e == IF w \in Relays THEN work[w].age ELSE 0
               z == Failed(y, work[w].step, work[w].read, e)
    <2>1. /\ work[w].step \in {"requeue", "fail"} /\ work[w].read \in Nat /\ e \in Nat
          /\ Mark(w)
      BY <1>4 DEF MarkFailedWrite, OutboxInv, TypeOK, Work, Marks
    <2> HIDE DEF e
    <2>2. Requeued(y, work[w].step, z)
      <3>1. PICK d \in {"requeue", "fail"}, n \in Nat : d = work[w].step /\ n = work[w].read
        BY <2>1
      <3>2. PICK u \in Row, k \in Nat : u = y /\ k = e BY <1>2, <2>1
      <3>3. z = Failed(u, d, n, k) BY <3>1, <3>2
      <3>4. Requeued(u, d, Failed(u, d, n, k)) BY FailedRow
      <3> HIDE DEF z
      <3> QED BY <3>1, <3>2, <3>3, <3>4
    <2>3. Write(w, work[w].at, z) /\ work' = [work EXCEPT ![w] = RowDone(w)]
          /\ UNCHANGED <<accepted, refused, aborts>>
      BY <1>4 DEF MarkFailedWrite, e, y
    <2> HIDE DEF z
    <2>4. Legal(w, z) BY <1>2, <2>1, <2>2 DEF y, Legal, Mark, Row, Requeued
    <2>5. z \in Row BY <2>2 DEF Requeued
    <2> QED BY <1>1, <2>5, <2>3, <2>4, PutDown
  <1> QED BY <1>3, <1>4

\* A worker is done with the row at hand and writes nothing.
LEMMA LetGo ==
  ASSUME OutboxInv, NEW w \in Workers, work[w].at # NoRow,
         work' = [work EXCEPT ![w] = RowDone(w)],
         UNCHANGED <<row, tx, accepted, refused, aborts>>
  PROVE  OutboxInv'
  <1> USE DEF OutboxInv
  <1>1. RowDone(w) \in Work BY DEF RowDone, TypeOK, Work
  <1>2. /\ work'[w].at = NoRow /\ work'[w].step = "next"
        /\ work'[w].todo \subseteq work[w].todo
        /\ \A v \in Workers \ {w} : work'[v] = work[v]
    BY <1>1 DEF TypeOK, Work, RowDone
  <1>3. TypeOK' BY <1>1 DEF TypeOK
  <1>4. Shape'
    <2> SUFFICES ASSUME NEW v \in Workers PROVE Batch(v)' BY DEF Shape
    <2>1. CASE v = w BY <2>1, <1>2 DEF Shape, Batch
    <2>2. CASE v # w BY <2>2, <1>2 DEF Shape, Batch
    <2> QED BY <2>1, <2>2
  <1>5. Locks' /\ RelaysDisjoint' /\ PublishedAccepted' /\ FailedJustified'
    BY DEF Locks, Held, RelaysDisjoint, PublishedAccepted, FailedJustified
  <1>6. Marks' BY <1>2 DEF Marks, Mark, See
  <1> QED BY <1>3, <1>4, <1>5, <1>6

\* The SELECT of mark_failed keeps it: its decision is justified by what it read.
LEMMA ReadInv ==
  ASSUME OutboxInv, NEW w \in Workers, MarkFailedRead(w) PROVE OutboxInv'
  <1> USE DEF OutboxInv
  <1> DEFINE x == See(w, work[w].at)
  <1>1. work[w].at # NoRow /\ work[w].at \in Rows
    BY DEF MarkFailedRead, TypeOK, Shape, Batch, Work
  <1>2. x \in Row BY <1>1, SeeRow
  <1>3. CASE x.state # "processing"
    <2>1. UNCHANGED <<row, tx, accepted, refused, aborts>> BY DEF MarkFailedRead
    <2>2. work' = [work EXCEPT ![w] = RowDone(w)] BY <1>3 DEF MarkFailedRead
    <2> QED BY <1>1, <2>1, <2>2, LetGo
  <1>4. CASE x.state = "processing"
    <2> DEFINE st == IF work[w].step = "transient" /\ WithinBudget(x)
                       THEN "requeue" ELSE "fail"
    <2>1. /\ work' = [work EXCEPT ![w] = [work[w] EXCEPT !.read = x.retry, !.step = st]]
          /\ UNCHANGED <<row, tx, accepted, refused, aborts>>
      <3>1. DOMAIN work = Workers /\ work[w] \in Work BY DEF TypeOK
      <3> QED BY <1>4, <3>1 DEF MarkFailedRead, Work
    <2>2. [work[w] EXCEPT !.read = x.retry, !.step = st] \in Work
      <3>1. work[w] \in Work /\ x.retry \in Nat BY <1>2 DEF TypeOK, Row
      <3>2. st \in {"requeue", "fail"} OBVIOUS
      <3> HIDE DEF x, st
      <3> QED BY <3>1, <3>2 DEF Work
    <2>3. /\ work'[w].at = work[w].at /\ work'[w].todo = work[w].todo /\ work'[w].step = st
          /\ \A v \in Workers \ {w} : work'[v] = work[v]
      BY <2>1 DEF TypeOK, Work
    <2>4. TypeOK' BY <2>1, <2>2 DEF TypeOK
    <2>5. Shape' BY <1>1, <2>1, <2>3 DEF Shape, Batch
    <2>6. Locks' /\ RelaysDisjoint' /\ PublishedAccepted' /\ FailedJustified'
      BY <2>1 DEF Locks, Held, RelaysDisjoint, PublishedAccepted, FailedJustified
    <2>7. Marks'
      <3> SUFFICES ASSUME NEW v \in Workers PROVE Mark(v)' BY DEF Marks
      <3>1. CASE v = w
        <4>1. work[w].step \in {"transient", "permanent"} /\ Mark(w)
          BY DEF MarkFailedRead, Marks
        <4>2. st = "fail" => work[w].at \in refused \/ x.retry >= MaxRetry
          BY <1>2, <4>1, LimitsAssumption DEF Mark, WithinBudget, Row
        <4>3. See(w, work[w].at)' = x BY <2>1, <2>3 DEF See
        <4> QED BY <2>1, <2>3, <3>1, <4>2, <4>3 DEF Mark
      <3>2. CASE v # w BY <3>2, <2>1, <2>3 DEF Marks, Mark, See
      <3> QED BY <3>1, <3>2
    <2> QED BY <2>4, <2>5, <2>6, <2>7
  <1> QED BY <1>3, <1>4

\* A crash or a failed statement keeps it.
LEMMA AbortInv == ASSUME OutboxInv, NEW w \in Workers, Abort(w) PROVE OutboxInv'
  <1> USE DEF OutboxInv
  <1>1. /\ work'[w] = AtRest /\ \A v \in Workers \ {w} : work'[v] = work[v]
        /\ DOMAIN tx'[w] = {} /\ \A v \in Workers \ {w} : tx'[v] = tx[v]
        /\ UNCHANGED <<row, accepted, refused>>
    BY DEF Abort, TypeOK, NoChanges
  <1>2. TypeOK'
    <2>1. AtRest \in Work BY DEF AtRest, Work
    <2>2. NoChanges \in [DOMAIN NoChanges -> Row] /\ DOMAIN NoChanges \subseteq Rows
      BY DEF NoChanges
    <2>3. \A v \in Workers : DOMAIN tx'[v] \subseteq Rows /\ tx'[v] \in [DOMAIN tx'[v] -> Row]
      BY <2>2 DEF Abort, TypeOK
    <2> QED BY <2>1, <2>3, LimitsAssumption DEF Abort, TypeOK
  <1>3. Shape' 
    <2> SUFFICES ASSUME NEW v \in Workers PROVE Batch(v)' BY DEF Shape
    <2>1. CASE v = w BY <1>1, <2>1 DEF Batch, AtRest
    <2>2. CASE v # w BY <1>1, <2>2 DEF Shape, Batch
    <2> QED BY <2>1, <2>2
  <1>4. Locks'
    <2> SUFFICES ASSUME NEW v \in Workers, NEW r \in DOMAIN tx'[v] PROVE Held(v, r)'
      BY DEF Locks
    <2>1. v # w BY <1>1
    <2> QED BY <1>1, <2>1 DEF Locks, Held
  <1>5. RelaysDisjoint' BY <1>1, WorkersAssumption DEF RelaysDisjoint
  <1>6. PublishedAccepted' /\ FailedJustified'
    BY <1>1 DEF PublishedAccepted, FailedJustified
  <1>7. Marks'
    <2> SUFFICES ASSUME NEW v \in Workers PROVE Mark(v)' BY DEF Marks
    <2>1. CASE v = w BY <1>1, <2>1 DEF Mark, AtRest
    <2>2. CASE v # w BY <1>1, <2>2 DEF Marks, Mark, See
    <2> QED BY <2>1, <2>2
  <1> QED BY <1>2, <1>3, <1>4, <1>5, <1>6, <1>7

\* The rows of the table change, nothing a worker holds does: each stays where
\* it is, or goes from processing to pending.
LEMMA TableInv ==
  ASSUME OutboxInv, UNCHANGED <<tx, work, accepted, refused, aborts>>,
         row' \in [Rows -> Row],
         \A r \in Rows : /\ row'[r].retry = row[r].retry
                         /\ \/ row'[r].state = row[r].state
                            \/ row[r].state = "processing" /\ row'[r].state = "pending"
  PROVE  OutboxInv'
  <1> USE DEF OutboxInv
  <1>1. TypeOK' BY DEF TypeOK
  <1>2. Shape' BY DEF TypeOK, Work, Shape, Batch
  <1>3. Locks' BY DEF TypeOK, Locks, Held
  <1>4. RelaysDisjoint' BY DEF RelaysDisjoint
  <1>5. PublishedAccepted' /\ FailedJustified' BY DEF PublishedAccepted, FailedJustified
  <1>6. Marks'
    <2> SUFFICES ASSUME NEW v \in Workers PROVE Mark(v)' BY DEF Marks
    <2>1. Mark(v) /\ (work[v].step = "fail" => work[v].at \in Rows)
      BY DEF Marks, Shape, Batch, TypeOK, Work
    <2> QED BY <2>1 DEF Mark, See
  <1> QED BY <1>1, <1>2, <1>3, <1>4, <1>5, <1>6

\* recover_stale keeps it.
LEMMA RecoverInv ==
  ASSUME OutboxInv, NEW w \in Workers, RecoverStale(w) PROVE OutboxInv'
  <1>1. row' = [r \in Rows |-> IF Stale(row[r]) THEN Recovered(row[r]) ELSE row[r]]
    BY DEF RecoverStale
  <1>2. ASSUME NEW r \in Rows
        PROVE  /\ row'[r] \in Row /\ row'[r].retry = row[r].retry
               /\ \/ row'[r].state = row[r].state
                  \/ row[r].state = "processing" /\ row'[r].state = "pending"
    <2>1. row[r] \in Row BY DEF OutboxInv, TypeOK
    <2>2. /\ Recovered(row[r]) \in Row /\ Recovered(row[r]).state = "pending"
          /\ Recovered(row[r]).retry = row[r].retry
      BY <2>1, RowOps
    <2>3. Stale(row[r]) => row[r].state = "processing" BY DEF Stale
    <2> HIDE DEF Recovered, Stale
    <2> QED BY <1>1, <2>1, <2>2, <2>3
  <1>3. row' \in [Rows -> Row] BY <1>1, <1>2
  <1>4. UNCHANGED <<tx, work, accepted, refused, aborts>> BY DEF RecoverStale
  <1> QED BY <1>2, <1>3, <1>4, TableInv

\* The commit of a relay's batch keeps it.
LEMMA CommitInv == ASSUME OutboxInv, NEW w \in Workers, CommitBatch(w) PROVE OutboxInv'
  <1> USE DEF OutboxInv
  <1>0. w \in Relays BY DEF CommitBatch, NoChanges, Shape, Batch, TypeOK
  <1>1. /\ work'[w] = AtRest /\ \A v \in Workers \ {w} : work'[v] = work[v]
        /\ DOMAIN tx'[w] = {} /\ \A v \in Workers \ {w} : tx'[v] = tx[v]
        /\ UNCHANGED <<accepted, refused>>
        /\ \A r \in DOMAIN tx[w] : row'[r] = tx[w][r]
        /\ \A r \in Rows \ DOMAIN tx[w] : row'[r] = row[r]
    BY DEF CommitBatch, TypeOK, NoChanges, See
  <1>2. TypeOK'
    <2>1. AtRest \in Work BY DEF AtRest, Work
    <2>2. NoChanges \in [DOMAIN NoChanges -> Row] /\ DOMAIN NoChanges \subseteq Rows
      BY DEF NoChanges
    <2>3. \A v \in Workers : DOMAIN tx'[v] \subseteq Rows /\ tx'[v] \in [DOMAIN tx'[v] -> Row]
      BY <2>2 DEF CommitBatch, TypeOK
    <2>4. row' \in [Rows -> Row] BY SeeRow DEF CommitBatch
    <2> QED BY <2>1, <2>3, <2>4 DEF CommitBatch, TypeOK
  <1>3. \A r \in Rows : /\ row[r].state # "absent" => row'[r].state # "absent"
                        /\ row'[r].retry >= row[r].retry
    <2> SUFFICES ASSUME NEW r \in Rows
        PROVE  /\ row[r].state # "absent" => row'[r].state # "absent"
               /\ row'[r].retry >= row[r].retry
      OBVIOUS
    <2>1. CASE r \in DOMAIN tx[w] BY <2>1, <1>1 DEF Locks, Held
    <2>2. CASE r \notin DOMAIN tx[w] BY <2>2, <1>1 DEF TypeOK, Row
    <2> QED BY <2>1, <2>2
  <1>4. Shape'
    <2> SUFFICES ASSUME NEW v \in Workers PROVE Batch(v)' BY DEF Shape
    <2>1. CASE v = w BY <1>0, <1>1, <2>1 DEF Batch, AtRest
    <2>2. CASE v # w BY <1>1, <1>3, <2>2 DEF Shape, Batch, TypeOK, Work
    <2> QED BY <2>1, <2>2
  <1>5. ASSUME NEW v \in Workers \ {w} PROVE DOMAIN tx[v] \cap DOMAIN tx[w] = {}
    <2>1. CASE v \in Relays BY <2>1, <1>0 DEF RelaysDisjoint
    <2>2. CASE v \notin Relays BY <2>2 DEF Shape, Batch
    <2> QED BY <2>1, <2>2
  <1>6. Locks'
    <2> SUFFICES ASSUME NEW v \in Workers, NEW r \in DOMAIN tx'[v] PROVE Held(v, r)'
      BY DEF Locks
    <2>1. v # w BY <1>1
    <2>2. r \in Rows \ DOMAIN tx[w] BY <1>1, <1>5, <2>1 DEF TypeOK
    <2> QED BY <1>1, <2>1, <2>2 DEF Locks, Held
  <1>7. RelaysDisjoint' BY <1>1, WorkersAssumption DEF RelaysDisjoint
  <1>8. PublishedAccepted' /\ FailedJustified'
    <2> SUFFICES ASSUME NEW r \in Rows
        PROVE  /\ row'[r].state = "published" => r \in accepted
               /\ row'[r].state = "failed" => r \in refused \/ row'[r].retry >= MaxRetry
      BY <1>1 DEF PublishedAccepted, FailedJustified
    <2>1. CASE r \in DOMAIN tx[w] BY <2>1, <1>1 DEF Locks, Held
    <2>2. CASE r \notin DOMAIN tx[w]
      BY <2>2, <1>1 DEF PublishedAccepted, FailedJustified
    <2> QED BY <2>1, <2>2
  <1>9. Marks'
    <2> SUFFICES ASSUME NEW v \in Workers PROVE Mark(v)' BY DEF Marks
    <2>1. CASE v = w BY <1>1, <2>1 DEF Mark, AtRest
    <2>2. CASE v # w
      <3>1. /\ work'[v] = work[v] /\ tx'[v] = tx[v] /\ Mark(v)
            /\ work[v].step = "fail" => work[v].at \in Rows
        BY <2>2, <1>1 DEF Marks, TypeOK, Work, Shape, Batch
      <3>2. work[v].step = "fail" =>
              /\ See(v, work[v].at)' \in Row /\ See(v, work[v].at) \in Row
              /\ See(v, work[v].at)'.retry >= See(v, work[v].at).retry
        BY <3>1, <1>2, <1>3 DEF See, Row, TypeOK
      <3> QED BY <1>1, <3>1, <3>2, LimitsAssumption DEF Mark, Row
    <2> QED BY <2>1, <2>2
  <1> QED BY <1>2, <1>4, <1>6, <1>7, <1>8, <1>9

\* Time changes what is left of a lease and nothing else.
LEMMA TickInv == ASSUME OutboxInv, Tick PROVE OutboxInv'
  <1> USE DEF OutboxInv
  <1>1. ASSUME NEW x \in Row
        PROVE  Older(x) \in Row /\ Older(x).state = x.state /\ Older(x).retry = x.retry
    BY RowOps
  <1> HIDE DEF Older
  <1>2. /\ \A r \in Rows : row'[r] = Older(row[r]) /\ row[r] \in Row
        /\ \A v \in Workers : DOMAIN tx'[v] = DOMAIN tx[v] /\ DOMAIN tx[v] \subseteq Rows
        /\ \A v \in Workers : \A r \in DOMAIN tx[v] :
             tx'[v][r] = Older(tx[v][r]) /\ tx[v][r] \in Row
        /\ UNCHANGED <<accepted, refused, aborts>> /\ DOMAIN tx' = Workers
    BY DEF Tick, TypeOK
  <1>3. ASSUME NEW v \in Workers
        PROVE  /\ work'[v] \in Work /\ work'[v].todo = work[v].todo
               /\ work'[v].at = work[v].at /\ work'[v].step = work[v].step
    <2>1. work'[v] = IF ~Resting(v) /\ work[v].age < MaxAge(v)
                     THEN [work[v] EXCEPT !.age = @ + 1] ELSE work[v]
      BY DEF Tick
    <2> QED BY <2>1 DEF TypeOK, Work
  <1>4. TypeOK'
    <2>1. row' \in [Rows -> Row] BY <1>1, <1>2 DEF Tick
    <2>2. work' \in [Workers -> Work] BY <1>3 DEF Tick
    <2>3. ASSUME NEW v \in Workers PROVE tx'[v] \in [DOMAIN tx'[v] -> Row]
      <3>1. tx'[v] = [r \in DOMAIN tx[v] |-> Older(tx[v][r])] BY DEF Tick
      <3> QED BY <3>1, <1>1, <1>2
    <2> QED BY <1>2, <2>1, <2>2, <2>3 DEF TypeOK
  <1>5. Shape' BY <1>1, <1>2, <1>3 DEF Shape, Batch, TypeOK, Work
  <1>6. Locks' BY <1>1, <1>2 DEF Locks, Held
  <1>7. RelaysDisjoint' BY <1>2, WorkersAssumption DEF RelaysDisjoint
  <1>8. PublishedAccepted' /\ FailedJustified'
    BY <1>1, <1>2 DEF PublishedAccepted, FailedJustified
  <1>9. Marks'
    <2> SUFFICES ASSUME NEW v \in Workers PROVE Mark(v)' BY DEF Marks
    <2>1. Mark(v) /\ (work[v].step = "fail" => work[v].at \in Rows)
      BY DEF Marks, Shape, Batch, TypeOK, Work
    <2> QED BY <2>1, <1>1, <1>2, <1>3 DEF Mark, See
  <1> QED BY <1>4, <1>5, <1>6, <1>7, <1>8, <1>9

-----------------------------------------------------------------------------
\* Every step keeps the invariant.
LEMMA NextInv == ASSUME OutboxInv, [Next]_vars PROVE OutboxInv'
  <1>1. CASE UNCHANGED vars
    BY <1>1 DEF vars, OutboxInv, TypeOK, Shape, Batch, Locks, Held, RelaysDisjoint,
                PublishedAccepted, FailedJustified, Marks, Mark, See
  <1>2. ASSUME NEW r \in Rows, Emit(r) PROVE OutboxInv' BY <1>2, EmitInv
  <1>3. ASSUME NEW w \in Workers, Serve(w) PROVE OutboxInv'
    BY <1>3, ClaimInv, PublishInv, MarkInv, ReadInv, CommitInv DEF Serve
  <1>4. ASSUME NEW w \in Workers, Abort(w) \/ RecoverStale(w) PROVE OutboxInv'
    BY <1>4, AbortInv, RecoverInv
  <1>5. CASE Tick BY <1>5, TickInv
  <1> QED BY <1>1, <1>2, <1>3, <1>4, <1>5 DEF Next

\* The invariant holds throughout, for every mixture of relays and workers.
THEOREM Inductive == Spec => []OutboxInv
  BY InitInv, NextInv, PTL DEF Spec

\* Every row, batch and timer keeps its type.
THEOREM TypeCorrect == Spec => []TypeOK
  <1>1. OutboxInv => TypeOK BY DEF OutboxInv
  <1> QED BY <1>1, Inductive, PTL

\* Two relay transactions never change one row: a claim skips locked rows, and
\* no one else changes a row a relay holds (claim_pending, FOR UPDATE SKIP LOCKED).
THEOREM RelaysApart == Spec => []RelaysDisjoint
  <1>1. OutboxInv => RelaysDisjoint BY DEF OutboxInv
  <1> QED BY <1>1, Inductive, PTL

\* A row is 'failed' only after a permanent error or when its retries are used
\* up, although mark_failed decides in one statement and writes in another.
THEOREM FailuresJustified == Spec => []FailedJustified
  <1>1. OutboxInv => FailedJustified BY DEF OutboxInv
  <1> QED BY <1>1, Inductive, PTL

-----------------------------------------------------------------------------
(* The retry budget, when every worker is a relay.                          *)

\* Batches run in a transaction: the retry counter a relay decided on is the one
\* it writes, because its lock keeps the row from everyone else.
Budget ==
  /\ RetryBudget
  /\ \A w \in Workers :
       /\ \A r \in DOMAIN tx[w] : tx[w][r].retry <= MaxRetry
       /\ work[w].step = "requeue" => tx[w][work[w].at].retry < MaxRetry

\* Every step keeps the budget.
LEMMA BudgetNext ==
  ASSUME OutboxInv, Budget, Workers = Relays, [Next]_vars PROVE Budget'
  <1> USE DEF OutboxInv
  <1>1. CASE UNCHANGED vars BY <1>1 DEF vars, Budget, RetryBudget
  <1>2. ASSUME NEW r \in Rows, Emit(r) PROVE Budget'
    BY <1>2, LimitsAssumption DEF Emit, Budget, RetryBudget, TypeOK, Fresh
  <1>3. ASSUME NEW w \in Workers, Claim(w) PROVE Budget'
    <2>1. PICK S \in SUBSET Available :
            /\ UNCHANGED row /\ tx' = [tx EXCEPT ![w] = [r \in S |-> Claimed(row[r])]]
            /\ work' = [work EXCEPT ![w].todo = S, ![w].age = 0]
      BY <1>3 DEF Claim
    <2>2. work'[w].step = work[w].step /\ work[w].step = "next"
      BY <1>3, <2>1 DEF Claim, Resting, TypeOK, Work, Shape, Batch
    <2>3. \A r \in S : Claimed(row[r]).retry = row[r].retry /\ r \in Rows
      BY <2>1, RowOps DEF TypeOK, Available
    <2>4. \A v \in Workers \ {w} : work'[v] = work[v] /\ tx'[v] = tx[v]
      BY <2>1 DEF TypeOK
    <2>5. tx'[w] = [r \in S |-> Claimed(row[r])] BY <2>1 DEF TypeOK
    <2> HIDE DEF Claimed
    <2>6. \A r \in DOMAIN tx'[w] : tx'[w][r].retry <= MaxRetry
      BY <2>3, <2>5 DEF Budget, RetryBudget
    <2>7. \A v \in Workers \ {w} :
            /\ \A r \in DOMAIN tx'[v] : tx'[v][r].retry <= MaxRetry
            /\ work'[v].step = "requeue" => tx'[v][work'[v].at].retry < MaxRetry
      BY <2>4 DEF Budget
    <2>8. RetryBudget' BY <2>1 DEF Budget, RetryBudget
    <2> QED BY <2>2, <2>6, <2>7, <2>8 DEF Budget
  <1>4. ASSUME NEW w \in Workers, NEW r \in Rows, PublishOk(w, r) \/ PublishFails(w, r)
        PROVE  Budget'
    <2>1. UNCHANGED <<row, tx>> BY <1>4 DEF PublishOk, PublishFails
    <2>2. /\ work'[w].step # "requeue"
          /\ \A v \in Workers \ {w} : work'[v] = work[v]
      <3>1. PICK st \in {"ok", "transient", "permanent"} :
              work' = [work EXCEPT ![w].at = r, ![w].step = st]
        BY <1>4 DEF PublishOk, PublishFails
      <3> QED BY <3>1 DEF TypeOK, Work
    <2> QED BY <2>1, <2>2 DEF Budget, RetryBudget
  <1>5. ASSUME NEW w \in Workers, NEW x \in Row, work[w].at \in Rows,
               Write(w, work[w].at, x), work' = [work EXCEPT ![w] = RowDone(w)],
               x.retry <= MaxRetry
        PROVE  Budget'
    <2>1. UNCHANGED row /\ tx' = [tx EXCEPT ![w][work[w].at] = x] BY <1>5 DEF Write
    <2>2. /\ \A v \in Workers \ {w} : work'[v] = work[v] /\ tx'[v] = tx[v]
          /\ DOMAIN tx'[w] = DOMAIN tx[w] /\ work'[w].step = "next"
          /\ \A r \in DOMAIN tx[w] : tx'[w][r] = tx[w][r] \/ tx'[w][r] = x
      BY <1>5, <2>1 DEF RowDone, TypeOK, Work
    <2> QED BY <1>5, <2>1, <2>2 DEF Budget, RetryBudget
  <1>6. ASSUME NEW w \in Workers, MarkPublished(w) \/ MarkFailedWrite(w) PROVE Budget'
    <2> DEFINE r == work[w].at
    <2>1. r \in Rows /\ r \in DOMAIN tx[w] /\ See(w, r) = tx[w][r] /\ tx[w][r] \in Row
      BY <1>6 DEF MarkPublished, MarkFailedWrite, TypeOK, Shape, Batch, Work, See
    <2>2. CASE MarkPublished(w)
      <3>1. Published(tx[w][r]) \in Row /\ Published(tx[w][r]).retry = tx[w][r].retry
        BY <2>1, RowOps
      <3>2. Published(tx[w][r]).retry <= MaxRetry BY <2>1, <3>1 DEF Budget
      <3> QED BY <2>1, <2>2, <3>1, <3>2, <1>5 DEF MarkPublished
    <2>3. CASE MarkFailedWrite(w)
      <3> DEFINE e == IF w \in Relays THEN work[w].age ELSE 0
      <3>1. PICK d \in {"requeue", "fail"}, n \in Nat : d = work[w].step /\ n = work[w].read
        BY <2>3 DEF MarkFailedWrite, TypeOK, Work
      <3>2. e \in Nat BY DEF TypeOK, Work
      <3> DEFINE z == Failed(tx[w][r], d, n, e)
      <3>3. Requeued(tx[w][r], d, z)
        <4>1. PICK y \in Row, k \in Nat : y = tx[w][r] /\ k = e BY <2>1, <3>2
        <4>2. z = Failed(y, d, n, k) BY <4>1
        <4>3. Requeued(y, d, Failed(y, d, n, k)) BY FailedRow
        <4> HIDE DEF z, e, r
        <4> QED BY <4>1, <4>2, <4>3
      <3>4. Write(w, r, z) /\ work' = [work EXCEPT ![w] = RowDone(w)]
        BY <2>1, <2>3, <3>1 DEF MarkFailedWrite
      <3> HIDE DEF z
      <3>5. z.retry <= MaxRetry
        BY <2>1, <3>1, <3>3, LimitsAssumption DEF Budget, Row, Requeued
      <3>6. z \in Row BY <3>3 DEF Requeued
      <3> QED BY <2>1, <3>6, <3>4, <3>5, <1>5
    <2> QED BY <1>6, <2>2, <2>3
  <1>7. ASSUME NEW w \in Workers, MarkFailedRead(w) PROVE Budget'
    <2>1. UNCHANGED <<row, tx>> BY <1>7 DEF MarkFailedRead
    <2>2. /\ \A v \in Workers \ {w} : work'[v] = work[v]
          /\ work'[w].step = "requeue" =>
               WithinBudget(See(w, work[w].at)) /\ work'[w].at = work[w].at
      <3>1. DOMAIN work = Workers /\ work[w] \in Work BY DEF TypeOK
      <3>2. PICK x : x = See(w, work[w].at) OBVIOUS
      <3>3. CASE x.state # "processing"
        <4>1. work' = [work EXCEPT ![w] = RowDone(w)]
          BY <1>7, <3>2, <3>3 DEF MarkFailedRead
        <4> QED BY <3>1, <4>1 DEF RowDone, Work
      <3>4. CASE x.state = "processing"
        <4>1. work' = [work EXCEPT ![w].read = x.retry,
                ![w].step = IF @ = "transient" /\ WithinBudget(x)
                              THEN "requeue" ELSE "fail"]
          BY <1>7, <3>2, <3>4 DEF MarkFailedRead
        <4> QED BY <3>1, <3>2, <4>1 DEF Work
      <3> QED BY <3>3, <3>4
    <2>3. See(w, work[w].at) = tx[w][work[w].at]
      BY <1>7 DEF MarkFailedRead, TypeOK, Shape, Batch, Work, See
    <2> QED BY <2>1, <2>2, <2>3 DEF Budget, RetryBudget, WithinBudget
  <1>8. ASSUME NEW w \in Workers, CommitBatch(w) \/ Abort(w) PROVE Budget'
    <2>1. /\ work'[w] = AtRest /\ DOMAIN tx'[w] = {}
          /\ \A v \in Workers \ {w} : work'[v] = work[v] /\ tx'[v] = tx[v]
      BY <1>8 DEF CommitBatch, Abort, TypeOK, NoChanges
    <2>2. \A r \in Rows : row'[r].retry <= MaxRetry
      BY <1>8 DEF CommitBatch, Abort, See, Budget, RetryBudget, TypeOK
    <2> QED BY <2>1, <2>2 DEF Budget, RetryBudget, AtRest
  <1>9. ASSUME NEW w \in Workers, RecoverStale(w) PROVE Budget'
    <2>1. \A r \in Rows : Recovered(row[r]).retry = row[r].retry BY RowOps DEF TypeOK
    <2> HIDE DEF Recovered, Stale
    <2>2. \A r \in Rows : row'[r].retry = row[r].retry BY <1>9, <2>1 DEF RecoverStale
    <2>3. UNCHANGED <<tx, work>> BY <1>9 DEF RecoverStale
    <2> QED BY <2>2, <2>3 DEF Budget, RetryBudget
  <1>10. CASE Tick
    <2>1. /\ \A r \in Rows : Older(row[r]).retry = row[r].retry
          /\ \A w \in Workers : \A r \in DOMAIN tx[w] : Older(tx[w][r]).retry = tx[w][r].retry
      BY RowOps DEF TypeOK
    <2> HIDE DEF Older
    <2>2. /\ \A r \in Rows : row'[r].retry = row[r].retry
          /\ \A w \in Workers : /\ DOMAIN tx'[w] = DOMAIN tx[w]
                                /\ \A r \in DOMAIN tx[w] : tx'[w][r].retry = tx[w][r].retry
      BY <1>10, <2>1 DEF Tick, TypeOK
    <2>3. \A w \in Workers : /\ work'[w].step = work[w].step /\ work'[w].at = work[w].at
                             /\ work[w].step = "requeue" => work[w].at \in DOMAIN tx[w]
      BY <1>10 DEF Tick, TypeOK, Work, Shape, Batch
    <2> QED BY <2>2, <2>3 DEF Budget, RetryBudget
  <1> QED BY <1>1, <1>2, <1>3, <1>4, <1>6, <1>7, <1>8, <1>9, <1>10 DEF Next, Serve

\* With relays only, no row is retried more often than MAX_RETRY_COUNT
\* (mark_failed).  Two pool-backed workers can exceed it: the SELECT and the
\* UPDATE of mark_failed are two transactions.
THEOREM BudgetKept == ASSUME Workers = Relays PROVE Spec => []RetryBudget
  <1>1. Init => Budget
    BY LimitsAssumption, RowsAssumption
       DEF Init, Budget, RetryBudget, Fresh, NoChanges, AtRest
  <1>2. OutboxInv /\ Budget /\ [Next]_vars => Budget' BY BudgetNext
  <1>3. Budget => RetryBudget BY DEF Budget
  <1> QED BY <1>1, <1>2, <1>3, Inductive, PTL DEF Spec

-----------------------------------------------------------------------------
(* What readers of the table see, when every worker is a relay.             *)

\* What a relay's open transaction holds: rows it has still to publish, claimed,
\* and rows it has dealt with, settled or with one retry more.
Uncommitted(w, r) ==
  IF r \in work[w].todo
  THEN tx[w][r].state = "processing" /\ tx[w][r].retry = row[r].retry
  ELSE /\ tx[w][r].state # "processing"
       /\ tx[w][r].state = "pending" => tx[w][r].retry > row[r].retry

\* No committed row says that it is being worked on.
NothingClaimed == \A r \in Rows : row[r].state # "processing"

Waits ==
  /\ NothingClaimed
  /\ \A w \in Workers : \A r \in DOMAIN tx[w] : Uncommitted(w, r)

\* Every step of relays keeps the claim in the transaction.
LEMMA WaitsNext ==
  ASSUME OutboxInv, Waits, Workers = Relays, [Next]_vars PROVE Waits'
  <1> USE DEF OutboxInv
  <1>1. CASE UNCHANGED vars
    BY <1>1 DEF vars, Waits, NothingClaimed, Uncommitted
  <1>2. ASSUME NEW q \in Rows, Emit(q) PROVE Waits'
    <2>1. \A w \in Workers : q \notin DOMAIN tx[w]
      BY <1>2 DEF Emit, Locks, Held
    <2>2. \A r \in Rows : row'[r] = IF r = q THEN Fresh ELSE row[r]
      BY <1>2 DEF Emit, TypeOK
    <2>3. UNCHANGED <<tx, work>> BY <1>2 DEF Emit
    <2>4. NothingClaimed' BY <2>2 DEF Waits, NothingClaimed, Fresh
    <2>5. \A w \in Workers : \A r \in DOMAIN tx[w] : r \in Rows /\ r # q
      BY <2>1 DEF TypeOK
    <2> QED BY <2>2, <2>3, <2>4, <2>5 DEF Waits, Uncommitted
  <1>3. ASSUME NEW w \in Workers, Claim(w) PROVE Waits'
    <2>1. PICK S \in SUBSET Available :
            /\ UNCHANGED row /\ tx' = [tx EXCEPT ![w] = [r \in S |-> Claimed(row[r])]]
            /\ work' = [work EXCEPT ![w].todo = S, ![w].age = 0]
      BY <1>3 DEF Claim
    <2>2. /\ tx'[w] = [r \in S |-> Claimed(row[r])] /\ work'[w].todo = S
          /\ \A v \in Workers \ {w} : work'[v] = work[v] /\ tx'[v] = tx[v]
      BY <2>1 DEF TypeOK, Work
    <2>3. \A r \in S : Claimed(row[r]).state = "processing"
                       /\ Claimed(row[r]).retry = row[r].retry
      BY <2>1, RowOps DEF TypeOK, Available
    <2> HIDE DEF Claimed
    <2>4. \A r \in DOMAIN tx'[w] : Uncommitted(w, r)' BY <2>1, <2>2, <2>3 DEF Uncommitted
    <2>5. ASSUME NEW v \in Workers \ {w}, NEW r \in DOMAIN tx'[v] PROVE Uncommitted(v, r)'
      <3>1. tx'[v] = tx[v] /\ work'[v].todo = work[v].todo /\ row' = row BY <2>1, <2>2
      <3>2. Uncommitted(v, r) BY <3>1 DEF Waits
      <3> QED BY <3>1, <3>2 DEF Uncommitted
    <2> QED BY <2>1, <2>4, <2>5 DEF Waits, NothingClaimed
  <1>4. ASSUME NEW w \in Workers, NEW q \in Rows, PublishOk(w, q) \/ PublishFails(w, q)
        PROVE  Waits'
    <2>1. UNCHANGED <<row, tx>> BY <1>4 DEF PublishOk, PublishFails
    <2>2. PICK st \in {"ok", "transient", "permanent"} :
            work' = [work EXCEPT ![w].at = q, ![w].step = st]
      BY <1>4 DEF PublishOk, PublishFails
    <2>3. \A v \in Workers : work'[v].todo = work[v].todo BY <2>2 DEF TypeOK, Work
    <2> QED BY <2>1, <2>3 DEF Waits, NothingClaimed, Uncommitted
  <1>5. ASSUME NEW w \in Workers, NEW x \in Row, work[w].at \in DOMAIN tx[w],
               Write(w, work[w].at, x), work' = [work EXCEPT ![w] = RowDone(w)],
               x.state # "processing",
               x.state = "pending" => x.retry > row[work[w].at].retry
        PROVE  Waits'
    <2> DEFINE q == work[w].at
    <2>1. UNCHANGED row /\ tx' = [tx EXCEPT ![w][q] = x] BY <1>5 DEF Write
    <2>2. /\ \A v \in Workers \ {w} : work'[v] = work[v] /\ tx'[v] = tx[v]
          /\ work'[w].todo = work[w].todo \ {q}
          /\ DOMAIN tx'[w] = DOMAIN tx[w] /\ tx'[w][q] = x
          /\ \A r \in DOMAIN tx[w] \ {q} : tx'[w][r] = tx[w][r]
      BY <1>5, <2>1 DEF RowDone, TypeOK, Work
    <2>3. \A r \in DOMAIN tx'[w] : Uncommitted(w, r)'
      <3> SUFFICES ASSUME NEW r \in DOMAIN tx[w] PROVE Uncommitted(w, r)'
        BY <2>2
      <3>1. Uncommitted(w, r) BY DEF Waits
      <3>2. CASE r = q BY <3>2, <1>5, <2>1, <2>2 DEF Uncommitted
      <3>3. CASE r # q BY <3>1, <3>3, <2>1, <2>2 DEF Uncommitted
      <3> QED BY <3>2, <3>3
    <2>4. \A v \in Workers \ {w} : \A r \in DOMAIN tx'[v] : Uncommitted(v, r)'
      BY <2>1, <2>2 DEF Waits, Uncommitted
    <2> QED BY <2>1, <2>3, <2>4 DEF Waits, NothingClaimed
  <1>6. ASSUME NEW w \in Workers, work[w].at # NoRow
        PROVE  /\ work[w].at \in Rows /\ work[w].at \in DOMAIN tx[w]
               /\ See(w, work[w].at) = tx[w][work[w].at]
               /\ tx[w][work[w].at] \in Row
               /\ tx[w][work[w].at].state = "processing"
               /\ tx[w][work[w].at].retry = row[work[w].at].retry
    <2>1. work[w].at \in work[w].todo /\ work[w].at \in DOMAIN tx[w]
      BY <1>6 DEF Shape, Batch
    <2>2. Uncommitted(w, work[w].at) BY <2>1 DEF Waits
    <2> QED BY <2>1, <2>2 DEF Uncommitted, TypeOK, See
  <1>7. ASSUME NEW w \in Workers, MarkPublished(w) PROVE Waits'
    <2> DEFINE q == work[w].at
    <2>1. q # NoRow BY <1>7 DEF MarkPublished, Shape, Batch
    <2>2. Published(tx[w][q]) \in Row /\ Published(tx[w][q]).state = "published"
      BY <2>1, <1>6, RowOps
    <2>3. Write(w, q, Published(tx[w][q])) /\ work' = [work EXCEPT ![w] = RowDone(w)]
      BY <2>1, <1>6, <1>7 DEF MarkPublished
    <2> HIDE DEF Published
    <2> QED BY <2>1, <2>2, <2>3, <1>5, <1>6
  <1>8. ASSUME NEW w \in Workers, MarkFailedWrite(w) PROVE Waits'
    <2> DEFINE q == work[w].at
               e == IF w \in Relays THEN work[w].age ELSE 0
    <2>1. q # NoRow BY <1>8 DEF MarkFailedWrite, Shape, Batch
    <2>2. PICK d \in {"requeue", "fail"}, n \in Nat : d = work[w].step /\ n = work[w].read
      BY <1>8 DEF MarkFailedWrite, TypeOK, Work
    <2>3. e \in Nat BY DEF TypeOK, Work
    <2> DEFINE z == Failed(tx[w][q], d, n, e)
    <2>4. Requeued(tx[w][q], d, z)
      <3>1. PICK y \in Row, k \in Nat : y = tx[w][q] /\ k = e BY <2>1, <2>3, <1>6
      <3>2. Requeued(y, d, Failed(y, d, n, k)) BY FailedRow
      <3> QED BY <3>1, <3>2
    <2>5. Write(w, q, z) /\ work' = [work EXCEPT ![w] = RowDone(w)]
      BY <2>1, <2>2, <1>6, <1>8 DEF MarkFailedWrite
    <2> HIDE DEF z
    <2>6. z \in Row /\ z.state # "processing"
      BY <2>1, <2>2, <2>4, <1>6 DEF Requeued
    <2>7. z.state = "pending" => z.retry > row[q].retry
      BY <2>1, <2>2, <2>4, <1>6 DEF Requeued, Row
    <2> QED BY <2>1, <2>5, <2>6, <2>7, <1>5, <1>6
  <1>9. ASSUME NEW w \in Workers, MarkFailedRead(w) PROVE Waits'
    <2> DEFINE q == work[w].at
    <2>1. q # NoRow BY <1>9 DEF MarkFailedRead, Shape, Batch
    <2>2. UNCHANGED <<row, tx>> BY <1>9 DEF MarkFailedRead
    <2>3. See(w, q).state = "processing" BY <2>1, <1>6
    <2>4. PICK n, st : work' = [work EXCEPT ![w].read = n, ![w].step = st]
      BY <2>3, <1>9 DEF MarkFailedRead
    <2>5. \A v \in Workers : work'[v].todo = work[v].todo BY <2>4 DEF TypeOK, Work
    <2> QED BY <2>2, <2>5 DEF Waits, NothingClaimed, Uncommitted
  <1>10. ASSUME NEW w \in Workers, CommitBatch(w) \/ Abort(w) PROVE Waits'
    <2>1. /\ DOMAIN tx'[w] = {}
          /\ \A v \in Workers \ {w} : work'[v] = work[v] /\ tx'[v] = tx[v]
      BY <1>10 DEF CommitBatch, Abort, TypeOK, NoChanges
    <2>2. \A r \in Rows : row'[r] = row[r] \/ (CommitBatch(w) /\ r \in DOMAIN tx[w]
                                                /\ row'[r] = tx[w][r])
      BY <1>10 DEF CommitBatch, Abort, See
    <2>3. NothingClaimed'
      BY <2>2 DEF Waits, NothingClaimed, Uncommitted, CommitBatch
    <2>4. ASSUME NEW v \in Workers \ {w}, NEW r \in DOMAIN tx[v] PROVE row'[r] = row[r]
      BY <2>2 DEF RelaysDisjoint, TypeOK
    <2>5. \A v \in Workers \ {w} : \A r \in DOMAIN tx'[v] : Uncommitted(v, r)'
      BY <2>1, <2>4 DEF Waits, Uncommitted
    <2> QED BY <2>1, <2>3, <2>5 DEF Waits
  <1>11. ASSUME NEW w \in Workers, RecoverStale(w) PROVE Waits'
    <2>1. \A r \in Rows : row'[r] = row[r]
      BY <1>11 DEF RecoverStale, Stale, Waits, NothingClaimed
    <2>2. UNCHANGED <<tx, work>> BY <1>11 DEF RecoverStale
    <2>3. \A v \in Workers : \A r \in DOMAIN tx[v] : r \in Rows BY DEF TypeOK
    <2> QED BY <2>1, <2>2, <2>3 DEF Waits, NothingClaimed, Uncommitted
  <1>12. CASE Tick
    <2>1. /\ \A r \in Rows : /\ Older(row[r]).state = row[r].state
                             /\ Older(row[r]).retry = row[r].retry
          /\ \A w \in Workers : \A r \in DOMAIN tx[w] :
               /\ Older(tx[w][r]).state = tx[w][r].state
               /\ Older(tx[w][r]).retry = tx[w][r].retry
      BY RowOps DEF TypeOK
    <2> HIDE DEF Older
    <2>2. \A r \in Rows : row'[r].state = row[r].state /\ row'[r].retry = row[r].retry
      BY <1>12, <2>1 DEF Tick
    <2>3. \A w \in Workers :
            /\ DOMAIN tx'[w] = DOMAIN tx[w] /\ work'[w].todo = work[w].todo
            /\ \A r \in DOMAIN tx[w] : /\ tx'[w][r].state = tx[w][r].state
                                       /\ tx'[w][r].retry = tx[w][r].retry
      BY <1>12, <2>1 DEF Tick, TypeOK, Work
    <2>4. \A w \in Workers : \A r \in DOMAIN tx[w] : r \in Rows BY DEF TypeOK
    <2> QED BY <2>2, <2>3, <2>4 DEF Waits, NothingClaimed, Uncommitted
  <1> QED BY <1>1, <1>2, <1>3, <1>4, <1>7, <1>8, <1>9, <1>10, <1>11, <1>12 DEF Next, Serve

\* Relays leave no row in 'processing', whenever they crash: a claim is part of the
\* transaction the crash rolls back.  The relay's comment expects otherwise, and
\* its recover_stale is for tables that pool-backed workers share.
THEOREM RelaysLeaveNoClaim == ASSUME Workers = Relays PROVE Spec => []NothingClaimed
  <1>1. Init => Waits
    BY DEF Init, Waits, NothingClaimed, Fresh, NoChanges
  <1>2. OutboxInv /\ Waits /\ [Next]_vars => Waits' BY WaitsNext
  <1>3. Waits => NothingClaimed BY DEF Waits
  <1> QED BY <1>1, <1>2, <1>3, Inductive, PTL DEF Spec

\* The outcomes a row's commits can still bring: its retries and the last one.
RowLeft(x) == IF x.state \in {"published", "failed"} THEN 0 ELSE MaxRetry - x.retry + 1

\* Every change of a committed row brings it nearer to its end, but for its clock.
RowsShorten ==
  [][\A r \in Rows :
       \/ row[r].state = "absent"
       \/ row'[r].state = row[r].state /\ row'[r].retry = row[r].retry
       \/ row'[r].state # "absent" /\ RowLeft(row'[r]) < RowLeft(row[r])]_vars

\* A step of relays changes a row for good, or uses up one of its retries.
LEMMA ShortenStep ==
  ASSUME OutboxInv, Budget, Waits, Workers = Relays, Next, NEW r \in Rows,
         row[r].state # "absent"
  PROVE  \/ row'[r].state = row[r].state /\ row'[r].retry = row[r].retry
         \/ row'[r].state # "absent" /\ RowLeft(row'[r]) < RowLeft(row[r])
  <1> USE DEF OutboxInv
  <1>1. ASSUME NEW q \in Rows, Emit(q) PROVE row'[r] = row[r] BY <1>1 DEF Emit, TypeOK
  <1>2. ASSUME NEW w \in Workers, Claim(w) PROVE row'[r] = row[r] BY <1>2 DEF Claim
  <1>3. ASSUME NEW w \in Workers, NEW q \in Rows,
               \/ PublishOk(w, q) \/ PublishFails(w, q) \/ MarkFailedRead(w) \/ Abort(w)
        PROVE  row'[r] = row[r]
    BY <1>3 DEF PublishOk, PublishFails, MarkFailedRead, Abort
  <1>4. ASSUME NEW w \in Workers, MarkPublished(w) \/ MarkFailedWrite(w)
        PROVE  row'[r] = row[r]
    BY <1>4 DEF MarkPublished, MarkFailedWrite, Write
  <1>5. ASSUME NEW w \in Workers, RecoverStale(w) PROVE row'[r] = row[r]
    BY <1>5 DEF RecoverStale, Stale, Waits, NothingClaimed
  <1>6. CASE Tick
    <2>1. row'[r] = Older(row[r]) BY <1>6 DEF Tick
    <2> QED BY <2>1, RowOps DEF TypeOK
  <1>7. ASSUME NEW w \in Workers, CommitBatch(w), row'[r] # row[r]
        PROVE  row'[r].state # "absent" /\ RowLeft(row'[r]) < RowLeft(row[r])
    <2>1. r \in DOMAIN tx[w] /\ row'[r] = tx[w][r] BY <1>7 DEF CommitBatch, See
    <2>2. /\ row[r].state = "pending" /\ tx[w][r].state # "absent"
          /\ tx[w][r].state # "processing"
          /\ tx[w][r].state = "pending" => tx[w][r].retry > row[r].retry
      BY <1>7, <2>1 DEF CommitBatch, Waits, Uncommitted, Locks, Held
    <2>3. PICK x \in Row, y \in Row : x = row[r] /\ y = row'[r] BY <2>1 DEF TypeOK
    <2>4. x.retry <= MaxRetry BY <2>3 DEF Budget, RetryBudget
    <2>5. y.state \in {"published", "failed"} \/ (y.state = "pending" /\ y.retry > x.retry)
      BY <2>1, <2>2, <2>3 DEF Row
    <2> QED BY <2>1, <2>2, <2>3, <2>4, <2>5, LimitsAssumption DEF RowLeft, Row
  <1> QED BY <1>1, <1>2, <1>3, <1>4, <1>5, <1>6, <1>7 DEF Next, Serve

\* With relays only, a row is changed MAX_RETRY_COUNT + 1 times at most after its
\* producer's commit, each time for good or by one retry.  That is the part of
\* EventuallySettled that no fairness is needed for.
THEOREM RowsComeNearer ==
  ASSUME Workers = Relays
  PROVE  Spec => RowsShorten /\ [](\A r \in Rows : RowLeft(row[r]) \in Nat)
  <1>1. Init => Budget /\ Waits
    BY LimitsAssumption, RowsAssumption
       DEF Init, Budget, RetryBudget, Waits, NothingClaimed, Fresh, NoChanges, AtRest
  <1>2. OutboxInv /\ Budget /\ Waits /\ [Next]_vars => Budget' /\ Waits'
    BY BudgetNext, WaitsNext
  <1>3. OutboxInv /\ Budget /\ Waits /\ [Next]_vars =>
          [\A r \in Rows :
             \/ row[r].state = "absent"
             \/ row'[r].state = row[r].state /\ row'[r].retry = row[r].retry
             \/ row'[r].state # "absent" /\ RowLeft(row'[r]) < RowLeft(row[r])]_vars
    BY ShortenStep
  <1>4. OutboxInv /\ Budget => \A r \in Rows : RowLeft(row[r]) \in Nat
    BY LimitsAssumption DEF OutboxInv, TypeOK, Row, Budget, RetryBudget, RowLeft
  <1> QED BY <1>1, <1>2, <1>3, <1>4, Inductive, PTL DEF Spec, RowsShorten

-----------------------------------------------------------------------------
(* The grace window, and what the outbox promises.                          *)

\* What a commit, a mark and a recovery make of the rows.
LEMMA CommitRows ==
  ASSUME OutboxInv, NEW w \in Workers, CommitBatch(w), NEW r \in Rows
  PROVE  \/ row'[r] = row[r]
         \/ /\ row[r].state = "pending" /\ row'[r].state # "absent"
            /\ row'[r].state = "published" => r \in accepted
  <1>1. row'[r] = See(w, r) BY DEF CommitBatch
  <1>2. CASE r \in DOMAIN tx[w] BY <1>1, <1>2 DEF See, OutboxInv, Locks, Held
  <1>3. CASE r \notin DOMAIN tx[w] BY <1>1, <1>3 DEF See
  <1> QED BY <1>2, <1>3

\* A mark touches the row at hand and no other, and that only while it is
\* 'processing'.
LEMMA MarkRows ==
  ASSUME OutboxInv, NEW w \in Workers, MarkPublished(w) \/ MarkFailedWrite(w)
  PROVE  /\ \A r \in Rows \ {work[w].at} : row'[r] = row[r]
         /\ work[w].at \in Rows
         /\ \/ row'[work[w].at] = row[work[w].at]
            \/ /\ row[work[w].at].state = "processing"
               /\ \/ /\ row'[work[w].at].state = "published"
                     /\ work[w].at \in accepted
                  \/ row'[work[w].at].state = "failed"
                  \/ /\ row'[work[w].at].state = "pending"
                     /\ row'[work[w].at].retry > row[work[w].at].retry
  <1> USE DEF OutboxInv
  <1> DEFINE r == work[w].at
  <1>1. r \in Rows
    BY DEF MarkPublished, MarkFailedWrite, TypeOK, Shape, Batch, Work
  <1>2. CASE w \in Relays
    BY <1>1, <1>2 DEF MarkPublished, MarkFailedWrite, Write
  <1>3. CASE w \notin Relays
    <2>1. See(w, r) = row[r] /\ row[r] \in Row BY <1>1, <1>3 DEF See, Shape, Batch, TypeOK
    <2>2. CASE MarkPublished(w)
      <3>1. row' = [row EXCEPT ![r] = Published(row[r])]
        BY <1>3, <2>1, <2>2 DEF MarkPublished, Write
      <3>2. r \in accepted BY <2>2 DEF MarkPublished, Marks, Mark
      <3>3. \/ Published(row[r]) = row[r]
            \/ row[r].state = "processing" /\ Published(row[r]).state = "published"
        BY <2>1, RowOps DEF Published
      <3> QED BY <1>1, <3>1, <3>2, <3>3 DEF TypeOK
    <2>3. CASE MarkFailedWrite(w)
      <3>1. PICK d \in {"requeue", "fail"}, n \in Nat : d = work[w].step /\ n = work[w].read
        BY <2>3 DEF MarkFailedWrite, TypeOK, Work
      <3> DEFINE z == Failed(row[r], d, n, 0)
      <3>2. row' = [row EXCEPT ![r] = z]
        BY <1>3, <2>1, <2>3, <3>1 DEF MarkFailedWrite, Write
      <3>3. Requeued(row[r], d, z)
        <4>1. PICK y \in Row, k \in Nat : y = row[r] /\ k = 0 BY <2>1
        <4>2. Requeued(y, d, Failed(y, d, n, k)) BY FailedRow
        <4> QED BY <4>1, <4>2
      <3>4. row[r].retry + 1 > row[r].retry BY <2>1 DEF Row
      <3> HIDE DEF z
      <3> QED BY <1>1, <3>1, <3>2, <3>3, <3>4 DEF TypeOK, Requeued
    <2> QED BY <2>2, <2>3
  <1> QED BY <1>2, <1>3, <1>1

\* As long as worker w is within its lease and the grace window, no version of a
\* row it has claimed, committed or not, has been claimed for less than w's lease.
Timely(w) == work[w].age <= Lease + Threshold
Leased(w, x) == x.state = "processing" => x.left \in Int /\ x.left >= Lease - work[w].age
Leases(w) ==
  Timely(w) => \A r \in work[w].todo :
    /\ Leased(w, row[r])
    /\ \A v \in Workers : r \in DOMAIN tx[v] => Leased(w, tx[v][r])
LeaseInv == \A w \in Workers \ Relays : Leases(w)

\* What a step that takes no time may make of row r: one of its versions, a
\* new claim, or no claim.
Carries(r, x) ==
  \/ x.state # "processing" \/ x.left = Lease \/ x = row[r]
  \/ \E v \in Workers : r \in DOMAIN tx[v] /\ x = tx[v][r]

LEMMA LeaseKept ==
  ASSUME OutboxInv, NEW w \in Workers \ Relays, Leases(w),
         work'[w].todo \subseteq work[w].todo,
         work'[w].todo # {} => work'[w].age = work[w].age,
         \A r \in Rows : Carries(r, row'[r]),
         \A v \in Workers : \A r \in DOMAIN tx'[v] : Carries(r, tx'[v][r])
  PROVE  Leases(w)'
  <1>1. work[w].todo \subseteq Rows /\ work[w].age \in Nat
    BY DEF OutboxInv, TypeOK, Work
  <1> SUFFICES ASSUME Timely(w)', NEW r \in work'[w].todo
               PROVE  /\ Leased(w, row[r])'
                      /\ \A v \in Workers : r \in DOMAIN tx'[v] => Leased(w, tx[v][r])'
    BY DEF Leases
  <1>2. /\ Timely(w) /\ r \in work[w].todo /\ r \in Rows /\ work'[w].age = work[w].age
    BY <1>1 DEF Timely
  <1>3. ASSUME NEW x, Carries(r, x), x.state = "processing"
        PROVE  x.left \in Int /\ x.left >= Lease - work[w].age
    <2>1. CASE x.left = Lease BY <1>1, <2>1, LimitsAssumption
    <2>2. CASE x = row[r] BY <1>2, <1>3, <2>2 DEF Leases, Leased
    <2>3. CASE \E v \in Workers : r \in DOMAIN tx[v] /\ x = tx[v][r]
      BY <1>2, <1>3, <2>3 DEF Leases, Leased
    <2> QED BY <1>3, <2>1, <2>2, <2>3 DEF Carries
  <1> QED BY <1>2, <1>3 DEF Leased

\* A claim is for a whole lease, and no one has a version of the rows it takes.
LEMMA LeaseClaim ==
  ASSUME OutboxInv, LeaseInv, NEW u \in Workers, Claim(u) PROVE LeaseInv'
  <1> USE DEF OutboxInv
  <1>1. PICK S \in SUBSET Available :
          /\ work' = [work EXCEPT ![u].todo = S, ![u].age = 0]
          /\ IF u \in Relays
             THEN /\ tx' = [tx EXCEPT ![u] = [r \in S |-> Claimed(row[r])]]
                  /\ UNCHANGED row
             ELSE /\ row' = [r \in Rows |-> IF r \in S THEN Claimed(row[r]) ELSE row[r]]
                  /\ UNCHANGED tx
    BY DEF Claim
  <1>2. \A r \in Rows : Claimed(row[r]).left = Lease BY DEF TypeOK, Row, Claimed
  <1>3. S \subseteq Rows /\ \A v \in Workers : S \cap DOMAIN tx[v] = {}
    BY DEF Available, Locked
  <1> HIDE DEF Claimed
  <1>4. /\ work'[u].todo = S /\ work'[u].age = 0
        /\ \A v \in Workers \ {u} : work'[v] = work[v]
    BY <1>1 DEF TypeOK, Work
  <1>5. \A r \in Rows : Carries(r, row'[r]) BY <1>1, <1>2 DEF Carries
  <1>6. ASSUME NEW v \in Workers, NEW r \in DOMAIN tx'[v] PROVE Carries(r, tx'[v][r])
    <2>1. CASE u \in Relays /\ v = u
      <3>1. tx'[u] = [q \in S |-> Claimed(row[q])] BY <1>1, <2>1 DEF TypeOK
      <3> QED BY <1>2, <1>3, <1>6, <2>1, <3>1 DEF Carries
    <2>2. CASE ~(u \in Relays /\ v = u)
      <3>1. tx'[v] = tx[v] BY <1>1, <2>2 DEF TypeOK
      <3> QED BY <1>6, <3>1 DEF Carries
    <2> QED BY <2>1, <2>2
  <1>7. ASSUME NEW w \in Workers \ Relays PROVE Leases(w)'
    <2>1. CASE w # u
      <3>1. work'[w] = work[w] /\ Leases(w) BY <1>4, <2>1 DEF LeaseInv
      <3> QED BY <1>5, <1>6, <3>1, LeaseKept
    <2>2. CASE w = u
      <3>1. tx' = tx /\ \A r \in S : row'[r].left = Lease BY <1>1, <1>2, <1>3, <2>2
      <3> QED BY <1>3, <1>4, <2>2, <3>1, LimitsAssumption DEF Leases, Leased
    <2> QED BY <2>1, <2>2
  <1> QED BY <1>7 DEF LeaseInv

\* A tick takes as much from a lease as it adds to the age of the claim.
LEMMA LeaseTick == ASSUME OutboxInv, LeaseInv, Tick PROVE LeaseInv'
  <1> USE DEF OutboxInv
  <1> SUFFICES ASSUME NEW w \in Workers \ Relays, Timely(w)', NEW r \in work'[w].todo
               PROVE  /\ Leased(w, row[r])'
                      /\ \A v \in Workers : r \in DOMAIN tx'[v] => Leased(w, tx[v][r])'
    BY DEF LeaseInv, Leases
  <1>1. work'[w] = IF ~Resting(w) /\ work[w].age < MaxAge(w)
                   THEN [work[w] EXCEPT !.age = @ + 1] ELSE work[w]
    BY DEF Tick
  <1>2. work[w] \in Work /\ work[w].age \in Nat /\ work[w].todo \subseteq Rows
    BY DEF TypeOK, Work
  <1>3. r \in work[w].todo /\ ~Resting(w) BY <1>1, <1>2 DEF Work, Resting
  <1>4. Lease + Threshold \in Nat /\ MaxAge(w) = Lease + Threshold + 1
    BY LimitsAssumption DEF MaxAge
  <1>5. work'[w].age = work[w].age + 1 /\ Timely(w)
    BY <1>1, <1>2, <1>3, <1>4 DEF Timely, Work
  <1>6. ASSUME NEW x \in Row, Leased(w, x), Older(x).state = "processing"
        PROVE  Older(x).left \in Int /\ Older(x).left >= Lease - work'[w].age
    <2>1. x.left \in Int /\ x.left >= Lease - work[w].age
      BY <1>6, RowOps DEF Leased
    <2>2. ~(x.left < -Threshold) /\ x.left # Null
      BY <1>2, <1>5, <2>1, LimitsAssumption DEF Timely
    <2>3. Older(x) = [x EXCEPT !.left = @ - 1] BY <2>2 DEF Older
    <2>4. Older(x).left = x.left - 1 BY <2>3 DEF Row
    <2> QED BY <1>2, <1>5, <2>1, <2>4, LimitsAssumption
  <1> HIDE DEF Older
  <1>7. /\ Leased(w, row[r]) /\ row[r] \in Row /\ row'[r] = Older(row[r])
        /\ \A v \in Workers : r \in DOMAIN tx[v] => Leased(w, tx[v][r])
    BY <1>2, <1>3, <1>5 DEF LeaseInv, Leases, Tick, TypeOK
  <1>8. ASSUME NEW v \in Workers, r \in DOMAIN tx'[v]
        PROVE  /\ r \in DOMAIN tx[v] /\ tx[v][r] \in Row /\ tx'[v][r] = Older(tx[v][r])
    BY <1>8 DEF Tick, TypeOK
  <1> QED BY <1>6, <1>7, <1>8 DEF Leased

\* Every step keeps it.
LEMMA LeaseNext == ASSUME OutboxInv, LeaseInv, [Next]_vars PROVE LeaseInv'
  <1> USE DEF OutboxInv
  <1>1. ASSUME \A w \in Workers \ Relays :
                 /\ work'[w].todo \subseteq work[w].todo
                 /\ work'[w].todo # {} => work'[w].age = work[w].age,
               \A r \in Rows : Carries(r, row'[r]),
               \A v \in Workers : \A r \in DOMAIN tx'[v] : Carries(r, tx'[v][r])
        PROVE  LeaseInv'
    BY <1>1, LeaseKept DEF LeaseInv
  <1>2. ASSUME UNCHANGED <<row, tx>>
        PROVE  /\ \A r \in Rows : Carries(r, row'[r])
               /\ \A v \in Workers : \A r \in DOMAIN tx'[v] : Carries(r, tx'[v][r])
    BY <1>2 DEF Carries
  <1>3. CASE UNCHANGED vars BY <1>1, <1>2, <1>3 DEF vars
  <1>4. ASSUME NEW q \in Rows, Emit(q) PROVE LeaseInv'
    <2>1. /\ UNCHANGED <<tx, work>>
          /\ \A r \in Rows : row'[r] = row[r] \/ row'[r].state = "pending"
      BY <1>4 DEF Emit, TypeOK, Fresh
    <2> QED BY <1>1, <2>1 DEF Carries
  <1>5. ASSUME NEW u \in Workers, NEW q \in Rows, PublishOk(u, q) \/ PublishFails(u, q)
        PROVE  LeaseInv'
    <2>1. UNCHANGED <<row, tx>> BY <1>5 DEF PublishOk, PublishFails
    <2>2. PICK st : work' = [work EXCEPT ![u].at = q, ![u].step = st]
      BY <1>5 DEF PublishOk, PublishFails
    <2>3. \A w \in Workers : work'[w].todo = work[w].todo /\ work'[w].age = work[w].age
      BY <2>2 DEF TypeOK, Work
    <2> QED BY <1>1, <1>2, <2>1, <2>3
  <1>6. ASSUME NEW u \in Workers, work' = [work EXCEPT ![u] = RowDone(u)]
        PROVE  \A w \in Workers : /\ work'[w].todo \subseteq work[w].todo
                                  /\ work'[w].age = work[w].age
    BY <1>6 DEF RowDone, TypeOK, Work
  <1>7. ASSUME NEW u \in Workers, MarkPublished(u) \/ MarkFailedWrite(u) PROVE LeaseInv'
    <2> DEFINE q == work[u].at
    <2>1. q \in Rows /\ See(u, q) \in Row
      BY <1>7, SeeRow DEF MarkPublished, MarkFailedWrite, Shape, Batch, TypeOK, Work
    <2>2. PICK x \in Row : Write(u, q, x) /\ x.state # "processing"
      <3>1. CASE MarkPublished(u)
        <4>1. Published(See(u, q)) \in Row /\ Published(See(u, q)).state # "processing"
          BY <2>1, RowOps
        <4> QED BY <3>1, <4>1 DEF MarkPublished
      <3>2. CASE MarkFailedWrite(u)
        <4> DEFINE e == IF u \in Relays THEN work[u].age ELSE 0
                   z == Failed(See(u, q), work[u].step, work[u].read, e)
        <4>1. PICK y \in Row, d \in {"requeue", "fail"}, n \in Nat, k \in Nat :
                y = See(u, q) /\ d = work[u].step /\ n = work[u].read /\ k = e
          BY <2>1, <3>2 DEF MarkFailedWrite, TypeOK, Work
        <4>2. Requeued(y, d, Failed(y, d, n, k)) BY FailedRow
        <4>3. z = Failed(y, d, n, k) BY <4>1
        <4>4. Write(u, q, z) BY <3>2 DEF MarkFailedWrite
        <4> HIDE DEF z
        <4>5. z \in Row /\ z.state # "processing" BY <4>2, <4>3 DEF Requeued
        <4> QED BY <4>4, <4>5
      <3> QED BY <1>7, <3>1, <3>2
    <2>3. work' = [work EXCEPT ![u] = RowDone(u)]
      BY <1>7 DEF MarkPublished, MarkFailedWrite
    <2>4. \A r \in Rows : row'[r] = row[r] \/ row'[r] = x
      BY <2>1, <2>2 DEF Write, TypeOK
    <2>5. \A v \in Workers : /\ DOMAIN tx'[v] = DOMAIN tx[v]
                             /\ \A r \in DOMAIN tx[v] : tx'[v][r] = tx[v][r] \/ tx'[v][r] = x
      BY <2>1, <2>2 DEF Write, TypeOK
    <2> QED BY <1>1, <1>6, <2>2, <2>3, <2>4, <2>5 DEF Carries
  <1>8. ASSUME NEW u \in Workers, MarkFailedRead(u) PROVE LeaseInv'
    <2>1. UNCHANGED <<row, tx>> BY <1>8 DEF MarkFailedRead
    <2>2. CASE work' = [work EXCEPT ![u] = RowDone(u)] BY <1>1, <1>2, <1>6, <2>1, <2>2
    <2>3. CASE \E n, st : work' = [work EXCEPT ![u].read = n, ![u].step = st]
      <3>1. \A w \in Workers : work'[w].todo = work[w].todo /\ work'[w].age = work[w].age
        BY <2>3 DEF TypeOK, Work
      <3> QED BY <1>1, <1>2, <2>1, <3>1
    <2> QED BY <1>8, <2>2, <2>3 DEF MarkFailedRead
  <1>9. ASSUME NEW u \in Workers, CommitBatch(u) \/ Abort(u) PROVE LeaseInv'
    <2>1. /\ work'[u] = AtRest /\ DOMAIN tx'[u] = {}
          /\ \A v \in Workers \ {u} : work'[v] = work[v] /\ tx'[v] = tx[v]
      BY <1>9 DEF CommitBatch, Abort, TypeOK, NoChanges
    <2>2. \A r \in Rows : row'[r] = row[r] \/ (r \in DOMAIN tx[u] /\ row'[r] = tx[u][r])
      BY <1>9 DEF CommitBatch, Abort, See
    <2> QED BY <1>1, <2>1, <2>2 DEF Carries, AtRest
  <1>10. ASSUME NEW u \in Workers, RecoverStale(u) PROVE LeaseInv'
    <2>1. \A r \in Rows : Recovered(row[r]).state = "pending" BY RowOps DEF TypeOK
    <2> HIDE DEF Recovered
    <2>2. /\ UNCHANGED <<tx, work>>
          /\ \A r \in Rows : row'[r] = row[r] \/ row'[r].state = "pending"
      BY <1>10, <2>1 DEF RecoverStale
    <2> QED BY <1>1, <2>2 DEF Carries
  <1> QED
    BY <1>3, <1>4, <1>5, <1>7, <1>8, <1>9, <1>10, LeaseClaim, LeaseTick DEF Next, Serve

\* Nothing but a counted failure takes a row from a worker within its time.
LEMMA GraceStep ==
  ASSUME OutboxInv, LeaseInv, Next, NEW w \in Workers \ Relays, NEW r \in Rows,
         r \in work[w].todo, work[w].age <= Lease + Threshold,
         row[r].state = "processing", row'[r].state = "pending"
  PROVE  row'[r].retry > row[r].retry
  <1>1. row'[r] # row[r] /\ row[r] \in Row /\ work[w].age \in Nat
    BY DEF OutboxInv, TypeOK, Work
  <1>2. ASSUME NEW q \in Rows, Emit(q) PROVE FALSE BY <1>1, <1>2 DEF Emit, OutboxInv, TypeOK
  <1>3. ASSUME NEW u \in Workers, Claim(u) PROVE FALSE
    <2>1. row'[r] = Claimed(row[r]) BY <1>1, <1>3 DEF Claim, OutboxInv, TypeOK
    <2> QED BY <2>1, <1>1, RowOps
  <1>4. ASSUME NEW u \in Workers, MarkPublished(u) \/ MarkFailedWrite(u)
        PROVE  row'[r].retry > row[r].retry
    BY <1>1, <1>4, MarkRows
  <1>5. ASSUME NEW u \in Workers, CommitBatch(u) PROVE FALSE BY <1>1, <1>5, CommitRows
  <1>6. ASSUME NEW u \in Workers, RecoverStale(u) PROVE FALSE
    <2>1. row[r].left < -Threshold BY <1>1, <1>6 DEF RecoverStale, Stale
    <2>2. row[r].left \in Int /\ row[r].left >= Lease - work[w].age
      BY DEF LeaseInv, Leases, Leased, Timely
    <2> QED BY <1>1, <2>1, <2>2, LimitsAssumption
  <1>7. ASSUME Tick PROVE FALSE
    <2>1. row'[r] = Older(row[r]) BY <1>7 DEF Tick
    <2> QED BY <2>1, <1>1, RowOps
  <1>8. ASSUME NEW u \in Workers, NEW q \in Rows,
               \/ PublishOk(u, q) \/ PublishFails(u, q) \/ MarkFailedRead(u) \/ Abort(u)
        PROVE  FALSE
    BY <1>1, <1>8 DEF PublishOk, PublishFails, MarkFailedRead, Abort
  <1> QED BY <1>2, <1>3, <1>4, <1>5, <1>6, <1>7, <1>8 DEF Next, Serve

\* A worker without a transaction keeps its rows for its lease and the grace
\* window (claim_pending, recover_stale), whatever other workers and relays do
\* with them: nothing but a counted failure puts one back into the queue.
THEOREM Grace == Spec => GraceKept
  <1>1. Init => LeaseInv BY DEF Init, LeaseInv, Leases, AtRest
  <1>2. OutboxInv /\ LeaseInv /\ [Next]_vars => LeaseInv' BY LeaseNext
  <1>3. OutboxInv /\ LeaseInv /\ [Next]_vars =>
          [\A w \in Workers \ Relays, r \in Rows :
             /\ r \in work[w].todo /\ work[w].age <= Lease + Threshold
             /\ row[r].state = "processing" /\ row'[r].state = "pending"
             => row'[r].retry > row[r].retry]_vars
    BY GraceStep
  <1> QED BY <1>1, <1>2, <1>3, Inductive, PTL DEF Spec, GraceKept

\* The state OutboxPromise gives a row.
Queue(x) == IF x.state \in {"pending", "processing"} THEN "queued" ELSE x.state
status == [r \in Rows |-> IF row[r].state \in {"pending", "processing"}
                            THEN "queued" ELSE row[r].state]

\* Rows that stay queued make no difference to the promise.
LEMMA SameStatus ==
  ASSUME \A r \in Rows : Queue(row'[r]) = Queue(row[r]) PROVE UNCHANGED status
  BY DEF Queue, status

\* Rows that leave the queue are settled in one step of the promise.
LEMMA Settles ==
  ASSUME OutboxInv, UNCHANGED accepted,
         \A r \in Rows :
           \/ Queue(row'[r]) = Queue(row[r])
           \/ /\ Queue(row[r]) = "queued"
              /\ \/ row'[r].state = "published" /\ r \in accepted
                 \/ row'[r].state = "failed"
  PROVE  \E P, F \in SUBSET Rows : Promise!PSettle(P, F)
  <1> DEFINE P == {r \in Rows : row'[r].state = "published" /\ Queue(row[r]) = "queued"}
             F == {r \in Rows : row'[r].state = "failed" /\ Queue(row[r]) = "queued"}
  <1>1. P \in SUBSET Rows /\ F \in SUBSET Rows OBVIOUS
  <1>2. P \subseteq accepted /\ P \cap F = {} BY DEF Queue
  <1>3. status' = [r \in Rows |-> IF r \in P THEN "published"
                                  ELSE IF r \in F THEN "failed" ELSE status[r]]
    BY DEF status, Queue
  <1>4. \A r \in P \cup F : status[r] = "queued" BY DEF status, Queue
  <1> HIDE DEF P, F
  <1> QED BY <1>1, <1>2, <1>3, <1>4 DEF Promise!PSettle, status

\* Every step of the table is a step of the promise, or none.
LEMMA PromiseStep ==
  ASSUME OutboxInv, [Next]_vars
  PROVE  Promise!PNext \/ UNCHANGED <<status, accepted>>
  <1> USE DEF OutboxInv
  <1>1. CASE UNCHANGED vars BY <1>1 DEF vars, status
  <1>2. ASSUME NEW q \in Rows, Emit(q) PROVE Promise!PNext
    <2>1. Promise!PEmit(q) BY <1>2 DEF Emit, Promise!PEmit, TypeOK, Fresh
    <2> QED BY <2>1 DEF Promise!PNext
  <1>3. ASSUME NEW w \in Workers, Claim(w) PROVE UNCHANGED <<status, accepted>>
    <2>1. \A r \in Rows : row[r] \in Row /\
            (row'[r] = row[r] \/ (row[r].state = "pending" /\ row'[r] = Claimed(row[r])))
      BY <1>3 DEF Claim, Available, Due, TypeOK
    <2>2. \A r \in Rows : Queue(row'[r]) = Queue(row[r]) BY <2>1, RowOps DEF Queue
    <2> QED BY <1>3, <2>2, SameStatus DEF Claim
  <1>4. ASSUME NEW w \in Workers, NEW q \in Rows, PublishOk(w, q) PROVE Promise!PNext
    <2>1. Promise!PAccept(q) BY <1>4 DEF PublishOk, Promise!PAccept, Shape, Batch
    <2> QED BY <2>1 DEF Promise!PNext
  <1>5. ASSUME NEW w \in Workers,
               \/ \E q \in Rows : PublishFails(w, q)
               \/ MarkFailedRead(w) \/ Abort(w)
        PROVE  UNCHANGED <<status, accepted>>
    BY <1>5 DEF PublishFails, MarkFailedRead, Abort, status
  <1>6. ASSUME NEW w \in Workers, MarkPublished(w) \/ MarkFailedWrite(w)
        PROVE  Promise!PNext
    <2>1. UNCHANGED accepted BY <1>6 DEF MarkPublished, MarkFailedWrite
    <2> QED BY <1>6, <2>1, MarkRows, Settles DEF Queue, Promise!PNext
  <1>7. ASSUME NEW w \in Workers, CommitBatch(w) PROVE Promise!PNext
    <2>1. UNCHANGED accepted BY <1>7 DEF CommitBatch
    <2>2. row' \in [Rows -> Row] BY <1>7, CommitInv DEF TypeOK
    <2>3. \A r \in Rows :
            \/ Queue(row'[r]) = Queue(row[r])
            \/ /\ Queue(row[r]) = "queued"
               /\ \/ row'[r].state = "published" /\ r \in accepted
                  \/ row'[r].state = "failed"
      BY <1>7, <2>2, CommitRows DEF Queue, Row
    <2> QED BY <2>1, <2>3, Settles DEF Promise!PNext
  <1>8. ASSUME NEW w \in Workers, RecoverStale(w) PROVE UNCHANGED <<status, accepted>>
    <2>1. \A r \in Rows : row[r] \in Row /\
            (row'[r] = row[r] \/ (row[r].state = "processing" /\ row'[r] = Recovered(row[r])))
      BY <1>8 DEF RecoverStale, Stale, TypeOK
    <2>2. \A r \in Rows : Queue(row'[r]) = Queue(row[r]) BY <2>1, RowOps DEF Queue
    <2> QED BY <1>8, <2>2, SameStatus DEF RecoverStale
  <1>9. ASSUME Tick PROVE UNCHANGED <<status, accepted>>
    <2>1. \A r \in Rows : row[r] \in Row /\ row'[r] = Older(row[r])
      BY <1>9 DEF Tick, TypeOK
    <2>2. \A r \in Rows : Queue(row'[r]) = Queue(row[r]) BY <2>1, RowOps DEF Queue
    <2> QED BY <1>9, <2>2, SameStatus DEF Tick
  <1> QED BY <1>1, <1>2, <1>3, <1>4, <1>5, <1>6, <1>7, <1>8, <1>9 DEF Next, Serve

\* The outbox keeps its promise: an event enters once, is published only after a
\* publish call reported Ok, and 'published' and 'failed' are final, even when a
\* worker whose lease ran out marks the row late.
THEOREM Refines == Spec => PromiseSpec
  <1>1. Init => Promise!PInit
    BY DEF Init, Promise!PInit, Fresh
  <1>2. OutboxInv /\ [Next]_vars => [Promise!PNext]_<<status, accepted>>
    BY PromiseStep
  <1> QED BY <1>1, <1>2, Inductive, PTL DEF Spec, PromiseSpec, Promise!PSpec, status

\* What the promise is worth to a consumer: an outcome is final.
OutcomesFinal ==
  [][\A r \in Rows : status[r] \in {"published", "failed"} => status'[r] = status[r]]_
      <<status, accepted>>

\* Whatever keeps the promise publishes only what the publisher accepted, and
\* never takes an outcome back (mark_published, mark_failed).
THEOREM PromiseSettles == PromiseSpec => []PublishedAccepted /\ OutcomesFinal
  <1> DEFINE Sound == \A r \in Rows : status[r] = "published" => r \in accepted
  <1>1. Promise!PInit => Sound BY DEF Promise!PInit, status
  <1>2. ASSUME Sound, [Promise!PNext]_<<status, accepted>>
        PROVE  Sound' /\ \A r \in Rows :
                 status[r] \in {"published", "failed"} => status'[r] = status[r]
    <2> HIDE DEF status
    <2>1. CASE UNCHANGED <<status, accepted>> BY <1>2, <2>1
    <2>2. ASSUME NEW q \in Rows, Promise!PEmit(q) \/ Promise!PAccept(q)
          PROVE  Sound' /\ \A r \in Rows :
                   status[r] \in {"published", "failed"} => status'[r] = status[r]
      BY <1>2, <2>2 DEF Promise!PEmit, Promise!PAccept, status
    <2>3. ASSUME NEW P \in SUBSET Rows, NEW F \in SUBSET Rows, Promise!PSettle(P, F)
          PROVE  Sound' /\ \A r \in Rows :
                   status[r] \in {"published", "failed"} => status'[r] = status[r]
      BY <1>2, <2>3 DEF Promise!PSettle, status
    <2> QED BY <1>2, <2>1, <2>2, <2>3 DEF Promise!PNext, status
  <1>3. Sound => PublishedAccepted BY DEF PublishedAccepted, status
  <1> QED BY <1>1, <1>2, <1>3, PTL DEF PromiseSpec, Promise!PSpec, OutcomesFinal, status
=============================================================================
