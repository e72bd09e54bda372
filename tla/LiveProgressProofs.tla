------------------------- MODULE LiveProgressProofs -------------------------
(***************************************************************************)
(* Proofs about the backfill of LiveMigrate and about what a reader of the *)
(* plan's row sees, for any terminals, daemons, tables, plans, chunk sizes *)
(* and bounds: while chunk loops have not overlapped, the row's count is   *)
(* never ahead of the table, and a loop mistakes the end for a stuck       *)
(* predicate only when every chunk was full; overlapping or not, a loop    *)
(* comes nearer to its end; and the row keeps what LivePromise says.       *)
(***************************************************************************)
EXTENDS LiveProofs

\* Rows converted so far; a number of full chunks.
Converted == Cardinality(table \ todo)
Full(n) == \E k \in Nat : n = k * ChunkSize

\* A chunk loop counts converted rows, and goes on only after full chunks.
Counting(p) ==
  /\ Loops(p) => /\ proc[p].total <= Converted
                 /\ proc[p].first \/ Full(Converted)
  /\ proc[p].pc = "commit" =>
       /\ proc[p].pick \subseteq todo /\ Cardinality(proc[p].pick) <= ChunkSize
       /\ Cardinality(proc[p].pick) < ChunkSize => proc[p].pick = todo

\* One loop runs at a time, and what it counts is what the table has: chunks
\* that commit, each full but the one that takes the last rows.
Alone ==
  /\ row.done <= Converted /\ (todo # {} => Full(Converted))
  /\ \A p \in Procs : Counting(p)
  /\ \A p, q \in Procs : Loops(p) /\ Loops(q) => p = q

\* The inductive invariant.
ProgressInv == LiveInv /\ (~crowded => Alone)

-----------------------------------------------------------------------------
(* Counting rows.                                                           *)

LEMMA TakenRows ==
  ASSUME NEW A, NEW K, NEW U, IsFiniteSet(A), IsFiniteSet(K), A \cap K = {}, U = A \cup K
  PROVE  /\ Cardinality(A) \in Nat /\ Cardinality(K) \in Nat
         /\ Cardinality(U) = Cardinality(A) + Cardinality(K)
  <1>1. Cardinality(U) = Cardinality(A) + Cardinality(K) - Cardinality(A \cap K)
    BY FS_Union
  <1>2. Cardinality(A \cap K) = 0 BY FS_EmptySet
  <1>3. Cardinality(A) \in Nat /\ Cardinality(K) \in Nat BY FS_CardinalityType
  <1> QED BY <1>1, <1>2, <1>3

LEMMA FiniteRows ==
  ASSUME TypeOK
  PROVE  IsFiniteSet(table) /\ IsFiniteSet(todo) /\ Converted \in Nat
  <1>1. IsFiniteSet(table) /\ IsFiniteSet(todo) /\ IsFiniteSet(table \ todo)
    BY ChunkAssumption, FS_Subset DEF TypeOK
  <1> QED BY <1>1, FS_CardinalityType DEF Converted

LEMMA FullFacts ==
  /\ Full(0)
  /\ \A n \in Nat : Full(n) => Full(n + ChunkSize)
  /\ \A n \in Nat : Full(n) => n % ChunkSize = 0
  <1>1. Full(0)
    <2>1. 0 = 0 * ChunkSize BY ChunkAssumption
    <2> QED BY <2>1 DEF Full
  <1>2. ASSUME NEW n \in Nat, Full(n) PROVE Full(n + ChunkSize) /\ n % ChunkSize = 0
    <2>1. PICK k \in Nat : n = k * ChunkSize BY <1>2 DEF Full
    <2>2. n + ChunkSize = (k + 1) * ChunkSize BY <2>1, ChunkAssumption
    <2>3. k + 1 \in Nat OBVIOUS
    <2>4. Full(n + ChunkSize) BY <2>2, <2>3 DEF Full
    <2>5. n % ChunkSize = 0 BY <2>1, ChunkAssumption
    <2> QED BY <2>4, <2>5
  <1> QED BY <1>1, <1>2

-----------------------------------------------------------------------------
(* Steps.                                                                   *)

LEMMA InitAlone == Init => Alone
  <1> SUFFICES ASSUME Init PROVE Alone OBVIOUS
  <1>1. row.done = 0 /\ \A p \in Procs : proc[p].pc = "off"
    BY DEF Init, Idle, Starting
  <1>2. LiveInv BY InitInv
  <1>3. Converted \in Nat BY <1>2, FiniteRows DEF LiveInv
  <1>4. ASSUME todo # {} PROVE Full(Converted)
    <2>1. todo = table BY <1>4 DEF Init
    <2>2. table \ todo = {} BY <2>1
    <2>3. Converted = 0 BY <2>2, FS_EmptySet DEF Converted
    <2> QED BY <2>3, FullFacts
  <1> QED BY <1>1, <1>3, <1>4 DEF Alone, Counting, Loops

\* A step of a process that is not in a chunk loop afterwards counts nothing.
LEMMA Quiet ==
  ASSUME Alone, proc \in [Procs -> Process], NEW p \in Procs, NEW r,
         proc' = [proc EXCEPT ![p] = r], r.pc \notin {"chunk", "commit"},
         UNCHANGED <<table, todo>>, row'.done = row.done
  PROVE  Alone'
  <1>1. \A q \in Procs : proc'[q] = IF q = p THEN r ELSE proc[q] OBVIOUS
  <1>2. Converted' = Converted BY DEF Converted
  <1>3. \A q \in Procs : Counting(q)'
    BY <1>1, <1>2 DEF Alone, Counting, Loops
  <1>4. \A q, u \in Procs : Loops(q)' /\ Loops(u)' => q = u BY <1>1 DEF Alone, Loops
  <1> QED BY <1>2, <1>3, <1>4 DEF Alone

\* A process that moves or leaves its work has the program counter it goes to.
LEMMA MoveRecord ==
  ASSUME proc \in [Procs -> Process], NEW p \in Procs, NEW pc, Goto(p, pc) \/ Leave(p, pc)
  PROVE  \E r : proc' = [proc EXCEPT ![p] = r] /\ r.pc = pc
  <1>1. CASE Goto(p, pc)
    <2>1. PICK r : r = [proc[p] EXCEPT !.pc = pc] OBVIOUS
    <2>2. r.pc = pc BY <2>1 DEF Process
    <2> QED BY <1>1, <2>1, <2>2 DEF Goto
  <1>2. CASE Leave(p, pc)
    <2>1. PICK r : r = [Starting(pc, 0, FALSE) EXCEPT !.cut = proc[p].cut] OBVIOUS
    <2>2. r.pc = pc BY <2>1 DEF Starting
    <2> QED BY <1>2, <2>1, <2>2 DEF Leave
  <1> QED BY <1>1, <1>2

LEMMA QuietMove ==
  ASSUME Alone, proc \in [Procs -> Process], NEW p \in Procs, NEW pc,
         Goto(p, pc) \/ Leave(p, pc), pc \notin {"chunk", "commit"},
         UNCHANGED <<table, todo>>, row'.done = row.done
  PROVE  Alone'
  <1>1. PICK r : proc' = [proc EXCEPT ![p] = r] /\ r.pc = pc BY MoveRecord
  <1> QED BY <1>1, Quiet

\* A daemon whose session drops counts on.
LEMMA CutRecord ==
  ASSUME LiveInv, NEW d \in Daemons, LoseLock(d)
  PROVE  /\ d \in Procs /\ UNCHANGED <<plan, table, todo, applied, row, crowded>>
         /\ \E r : /\ proc' = [proc EXCEPT ![d] = r]
                  /\ r.pc = proc[d].pc /\ r.at = proc[d].at /\ r.total = proc[d].total
                  /\ r.first = proc[d].first /\ r.pick = proc[d].pick
  <1>1. PICK r : r = [proc[d] EXCEPT !.cut = TRUE] OBVIOUS
  <1>2. d \in Procs /\ proc[d] \in Process BY DEF LiveInv, TypeOK, Procs
  <1>3. /\ r.pc = proc[d].pc /\ r.at = proc[d].at /\ r.total = proc[d].total
        /\ r.first = proc[d].first /\ r.pick = proc[d].pick
    BY <1>1, <1>2 DEF Process
  <1> QED BY <1>1, <1>2, <1>3 DEF LoseLock, Frozen

LEMMA CutAlone ==
  ASSUME LiveInv, Alone, NEW d \in Daemons, LoseLock(d)
  PROVE  Alone'
  <1>1. d \in Procs /\ UNCHANGED <<table, todo, row>> /\ proc \in [Procs -> Process]
    BY CutRecord DEF LiveInv, TypeOK
  <1>2. PICK r : /\ proc' = [proc EXCEPT ![d] = r]
                 /\ r.pc = proc[d].pc /\ r.total = proc[d].total
                 /\ r.first = proc[d].first /\ r.pick = proc[d].pick
    BY CutRecord
  <1>3. \A q \in Procs : proc'[q] = IF q = d THEN r ELSE proc[q] BY <1>1, <1>2
  <1>4. Converted' = Converted BY <1>1 DEF Converted
  <1>5. \A q \in Procs : Loops(q)' <=> Loops(q) BY <1>2, <1>3 DEF Loops
  <1>6. \A q \in Procs : Counting(q)'
    BY <1>1, <1>2, <1>3, <1>4, <1>5 DEF Alone, Counting
  <1> QED BY <1>1, <1>4, <1>5, <1>6 DEF Alone

\* drive_chunks begins with what the row says, or from nothing.
LEMMA EnterAlone ==
  ASSUME LiveInv, NEW p \in Procs, EnterLoop(p), ~crowded', Alone
  PROVE  Alone'
  <1>1. TypeOK /\ proc \in [Procs -> Process] /\ row \in Row /\ proc[p] \in Process
    BY DEF LiveInv, TypeOK
  <1>2. UNCHANGED <<table, todo, row>> BY DEF EnterLoop, Frozen
  <1>3. CASE Leave(p, "fail") BY <1>1, <1>2, <1>3, QuietMove
  <1>4. CASE /\ proc' = [proc EXCEPT ![p].pc = "chunk", ![p].first = TRUE,
                           ![p].total = IF proc[p].resume THEN row.done ELSE 0]
             /\ crowded' = (crowded \/ \E q \in Procs \ {p} : Loops(q))
    <2>1. PICK r : r = [proc[p] EXCEPT !.pc = "chunk", !.first = TRUE,
                          !.total = IF proc[p].resume THEN row.done ELSE 0]
      OBVIOUS
    <2>2. r.pc = "chunk" /\ r.first /\ r.total \in {row.done, 0}
      BY <1>1, <2>1 DEF Process
    <2>3. \A q \in Procs : proc'[q] = IF q = p THEN r ELSE proc[q]
      BY <1>1, <1>4, <2>1
    <2>4. \A q \in Procs \ {p} : ~Loops(q) BY <1>4
    <2>5. Converted' = Converted /\ Converted \in Nat
      BY <1>1, <1>2, FiniteRows DEF Converted
    <2>6. r.total <= Converted BY <2>2, <2>5 DEF Alone
    <2>7. Counting(p)' BY <2>2, <2>3, <2>5, <2>6 DEF Counting
    <2>8. \A q \in Procs \ {p} : Counting(q)' /\ ~Loops(q)'
      BY <2>3, <2>4 DEF Counting, Loops
    <2>9. row.done <= Converted /\ (todo # {} => Full(Converted)) BY DEF Alone
    <2> QED BY <1>2, <2>5, <2>7, <2>8, <2>9 DEF Alone
  <1> QED BY <1>3, <1>4 DEF EnterLoop

\* The UPDATE of a chunk takes full chunks as long as there are enough rows.
LEMMA ChunkAlone ==
  ASSUME LiveInv, NEW p \in Procs, Chunk(p), Alone
  PROVE  Alone'
  <1>1. proc \in [Procs -> Process] /\ proc[p] \in Process /\ proc[p].pc = "chunk"
        /\ UNCHANGED <<table, todo, row>>
    BY DEF LiveInv, TypeOK, Chunk, Frozen
  <1>2. PICK S \in SUBSET todo :
          /\ Cardinality(S) <= ChunkSize /\ (Cardinality(S) < ChunkSize => S = todo)
          /\ proc' = [proc EXCEPT ![p].pc = "commit", ![p].pick = S]
    BY DEF Chunk
  <1>3. PICK r : r = [proc[p] EXCEPT !.pc = "commit", !.pick = S] OBVIOUS
  <1>4. /\ r.pc = "commit" /\ r.pick = S /\ r.total = proc[p].total
        /\ r.first = proc[p].first
    BY <1>1, <1>3 DEF Process
  <1>5. \A q \in Procs : proc'[q] = IF q = p THEN r ELSE proc[q] BY <1>1, <1>2, <1>3
  <1>6. Converted' = Converted BY <1>1 DEF Converted
  <1>7. Counting(p) /\ Loops(p) BY <1>1 DEF Alone, Loops
  <1>8. Counting(p)' BY <1>1, <1>2, <1>4, <1>5, <1>6, <1>7 DEF Counting
  <1>9. \A q \in Procs \ {p} : ~Loops(q) BY <1>7 DEF Alone
  <1>10. \A q \in Procs \ {p} : Counting(q)' /\ ~Loops(q)'
    BY <1>5, <1>9 DEF Counting, Loops
  <1> QED BY <1>1, <1>6, <1>8, <1>10 DEF Alone

\* Rows and count are one transaction.
LEMMA CommitAlone ==
  ASSUME LiveInv, NEW p \in Procs, Commit(p), Alone
  PROVE  Alone'
  <1>1. TypeOK /\ proc \in [Procs -> Process] /\ proc[p] \in Process /\ row \in Row
        /\ proc[p].pc = "commit" /\ table' = table /\ todo \subseteq table
    BY DEF LiveInv, TypeOK, Commit, CommitWith, Frozen
  <1>2. PICK K, n : K = proc[p].pick /\ n = Cardinality(K) OBVIOUS
  <1>3. /\ row' = [row EXCEPT !.done = proc[p].total + n, !.fresh = TRUE,
                     !.status = IF n < ChunkSize THEN "validating" ELSE @]
        /\ AfterChunk(p, n) /\ todo' = todo \ K
    BY <1>2 DEF Commit, CommitWith
  <1>4. Counting(p) /\ Loops(p) BY <1>1 DEF Alone, Loops
  <1>5. /\ K \subseteq todo /\ n <= ChunkSize /\ (n < ChunkSize => K = todo)
        /\ proc[p].total <= Converted /\ (proc[p].first \/ Full(Converted))
    BY <1>1, <1>2, <1>4 DEF Counting
  <1>6. n \in Nat /\ Converted \in Nat /\ Converted' = Converted + n
    <2>1. PICK A, U : A = table \ todo /\ U = table' \ todo' OBVIOUS
    <2>2. IsFiniteSet(A) /\ IsFiniteSet(K)
      BY <1>1, <1>5, <2>1, FiniteRows, FS_Subset
    <2>3. A \cap K = {} /\ U = A \cup K BY <1>1, <1>3, <1>5, <2>1
    <2>4. Cardinality(A) \in Nat /\ n \in Nat /\ Cardinality(U) = Cardinality(A) + n
      BY <1>2, <2>2, <2>3, TakenRows
    <2> QED BY <2>1, <2>4 DEF Converted
  <1>7. proc[p].total \in Nat /\ ChunkSize \in Nat \ {0}
    BY <1>1, ChunkAssumption DEF Process
  <1>8. row'.done = proc[p].total + n BY <1>1, <1>3 DEF Row
  <1>9. row'.done <= Converted' BY <1>5, <1>6, <1>7, <1>8
  <1>10. ASSUME n = ChunkSize PROVE Full(Converted')
    <2>1. n # 0 BY <1>7, <1>10
    <2>2. K # {} BY <1>2, <2>1, FS_EmptySet
    <2>3. Full(Converted) BY <1>5, <2>2 DEF Alone
    <2> QED BY <1>6, <1>10, <2>3, FullFacts
  <1>11. todo' # {} => n = ChunkSize BY <1>3, <1>5, <1>6, <1>7
  <1>12. \A q \in Procs \ {p} : ~Loops(q) BY <1>4 DEF Alone
  <1>13. CASE n = ChunkSize
    <2>1. n # 0 /\ ~(n < ChunkSize) BY <1>7, <1>13
    <2>2. PICK r : r = [proc[p] EXCEPT !.pc = "chunk", !.first = FALSE, !.total = @ + n,
                                       !.pick = {}]
      OBVIOUS
    <2>3. proc' = [proc EXCEPT ![p] = r]
      BY <1>3, <2>1, <2>2 DEF AfterChunk
    <2>4. r.pc = "chunk" /\ r.total = proc[p].total + n BY <1>1, <2>2 DEF Process
    <2>5. \A q \in Procs : proc'[q] = IF q = p THEN r ELSE proc[q] BY <1>1, <2>3
    <2>6. Counting(p)'
      BY <1>8, <1>9, <1>10, <1>13, <2>4, <2>5 DEF Counting
    <2>7. \A q \in Procs \ {p} : Counting(q)' /\ ~Loops(q)'
      BY <1>12, <2>5 DEF Counting, Loops
    <2> QED BY <1>9, <1>10, <1>13, <2>6, <2>7 DEF Alone
  <1>14. CASE n # ChunkSize
    <2>1. n < ChunkSize BY <1>5, <1>6, <1>7, <1>14
    <2>2. \E r : proc' = [proc EXCEPT ![p] = r] /\ r.pc \notin {"chunk", "commit"}
      <3>1. ASSUME NEW pc \in {"fail", "clear"}, Leave(p, pc)
            PROVE  \E r : proc' = [proc EXCEPT ![p] = r] /\ r.pc \notin {"chunk", "commit"}
        BY <1>1, <3>1, MoveRecord
      <3>2. CASE Advance(p)
        <4>1. PICK r : r = Starting("point", proc[p].at + 1, proc[p].resume) OBVIOUS
        <4>2. r.pc = "point" BY <4>1 DEF Starting
        <4>3. proc' = [proc EXCEPT ![p] = r] BY <3>2, <4>1 DEF Advance
        <4> QED BY <4>2, <4>3
      <3> QED BY <1>3, <2>1, <3>1, <3>2 DEF AfterChunk
    <2>3. PICK r : proc' = [proc EXCEPT ![p] = r] /\ r.pc \notin {"chunk", "commit"}
      BY <2>2
    <2>4. \A q \in Procs : proc'[q] = IF q = p THEN r ELSE proc[q] BY <1>1, <2>3
    <2>5. \A q \in Procs : ~Loops(q)' /\ Counting(q)'
      BY <1>12, <2>3, <2>4 DEF Counting, Loops
    <2> QED BY <1>9, <1>11, <1>14, <2>5 DEF Alone
  <1> QED BY <1>13, <1>14

\* Every other step.
LEMMA OtherAlone ==
  ASSUME LiveInv, Alone, NEW p \in Procs,
         \/ AskAbandon(p) \/ (\E cmd \in {"run", "resume", "finalize"} : Walk(p, cmd))
         \/ Abandon(p) \/ Point(p) \/ Ddl(p) \/ BadStep(p) \/ Compatibility(p) \/ Gate(p)
         \/ Fail(p) \/ Stamp(p) \/ Finish(p) \/ BadChunk(p) \/ Crash(p)
         \/ Poll(p) \/ TryLock(p) \/ Claim(p) \/ ClearClaim(p) \/ Unlock(p) \/ BadPoll(p)
  PROVE  Alone'
  <1>1. proc \in [Procs -> Process] /\ proc[p] \in Process /\ row \in Row
    BY DEF LiveInv, TypeOK
  <1>2. UNCHANGED <<table, todo>>
    BY DEF AskAbandon, Walk, Abandon, Point, Ddl, BadStep, Compatibility, Gate, Fail, Stamp,
           Finish, BadChunk, Crash, LoseLock, Poll, TryLock, Claim, ClearClaim, Unlock,
           BadPoll, Frozen
  <1>3. row'.done = row.done
    BY <1>1 DEF AskAbandon, Walk, Abandon, Point, Ddl, BadStep, Compatibility, Gate, Fail,
           Stamp, Finish, BadChunk, Crash, LoseLock, Poll, TryLock, Claim, ClearClaim, Unlock,
           BadPoll, SetStatus, Row
  <1>4. ASSUME NEW r, proc' = [proc EXCEPT ![p] = r], r.pc \notin {"chunk", "commit"}
        PROVE  Alone'
    BY <1>1, <1>2, <1>3, <1>4, Quiet
  <1>5. ASSUME NEW pc, Goto(p, pc) \/ Leave(p, pc), pc \notin {"chunk", "commit"} PROVE Alone'
    BY <1>1, <1>2, <1>3, <1>5, QuietMove
  <1>6. CASE \/ AskAbandon(p) \/ (\E cmd \in {"run", "resume", "finalize"} : Walk(p, cmd))
             \/ Poll(p) \/ Unlock(p) \/ Crash(p) \/ Compatibility(p)
    BY <1>4, <1>6 DEF AskAbandon, Walk, Poll, Unlock, Crash, Compatibility, Advance, Idle,
                      Starting
  <1>7. CASE \/ Abandon(p) \/ Point(p) \/ BadStep(p) \/ BadChunk(p) \/ Gate(p) \/ Fail(p)
             \/ Stamp(p) \/ Finish(p) \/ TryLock(p) \/ ClearClaim(p) \/ BadPoll(p)
    BY <1>5, <1>7 DEF Abandon, Point, BadStep, BadChunk, Gate, Fail, Stamp, Finish,
                      TryLock, ClearClaim, BadPoll
  <1>8. CASE Ddl(p)
    <2>1. CASE Advance(p) BY <1>4, <2>1 DEF Advance, Starting
    <2> QED BY <1>5, <1>8, <2>1 DEF Ddl
  <1>9. CASE Claim(p)
    <2>1. CASE Leave(p, "unlock") BY <1>5, <2>1
    <2>2. CASE proc' = [proc EXCEPT ![p].resume = TRUE, ![p].pc =
                          IF Kind(proc[p].at) = "backfill_chunked"
                            THEN "resume" ELSE "clear"]
      <3>1. PICK r : r = [proc[p] EXCEPT !.resume = TRUE, !.pc =
                            IF Kind(proc[p].at) = "backfill_chunked"
                              THEN "resume" ELSE "clear"]
        OBVIOUS
      <3>2. r.pc \in {"resume", "clear"} BY <1>1, <3>1 DEF Process
      <3>3. proc' = [proc EXCEPT ![p] = r] BY <2>2, <3>1
      <3> QED BY <1>4, <3>2, <3>3
    <2> QED BY <1>9, <2>1, <2>2 DEF Claim
  <1> QED BY <1>6, <1>7, <1>8, <1>9

LEMMA NextAlone == ProgressInv /\ [Next]_vars => ProgressInv'
  <1> SUFFICES ASSUME ProgressInv, [Next]_vars PROVE ProgressInv' OBVIOUS
  <1>1. LiveInv /\ LiveInv' BY NextInv DEF ProgressInv
  <1>2. crowded \in BOOLEAN /\ row \in Row BY <1>1 DEF LiveInv, TypeOK
  <1> SUFFICES ASSUME ~crowded' PROVE Alone'
    BY <1>1 DEF ProgressInv
  <1>3. ~crowded
    BY DEF Next, CliStep, Operator, DaemonStep, Fault, Age, AskAbandon, Walk, Abandon, Point,
           Ddl, BadStep, Compatibility, Gate, Fail, Stamp, Finish, EnterLoop, Chunk, Commit,
           CommitWith, BadChunk, Crash, LoseLock, Poll, TryLock, Claim, ClearClaim, Unlock,
           BadPoll, Counts, vars
  <1>4. Alone BY <1>3 DEF ProgressInv
  <1>5. ASSUME NEW p \in Procs, EnterLoop(p) \/ Chunk(p) \/ Commit(p) PROVE Alone'
    BY <1>1, <1>4, <1>5, EnterAlone, ChunkAlone, CommitAlone
  <1>6. ASSUME NEW c \in Clis, CliStep(c) \/ Operator(c) PROVE Alone'
    BY <1>1, <1>4, <1>5, <1>6, OtherAlone DEF CliStep, Operator, Procs
  <1>7. ASSUME NEW d \in Daemons, DaemonStep(d) PROVE Alone'
    BY <1>1, <1>4, <1>5, <1>7, OtherAlone DEF DaemonStep, Procs
  <1>8. CASE Fault BY <1>1, <1>4, <1>8, OtherAlone, CutAlone DEF Fault, Procs
  <1>9. CASE Age \/ UNCHANGED vars
    <2>1. UNCHANGED <<table, todo, proc>> /\ row'.done = row.done
      BY <1>2, <1>9 DEF Age, vars, Frozen, Row
    <2> QED BY <1>4, <2>1 DEF Alone, Counting, Loops, Converted
  <1> QED BY <1>6, <1>7, <1>8, <1>9 DEF Next

-----------------------------------------------------------------------------
(* The theorems.                                                            *)

\* The inductive invariant holds throughout: a chunk loop alone on its table
\* (drive_chunks) counts rows that are converted, in full chunks until the last.
THEOREM CountingSound == Spec => []ProgressInv
  <1>1. Init => ProgressInv BY InitInv, InitAlone DEF ProgressInv
  <1> QED BY <1>1, NextAlone, PTL DEF Spec

\* A chunk's rows and its count commit together (run_one_chunk), and a resume
\* goes on from the row's count: rows_processed is never ahead of the table, while
\* loops have not overlapped.
THEOREM ProgressIsHonest == Spec => []ProgressHonest
  <1>1. ProgressInv => ProgressHonest
    BY DEF ProgressInv, Alone, ProgressHonest, Converted
  <1> QED BY <1>1, CountingSound, PTL

\* The empty chunk drive_chunks takes for a stuck predicate is, for a loop alone
\* on its table, only ever the end of a table of full chunks.
THEOREM StuckAtMultiples == Spec => []StuckOnlyAtMultiple
  <1>1. ASSUME ProgressInv PROVE StuckOnlyAtMultiple
    <2> SUFFICES ASSUME NEW p \in Procs, proc[p].pc = "commit", proc[p].pick = {},
                        ~proc[p].first, ~crowded
                 PROVE  Cardinality(table) % ChunkSize = 0
      BY <1>1 DEF StuckOnlyAtMultiple, ProgressInv, LiveInv, TypeOK
    <2>1. Counting(p) /\ Loops(p) /\ TypeOK
      BY <1>1 DEF ProgressInv, Alone, Loops, LiveInv
    <2>2. Cardinality(proc[p].pick) = 0 BY FS_EmptySet
    <2>3. 0 < ChunkSize BY ChunkAssumption
    <2>4. todo = {} /\ Full(Converted) BY <2>1, <2>2, <2>3 DEF Counting
    <2>5. table \ todo = table BY <2>4
    <2>6. Converted = Cardinality(table) /\ Converted \in Nat
      BY <2>1, <2>5, FiniteRows DEF Converted
    <2> QED BY <2>4, <2>6, FullFacts
  <1> QED BY <1>1, CountingSound, PTL

-----------------------------------------------------------------------------
(* What a chunk loop works on, alone or not.                                *)

\* A chunk loop is at a backfill step, and a chunk holds what a chunk may hold.
\* LiveInv says the first of terminals only; a daemon works at the step its
\* SELECT saw.
Turning(p) ==
  /\ Loops(p) \/ proc[p].pc = "resume" => Kind(proc[p].at) = "backfill_chunked"
  /\ proc[p].pc = "commit" => Cardinality(proc[p].pick) <= ChunkSize
TurnInv == LiveInv /\ \A p \in Procs : Turning(p)

LEMMA TurnFrame ==
  ASSUME TurnInv, LiveInv', plan' = plan, NEW p \in Procs, NEW r,
         proc' = [proc EXCEPT ![p] = r],
         r.pc \in {"chunk", "commit", "resume"} => Kind(r.at) = "backfill_chunked",
         r.pc = "commit" => Cardinality(r.pick) <= ChunkSize
  PROVE  TurnInv'
  <1>1. \A q \in Procs : proc'[q] = IF q = p THEN r ELSE proc[q]
    BY DEF TurnInv, LiveInv, TypeOK
  <1>2. \A q \in Procs : Turning(q)' BY <1>1 DEF TurnInv, Turning, Loops, Kind
  <1> QED BY <1>2 DEF TurnInv

LEMMA TurnMove ==
  ASSUME TurnInv, LiveInv', plan' = plan, NEW p \in Procs, NEW pc,
         Goto(p, pc) \/ Leave(p, pc), pc \notin {"chunk", "commit", "resume"}
  PROVE  TurnInv'
  <1>1. PICK r : proc' = [proc EXCEPT ![p] = r] /\ r.pc = pc
    BY MoveRecord DEF TurnInv, LiveInv, TypeOK
  <1> QED BY <1>1, TurnFrame

LEMMA CutTurns ==
  ASSUME TurnInv, LiveInv', NEW d \in Daemons, LoseLock(d)
  PROVE  TurnInv'
  <1>1. PICK r : /\ proc' = [proc EXCEPT ![d] = r] /\ r.pc = proc[d].pc
                 /\ r.at = proc[d].at /\ r.pick = proc[d].pick
    BY CutRecord DEF TurnInv
  <1>2. d \in Procs /\ plan' = plan /\ Turning(d) BY CutRecord DEF TurnInv, Procs
  <1> QED BY <1>1, <1>2, TurnFrame DEF Turning, Loops

\* A loop is entered at a backfill step, and a chunk taken with a limit.
LEMMA LoopTurns ==
  ASSUME TurnInv, LiveInv', NEW p \in Procs, EnterLoop(p) \/ Chunk(p)
  PROVE  TurnInv'
  <1>1. proc \in [Procs -> Process] /\ proc[p] \in Process /\ plan' = plan /\ Turning(p)
    BY DEF TurnInv, LiveInv, TypeOK, EnterLoop, Chunk, Frozen
  <1>2. CASE Leave(p, "fail") BY <1>1, <1>2, TurnMove
  <1>3. CASE EnterLoop(p) /\ ~Leave(p, "fail")
    <2>1. PICK r : r = [proc[p] EXCEPT !.pc = "chunk", !.first = TRUE,
                          !.total = IF proc[p].resume THEN row.done ELSE 0]
      OBVIOUS
    <2>2. r.pc = "chunk" /\ r.at = proc[p].at BY <1>1, <2>1 DEF Process
    <2>3. proc' = [proc EXCEPT ![p] = r] BY <1>3, <2>1 DEF EnterLoop
    <2>4. Kind(proc[p].at) = "backfill_chunked" BY <1>1, <1>3 DEF EnterLoop, AtBackfill, Turning
    <2> QED BY <1>1, <2>2, <2>3, <2>4, TurnFrame
  <1>4. CASE Chunk(p)
    <2>1. PICK S \in SUBSET todo :
            /\ Cardinality(S) <= ChunkSize
            /\ proc' = [proc EXCEPT ![p].pc = "commit", ![p].pick = S]
      BY <1>4 DEF Chunk
    <2>2. PICK r : r = [proc[p] EXCEPT !.pc = "commit", !.pick = S] OBVIOUS
    <2>3. r.pc = "commit" /\ r.at = proc[p].at /\ r.pick = S BY <1>1, <2>2 DEF Process
    <2>4. proc' = [proc EXCEPT ![p] = r] BY <2>1, <2>2
    <2>5. Kind(proc[p].at) = "backfill_chunked" BY <1>1, <1>4 DEF Chunk, Loops, Turning
    <2>6. Kind(r.at) = "backfill_chunked" /\ Cardinality(r.pick) <= ChunkSize
      BY <2>1, <2>3, <2>5
    <2> QED BY <1>1, <2>4, <2>6, TurnFrame
  <1> QED BY <1>2, <1>3, <1>4

\* A loop that goes on stays at its step.
LEMMA CommitTurns ==
  ASSUME TurnInv, LiveInv', NEW p \in Procs, Commit(p)
  PROVE  TurnInv'
  <1>1. proc \in [Procs -> Process] /\ proc[p] \in Process /\ plan' = plan
        /\ Turning(p) /\ proc[p].pc = "commit"
    BY DEF TurnInv, LiveInv, TypeOK, Commit, CommitWith, Frozen
  <1>2. PICK n : n = Cardinality(proc[p].pick) /\ AfterChunk(p, n) BY DEF Commit, CommitWith
  <1>3. CASE Leave(p, "fail") \/ Leave(p, "clear") BY <1>1, <1>3, TurnMove
  <1>4. CASE Advance(p)
    <2>1. PICK r : r = Starting("point", proc[p].at + 1, proc[p].resume) OBVIOUS
    <2> QED BY <1>1, <1>4, <2>1, TurnFrame DEF Advance, Starting
  <1>5. CASE proc' = [proc EXCEPT ![p].pc = "chunk", ![p].first = FALSE,
                                  ![p].total = @ + n, ![p].pick = {}]
    <2>1. PICK r : r = [proc[p] EXCEPT !.pc = "chunk", !.first = FALSE, !.total = @ + n,
                                       !.pick = {}]
      OBVIOUS
    <2>2. r.pc = "chunk" /\ r.at = proc[p].at BY <1>1, <2>1 DEF Process
    <2>3. proc' = [proc EXCEPT ![p] = r] BY <1>5, <2>1
    <2>4. Kind(proc[p].at) = "backfill_chunked" BY <1>1 DEF Loops, Turning
    <2> QED BY <1>1, <2>2, <2>3, <2>4, TurnFrame
  <1> QED BY <1>2, <1>3, <1>4, <1>5 DEF AfterChunk

\* Every other step.
LEMMA OtherTurns ==
  ASSUME TurnInv, LiveInv', NEW p \in Procs,
         \/ AskAbandon(p) \/ (\E cmd \in {"run", "resume", "finalize"} : Walk(p, cmd))
         \/ Abandon(p) \/ Point(p) \/ Ddl(p) \/ BadStep(p) \/ Compatibility(p) \/ Gate(p)
         \/ Fail(p) \/ Stamp(p) \/ Finish(p) \/ BadChunk(p) \/ Crash(p)
         \/ Poll(p) \/ TryLock(p) \/ Claim(p) \/ ClearClaim(p) \/ Unlock(p) \/ BadPoll(p)
  PROVE  TurnInv'
  <1>1. proc \in [Procs -> Process] /\ proc[p] \in Process
    BY DEF TurnInv, LiveInv, TypeOK
  <1>2. plan' = plan
    BY DEF AskAbandon, Walk, Abandon, Point, Ddl, BadStep, Compatibility, Gate, Fail, Stamp,
           Finish, BadChunk, Crash, LoseLock, Poll, TryLock, Claim, ClearClaim, Unlock,
           BadPoll, Frozen
  <1>3. ASSUME NEW r, proc' = [proc EXCEPT ![p] = r], r.pc \notin {"chunk", "commit", "resume"}
        PROVE  TurnInv'
    BY <1>2, <1>3, TurnFrame
  <1>4. ASSUME NEW pc, Goto(p, pc) \/ Leave(p, pc), pc \notin {"chunk", "commit", "resume"}
        PROVE  TurnInv'
    BY <1>2, <1>4, TurnMove
  <1>5. CASE \/ AskAbandon(p) \/ (\E cmd \in {"run", "resume", "finalize"} : Walk(p, cmd))
             \/ Poll(p) \/ Unlock(p) \/ Crash(p) \/ Compatibility(p)
    BY <1>3, <1>5 DEF AskAbandon, Walk, Poll, Unlock, Crash, Compatibility, Advance, Idle,
                      Starting
  <1>6. CASE \/ Abandon(p) \/ Point(p) \/ BadStep(p) \/ BadChunk(p) \/ Gate(p) \/ Fail(p)
             \/ Stamp(p) \/ Finish(p) \/ TryLock(p) \/ ClearClaim(p) \/ BadPoll(p)
    BY <1>4, <1>6 DEF Abandon, Point, BadStep, BadChunk, Gate, Fail, Stamp, Finish,
                      TryLock, ClearClaim, BadPoll
  <1>7. CASE Ddl(p)
    <2>1. CASE Advance(p) BY <1>3, <2>1 DEF Advance, Starting
    <2> QED BY <1>4, <1>7, <2>1 DEF Ddl
  <1>8. CASE Claim(p)
    <2>1. CASE Leave(p, "unlock") BY <1>4, <2>1
    <2>2. CASE proc' = [proc EXCEPT ![p].resume = TRUE, ![p].pc =
                          IF Kind(proc[p].at) = "backfill_chunked"
                            THEN "resume" ELSE "clear"]
      <3>1. PICK r : r = [proc[p] EXCEPT !.resume = TRUE, !.pc =
                            IF Kind(proc[p].at) = "backfill_chunked"
                              THEN "resume" ELSE "clear"]
        OBVIOUS
      <3>2. /\ r.pc \in {"resume", "clear"} /\ r.at = proc[p].at
            /\ r.pc = "resume" => Kind(proc[p].at) = "backfill_chunked"
        BY <1>1, <3>1 DEF Process
      <3>3. proc' = [proc EXCEPT ![p] = r] BY <2>2, <3>1
      <3> QED BY <1>2, <3>2, <3>3, TurnFrame
    <2> QED BY <1>8, <2>1, <2>2 DEF Claim
  <1> QED BY <1>5, <1>6, <1>7, <1>8

LEMMA NextTurns == TurnInv /\ [Next]_vars => TurnInv'
  <1> SUFFICES ASSUME TurnInv, [Next]_vars PROVE TurnInv' OBVIOUS
  <1>1. LiveInv' BY NextInv DEF TurnInv
  <1>2. ASSUME NEW c \in Clis, CliStep(c) \/ Operator(c) PROVE TurnInv'
    BY <1>1, <1>2, LoopTurns, CommitTurns, OtherTurns DEF CliStep, Operator, Procs
  <1>3. ASSUME NEW d \in Daemons, DaemonStep(d) PROVE TurnInv'
    BY <1>1, <1>3, LoopTurns, CommitTurns, OtherTurns DEF DaemonStep, Procs
  <1>4. CASE Fault BY <1>1, <1>4, OtherTurns, CutTurns DEF Fault, Procs
  <1>5. CASE Age \/ UNCHANGED vars
    <2>1. UNCHANGED <<plan, proc>> BY <1>5 DEF Age, Frozen, vars
    <2> QED BY <1>1, <2>1 DEF TurnInv, Turning, Loops, Kind
  <1> QED BY <1>2, <1>3, <1>4, <1>5 DEF Next

\* A chunk loop, a daemon's too, is at a backfill step over finished ones and
\* never has more than a chunk of rows in hand (backfill.rs run_one_chunk).
THEOREM TurnsSound == Spec => []TurnInv
  <1>1. Init => TurnInv
    <2>1. Init => \A p \in Procs : proc[p].pc = "off" BY DEF Init, Idle, Starting
    <2> QED BY <2>1, InitInv DEF TurnInv, Turning, Loops
  <1> QED BY <1>1, NextTurns, PTL DEF Spec

-----------------------------------------------------------------------------
(* What a reader of the row is promised (LivePromise).                      *)

Said == <<plan, todo, applied, row.status, row.completed>>

\* Most steps move a process and nothing a reader sees.
LEMMA QuietPromise ==
  ASSUME LiveInv, NEW p \in Procs,
         \/ AskAbandon(p) \/ (\E cmd \in {"run", "resume", "finalize"} : Walk(p, cmd))
         \/ Point(p) \/ BadStep(p) \/ Compatibility(p) \/ EnterLoop(p) \/ Chunk(p)
         \/ BadChunk(p) \/ Crash(p) \/ Poll(p) \/ TryLock(p) \/ Claim(p) \/ ClearClaim(p)
         \/ Unlock(p) \/ BadPoll(p) \/ Age
  PROVE  UNCHANGED Said
  <1>1. row \in Row BY DEF LiveInv, TypeOK
  <1>2. UNCHANGED <<plan, todo, applied>>
    BY DEF AskAbandon, Walk, Point, BadStep, Compatibility, EnterLoop, Chunk, BadChunk, Crash,
           Poll, TryLock, Claim, ClearClaim, Unlock, BadPoll, Age, Frozen
  <1>3. row'.status = row.status /\ row'.completed = row.completed
    BY <1>1 DEF AskAbandon, Walk, Point, BadStep, Compatibility, EnterLoop, Chunk, BadChunk,
           Crash, LoseLock, Poll, TryLock, Claim, ClearClaim, Unlock, BadPoll, Age, Row
  <1> QED BY <1>2, <1>3 DEF Said

\* A DDL step commits over finished steps.
LEMMA DdlPromise ==
  ASSUME LiveInv, NEW c \in Procs, Ddl(c)
  PROVE  Promise!PNext \/ UNCHANGED Said
  <1>1. CASE applied' = applied \cup {proc[c].at}
    <2>1. PICK s : s = proc[c].at OBVIOUS
    <2>2. s \in DOMAIN plan /\ plan[s] \in DdlKinds BY <2>1 DEF Ddl, Kind, DdlKinds
    <2>3. Promise!Ready(s)
      BY <2>1 DEF LiveInv, StepsInOrder, Reached, Promise!Ready
    <2>4. Promise!PApply(s)
      BY <1>1, <2>1, <2>2, <2>3 DEF Ddl, Frozen, Promise!PApply
    <2> QED BY <2>2, <2>4 DEF Promise!PNext
  <1>2. CASE applied' = applied BY <1>2 DEF Ddl, Frozen, Said
  <1> QED BY <1>1, <1>2 DEF Ddl

\* What the executor and the operator write into the row.
LEMMA StatusPromise ==
  ASSUME LiveInv, NEW c \in Procs,
         Abandon(c) \/ Fail(c) \/ Gate(c) \/ Stamp(c) \/ Finish(c)
  PROVE  Promise!PNext
  <1>1. /\ row \in Row /\ Placed(c) /\ Reached(proc[c].at) /\ plan \in Plans
        /\ UNCHANGED <<plan, todo, applied>>
    BY DEF LiveInv, TypeOK, Shape, StepsInOrder, Abandon, Fail, Gate, Stamp, Finish, Frozen
  <1>2. \A st : SetStatus(st) => Promise!Says(st)
    BY <1>1 DEF SetStatus, Row, Promise!Says
  <1>3. CASE Abandon(c) \/ Fail(c)
    <2>1. \E st \in {"abandoned", "failed_retriable", "failed_terminal"} : SetStatus(st)
      BY <1>3 DEF Abandon, Fail
    <2> QED BY <1>2, <2>1 DEF Promise!PSetback, Promise!PNext
  <1>4. CASE Gate(c)
    <2>1. PICK s : s = proc[c].at OBVIOUS
    <2>2. s \in DOMAIN plan /\ plan[s] \in GateKinds /\ Kind(s) = plan[s]
      BY <1>4, <2>1 DEF Gate, Kind, GateKinds
    <2>3. Promise!Ready(s) BY <1>1, <2>1 DEF Reached, Promise!Ready
    <2>4. Promise!Says(IF plan[s] = "validate_backfill" THEN "validating" ELSE "cutover")
      BY <1>2, <1>4, <2>1, <2>2 DEF Gate
    <2>5. Promise!PGate(s) BY <2>2, <2>3, <2>4 DEF Promise!PGate
    <2> QED BY <2>2, <2>5 DEF Promise!PNext
  <1>5. CASE Stamp(c) \/ Finish(c)
    <2>1. proc[c].at = Len(plan) + 1 BY <1>1, <1>5 DEF Stamp, Finish, Placed
    <2>2. Promise!Ready(Promise!Whole)
      BY <1>1, <2>1 DEF Reached, Promise!Ready, Promise!Whole
    <2>3. CASE Stamp(c)
      <3>1. row'.status = row.status /\ row'.completed = TRUE
        BY <1>1, <2>3 DEF Stamp, Row
      <3> QED BY <1>1, <2>2, <3>1 DEF Promise!PStamp, Promise!PNext
    <2>4. CASE Finish(c)
      <3>1. row.completed BY <1>1, <2>4 DEF Finish, Placed
      <3>2. Promise!Says("complete") BY <1>2, <2>4 DEF Finish
      <3> QED BY <2>2, <3>1, <3>2 DEF Promise!PComplete, Promise!PNext
    <2> QED BY <1>5, <2>3, <2>4
  <1> QED BY <1>3, <1>4, <1>5

\* A chunk commits its rows, and the status with the last of them.
LEMMA CommitPromise ==
  ASSUME TurnInv, NEW p \in Procs, Commit(p)
  PROVE  Promise!PNext
  <1>1. /\ row \in Row /\ proc[p] \in Process /\ Placed(p) /\ Turning(p)
        /\ Reached(proc[p].at) /\ proc[p].pc = "commit"
        /\ UNCHANGED <<plan, applied>>
    BY DEF TurnInv, LiveInv, TypeOK, Shape, StepsInOrder, Commit, CommitWith, Frozen
  <1>2. PICK K, n : K = proc[p].pick /\ n = Cardinality(K) OBVIOUS
  <1>3. /\ row' = [row EXCEPT !.done = proc[p].total + n, !.fresh = TRUE,
                     !.status = IF n < ChunkSize THEN "validating" ELSE @]
        /\ todo' = todo \ K
    BY <1>2 DEF Commit, CommitWith
  <1>4. n < ChunkSize => todo' = {} BY <1>1, <1>2, <1>3 DEF Placed
  <1>5. /\ row'.completed = row.completed
        /\ row'.status = row.status \/ (row'.status = "validating" /\ todo' = {})
    BY <1>1, <1>3, <1>4 DEF Row
  <1>6. Cardinality(todo \ todo') <= ChunkSize
    <2>1. PICK D : D = todo \ todo' OBVIOUS
    <2>2. D \subseteq K /\ IsFiniteSet(K)
      BY <1>1, <1>2, <1>3, <2>1, ChunkAssumption, FS_Subset DEF Process
    <2>3. Cardinality(D) <= n /\ Cardinality(D) \in Nat /\ n \in Nat
      BY <1>2, <2>2, FS_Subset, FS_CardinalityType
    <2>4. n <= ChunkSize BY <1>1, <1>2 DEF Turning
    <2> QED BY <2>1, <2>3, <2>4, ChunkAssumption
  <1>7. PICK s : s = proc[p].at OBVIOUS
  <1>8. s \in Promise!Backfills
    BY <1>1, <1>7 DEF Turning, Loops, Kind, Promise!Backfills
  <1>9. Promise!Ready(s) BY <1>1, <1>7 DEF Reached, Promise!Ready
  <1>10. Promise!Cardinality(todo \ todo') <= ChunkSize
    BY <1>6 DEF Promise!Cardinality, Cardinality
  <1>11. Promise!PConvert BY <1>1, <1>3, <1>5, <1>8, <1>9, <1>10 DEF Promise!PConvert
  <1> QED BY <1>11 DEF Promise!PNext

LEMMA PromiseStep == TurnInv /\ [Next]_vars => Promise!PNext \/ UNCHANGED Said
  <1> SUFFICES ASSUME TurnInv, [Next]_vars PROVE Promise!PNext \/ UNCHANGED Said OBVIOUS
  <1>1. LiveInv BY DEF TurnInv
  <1>2. ASSUME NEW c \in Clis, CliStep(c) \/ Operator(c)
        PROVE  Promise!PNext \/ UNCHANGED Said
    BY <1>1, <1>2, QuietPromise, DdlPromise, StatusPromise, CommitPromise
      DEF CliStep, Operator, Procs
  <1>3. ASSUME NEW d \in Daemons, DaemonStep(d) PROVE Promise!PNext \/ UNCHANGED Said
    BY <1>1, <1>3, QuietPromise, StatusPromise, CommitPromise DEF DaemonStep, Procs
  <1>4. CASE Fault
    <2>1. ASSUME NEW d \in Daemons, LoseLock(d) PROVE UNCHANGED Said
      BY <1>1, <2>1, CutRecord DEF Said
    <2> QED BY <1>1, <1>4, <2>1, QuietPromise DEF Fault, Procs
  <1>5. CASE Age
    <2>1. row \in Row BY <1>1 DEF LiveInv, TypeOK
    <2> QED BY <1>5, <2>1 DEF Age, Frozen, Said, Row
  <1>6. CASE UNCHANGED vars BY <1>6 DEF vars, Said
  <1> QED BY <1>2, <1>3, <1>4, <1>5, <1>6 DEF Next

LEMMA PromiseInit == Init => Promise!PInit
  <1> SUFFICES ASSUME Init PROVE Promise!PInit OBVIOUS
  <1>1. /\ plan \in Plans /\ todo \in SUBSET Rows /\ applied = {}
        /\ (Backfills = {} => todo = {})
    BY DEF Init
  <1>2. row.status \in {"pending", "running"} /\ row.completed = FALSE BY DEF Init
  <1>3. Promise!Backfills = Backfills BY DEF Backfills, Promise!Backfills
  <1> QED BY <1>1, <1>2, <1>3 DEF Promise!PInit

\* The row of a plan keeps its promise, however commands, daemons and crashes
\* follow each other (executor.rs run_plan, backfill.rs run_one_chunk, state.rs):
\* no step is taken before those it rests on, rows go in chunks, and a status is
\* written over what it says.
THEOREM Refines == Spec => PromiseSpec
  <1>1. TurnInv /\ [Next]_vars
          => [Promise!PNext]_<<plan, todo, applied, row.status, row.completed>>
    BY PromiseStep DEF Said
  <1> QED BY <1>1, PromiseInit, TurnsSound, PTL DEF Spec, PromiseSpec, Promise!PSpec

\* Whatever keeps the promise says 'complete' only of a plan with its stamp, its
\* DDL and its rows (executor.rs run_plan), and, if the plan's gates stand behind
\* its backfills, 'validating' only of a drained one: what is done stays done.
THEOREM PromiseCompletes ==
  /\ PromiseSpec => []CompleteIsDone
  /\ GatesAfterBackfills => (PromiseSpec => []ValidatingIsDrained)
  <1> DEFINE Seen == <<plan, todo, applied, row.status, row.completed>>
             Ended == /\ row.completed => Reached(Len(plan) + 1)
                      /\ row.status = "complete" => row.completed
             Waiting == /\ plan \in Plans /\ (Promise!Backfills = {} => todo = {})
                        /\ ValidatingIsDrained
  <1>1. Promise!PInit => Ended /\ Waiting
    BY DEF Promise!PInit, ValidatingIsDrained
  <1>2. \A s : Promise!Ready(s) <=> Reached(s) BY DEF Promise!Ready, Reached
  <1>3. ASSUME [Promise!PNext]_Seen
        PROVE  plan' = plan /\ todo' \subseteq todo /\ applied \subseteq applied'
    BY <1>3 DEF Promise!PNext, Promise!PApply, Promise!PGate, Promise!PConvert, Promise!PStamp,
       Promise!PComplete, Promise!PSetback, Promise!Says
  <1>4. ASSUME [Promise!PNext]_Seen, Reached(Len(plan) + 1) PROVE Reached(Len(plan) + 1)'
    BY <1>3, <1>4 DEF Reached
  <1>5. ASSUME Ended, [Promise!PNext]_Seen PROVE Ended'
    <2>1. \/ UNCHANGED <<row.status, row.completed>>
          \/ row'.completed = row.completed /\ row'.status # "complete"
          \/ Reached(Len(plan) + 1) /\ row'.completed = TRUE /\ row'.status = row.status
          \/ row.completed /\ row'.completed = row.completed
      BY <1>2, <1>5 DEF Promise!PNext, Promise!PApply, Promise!PGate, Promise!PConvert,
         Promise!PStamp, Promise!PComplete, Promise!PSetback, Promise!Says, Promise!Whole
    <2> HIDE DEF Seen
    <2> QED BY <1>4, <1>5, <2>1
  <1>6. ASSUME GatesAfterBackfills, Waiting, [Promise!PNext]_Seen PROVE Waiting'
    <2>1. /\ plan' \in Plans /\ (Promise!Backfills = {} => todo = {})'
          /\ todo = {} => todo' = {}
      BY <1>3, <1>6 DEF Promise!Backfills
    <2>2. CASE row'.status = row.status BY <1>6, <2>1, <2>2 DEF ValidatingIsDrained
    <2>3. ASSUME NEW s \in DOMAIN plan, Promise!PGate(s), row'.status = "validating"
          PROVE  todo = {}
      <3>1. plan[s] = "validate_backfill" /\ Reached(s)
        BY <1>2, <2>3 DEF Promise!PGate, Promise!Says
      <3>2. CASE Promise!Backfills = {} BY <1>6, <3>2
      <3>3. ASSUME NEW t \in Promise!Backfills PROVE todo = {}
        BY <1>6, <3>1, <3>3 DEF GatesAfterBackfills, Promise!Backfills, Reached
      <3> QED BY <3>2, <3>3
    <2>4. CASE row'.status # row.status
      <3>1. \/ row'.status = "validating" /\ todo' = {}
            \/ \E s \in DOMAIN plan : Promise!PGate(s)
            \/ row'.status # "validating"
        BY <1>6, <2>4 DEF Promise!PNext, Promise!PApply, Promise!PConvert, Promise!PStamp,
           Promise!PComplete, Promise!PSetback, Promise!Says
      <3> QED BY <2>1, <2>3, <3>1 DEF ValidatingIsDrained
    <2> QED BY <2>1, <2>2, <2>4
  <1>7. Ended => CompleteIsDone BY DEF CompleteIsDone
  <1>8. PromiseSpec => []CompleteIsDone
    BY <1>1, <1>5, <1>7, PTL DEF PromiseSpec, Promise!PSpec
  <1>9. ASSUME GatesAfterBackfills PROVE PromiseSpec => []ValidatingIsDrained
    <2>1. Waiting /\ [Promise!PNext]_Seen => Waiting' BY <1>6, <1>9
    <2> QED BY <1>1, <2>1, PTL DEF PromiseSpec, Promise!PSpec
  <1> QED BY <1>8, <1>9

-----------------------------------------------------------------------------
(* How far a chunk loop is from its end.                                    *)

\* p takes no step, or loses its session.
Stays(p) == proc'[p].pc = proc[p].pc /\ proc'[p].pick = proc[p].pick

\* A loop that goes on has taken a chunk or committed one, or others moved; and
\* no row comes back.
LEMMA LoopSteps ==
  ASSUME LiveInv, [Next]_vars, NEW p \in Procs, Loops(p), Loops(p)'
  PROVE  Chunk(p) \/ Commit(p) \/ (Stays(p) /\ todo' \subseteq todo)
  <1>1. proc \in [Procs -> Process] BY DEF LiveInv, TypeOK
  <1>2. todo' \subseteq todo
    BY DEF Next, CliStep, Operator, DaemonStep, Fault, Age, AskAbandon, Walk, Abandon, Point,
           Ddl, BadStep, Compatibility, Gate, Fail, Stamp, Finish, EnterLoop, Chunk, Commit,
           CommitWith, BadChunk, Crash, LoseLock, Poll, TryLock, Claim, ClearClaim, Unlock,
           BadPoll, vars
  <1>3. ASSUME NEW c \in Clis, CliStep(c) \/ Operator(c)
        PROVE  Chunk(p) \/ Commit(p) \/ proc'[p] = proc[p]
    <2>1. CASE c = p
      BY <1>3, <2>1
        DEF Loops, CliStep, Operator, AskAbandon, Walk, Abandon, Point, Ddl, Compatibility,
            Gate, Fail, Stamp, Finish, EnterLoop, AtBackfill
    <2>2. CASE c # p
      BY <1>1, <1>3, <2>2
        DEF CliStep, Operator, Walk, AskAbandon, Abandon, Point, Ddl, Compatibility,
            Gate, Fail, Stamp, Finish, EnterLoop, Chunk, Commit, CommitWith, AfterChunk,
            Goto, Leave, Advance
    <2> QED BY <2>1, <2>2
  <1>4. ASSUME NEW d \in Daemons, DaemonStep(d)
        PROVE  Chunk(p) \/ Commit(p) \/ proc'[p] = proc[p]
    <2>1. CASE d = p
      BY <1>4, <2>1
        DEF Loops, DaemonStep, Poll, TryLock, Claim, ClearClaim, Unlock, Fail, EnterLoop,
            AtBackfill
    <2>2. CASE d # p
      BY <1>1, <1>4, <2>2
        DEF DaemonStep, Poll, TryLock, Claim, ClearClaim, Unlock, Fail, EnterLoop, Chunk,
            Commit, CommitWith, AfterChunk, Goto, Leave, Advance
    <2> QED BY <2>1, <2>2
  <1>5. CASE Fault
    <2>1. ASSUME NEW c \in Clis, BadStep(c) PROVE proc'[p] = proc[p]
      <3>1. c # p BY <2>1 DEF BadStep, Loops
      <3> QED BY <1>1, <2>1, <3>1 DEF BadStep, Leave
    <2>2. ASSUME NEW q \in Procs, BadChunk(q) PROVE proc'[p] = proc[p]
      <3>1. PICK r : proc' = [proc EXCEPT ![q] = r] /\ r.pc = "fail"
        BY <1>1, <2>2, MoveRecord DEF BadChunk
      <3> QED BY <1>1, <3>1 DEF Loops
    <2>3. ASSUME NEW q \in Procs, Crash(q) PROVE proc'[p] = proc[p]
      <3>1. PICK r : r = IF q \in Clis THEN Idle ELSE Starting("dead", 0, FALSE) OBVIOUS
      <3>2. r.pc \in {"off", "dead"} BY <3>1 DEF Idle, Starting
      <3>3. proc' = [proc EXCEPT ![q] = r] BY <2>3, <3>1 DEF Crash
      <3> QED BY <1>1, <3>2, <3>3 DEF Loops
    <2>4. ASSUME NEW d \in Daemons, BadPoll(d) PROVE proc'[p] = proc[p]
      <3>1. d # p BY <2>4 DEF BadPoll, Loops
      <3>2. \E pc : Leave(d, pc) BY <2>4 DEF BadPoll
      <3> QED BY <1>1, <3>1, <3>2 DEF Leave
    <2>5. ASSUME NEW d \in Daemons, LoseLock(d) PROVE Stays(p)
      <3>1. PICK r : /\ proc' = [proc EXCEPT ![d] = r]
                     /\ r.pc = proc[d].pc /\ r.pick = proc[d].pick
        BY <2>5, CutRecord
      <3> QED BY <1>1, <3>1 DEF Stays
    <2> QED BY <1>2, <1>5, <2>1, <2>2, <2>3, <2>4, <2>5 DEF Fault, Stays
  <1>6. CASE Age \/ UNCHANGED vars BY <1>6 DEF Age, vars, Stays
  <1> QED BY <1>2, <1>3, <1>4, <1>5, <1>6 DEF Next, Stays

\* How far the chunk loop of p is from its end: the rows it has or can pick, by
\* two for the two stations of a chunk.
LoopLeft(p) == IF proc[p].pc = "chunk" THEN 2 * Cardinality(todo) + 1
                                       ELSE 2 * Cardinality(todo \cup proc[p].pick)

\* A chunk loop that goes on has come nearer to its end, even when another one
\* takes its rows, and nothing sets it back meanwhile: it cannot turn for ever
\* on chunks that convert nothing (backfill.rs drive_chunks).
LoopsShorten ==
  [][\A p \in Procs : Loops(p) /\ Loops(p)' =>
       /\ LoopLeft(p)' <= LoopLeft(p)
       /\ ~Stays(p) => LoopLeft(p)' < LoopLeft(p)]_vars

\* The rows before a loop only become fewer, whoever takes them.
LEMMA LoopKept ==
  ASSUME LiveInv, NEW p \in Procs, Stays(p), todo' \subseteq todo
  PROVE  LoopLeft(p)' <= LoopLeft(p)
  <1>1. IsFiniteSet(todo) /\ IsFiniteSet(proc[p].pick)
    BY FiniteRows, ChunkAssumption, FS_Subset DEF LiveInv, TypeOK, Process
  <1>2. PICK U, V : U = todo \cup proc[p].pick /\ V = todo' \cup proc[p].pick OBVIOUS
  <1>3. IsFiniteSet(U) /\ V \subseteq U BY <1>1, <1>2, FS_Union
  <1>4. /\ Cardinality(V) <= Cardinality(U) /\ Cardinality(V) \in Nat /\ Cardinality(U) \in Nat
        /\ Cardinality(todo') <= Cardinality(todo) /\ Cardinality(todo') \in Nat
        /\ Cardinality(todo) \in Nat
    BY <1>1, <1>3, FS_Subset, FS_CardinalityType
  <1> QED BY <1>2, <1>4 DEF LoopLeft, Stays

\* A chunk is taken out of what there is.
LEMMA ChunkShorter ==
  ASSUME LiveInv, NEW p \in Procs, Chunk(p)
  PROVE  LoopLeft(p)' < LoopLeft(p) /\ LoopLeft(p)' <= LoopLeft(p)
  <1>1. proc \in [Procs -> Process] /\ proc[p] \in Process /\ proc[p].pc = "chunk"
        /\ todo' = todo
    BY DEF LiveInv, TypeOK, Chunk
  <1>2. PICK S \in SUBSET todo : proc' = [proc EXCEPT ![p].pc = "commit", ![p].pick = S]
    BY DEF Chunk
  <1>3. PICK r : r = [proc[p] EXCEPT !.pc = "commit", !.pick = S] OBVIOUS
  <1>4. r.pc = "commit" /\ r.pick = S /\ proc' = [proc EXCEPT ![p] = r]
    BY <1>1, <1>2, <1>3 DEF Process
  <1>5. proc'[p].pc = "commit" /\ proc'[p].pick = S BY <1>1, <1>4
  <1>6. todo' \cup proc'[p].pick = todo BY <1>1, <1>5
  <1>7. Cardinality(todo) \in Nat BY FiniteRows, FS_CardinalityType DEF LiveInv
  <1>8. PICK U : U = todo' \cup proc'[p].pick OBVIOUS
  <1>9. LoopLeft(p)' = 2 * Cardinality(U) BY <1>5, <1>8 DEF LoopLeft
  <1>10. LoopLeft(p) = 2 * Cardinality(U) + 1 BY <1>1, <1>6, <1>8 DEF LoopLeft
  <1>11. PICK n : n = Cardinality(U) OBVIOUS
  <1>12. U = todo BY <1>6, <1>8
  <1>13. n \in Nat BY <1>7, <1>11, <1>12
  <1> QED BY <1>9, <1>10, <1>11, <1>13

\* A loop goes on after a full chunk only, whose rows are behind it then, were
\* they its own or another loop's.
LEMMA CommitShorter ==
  ASSUME LiveInv, NEW p \in Procs, Commit(p), Loops(p)'
  PROVE  LoopLeft(p)' < LoopLeft(p) /\ LoopLeft(p)' <= LoopLeft(p)
  <1>1. proc \in [Procs -> Process] /\ proc[p] \in Process /\ proc[p].pc = "commit"
    BY DEF LiveInv, TypeOK, Commit, CommitWith
  <1>2. PICK K, n : K = proc[p].pick /\ n = Cardinality(K) OBVIOUS
  <1>3. AfterChunk(p, n) /\ todo' = todo \ K BY <1>2 DEF Commit, CommitWith
  <1>4. ~(n < ChunkSize) /\ proc'[p].pc = "chunk"
    <2>1. ASSUME NEW r, proc' = [proc EXCEPT ![p] = r], r.pc \notin {"chunk", "commit"}
          PROVE  FALSE
      BY <1>1, <2>1 DEF Loops
    <2>2. \A pc \in {"fail", "clear"} : ~Leave(p, pc) BY <1>1, <2>1, MoveRecord
    <2>3. ~Advance(p) BY <2>1 DEF Advance, Starting
    <2>4. ~(n < ChunkSize) /\ proc' = [proc EXCEPT ![p].pc = "chunk", ![p].first = FALSE,
                                           ![p].total = @ + n, ![p].pick = {}]
      BY <1>3, <2>2, <2>3 DEF AfterChunk
    <2>5. PICK r : r = [proc[p] EXCEPT !.pc = "chunk", !.first = FALSE, !.total = @ + n,
                                       !.pick = {}]
      OBVIOUS
    <2>6. r.pc = "chunk" BY <1>1, <2>5 DEF Process
    <2>7. proc' = [proc EXCEPT ![p] = r] BY <2>4, <2>5
    <2> QED BY <1>1, <2>4, <2>6, <2>7
  <1>5. IsFiniteSet(todo') /\ IsFiniteSet(K)
    BY <1>1, <1>2, <1>3, FiniteRows, ChunkAssumption, FS_Subset DEF LiveInv, Process
  <1>6. PICK A, U : A = todo' /\ U = todo \cup K OBVIOUS
  <1>7. A \cap K = {} /\ U = A \cup K BY <1>3, <1>6
  <1>8. /\ Cardinality(A) \in Nat /\ n \in Nat /\ Cardinality(U) = Cardinality(A) + n
    BY <1>2, <1>5, <1>6, <1>7, TakenRows
  <1>9. LoopLeft(p) = 2 * Cardinality(U) /\ LoopLeft(p)' = 2 * Cardinality(A) + 1
    BY <1>1, <1>2, <1>4, <1>6 DEF LoopLeft
  <1> QED BY <1>4, <1>8, <1>9, ChunkAssumption

\* A chunk loop ends, whatever other loops and crashes do meanwhile: each turn
\* that goes on leaves less for the next (backfill.rs drive_chunks).
THEOREM Shortens == Spec => LoopsShorten
  <1>1. LiveInv /\ [Next]_vars
          => [\A p \in Procs : Loops(p) /\ Loops(p)' =>
                /\ LoopLeft(p)' <= LoopLeft(p)
                /\ ~Stays(p) => LoopLeft(p)' < LoopLeft(p)]_vars
    <2> SUFFICES ASSUME LiveInv, [Next]_vars, NEW p \in Procs, Loops(p), Loops(p)'
                 PROVE  /\ LoopLeft(p)' <= LoopLeft(p)
                        /\ ~Stays(p) => LoopLeft(p)' < LoopLeft(p)
      OBVIOUS
    <2> QED BY LoopSteps, LoopKept, ChunkShorter, CommitShorter
  <1> QED BY <1>1, Inductive, PTL DEF Spec, LoopsShorten

=============================================================================
