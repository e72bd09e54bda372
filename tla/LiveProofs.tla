------------------------------ MODULE LiveProofs ------------------------------
(***************************************************************************)
(* Proofs about LiveMigrate, for any terminals, daemons, tables, plans and *)
(* bounds: no step of a plan is reached over an unfinished one, a complete *)
(* plan is done, one daemon at a time drives under the lock, and a plan    *)
(* that waits for validation is drained if its gates follow its backfills. *)
(*                                                                         *)
(* StepsInOrder is not inductive: what the executor reaches next depends   *)
(* on where its program counter is, and a chunk that is smaller than       *)
(* ChunkSize ends the backfill only because it took every row that was     *)
(* left when its UPDATE ran, and no row comes back.                        *)
(***************************************************************************)
EXTENDS LiveMigrate, LivePatterns, FiniteSetTheorems, TLAPS

CliPcs == {"off", "point", "exec", "chunk", "commit", "fail", "stamp",
           "finish", "abandon"}
DaemonPcs == {"off", "dead", "lock", "claim", "resume", "chunk", "commit",
              "fail", "clear", "unlock"}

\* What the program counter of a process says about its record.
Placed(p) ==
  /\ p \in Clis => proc[p].pc \in CliPcs
  /\ p \in Daemons => proc[p].pc \in DaemonPcs
  /\ proc[p].pc = "point" => proc[p].at >= 1
  /\ proc[p].pc = "exec" => proc[p].at \in 1..Len(plan)
  /\ p \in Clis /\ Loops(p) => /\ proc[p].at \in 1..Len(plan)
                               /\ plan[proc[p].at] = "backfill_chunked"
  /\ proc[p].pc \in {"stamp", "finish"} => proc[p].at = Len(plan) + 1
  /\ proc[p].pc = "finish" => row.completed
  /\ proc[p].pc = "commit" /\ Cardinality(proc[p].pick) < ChunkSize
       => todo \subseteq proc[p].pick
Shape == \A p \in Procs : Placed(p)

Drives(d) ==
  proc[d].pc \notin {"off", "dead", "lock"} /\ ~proc[d].cut =>
    /\ lock = d
    /\ proc[d].pc \in {"resume", "chunk", "commit", "fail", "clear"} => row.claim = d

\* The inductive invariant.
LiveInv == TypeOK /\ Shape /\ StepsInOrder /\ CompleteIsDone /\ OneDaemonDrives

-----------------------------------------------------------------------------
(* Plans and records.                                                       *)

LEMMA PlanType ==
  ASSUME plan \in Plans
  PROVE  plan \in Seq(Kinds) /\ Len(plan) \in Nat /\ DOMAIN plan = 1..Len(plan)
BY PlansAssumption

LEMMA StartType ==
  ASSUME NEW pc \in CliPcs \cup DaemonPcs, NEW at \in Nat, NEW resume \in BOOLEAN
  PROVE  /\ Starting(pc, at, resume) \in Process
         /\ Starting(pc, at, resume).pc = pc /\ Starting(pc, at, resume).at = at
         /\ Starting(pc, at, resume).pick = {}
BY DEF Starting, Process, CliPcs, DaemonPcs

\* A process that moves within its work or leaves it changes only itself, and
\* neither mends its session nor cuts it.
LEMMA MoveKeeps ==
  ASSUME proc \in [Procs -> Process], NEW p \in Procs,
         NEW pc \in CliPcs \cup DaemonPcs, Goto(p, pc) \/ Leave(p, pc)
  PROVE  \E r \in Process :
           /\ proc' = [proc EXCEPT ![p] = r] /\ proc'[p] = r
           /\ r.pc = pc /\ r.cut = proc[p].cut
           /\ r.at = IF Goto(p, pc) THEN proc[p].at ELSE 0
<1>1. proc[p] \in Process
  OBVIOUS
<1>2. CASE Goto(p, pc)
  <2> DEFINE r == [proc[p] EXCEPT !.pc = pc]
  <2>1. r \in Process /\ r.pc = pc /\ r.at = proc[p].at /\ r.cut = proc[p].cut
    BY <1>1 DEF Process, CliPcs, DaemonPcs
  <2>2. proc' = [proc EXCEPT ![p] = r]
    BY <1>2 DEF Goto
  <2> HIDE DEF r
  <2>3. proc'[p] = r
    BY <2>2
  <2>4. QED
    BY <1>2, <2>1, <2>2, <2>3
<1>3. CASE ~Goto(p, pc)
  <2> DEFINE r == [Starting(pc, 0, FALSE) EXCEPT !.cut = proc[p].cut]
  <2>1. r \in Process /\ r.pc = pc /\ r.at = 0 /\ r.cut = proc[p].cut
    BY <1>1 DEF Process, Starting, CliPcs, DaemonPcs
  <2>2. proc' = [proc EXCEPT ![p] = r]
    BY <1>3 DEF Leave
  <2> HIDE DEF r
  <2>3. proc'[p] = r
    BY <2>2
  <2>4. QED
    BY <1>3, <2>1, <2>2, <2>3
<1>4. QED
  BY <1>2, <1>3

LEMMA InitInv == Init => LiveInv
<1> SUFFICES ASSUME Init PROVE LiveInv
  OBVIOUS
<1>1. plan \in Plans /\ Len(plan) \in Nat /\ DOMAIN plan = 1..Len(plan)
  BY PlanType DEF Init
<1>2. TypeOK
  <2>1. row \in Row /\ row.step = 0 /\ row.claim = Nobody
    BY DEF Init, Row, Statuses
  <2>2. proc \in [Procs -> Process] /\ \A p \in Procs : proc[p].at = 0
    BY StartType DEF Init, Idle, CliPcs
  <2>3. /\ table \subseteq Rows /\ todo \subseteq table /\ applied = {}
        /\ lock = Nobody /\ commands = 0 /\ faults = 0 /\ crowded = FALSE
    BY DEF Init
  <2>4. \A p \in Procs : proc[p].at <= Len(plan) + 1
    BY <1>1, <2>2
  <2>5. row.step \in 0..Len(plan) /\ commands \in 0..MaxCommands /\ faults \in 0..MaxFaults
    BY <1>1, <2>1, <2>3, BoundsAssumption
  <2>6. crowded \in BOOLEAN /\ row.claim \in Daemons \cup {Nobody} /\ lock \in Daemons \cup {Nobody}
    BY <2>1, <2>3
  <2>7. QED
    BY <1>1, <2>1, <2>2, <2>3, <2>4, <2>5, <2>6 DEF TypeOK
<1>3. Shape
  BY DEF Init, Shape, Placed, Loops, Idle, Starting, CliPcs, DaemonPcs
<1>4. StepsInOrder
  BY <1>1 DEF Init, StepsInOrder, Reached, Idle, Starting
<1>5. CompleteIsDone /\ OneDaemonDrives
  BY DEF Init, CompleteIsDone, OneDaemonDrives, UnderLock, Idle, Starting, Procs
<1>6. QED
  BY <1>2, <1>3, <1>4, <1>5 DEF LiveInv

LEMMA ReachedOne == ASSUME plan \in Plans PROVE Reached(0) /\ Reached(1)
BY PlanType DEF Reached

-----------------------------------------------------------------------------
(* What a step of process p has to respect for the invariant to survive it. *)

\* Work is done and not undone; a DDL step is recorded over finished steps.
Grows ==
  /\ plan' = plan /\ table' = table /\ todo' \subseteq todo /\ applied \subseteq applied'
  /\ \A s \in applied' \ applied :
       s \in DOMAIN plan /\ plan[s] \in DdlKinds /\ Reached(s)'

\* The row points at a reached step and is complete only when all is done.
RowOk ==
  /\ row' \in Row /\ row'.step \in 0..Len(plan) /\ Reached(row.step)'
  /\ row'.claim \in Daemons \cup {Nobody}
  /\ row.completed => row'.completed
  /\ row'.status = "complete" =>
       row.status = "complete" \/ (row'.completed /\ Reached(Len(plan) + 1)')

CountsOk == commands' \in 0..MaxCommands /\ faults' \in 0..MaxFaults
              /\ crowded' \in BOOLEAN

\* The daemon that holds the lock keeps it and its claim, if it is not p.
OthersKeep(p) ==
  /\ lock' \in Daemons \cup {Nobody}
  /\ \A d \in Daemons \ {p} : lock = d => lock' = d /\ row'.claim = row.claim

LEMMA Frame ==
  ASSUME LiveInv, NEW p \in Procs, NEW r \in Process,
         proc' = [proc EXCEPT ![p] = r], r.at <= Len(plan) + 1, Reached(r.at)',
         Placed(p)', p \in Daemons => Drives(p)',
         Grows, RowOk, OthersKeep(p), CountsOk
  PROVE  LiveInv'
<1>0. /\ proc \in [Procs -> Process] /\ plan \in Plans
      /\ Len(plan) \in Nat /\ DOMAIN plan = 1..Len(plan)
      /\ \A q \in Procs : proc[q].at \in Nat /\ proc[q].at <= Len(plan) + 1
  BY PlanType DEF LiveInv, TypeOK, Process
<1>1. proc' \in [Procs -> Process] /\ proc'[p] = r
      /\ \A q \in Procs \ {p} : proc'[q] = proc[q]
  BY <1>0
<1>2. TypeOK'
  <2>1. \A q \in Procs : proc'[q].at <= Len(plan) + 1
    BY <1>0, <1>1
  <2>2. applied' \subseteq {s \in DOMAIN plan : plan[s] \in DdlKinds}
    BY DEF LiveInv, TypeOK, Grows
  <2>3. plan' \in Plans /\ table' \subseteq Rows /\ todo' \subseteq table'
    BY DEF LiveInv, TypeOK, Grows
  <2>4. QED
    BY <1>1, <2>1, <2>2, <2>3 DEF TypeOK, Grows, RowOk, OthersKeep, CountsOk
<1>3. Shape'
  <2> SUFFICES ASSUME NEW q \in Procs \ {p} PROVE Placed(q)'
    BY DEF Shape
  <2>1. Placed(q) /\ proc'[q] = proc[q]
    BY <1>1 DEF LiveInv, Shape
  <2>2. plan' = plan /\ todo' \subseteq todo /\ (row.completed => row'.completed)
    BY DEF Grows, RowOk
  <2>3. QED
    BY <2>1, <2>2 DEF Placed, Loops
<1>4. StepsInOrder'
  <2>1. \A q \in Procs : Reached(proc[q].at)'
    <3> SUFFICES ASSUME NEW q \in Procs \ {p} PROVE Reached(proc[q].at)'
      BY <1>1
    <3>1. Reached(proc[q].at) /\ proc[q].at \in Nat /\ proc'[q] = proc[q]
      BY <1>0, <1>1 DEF LiveInv, StepsInOrder
    <3>2. QED
      BY <3>1 DEF Grows, Reached
  <2>2. \A s \in applied' : Reached(s)'
    <3> SUFFICES ASSUME NEW s \in applied PROVE Reached(s)'
      BY DEF Grows
    <3>1. Reached(s)
      BY DEF LiveInv, StepsInOrder
    <3>2. QED
      BY <3>1 DEF Grows, Reached
  <2>3. QED
    BY <2>1, <2>2 DEF StepsInOrder, RowOk
<1>5. CompleteIsDone'
  <2>1. CASE row.status = "complete"
    <3>1. row.completed /\ Reached(Len(plan) + 1)
      BY <2>1 DEF LiveInv, CompleteIsDone
    <3>2. QED
      BY <3>1 DEF CompleteIsDone, RowOk, Grows, Reached
  <2>2. CASE row.status # "complete"
    BY <2>2 DEF CompleteIsDone, RowOk, Grows
  <2>3. QED
    BY <2>1, <2>2
<1>6. OneDaemonDrives'
  <2> SUFFICES ASSUME NEW d \in Daemons \ {p} PROVE Drives(d)'
    BY DEF OneDaemonDrives, UnderLock, Drives
  <2>1. Drives(d) /\ d \in Procs /\ proc'[d] = proc[d]
    BY <1>1 DEF LiveInv, OneDaemonDrives, UnderLock, Drives, Procs
  <2>2. QED
    BY <2>1 DEF Drives, OthersKeep
<1>7. QED
  BY <1>2, <1>3, <1>4, <1>5, <1>6 DEF LiveInv

LEMMA FrameMove ==
  ASSUME LiveInv, NEW p \in Procs, NEW pc \in CliPcs \cup DaemonPcs,
         Goto(p, pc) \/ Leave(p, pc), Placed(p)', p \in Daemons => Drives(p)',
         Grows, RowOk, OthersKeep(p), CountsOk
  PROVE  LiveInv'
<1>1. /\ proc \in [Procs -> Process] /\ proc[p].at \in Nat /\ Len(plan) \in Nat
      /\ proc[p].at <= Len(plan) + 1 /\ Reached(proc[p].at) /\ Reached(0)
  BY PlanType, ReachedOne DEF LiveInv, TypeOK, StepsInOrder, Process
<1>2. PICK r \in Process : proc' = [proc EXCEPT ![p] = r] /\ r.at \in {0, proc[p].at}
  BY <1>1, MoveKeeps
<1>3. Reached(r.at)' /\ r.at <= Len(plan) + 1
  BY <1>1, <1>2 DEF Grows, Reached
<1>4. QED
  BY <1>2, <1>3, Frame

\* What a step that leaves something alone need not argue about.
LEMMA Unmoved ==
  ASSUME LiveInv, UNCHANGED <<plan, table>>
  PROVE  /\ todo' = todo /\ applied' = applied => Grows
         /\ row' = row /\ Grows => RowOk
         /\ \A st \in Statuses :
              SetStatus(st) /\ Grows
                /\ (st = "complete" => row.completed /\ Reached(Len(plan) + 1))
              => RowOk /\ row'.claim = row.claim /\ row'.step = row.step
                       /\ row'.completed = row.completed /\ row'.status = st
         /\ \A p \in Procs : lock' = lock /\ row'.claim = row.claim => OthersKeep(p)
         /\ Counts => CountsOk
<1>1. /\ row \in Row /\ row.step \in 0..Len(plan) /\ Reached(row.step)
      /\ row.claim \in Daemons \cup {Nobody} /\ lock \in Daemons \cup {Nobody}
      /\ row.status = "complete" => row.completed /\ Reached(Len(plan) + 1)
      /\ Len(plan) \in Nat
  BY PlanType DEF LiveInv, TypeOK, StepsInOrder, CompleteIsDone
<1>2. todo' = todo /\ applied' = applied => Grows
  BY DEF Grows
<1>3. \A s \in Nat : Grows /\ Reached(s) => Reached(s)'
  BY DEF Grows, Reached
<1>4. row' = row /\ Grows => RowOk
  BY <1>1 DEF RowOk, Grows, Reached
<1>5. ASSUME NEW st \in Statuses, SetStatus(st), Grows,
             st = "complete" => row.completed /\ Reached(Len(plan) + 1)
      PROVE  RowOk /\ row'.claim = row.claim /\ row'.step = row.step
               /\ row'.completed = row.completed /\ row'.status = st
  <2>1. /\ row' \in Row /\ row'.claim = row.claim /\ row'.step = row.step
        /\ row'.completed = row.completed /\ row'.status = st
    BY <1>1, <1>5 DEF SetStatus, Row
  <2>2. Reached(row.step)'
    BY <1>1, <1>5, <2>1 DEF Grows, Reached
  <2>3. Reached(Len(plan) + 1) => Reached(Len(plan) + 1)'
    BY <1>1, <1>5 DEF Grows, Reached
  <2>4. QED
    BY <1>1, <1>5, <2>1, <2>2, <2>3 DEF RowOk
<1>6. \A p \in Procs : lock' = lock /\ row'.claim = row.claim => OthersKeep(p)
  BY <1>1 DEF OthersKeep
<1>7. Counts => CountsOk
  BY DEF LiveInv, TypeOK, Counts, CountsOk
<1>8. QED
  BY <1>2, <1>4, <1>5, <1>6, <1>7

-----------------------------------------------------------------------------
(* The operator and the executor.                                           *)

\* A command asked for and an abandonment.
LEMMA CommandInv ==
  ASSUME LiveInv, NEW c \in Clis,
         Abandon(c) \/ AskAbandon(c) \/ \E cmd \in {"run", "resume", "finalize"} : Walk(c, cmd)
  PROVE  LiveInv'
<1>0. /\ c \in Procs /\ c \notin Daemons /\ proc \in [Procs -> Process]
      /\ plan \in Plans /\ Len(plan) \in Nat /\ Len(plan) >= 1
      /\ row.step \in 0..Len(plan) /\ Reached(row.step)
      /\ commands \in 0..MaxCommands /\ faults \in 0..MaxFaults /\ crowded \in BOOLEAN
  <2> USE ProcsAssumption, PlansAssumption, PlanType
  <2> QED BY DEF LiveInv, TypeOK, StepsInOrder, Procs
<1>1. CASE Abandon(c)
  <2>1. Grows /\ CountsOk /\ SetStatus("abandoned") /\ Leave(c, "off") /\ lock' = lock
    BY <1>1, Unmoved DEF Abandon, Frozen
  <2>2. RowOk /\ OthersKeep(c)
    BY <1>0, <1>1, <2>1, Unmoved DEF Abandon, Frozen, Statuses
  <2>3. Placed(c)'
    BY <1>0, <2>1, MoveKeeps DEF Placed, Loops, CliPcs
  <2>4. QED
    BY <1>0, <2>1, <2>2, <2>3, FrameMove DEF CliPcs
<1>2. ASSUME NEW pc \in {"point", "abandon"}, NEW at \in Nat, NEW resume \in BOOLEAN,
             at <= Len(plan) + 1, pc = "point" => at >= 1, Reached(at),
             proc' = [proc EXCEPT ![c] = Starting(pc, at, resume)],
             commands' = commands + 1, commands < MaxCommands,
             Frozen, UNCHANGED <<todo, applied, row, lock, faults, crowded>>
      PROVE  LiveInv'
  <2>0. pc \in CliPcs \cup DaemonPcs
    BY DEF CliPcs
  <2>1. /\ Starting(pc, at, resume) \in Process /\ Starting(pc, at, resume).at = at
        /\ Starting(pc, at, resume).pc = pc /\ proc'[c] = Starting(pc, at, resume)
    BY <1>0, <1>2, <2>0, StartType
  <2>2. Grows /\ RowOk /\ OthersKeep(c)
    BY <1>0, <1>2, Unmoved DEF Frozen
  <2>3. CountsOk
    BY <1>0, <1>2, BoundsAssumption DEF CountsOk
  <2>4. Placed(c)' /\ Reached(at)'
    BY <1>0, <1>2, <2>1 DEF Placed, Loops, CliPcs, Reached, Frozen
  <2>5. QED
    BY <1>0, <1>2, <2>1, <2>2, <2>3, <2>4, Frame
<1>3. CASE AskAbandon(c)
  <2>1. Reached(0) /\ 0 <= Len(plan) + 1 /\ "abandon" # "point"
    BY <1>0, ReachedOne
  <2>2. /\ proc' = [proc EXCEPT ![c] = Starting("abandon", 0, FALSE)]
        /\ commands' = commands + 1 /\ commands < MaxCommands
        /\ Frozen /\ UNCHANGED <<todo, applied, row, lock, faults, crowded>>
    BY <1>3 DEF AskAbandon
  <2>3. QED
    BY <1>2, <2>1, <2>2
<1>4. ASSUME NEW cmd \in {"run", "resume", "finalize"}, Walk(c, cmd)
      PROVE  LiveInv'
  <2> DEFINE at == IF cmd = "run" \/ row.step = 0 THEN 1 ELSE row.step
             again == cmd # "run"
  <2>1. at \in Nat /\ at <= Len(plan) + 1 /\ at >= 1 /\ Reached(at) /\ again \in BOOLEAN
    BY <1>0, ReachedOne
  <2>2. /\ proc' = [proc EXCEPT ![c] = Starting("point", at, again)]
        /\ commands' = commands + 1 /\ commands < MaxCommands
        /\ Frozen /\ UNCHANGED <<todo, applied, row, lock, faults, crowded>>
    BY <1>4 DEF Walk
  <2> HIDE DEF at, again
  <2>3. QED
    BY <1>2, <2>1, <2>2
<1>5. QED
  BY <1>1, <1>3, <1>4

\* The pointer, the gates and the two writes of completion.
LEMMA WalkInv ==
  ASSUME LiveInv, NEW c \in Clis, Point(c) \/ Gate(c) \/ Stamp(c) \/ Finish(c)
  PROVE  LiveInv'
<1>a. c \in Procs /\ c \notin Daemons
  BY ProcsAssumption DEF Procs
<1>0. /\ proc \in [Procs -> Process]
      /\ proc[c].at \in Nat /\ Reached(proc[c].at) /\ Placed(c)
      /\ plan \in Plans /\ Len(plan) \in Nat /\ DOMAIN plan = 1..Len(plan)
      /\ proc[c].at <= Len(plan) + 1 /\ row \in Row /\ row.step \in 0..Len(plan)
      /\ row.claim \in Daemons \cup {Nobody} /\ Reached(row.step)
      /\ row.status = "complete" => row.completed /\ Reached(Len(plan) + 1)
  BY <1>a, PlanType DEF LiveInv, TypeOK, Shape, StepsInOrder, CompleteIsDone, Process
<1>1. Grows /\ CountsOk /\ UNCHANGED <<plan, table, todo, applied, lock>>
  BY Unmoved DEF Point, Gate, Stamp, Finish, Frozen
<1>b. \A s \in Nat : Reached(s) => Reached(s)'
  BY <1>1 DEF Reached
<1>2. CASE Point(c) /\ proc[c].at \in DOMAIN plan
  <2>1. row' = [row EXCEPT !.step = proc[c].at] /\ Goto(c, "exec")
    BY <1>2 DEF Point
  <2>2. /\ row' \in Row /\ row'.step = proc[c].at /\ row'.claim = row.claim
        /\ row'.completed = row.completed /\ row'.status = row.status
    BY <1>0, <2>1 DEF Row
  <2>3. Reached(row.step)' /\ (Reached(Len(plan) + 1) => Reached(Len(plan) + 1)')
    BY <1>0, <1>1, <1>b, <2>2
  <2>4. RowOk
    BY <1>0, <1>2, <1>b, <2>2, <2>3 DEF RowOk
  <2>5. OthersKeep(c)
    BY <1>a, <1>1, <2>2, Unmoved
  <2>6. Placed(c)'
    BY <1>0, <1>a, <1>1, <1>2, <2>1, MoveKeeps DEF Placed, Loops, CliPcs
  <2>7. QED
    BY <1>a, <1>1, <2>1, <2>4, <2>5, <2>6, FrameMove DEF CliPcs
<1>3. CASE Point(c) /\ proc[c].at \notin DOMAIN plan
  <2>1. row' = row /\ Goto(c, "stamp") /\ proc[c].pc = "point"
    BY <1>3 DEF Point
  <2>2. RowOk /\ OthersKeep(c)
    BY <1>a, <1>1, <2>1, Unmoved
  <2>3. proc[c].at = Len(plan) + 1
    BY <1>0, <1>3, <2>1 DEF Placed
  <2>4. Placed(c)'
    BY <1>0, <1>a, <1>1, <2>1, <2>3, MoveKeeps DEF Placed, Loops, CliPcs
  <2>5. QED
    BY <1>a, <1>1, <2>1, <2>2, <2>4, FrameMove DEF CliPcs
<1>4. CASE Gate(c) \/ Finish(c)
  <2>1. Leave(c, "off") /\ \E st \in {"validating", "cutover", "complete"} :
          SetStatus(st) /\ (st = "complete" => proc[c].pc = "finish")
    BY <1>4 DEF Gate, Finish
  <2>2. proc[c].pc = "finish" => row.completed /\ Reached(Len(plan) + 1)
    BY <1>0 DEF Placed
  <2>3. RowOk /\ OthersKeep(c)
    BY <1>a, <1>1, <2>1, <2>2, Unmoved DEF Statuses
  <2>4. Placed(c)'
    BY <1>0, <1>a, <2>1, MoveKeeps DEF Placed, Loops, CliPcs
  <2>5. QED
    BY <1>a, <1>1, <2>1, <2>3, <2>4, FrameMove DEF CliPcs
<1>5. CASE Stamp(c)
  <2>1. row' = [row EXCEPT !.completed = TRUE] /\ Goto(c, "finish") /\ proc[c].pc = "stamp"
    BY <1>5 DEF Stamp
  <2>2. /\ row' \in Row /\ row'.step = row.step /\ row'.claim = row.claim
        /\ row'.completed /\ row'.status = row.status
    BY <1>0, <2>1 DEF Row
  <2>3. RowOk
    BY <1>0, <1>1, <1>b, <2>2 DEF RowOk
  <2>4. OthersKeep(c)
    BY <1>a, <1>1, <2>2, Unmoved
  <2>5. Placed(c)'
    BY <1>0, <1>a, <1>1, <2>1, <2>2, MoveKeeps DEF Placed, Loops, CliPcs
  <2>6. QED
    BY <1>a, <1>1, <2>1, <2>3, <2>4, <2>5, FrameMove DEF CliPcs
<1>6. QED
  BY <1>2, <1>3, <1>4, <1>5

\* Going on after a finished step: everything before the next one is done.
LEMMA AdvanceInv ==
  ASSUME LiveInv, NEW c \in Clis, Advance(c), proc[c].at \in 1..Len(plan),
         NEW s \in Nat, s = proc[c].at + 1, Reached(s)', Grows, RowOk, OthersKeep(c), CountsOk
  PROVE  LiveInv'
<1>1. /\ c \in Procs /\ c \notin Daemons /\ proc \in [Procs -> Process]
  BY ProcsAssumption DEF LiveInv, TypeOK, Procs
<1>r. proc[c].resume \in BOOLEAN
  BY <1>1 DEF Process
<1> DEFINE r == Starting("point", s, proc[c].resume)
<1>2. r \in Process /\ r.pc = "point" /\ r.at = s
  BY <1>r, StartType DEF CliPcs
<1>3. proc' = [proc EXCEPT ![c] = r]
  BY DEF Advance
<1>4. plan' = plan /\ Len(plan) \in Nat /\ s <= Len(plan) + 1 /\ s >= 1
  BY <1>1, PlanType DEF LiveInv, TypeOK, Grows
<1> HIDE DEF r
<1>5. Placed(c)'
  BY <1>1, <1>2, <1>3, <1>4 DEF Placed, Loops, CliPcs
<1>6. PICK t : t = r
  OBVIOUS
<1>7. t \in Process /\ proc' = [proc EXCEPT ![c] = t] /\ t.at <= Len(plan) + 1 /\ t.at = s
  BY <1>2, <1>3, <1>4, <1>6
<1>8. Reached(t.at)'
  BY <1>7
<1>9. QED
  BY <1>1, <1>5, <1>7, <1>8, Frame

LEMMA ReachedNext ==
  ASSUME LiveInv, Grows, NEW s \in 1..Len(plan), Reached(s),
         plan[s] \in DdlKinds => s \in applied',
         plan[s] = "backfill_chunked" => todo' = {}, plan[s] \notin GateKinds
  PROVE  Reached(s + 1)'
<1>1. plan' = plan /\ Len(plan) \in Nat /\ DOMAIN plan = 1..Len(plan)
  BY PlanType DEF LiveInv, TypeOK, Grows
<1>2. ASSUME NEW t \in DOMAIN plan, t < s + 1
      PROVE  /\ plan[t] \in DdlKinds => t \in applied'
             /\ plan[t] = "backfill_chunked" => todo' = {}
             /\ plan[t] \notin GateKinds
  <2>1. t = s \/ t < s
    BY <1>1, <1>2
  <2>2. CASE t < s
    BY <2>2 DEF Reached, Grows
  <2>3. QED
    BY <2>1, <2>2
<1>3. QED
  BY <1>1, <1>2 DEF Reached

\* A step of DDL, the compatibility window, and the record of a failure.
LEMMA ExecInv ==
  ASSUME LiveInv, NEW p \in Procs,
         \/ p \in Clis /\ (Ddl(p) \/ BadStep(p) \/ Compatibility(p))
         \/ Fail(p)
  PROVE  LiveInv'
<1>0. /\ proc \in [Procs -> Process] /\ proc[p].at \in Nat /\ Placed(p)
      /\ Reached(proc[p].at) /\ Len(plan) \in Nat /\ DOMAIN plan = 1..Len(plan)
      /\ p \in Clis => p \notin Daemons
      /\ p \in Daemons => Drives(p)
  BY PlanType, ProcsAssumption
    DEF LiveInv, TypeOK, Shape, StepsInOrder, OneDaemonDrives, UnderLock, Drives, Process
<1>1. UNCHANGED <<plan, table, todo, lock>>
  BY DEF Ddl, BadStep, Compatibility, Fail, Frozen
<1>2. ASSUME p \in Clis, Leave(p, "fail"), UNCHANGED <<applied, row>>, CountsOk
      PROVE  LiveInv'
  <2>1. Grows /\ RowOk /\ OthersKeep(p)
    BY <1>1, <1>2, Unmoved
  <2>2. Placed(p)'
    BY <1>0, <1>2, MoveKeeps DEF Placed, Loops, CliPcs
  <2>3. QED
    BY <1>0, <1>2, <2>1, <2>2, FrameMove DEF CliPcs
<1>3. ASSUME p \in Clis, Advance(p), proc[p].at \in 1..Len(plan), row' = row, Grows,
             CountsOk,
             plan[proc[p].at] \in DdlKinds => proc[p].at \in applied',
             plan[proc[p].at] \notin GateKinds \cup {"backfill_chunked"}
      PROVE  LiveInv'
  <2>1. PICK s \in Nat : s = proc[p].at + 1
    BY <1>0
  <2>2. Reached(s)'
    <3>1. PICK t \in 1..Len(plan) : t = proc[p].at
      BY <1>3
    <3>2. Reached(t + 1)'
      BY <1>0, <1>3, <3>1, ReachedNext
    <3>3. QED
      BY <2>1, <3>1, <3>2
  <2>3. RowOk /\ OthersKeep(p)
    BY <1>1, <1>3, Unmoved
  <2>4. QED
    BY <1>3, <2>1, <2>2, <2>3, AdvanceInv
<1>4. CASE p \in Clis /\ Ddl(p)
  <2>1. CountsOk /\ row' = row /\ proc[p].at \in 1..Len(plan) /\ plan[proc[p].at] \in DdlKinds
    BY <1>0, <1>1, <1>4, Unmoved DEF Ddl, Placed, Kind
  <2>2. CASE Leave(p, "fail") /\ UNCHANGED applied
    BY <1>2, <1>4, <2>1, <2>2
  <2>3. CASE Advance(p) /\ applied' = applied \cup {proc[p].at}
    <3>1. PICK t \in 1..Len(plan) : t = proc[p].at
      BY <2>1
    <3>2. Reached(t)'
      BY <1>0, <1>1, <2>3, <3>1 DEF Reached
    <3>3. Grows
      BY <1>0, <1>1, <2>1, <2>3, <3>1, <3>2 DEF Grows
    <3>4. QED
      BY <1>3, <1>4, <2>1, <2>3, <3>3 DEF DdlKinds, GateKinds
  <2>4. QED
    BY <1>4, <2>2, <2>3 DEF Ddl
<1>5. CASE p \in Clis /\ BadStep(p)
  <2>1. CountsOk
    BY <1>5, BoundsAssumption DEF BadStep, CountsOk, LiveInv, TypeOK
  <2>2. QED
    BY <1>2, <1>5, <2>1 DEF BadStep
<1>6. CASE p \in Clis /\ Compatibility(p)
  <2>1. CountsOk /\ Grows /\ row' = row /\ proc[p].at \in 1..Len(plan)
        /\ plan[proc[p].at] = "begin_compatibility_window" /\ Advance(p)
    BY <1>0, <1>1, <1>6, Unmoved DEF Compatibility, Placed, Kind
  <2>2. QED
    BY <1>3, <1>6, <2>1 DEF DdlKinds, GateKinds
<1>7. CASE Fail(p)
  <2>1. Grows /\ CountsOk
    BY <1>1, <1>7, Unmoved DEF Fail
  <2>2. CASE p \in Clis
    <3>1. Leave(p, "off") /\ SetStatus("failed_terminal")
      BY <1>7, <2>2 DEF Fail
    <3>2. RowOk /\ OthersKeep(p)
      BY <1>1, <2>1, <3>1, Unmoved DEF Statuses
    <3>3. Placed(p)'
      BY <1>0, <2>2, <3>1, MoveKeeps DEF Placed, Loops, CliPcs
    <3>4. QED
      BY <1>0, <2>1, <2>2, <3>1, <3>2, <3>3, FrameMove DEF CliPcs
  <2>3. CASE p \in Daemons
    <3>0. p \notin Clis
      BY <2>3, ProcsAssumption
    <3>1. Leave(p, "clear") /\ SetStatus("failed_retriable") /\ proc[p].pc = "fail"
      BY <1>7, <3>0 DEF Fail
    <3>2. RowOk /\ OthersKeep(p) /\ row'.claim = row.claim
      BY <1>1, <2>1, <3>1, Unmoved DEF Statuses
    <3>3. Placed(p)'
      BY <1>0, <2>3, <3>1, MoveKeeps DEF Placed, Loops, DaemonPcs
    <3>4. Drives(p)'
      BY <1>0, <1>1, <2>3, <3>1, <3>2, MoveKeeps DEF Drives, DaemonPcs
    <3>5. QED
      BY <1>0, <2>1, <3>1, <3>2, <3>3, <3>4, FrameMove DEF DaemonPcs
  <2>4. QED
    BY <2>2, <2>3 DEF Procs
<1>8. QED
  BY <1>4, <1>5, <1>6, <1>7

-----------------------------------------------------------------------------
(* The chunk loop.                                                          *)

LEMMA LoopEnterInv ==
  ASSUME LiveInv, NEW p \in Procs, EnterLoop(p)
  PROVE  LiveInv'
<1>0. /\ proc \in [Procs -> Process] /\ proc[p].at \in Nat /\ Placed(p)
      /\ Reached(proc[p].at) /\ Len(plan) \in Nat /\ DOMAIN plan = 1..Len(plan)
      /\ proc[p].at <= Len(plan) + 1 /\ proc[p] \in Process /\ row.done \in Nat
      /\ crowded \in BOOLEAN
      /\ p \in Daemons => Drives(p)
  BY PlanType DEF LiveInv, TypeOK, Shape, StepsInOrder, OneDaemonDrives, UnderLock, Drives,
        Process, Row
<1>1. UNCHANGED <<plan, table, todo, applied, row, lock, commands, faults>>
  BY DEF EnterLoop, Frozen
<1>2. Grows /\ RowOk /\ OthersKeep(p)
  BY <1>1, Unmoved
<1>3. \/ p \in Clis /\ p \notin Daemons /\ proc[p].pc = "exec" /\ proc[p].at \in 1..Len(plan)
           /\ plan[proc[p].at] = "backfill_chunked"
      \/ p \in Daemons /\ p \notin Clis /\ proc[p].pc = "resume"
  BY <1>0, ProcsAssumption DEF EnterLoop, AtBackfill, Placed, Kind, Procs, CliPcs, DaemonPcs
<1>4. CASE row.status # "running"
  <2>1. Leave(p, "fail") /\ crowded' = crowded
    BY <1>4 DEF EnterLoop
  <2>2. CountsOk
    BY <1>1, <2>1 DEF LiveInv, TypeOK, CountsOk
  <2>3. Placed(p)'
    BY <1>0, <1>1, <1>3, <2>1, MoveKeeps DEF Placed, Loops, CliPcs, DaemonPcs
  <2>4. p \in Daemons => Drives(p)'
    BY <1>0, <1>1, <1>3, <2>1, MoveKeeps DEF Drives, DaemonPcs
  <2>5. "fail" \in CliPcs \cup DaemonPcs
    BY DEF CliPcs
  <2>6. QED
    BY <1>2, <2>1, <2>2, <2>3, <2>4, <2>5, FrameMove
<1>5. CASE row.status = "running"
  <2> DEFINE n == IF proc[p].resume THEN row.done ELSE 0
             loop == [proc[p] EXCEPT !.pc = "chunk", !.first = TRUE, !.total = n]
  <2>1. proc' = [proc EXCEPT ![p] = loop]
        /\ crowded' = (crowded \/ \E q \in Procs \ {p} : Loops(q))
    BY <1>5 DEF EnterLoop
  <2>2. n \in Nat
    BY <1>0
  <2> HIDE DEF n
  <2>3. loop \in Process /\ loop.pc = "chunk" /\ loop.at = proc[p].at
        /\ loop.cut = proc[p].cut
    BY <1>0, <2>2 DEF Process
  <2> HIDE DEF loop
  <2>4. PICK r \in Process : r.pc = "chunk" /\ r.at = proc[p].at
                               /\ r.cut = proc[p].cut /\ proc' = [proc EXCEPT ![p] = r]
    BY <2>1, <2>3
  <2>5. crowded' \in BOOLEAN
    <3>1. crowded' = (crowded \/ \E q \in Procs \ {p} : Loops(q))
      BY <2>1
    <3>2. QED
      BY <3>1, Zenon
  <2>6. CountsOk
    BY <1>1, <2>5 DEF LiveInv, TypeOK, CountsOk
  <2>7. proc'[p] = r
    BY <1>0, <2>4
  <2>8. Placed(p)'
    BY <1>0, <1>1, <1>3, <2>4, <2>7 DEF Placed, Loops, CliPcs, DaemonPcs
  <2>9. p \in Daemons => Drives(p)'
    BY <1>0, <1>1, <1>3, <2>4, <2>7 DEF Drives
  <2>10. Reached(r.at)' /\ r.at <= Len(plan) + 1
    BY <1>0, <1>1, <2>4 DEF Reached
  <2>11. QED
    BY <1>2, <2>4, <2>6, <2>8, <2>9, <2>10, Frame
<1>6. QED
  BY <1>4, <1>5

\* A chunk takes every row there is or as many as it holds; one that fails
\* gives them all back.
LEMMA ChunkInv ==
  ASSUME LiveInv, NEW p \in Procs, Chunk(p) \/ BadChunk(p)
  PROVE  LiveInv'
<1>0. /\ proc \in [Procs -> Process] /\ proc[p].at \in Nat /\ Placed(p)
      /\ Reached(proc[p].at) /\ Len(plan) \in Nat /\ DOMAIN plan = 1..Len(plan)
      /\ proc[p].at <= Len(plan) + 1 /\ proc[p] \in Process /\ todo \subseteq Rows
      /\ p \in Daemons => Drives(p)
  BY PlanType DEF LiveInv, TypeOK, Shape, StepsInOrder, OneDaemonDrives, UnderLock, Drives, Process
<1>1. UNCHANGED <<plan, table, todo, applied, row, lock>>
  BY DEF Chunk, BadChunk, Frozen, Counts
<1>2. Grows /\ RowOk /\ OthersKeep(p)
  BY <1>1, Unmoved
<1>3. CountsOk
  BY BoundsAssumption DEF LiveInv, TypeOK, CountsOk, Chunk, BadChunk, Counts
<1>4. Loops(p) /\ (p \in Clis \/ p \in Daemons)
  BY DEF Loops, Chunk, BadChunk, Procs
<1>5. CASE Chunk(p)
  <2>1. PICK S \in SUBSET Rows :
          /\ proc' = [proc EXCEPT ![p] = [proc[p] EXCEPT !.pc = "commit", !.pick = S]]
          /\ Cardinality(S) < ChunkSize => todo \subseteq S
    BY <1>0, <1>5 DEF Chunk
  <2>2. PICK r \in Process : /\ r.pc = "commit" /\ r.at = proc[p].at /\ r.pick = S
                             /\ r.cut = proc[p].cut /\ proc' = [proc EXCEPT ![p] = r]
    <3> DEFINE turn == [proc[p] EXCEPT !.pc = "commit", !.pick = S]
    <3>1. turn \in Process /\ turn.pc = "commit" /\ turn.at = proc[p].at /\ turn.pick = S
          /\ turn.cut = proc[p].cut
      BY <1>0 DEF Process
    <3>2. proc' = [proc EXCEPT ![p] = turn]
      BY <2>1
    <3> HIDE DEF turn
    <3>3. QED
      BY <3>1, <3>2
  <2>3. proc'[p] = r
    BY <1>0, <2>2
  <2>4. Placed(p)'
    BY <1>0, <1>1, <1>4, <2>1, <2>2, <2>3 DEF Placed, Loops, CliPcs, DaemonPcs
  <2>5. p \in Daemons => Drives(p)'
    BY <1>0, <1>1, <1>4, <2>2, <2>3 DEF Drives, Loops
  <2>6. Reached(r.at)' /\ r.at <= Len(plan) + 1
    BY <1>0, <1>1, <2>2 DEF Reached
  <2>7. QED
    BY <1>2, <1>3, <2>2, <2>4, <2>5, <2>6, Frame
<1>6. CASE BadChunk(p)
  <2>1. Leave(p, "fail") /\ "fail" \in CliPcs \cup DaemonPcs
    BY <1>6 DEF BadChunk, CliPcs
  <2>2. Placed(p)'
    BY <1>0, <2>1, MoveKeeps, ProcsAssumption DEF Placed, Loops, CliPcs, DaemonPcs
  <2>3. p \in Daemons => Drives(p)'
    BY <1>0, <1>1, <1>4, <2>1, MoveKeeps DEF Drives, Loops
  <2>4. QED
    BY <1>2, <1>3, <2>1, <2>2, <2>3, FrameMove
<1>7. QED
  BY <1>5, <1>6

\* The transaction of a chunk: fewer rows than it holds were all that is left.
LEMMA CommitInv ==
  ASSUME LiveInv, NEW p \in Procs, Commit(p)
  PROVE  LiveInv'
<1>0. /\ proc \in [Procs -> Process] /\ proc[p].at \in Nat /\ Placed(p)
      /\ Reached(proc[p].at) /\ Len(plan) \in Nat /\ DOMAIN plan = 1..Len(plan)
      /\ proc[p].at <= Len(plan) + 1 /\ proc[p] \in Process
      /\ row \in Row /\ row.step \in 0..Len(plan) /\ Reached(row.step)
      /\ row.claim \in Daemons \cup {Nobody}
      /\ proc[p].pc = "commit"
      /\ p \in Daemons => Drives(p)
  BY PlanType
    DEF LiveInv, TypeOK, Shape, StepsInOrder, OneDaemonDrives, UnderLock, Drives,
        Process, Commit, CommitWith
<1> DEFINE m == Cardinality(proc[p].pick)
<1>1. m \in Nat
  <2>1. proc[p].pick \subseteq Rows
    BY <1>0 DEF Process
  <2>2. QED
    BY <2>1, ChunkAssumption, FS_Subset, FS_CardinalityType
<1>2. /\ row' = [row EXCEPT !.done = proc[p].total + m, !.fresh = TRUE,
                            !.status = IF m < ChunkSize THEN "validating" ELSE @]
      /\ AfterChunk(p, m) /\ todo' = todo \ proc[p].pick
      /\ UNCHANGED <<plan, table, applied, lock, commands, faults, crowded>>
  BY DEF Commit, CommitWith, Frozen, Counts
<1>3. m < ChunkSize => todo' = {}
  BY <1>0, <1>2 DEF Placed
<1> HIDE DEF m
<1>4. /\ row' \in Row /\ row'.step = row.step /\ row'.claim = row.claim
      /\ row'.completed = row.completed /\ row'.status \in {row.status, "validating"}
  <2>1. proc[p].total + m \in Nat
    BY <1>0, <1>1 DEF Process
  <2>2. QED
    BY <1>0, <1>2, <2>1 DEF Row, Statuses
<1>5. Grows /\ CountsOk
  BY <1>2 DEF Grows, CountsOk, LiveInv, TypeOK
<1>6. \A s \in Nat : Reached(s) => Reached(s)'
  BY <1>5 DEF Reached, Grows
<1>7. RowOk
  <2>1. Reached(row.step)'
    <3>1. PICK s \in Nat : s = row.step
      BY <1>0
    <3>2. Reached(s)' /\ row'.step = s
      BY <1>0, <1>4, <1>6, <3>1
    <3>3. QED
      BY <3>2
  <2>2. QED
    BY <1>0, <1>4, <2>1 DEF RowOk
<1>8. OthersKeep(p)
  BY <1>2, <1>4, Unmoved
<1>9. ASSUME NEW r \in Process, proc' = [proc EXCEPT ![p] = r],
             r.pc = "chunk", r.at = proc[p].at, r.cut = proc[p].cut
      PROVE  LiveInv'
  <2>1. proc'[p] = r
    BY <1>0, <1>9
  <2>2. Placed(p)'
    BY <1>0, <1>2, <1>9, <2>1 DEF Placed, Loops, CliPcs, DaemonPcs
  <2>3. p \in Daemons => Drives(p)'
    BY <1>0, <1>2, <1>4, <1>9, <2>1 DEF Drives
  <2>4. Reached(r.at)' /\ r.at <= Len(plan) + 1
    BY <1>0, <1>6, <1>9
  <2>5. QED
    BY <1>5, <1>7, <1>8, <1>9, <2>2, <2>3, <2>4, Frame
<1>10. CASE Leave(p, "fail") \/ (p \notin Clis /\ Leave(p, "clear"))
  <2>1. PICK pc \in {"fail", "clear"} : Leave(p, pc) /\ (p \in Clis => pc = "fail")
    BY <1>10
  <2>2. pc \in CliPcs \cup DaemonPcs
    BY DEF CliPcs, DaemonPcs
  <2>3. Placed(p)'
    BY <1>0, <2>1, <2>2, MoveKeeps DEF Placed, Loops, CliPcs, DaemonPcs
  <2>4. p \in Daemons => Drives(p)'
    BY <1>0, <1>2, <1>4, <2>1, <2>2, MoveKeeps DEF Drives
  <2>5. QED
    BY <1>5, <1>7, <1>8, <2>1, <2>2, <2>3, <2>4, FrameMove
<1>11. CASE m < ChunkSize /\ p \in Clis /\ Advance(p)
  <2>1. PICK t \in 1..Len(plan) : t = proc[p].at /\ plan[t] = "backfill_chunked"
    BY <1>0, <1>11 DEF Placed, Loops
  <2>2. Reached(t + 1)'
    BY <1>0, <1>3, <1>5, <1>11, <2>1, ReachedNext DEF DdlKinds, GateKinds
  <2>3. QED
    BY <1>0, <1>5, <1>7, <1>8, <1>11, <2>1, <2>2, AdvanceInv
<1>12. CASE proc' = [proc EXCEPT ![p].pc = "chunk", ![p].first = FALSE,
                                 ![p].total = @ + m, ![p].pick = {}]
  <2> DEFINE total == proc[p].total + m
             loop == [proc[p] EXCEPT !.pc = "chunk", !.first = FALSE,
                                     !.total = total, !.pick = {}]
  <2>1. proc' = [proc EXCEPT ![p] = loop]
    BY <1>12
  <2>0. total \in Nat
    BY <1>0, <1>1 DEF Process
  <2> HIDE DEF total
  <2>2. loop \in Process /\ loop.pc = "chunk" /\ loop.at = proc[p].at /\ loop.cut = proc[p].cut
    BY <1>0, <2>0 DEF Process
  <2> HIDE DEF loop
  <2>3. PICK r \in Process : r.pc = "chunk" /\ r.at = proc[p].at
                               /\ r.cut = proc[p].cut /\ proc' = [proc EXCEPT ![p] = r]
    BY <2>1, <2>2
  <2>4. QED
    BY <1>9, <2>3
<1>13. QED
  BY <1>2, <1>10, <1>11, <1>12 DEF AfterChunk

-----------------------------------------------------------------------------
(* A daemon's turn, time and crashes.                                       *)

LEMMA DaemonInv ==
  ASSUME LiveInv, NEW d \in Daemons,
         Poll(d) \/ TryLock(d) \/ Claim(d) \/ ClearClaim(d) \/ Unlock(d)
  PROVE  LiveInv'
<1>a. d \in Procs /\ d \notin Clis /\ d # Nobody
  BY ProcsAssumption DEF Procs
<1>0. /\ proc \in [Procs -> Process] /\ proc[d] \in Process /\ proc[d].at \in Nat
      /\ Placed(d) /\ Drives(d) /\ Reached(proc[d].at) /\ proc[d].at <= Len(plan) + 1
      /\ row \in Row /\ row.step \in 0..Len(plan) /\ Reached(row.step)
      /\ row.claim \in Daemons \cup {Nobody} /\ lock \in Daemons \cup {Nobody}
      /\ plan \in Plans /\ Len(plan) \in Nat
  BY <1>a, PlanType
    DEF LiveInv, TypeOK, Shape, StepsInOrder, OneDaemonDrives, UnderLock, Drives, Process
<1>1. Grows /\ CountsOk /\ UNCHANGED <<plan, table, todo, applied>>
  BY Unmoved DEF Poll, TryLock, Claim, ClearClaim, Unlock, Frozen
<1>2. \A s \in Nat : Reached(s) => Reached(s)'
  BY <1>1 DEF Reached
<1>3. ASSUME NEW claim \in Daemons \cup {Nobody}, row' = [row EXCEPT !.claim = claim]
      PROVE  RowOk /\ row'.claim = claim /\ row'.step = row.step
  <2>1. /\ row' \in Row /\ row'.step = row.step /\ row'.claim = claim
        /\ row'.completed = row.completed /\ row'.status = row.status
    BY <1>0, <1>3 DEF Row, Procs
  <2>2. Reached(row.step)'
    BY <1>0, <1>1, <2>1 DEF Reached
  <2>3. QED
    BY <1>0, <1>1, <2>1, <2>2 DEF RowOk
<1>4. ASSUME NEW r \in Process, proc' = [proc EXCEPT ![d] = r],
             r.pc \in DaemonPcs \ {"commit"},
             r.at <= Len(plan) + 1, Reached(r.at), RowOk, OthersKeep(d),
             r.pc \notin {"off", "dead", "lock"} => lock' = d,
             r.pc \in {"resume", "chunk", "fail", "clear"} => row'.claim = d
      PROVE  LiveInv'
  <2>1. proc'[d] = r
    BY <1>a, <1>0, <1>4
  <2>2. Placed(d)'
    BY <1>a, <1>4, <2>1 DEF Placed, Loops, CliPcs, DaemonPcs
  <2>3. Drives(d)'
    BY <1>4, <2>1 DEF Drives, DaemonPcs
  <2>4. Reached(r.at)'
    BY <1>2, <1>4 DEF Process
  <2>5. QED
    BY <1>a, <1>1, <1>4, <2>2, <2>3, <2>4, Frame
<1>5. ASSUME NEW pc \in {"off", "claim", "unlock"}, Goto(d, pc) \/ Leave(d, pc),
             RowOk, OthersKeep(d), pc = "off" \/ proc[d].cut \/ lock' = d
      PROVE  LiveInv'
  <2>1. pc \in CliPcs \cup DaemonPcs
    BY DEF DaemonPcs
  <2>2. Placed(d)'
    BY <1>0, <1>a, <1>5, <2>1, MoveKeeps DEF Placed, Loops, DaemonPcs
  <2>3. Drives(d)'
    BY <1>0, <1>a, <1>5, <2>1, MoveKeeps DEF Drives
  <2>4. QED
    BY <1>a, <1>1, <1>5, <2>1, <2>2, <2>3, FrameMove
<1>6. CASE Poll(d)
  <2>1. PICK s \in Nat : s = row.step
    BY <1>0
  <2>2. proc' = [proc EXCEPT ![d] = Starting("lock", s, FALSE)] /\ row' = row /\ lock' = lock
    BY <1>6, <2>1 DEF Poll
  <2>3. RowOk /\ OthersKeep(d)
    BY <1>a, <1>1, <2>2, Unmoved
  <2>4. /\ Starting("lock", s, FALSE) \in Process
        /\ Starting("lock", s, FALSE).pc = "lock" /\ Starting("lock", s, FALSE).at = s
    BY StartType DEF DaemonPcs
  <2>5. "lock" \in DaemonPcs \ {"commit"} /\ Reached(s) /\ s <= Len(plan) + 1
    BY <1>0, <2>1 DEF DaemonPcs
  <2>6. QED
    BY <1>4, <2>2, <2>3, <2>4, <2>5
<1>7. CASE TryLock(d)
  <2>1. row' = row /\ \/ lock = Nobody /\ lock' = d /\ Goto(d, "claim")
                      \/ lock' = lock /\ Leave(d, "off")
    BY <1>7 DEF TryLock
  <2>2. RowOk
    BY <1>1, <2>1, Unmoved
  <2>3. OthersKeep(d)
    BY <1>0, <2>1, ProcsAssumption DEF OthersKeep, Procs
  <2>4. QED
    BY <1>5, <2>1, <2>2, <2>3
<1>8. CASE Claim(d)
  <2>1. lock' = lock /\ (~proc[d].cut => lock = d)
    BY <1>0, <1>8 DEF Claim, Drives
  <2>2. CASE Resumable /\ ~proc[d].cut
    <3>1. PICK pc \in {"resume", "clear"} :
            proc' = [proc EXCEPT ![d].resume = TRUE, ![d].pc = pc]
      BY <1>8, <2>2 DEF Claim
    <3> DEFINE turn == [proc[d] EXCEPT !.resume = TRUE, !.pc = pc]
    <3>2. turn \in Process /\ turn.pc = pc /\ turn.at = proc[d].at
      BY <1>0 DEF Process
    <3>3. proc' = [proc EXCEPT ![d] = turn]
      BY <3>1
    <3> HIDE DEF turn
    <3>4. PICK r \in Process : r.pc = pc /\ r.at = proc[d].at /\ proc' = [proc EXCEPT ![d] = r]
      BY <3>2, <3>3
    <3>5. row' = [row EXCEPT !.claim = d]
      BY <1>8, <2>2 DEF Claim
    <3>6. RowOk /\ row'.claim = d
      BY <1>3, <3>5
    <3>7. OthersKeep(d)
      BY <1>0, <2>1, <2>2 DEF OthersKeep
    <3>8. pc \in DaemonPcs \ {"commit"}
      BY DEF DaemonPcs
    <3>9. QED
      BY <1>0, <1>4, <2>1, <2>2, <3>4, <3>6, <3>7, <3>8
  <2>3. CASE ~(Resumable /\ ~proc[d].cut)
    <3>1. Leave(d, "unlock") /\ row' = row
      BY <1>8, <2>3 DEF Claim
    <3>2. RowOk /\ OthersKeep(d)
      BY <1>a, <1>1, <2>1, <3>1, Unmoved
    <3>3. QED
      BY <1>5, <2>1, <3>1, <3>2
  <2>4. QED
    BY <2>2, <2>3
<1>9. CASE ClearClaim(d)
  <2>1. PICK claim \in Daemons \cup {Nobody} :
          /\ row' = [row EXCEPT !.claim = claim]
          /\ claim = IF proc[d].cut THEN row.claim ELSE Nobody
    BY <1>0, <1>9 DEF ClearClaim
  <2>2. lock' = lock /\ (~proc[d].cut => lock = d) /\ Leave(d, "unlock")
    BY <1>0, <1>9 DEF ClearClaim, Drives
  <2>3. RowOk /\ row'.claim = claim
    BY <1>3, <2>1
  <2>4. OthersKeep(d)
    BY <1>0, <2>1, <2>2, <2>3 DEF OthersKeep
  <2>5. QED
    BY <1>5, <2>2, <2>3, <2>4
<1>10. CASE Unlock(d)
  <2>1. /\ lock' = (IF lock = d THEN Nobody ELSE lock) /\ row' = row
        /\ proc' = [proc EXCEPT ![d] = Starting("off", 0, FALSE)]
    BY <1>10 DEF Unlock, Idle
  <2>2. RowOk
    BY <1>1, <2>1, Unmoved
  <2>3. OthersKeep(d)
    BY <1>0, <2>1 DEF OthersKeep
  <2> DEFINE r == Starting("off", 0, FALSE)
  <2>4. r \in Process /\ r.pc = "off" /\ r.at = 0
    BY StartType DEF DaemonPcs
  <2> HIDE DEF r
  <2>5. "off" \in DaemonPcs \ {"commit"} /\ Reached(0) /\ 0 <= Len(plan) + 1
    BY <1>0, ReachedOne DEF DaemonPcs
  <2>6. QED
    <3>1. PICK t \in Process : t = r
      BY <2>4
    <3>2. proc' = [proc EXCEPT ![d] = t] /\ t.pc = "off" /\ t.at = 0
      BY <2>1, <2>4, <3>1 DEF r
    <3>3. QED
      BY <1>4, <2>1, <2>2, <2>3, <2>5, <3>2
<1>11. QED
  BY <1>6, <1>7, <1>8, <1>9, <1>10

\* A statement of the daemon's own fails: it gives up what it was at.
LEMMA BadPollInv ==
  ASSUME LiveInv, NEW d \in Daemons, BadPoll(d)
  PROVE  LiveInv'
<1>a. d \in Procs /\ d \notin Clis
  BY ProcsAssumption DEF Procs
<1>0. proc \in [Procs -> Process] /\ Placed(d) /\ Drives(d)
  BY <1>a DEF LiveInv, TypeOK, Shape, OneDaemonDrives, UnderLock, Drives
<1>1. UNCHANGED <<plan, table, todo, applied, row, lock>>
  BY DEF BadPoll, Frozen
<1>2. Grows /\ RowOk /\ OthersKeep(d)
  BY <1>a, <1>1, Unmoved
<1>3. CountsOk
  BY BoundsAssumption DEF LiveInv, TypeOK, CountsOk, BadPoll
<1>4. PICK pc \in {"off", "unlock", "fail", "clear"} :
        /\ Leave(d, pc)
        /\ pc = "unlock" => proc[d].pc \in {"claim", "clear"}
        /\ pc \in {"fail", "clear"} => proc[d].pc \in {"resume", "fail"}
  BY DEF BadPoll
<1>5. pc \in CliPcs \cup DaemonPcs
  BY DEF DaemonPcs
<1>6. proc'[d].pc = pc /\ proc'[d].cut = proc[d].cut
  BY <1>a, <1>0, <1>4, <1>5, MoveKeeps
<1>7. Placed(d)'
  BY <1>a, <1>6 DEF Placed, Loops, DaemonPcs
<1>8. Drives(d)'
  BY <1>0, <1>1, <1>4, <1>6 DEF Drives
<1>9. QED
  BY <1>a, <1>2, <1>3, <1>4, <1>5, <1>7, <1>8, FrameMove

\* The session of a daemon's lock drops: it no longer drives under it, and no
\* other daemon did.
LEMMA LoseLockInv ==
  ASSUME LiveInv, NEW d \in Daemons, LoseLock(d)
  PROVE  LiveInv'
<1>a. d \in Procs
  BY DEF Procs
<1>0. /\ proc \in [Procs -> Process] /\ proc[d] \in Process /\ proc[d].at \in Nat
      /\ Placed(d) /\ Reached(proc[d].at) /\ proc[d].at <= Len(plan) + 1
  BY <1>a DEF LiveInv, TypeOK, Shape, StepsInOrder, Process
<1>1. /\ UNCHANGED <<plan, table, todo, applied, row>> /\ lock = d /\ lock' = Nobody
  BY DEF LoseLock, Frozen
<1>2. Grows /\ RowOk
  BY <1>1, Unmoved
<1>3. OthersKeep(d)
  BY <1>1 DEF OthersKeep
<1>4. CountsOk
  BY BoundsAssumption DEF LiveInv, TypeOK, CountsOk, LoseLock
<1> DEFINE broken == [proc[d] EXCEPT !.cut = TRUE]
<1>5. /\ broken \in Process /\ broken.cut /\ broken.pc = proc[d].pc
      /\ broken.at = proc[d].at /\ broken.pick = proc[d].pick
  BY <1>0 DEF Process
<1>6. proc' = [proc EXCEPT ![d] = broken]
  BY DEF LoseLock
<1> HIDE DEF broken
<1>7. PICK r \in Process : /\ r.cut /\ r.pc = proc[d].pc /\ r.at = proc[d].at
                           /\ r.pick = proc[d].pick /\ proc' = [proc EXCEPT ![d] = r]
  BY <1>5, <1>6
<1>8. proc'[d] = r
  BY <1>a, <1>0, <1>7
<1>9. Placed(d)' /\ Drives(d)'
  BY <1>0, <1>1, <1>7, <1>8 DEF Placed, Loops, Drives
<1>10. Reached(r.at)' /\ r.at <= Len(plan) + 1
  BY <1>0, <1>1, <1>7 DEF Reached
<1>11. QED
  BY <1>a, <1>2, <1>3, <1>4, <1>7, <1>9, <1>10, Frame

LEMMA CrashInv ==
  ASSUME LiveInv, NEW p \in Procs, Crash(p)
  PROVE  LiveInv'
<1>0. proc \in [Procs -> Process] /\ Reached(0) /\ Len(plan) \in Nat
      /\ lock \in Daemons \cup {Nobody}
  BY PlanType, ReachedOne DEF LiveInv, TypeOK
<1>1. UNCHANGED <<plan, table, todo, applied, row>> /\ lock' = IF lock = p THEN Nobody ELSE lock
  BY DEF Crash, Frozen
<1>2. Grows /\ RowOk
  BY <1>1, Unmoved
<1>3. OthersKeep(p)
  BY <1>0, <1>1 DEF OthersKeep
<1>4. CountsOk
  BY BoundsAssumption DEF LiveInv, TypeOK, CountsOk, Crash
<1>5. PICK pc \in {"off", "dead"} :
        /\ proc' = [proc EXCEPT ![p] = Starting(pc, 0, FALSE)]
        /\ p \in Clis => pc = "off"
  BY DEF Crash, Idle
<1> DEFINE r == Starting(pc, 0, FALSE)
<1>6. r \in Process /\ r.pc = pc /\ r.at = 0 /\ proc' = [proc EXCEPT ![p] = r]
  BY <1>5, StartType DEF CliPcs, DaemonPcs
<1> HIDE DEF r
<1>7. proc'[p].pc = pc
  BY <1>0, <1>6
<1>8. Placed(p)' /\ (p \in Daemons => Drives(p)')
  BY <1>5, <1>7, ProcsAssumption DEF Placed, Loops, Drives, CliPcs, DaemonPcs
<1>9. Reached(0)' /\ 0 <= Len(plan) + 1
  BY <1>0, <1>1 DEF Reached
<1>10. QED
  <2>1. PICK t \in Process : t = r /\ t.at = 0 /\ proc' = [proc EXCEPT ![p] = t]
    BY <1>6
  <2>2. QED
    BY <1>2, <1>3, <1>4, <1>8, <1>9, <2>1, Frame

\* The row ages and nothing else does.
LEMMA AgeInv == ASSUME LiveInv, Age PROVE LiveInv'
<1>1. /\ UNCHANGED <<plan, table, todo, applied, lock, proc, commands, faults, crowded>>
      /\ row' = [row EXCEPT !.fresh = FALSE] /\ row \in Row
  BY DEF Age, Frozen, Counts, LiveInv, TypeOK
<1>2. /\ row' \in Row /\ row'.step = row.step /\ row'.claim = row.claim
      /\ row'.completed = row.completed /\ row'.status = row.status
  BY <1>1 DEF Row
<1>3. TypeOK'
  BY <1>1, <1>2 DEF LiveInv, TypeOK
<1>4. Shape'
  BY <1>1, <1>2 DEF LiveInv, Shape, Placed, Loops
<1>5. StepsInOrder' /\ CompleteIsDone'
  BY <1>1, <1>2 DEF LiveInv, StepsInOrder, CompleteIsDone, Reached
<1>6. OneDaemonDrives'
  BY <1>1, <1>2 DEF LiveInv, OneDaemonDrives, UnderLock
<1>7. QED
  BY <1>3, <1>4, <1>5, <1>6 DEF LiveInv

LEMMA NextInv == LiveInv /\ [Next]_vars => LiveInv'
<1> SUFFICES ASSUME LiveInv, [Next]_vars PROVE LiveInv'
  OBVIOUS
<1>1. ASSUME NEW c \in Clis, CliStep(c) \/ Operator(c) PROVE LiveInv'
  BY <1>1, CommandInv, WalkInv, ExecInv, LoopEnterInv, ChunkInv, CommitInv
    DEF CliStep, Operator, Procs
<1>2. ASSUME NEW d \in Daemons, DaemonStep(d) PROVE LiveInv'
  BY <1>2, DaemonInv, ExecInv, LoopEnterInv, ChunkInv, CommitInv DEF DaemonStep, Procs
<1>3. CASE Fault
  BY <1>3, ExecInv, BadPollInv, LoseLockInv, ChunkInv, CrashInv DEF Fault, Procs
<1>4. CASE Age
  BY <1>4, AgeInv
<1>5. CASE UNCHANGED vars
  <2>1. TypeOK'
    BY <1>5 DEF LiveInv, TypeOK, vars
  <2>2. Shape'
    BY <1>5 DEF LiveInv, Shape, Placed, Loops, vars
  <2>3. StepsInOrder' /\ CompleteIsDone' /\ OneDaemonDrives'
    BY <1>5 DEF LiveInv, StepsInOrder, CompleteIsDone, OneDaemonDrives, UnderLock, Reached, vars
  <2>4. QED
    BY <2>1, <2>2, <2>3 DEF LiveInv
<1>6. QED
  BY <1>1, <1>2, <1>3, <1>4, <1>5 DEF Next

THEOREM Inductive == Spec => []LiveInv
BY InitInv, NextInv, PTL DEF Spec

-----------------------------------------------------------------------------
(* What the plan and its operator can rely on.                              *)

\* Any number of terminals and daemons leaves the row and the processes with
\* values the code can give them.
THEOREM TypeCorrect == Spec => []TypeOK
BY Inductive, PTL DEF LiveInv

\* No step is worked on, pointed at or applied over an unfinished one
\* (executor.rs run_plan), whatever the plan, the crashes and the reruns.
THEOREM InOrder == Spec => []StepsInOrder
BY Inductive, PTL DEF LiveInv

\* Complete means stamped, all DDL committed and all rows converted
\* (executor.rs run_plan).
THEOREM CompleteMeansDone == Spec => []CompleteIsDone
BY Inductive, PTL DEF LiveInv

\* However many daemons poll, and whichever of them have lost their session and
\* drive on, at most one works under a session that stands, and it has the lock
\* and, once it drives, the claim (daemon.rs drive_candidate, clear_claim).
THEOREM OneDaemon == Spec => []OneDaemonDrives
BY Inductive, PTL DEF LiveInv

\* A plan that waits for validation is drained, if its patterns order a
\* validation gate after every backfill (live_migrate/pattern.rs does): the gate
\* is reached over finished steps, and the last chunk took what was left.
GatesAfterBackfills ==
  \A pl \in Plans : \A s, t \in DOMAIN pl :
    pl[s] = "validate_backfill" /\ pl[t] = "backfill_chunked" => t < s

\* The plan of each single pattern does (patterns/mod.rs dispatch_pattern).
THEOREM PatternsOrdered == Plans \subseteq Patterns => GatesAfterBackfills
<1> SUFFICES ASSUME Plans \subseteq Patterns, NEW pl \in Plans,
                    NEW s \in DOMAIN pl, NEW t \in DOMAIN pl,
                    pl[s] = "validate_backfill", pl[t] = "backfill_chunked"
             PROVE  t < s
  BY DEF GatesAfterBackfills
<1>1. CASE pl \in {ReplacementColumn, ThreeStepDefault, BackfillThenTighten}
  BY <1>1 DEF ReplacementColumn, ThreeStepDefault, BackfillThenTighten
<1>2. CASE pl \in {NullableNotNull, IndexDependent} \cup UniqueViaIndex
  BY <1>2 DEF NullableNotNull, IndexDependent, UniqueViaIndex
<1>3. CASE \E n \in Nat \ {0} : pl = MultiFkStaging(n)
  BY <1>3 DEF MultiFkStaging
<1>4. QED
  BY <1>1, <1>2, <1>3 DEF Patterns

Drained == (Backfills = {} => todo = {}) /\ ValidatingIsDrained

LEMMA DrainedNext ==
  ASSUME GatesAfterBackfills, LiveInv, Drained, [Next]_vars
  PROVE  Drained'
<1>0. /\ plan \in Plans /\ DOMAIN plan = 1..Len(plan) /\ Len(plan) \in Nat
      /\ row \in Row /\ \A p \in Procs : Placed(p) /\ Reached(proc[p].at)
  BY PlanType DEF LiveInv, TypeOK, Shape, StepsInOrder
<1>1. plan' = plan /\ todo' \subseteq todo
  BY DEF Next, CliStep, Operator, DaemonStep, Fault, Walk, AskAbandon, Abandon, Point,
    Ddl, BadStep, Compatibility, Gate, Fail, Stamp, Finish, EnterLoop, Chunk, Commit,
    CommitWith, BadChunk, Poll, TryLock, Claim, ClearClaim, Unlock, BadPoll, LoseLock, Age, Crash,
    Frozen, vars
<1>2. (Backfills = {} => todo = {})'
  BY <1>1 DEF Drained, Backfills
<1>3. CASE row'.status = "validating" /\ row.status # "validating"
  <2>1. PICK p \in Procs : \/ p \in Clis /\ Gate(p) /\ Kind(proc[p].at) = "validate_backfill"
                           \/ Commit(p)
    <3>1. row' # row
      BY <1>3
    <3>2. \A st : SetStatus(st) => row'.status = st
      BY <1>0 DEF SetStatus, Row
    <3>3. \A step : row' = [row EXCEPT !.step = step] => row'.status = row.status
      BY <1>0 DEF Row
    <3>4. \A claim : row' = [row EXCEPT !.claim = claim] => row'.status = row.status
      BY <1>0 DEF Row
    <3>5. /\ row' = [row EXCEPT !.completed = TRUE] => row'.status = row.status
          /\ row' = [row EXCEPT !.fresh = FALSE] => row'.status = row.status
      BY <1>0 DEF Row
    <3>6. ASSUME NEW c \in Clis, CliStep(c) \/ Operator(c)
          PROVE  (Gate(c) /\ Kind(proc[c].at) = "validate_backfill") \/ Commit(c)
      BY <1>3, <3>1, <3>2, <3>3, <3>5, <3>6
        DEF CliStep, Operator, Walk, AskAbandon, Abandon, Point, Ddl, Compatibility,
            Gate, Fail, Stamp, Finish, EnterLoop, Chunk
    <3>7. ASSUME NEW d \in Daemons, DaemonStep(d) PROVE Commit(d)
      BY <1>3, <3>1, <3>2, <3>4, <3>7
        DEF DaemonStep, Poll, TryLock, Claim, ClearClaim, Unlock, Fail, EnterLoop, Chunk
    <3>8. ~Fault /\ ~Age /\ ~UNCHANGED vars
      BY <1>3, <3>1, <3>5 DEF Fault, BadStep, BadPoll, LoseLock, BadChunk, Crash, Age, vars
    <3>9. QED
      BY <3>6, <3>7, <3>8 DEF Next, Procs
  <2>2. CASE p \in Clis /\ Gate(p) /\ Kind(proc[p].at) = "validate_backfill"
    <3>1. proc[p].at \in DOMAIN plan /\ plan[proc[p].at] = "validate_backfill" /\ todo' = todo
      BY <1>0, <2>2 DEF Gate, Kind
    <3>2. \A t \in Backfills : t < proc[p].at
      BY <1>0, <3>1 DEF GatesAfterBackfills, Backfills
    <3>3. todo = {}
      BY <1>0, <3>2 DEF Drained, Reached, Backfills
    <3>4. QED
      BY <1>1, <1>2, <3>3 DEF Drained, ValidatingIsDrained
  <2>3. CASE Commit(p)
    <3>1. proc[p].pc = "commit" /\ todo' = todo \ proc[p].pick
      BY <2>3 DEF Commit, CommitWith
    <3>2. Cardinality(proc[p].pick) < ChunkSize
      <4>1. row' = [row EXCEPT !.done = proc[p].total + Cardinality(proc[p].pick),
                               !.fresh = TRUE,
                               !.status = IF Cardinality(proc[p].pick) < ChunkSize
                                            THEN "validating" ELSE @]
        BY <2>3 DEF Commit, CommitWith
      <4>2. QED
        BY <1>0, <1>3, <4>1 DEF Row
    <3>3. todo' = {}
      BY <1>0, <3>1, <3>2 DEF Placed
    <3>4. QED
      BY <1>2, <3>3 DEF Drained, ValidatingIsDrained
  <2>4. QED
    BY <1>2, <2>1, <2>2, <2>3 DEF Drained
<1>4. CASE ~(row'.status = "validating" /\ row.status # "validating")
  BY <1>1, <1>2, <1>4 DEF Drained, ValidatingIsDrained
<1>5. QED
  BY <1>3, <1>4

THEOREM WaitingIsDrained ==
  ASSUME GatesAfterBackfills PROVE Spec => []ValidatingIsDrained
<1>1. Init => Drained
  BY DEF Init, Drained, ValidatingIsDrained
<1>2. LiveInv /\ Drained /\ [Next]_vars => Drained'
  BY DrainedNext
<1>3. Drained => ValidatingIsDrained
  BY DEF Drained
<1>4. QED
  BY <1>1, <1>2, <1>3, Inductive, PTL DEF Spec

\* Nobody begins to work on a plan that has ended: a command and a claim both
\* read the status they begin from (live.rs, daemon.rs CLAIM_UPDATE_SQL), and no
\* other step takes a process from rest to work.
THEOREM EndedStaysAlone == Spec => EndedIsLeftAlone
<1>1. ASSUME LiveInv, Next, row.status \in Terminal, NEW p \in Procs, ~Working(p)
      PROVE  ~Working(p)'
  <2>0. /\ proc \in [Procs -> Process] /\ Clis \subseteq Procs /\ Daemons \subseteq Procs
        /\ Placed(p)
    BY <1>1 DEF LiveInv, TypeOK, Shape, Procs
  <2>2. ASSUME NEW c \in Clis, CliStep(c) \/ Operator(c) PROVE ~Working(p)'
    <3>1. CASE c = p
      BY <1>1, <2>0, <2>2, <3>1
        DEF Working, CliStep, Operator, Walk, AskAbandon, Abandon, Point, Ddl, Compatibility,
            Gate, Fail, Stamp, Finish, EnterLoop, AtBackfill, Chunk, Commit, CommitWith,
            Terminal, Accepts
    <3>2. CASE c # p
      <4>1. proc'[p] = proc[p]
        BY <2>0, <2>2, <3>2
          DEF CliStep, Operator, Walk, AskAbandon, Abandon, Point, Ddl, Compatibility,
              Gate, Fail, Stamp, Finish, EnterLoop, Chunk, Commit, CommitWith, AfterChunk,
              Goto, Leave, Advance
      <4>2. QED
        BY <1>1, <4>1 DEF Working
    <3>3. QED
      BY <3>1, <3>2
  <2>3. ASSUME NEW d \in Daemons, DaemonStep(d) PROVE ~Working(p)'
    <3>1. CASE d = p
      <4>1. proc[p].pc \in {"off", "dead", "lock", "claim", "unlock"} /\ ~Resumable
        BY <1>1 DEF Working, Terminal, Resumable
      <4>2. Poll(p) \/ TryLock(p) \/ Claim(p) \/ Unlock(p)
        BY <2>3, <3>1, <4>1
          DEF DaemonStep, ClearClaim, Fail, EnterLoop, AtBackfill, Chunk, Commit, CommitWith
      <4>3. (\E pc \in {"off", "claim", "unlock"} : Goto(p, pc) \/ Leave(p, pc))
              \/ proc' = [proc EXCEPT ![p] = Starting("off", 0, FALSE)]
        BY <4>1, <4>2 DEF Poll, TryLock, Claim, Unlock, Idle
      <4>4. proc'[p].pc \in {"off", "claim", "unlock"}
        BY <2>0, <4>3, MoveKeeps DEF Starting, DaemonPcs
      <4>5. QED
        BY <4>4 DEF Working
    <3>2. CASE d # p
      <4>1. proc'[p] = proc[p]
        BY <2>0, <2>3, <3>2
          DEF DaemonStep, Poll, TryLock, Claim, ClearClaim, Unlock, Fail, EnterLoop, Chunk,
              Commit, CommitWith, AfterChunk, Goto, Leave, Advance
      <4>2. QED
        BY <1>1, <4>1 DEF Working
    <3>3. QED
      BY <3>1, <3>2
  <2>4. CASE Age \/ Fault
    <3>1. CASE Age
      BY <1>1, <3>1 DEF Age, Counts, Working
    <3>2. ASSUME NEW q \in Procs, Leave(q, "fail"), Working(q)
          PROVE  ~Working(p)'
      <4>1. p # q
        BY <1>1, <3>2
      <4>2. proc'[p] = proc[p]
        BY <2>0, <3>2, <4>1 DEF Leave
      <4>3. QED
        BY <1>1, <4>2 DEF Working
    <3>3. ASSUME NEW c \in Clis, BadStep(c) PROVE ~Working(p)'
      BY <2>0, <3>2, <3>3 DEF BadStep, Working
    <3>4. ASSUME NEW q \in Procs, BadChunk(q) PROVE ~Working(p)'
      BY <3>2, <3>4 DEF BadChunk, Working
    <3>5. ASSUME NEW q \in Procs, Crash(q) PROVE ~Working(p)'
      <4>1. proc' = [proc EXCEPT ![q] = Starting("off", 0, FALSE)]
              \/ proc' = [proc EXCEPT ![q] = Starting("dead", 0, FALSE)]
        BY <3>5 DEF Crash, Idle
      <4>2. proc'[p] = proc[p] \/ proc'[p].pc \in {"off", "dead"}
        BY <2>0, <4>1 DEF Starting
      <4>3. QED
        BY <1>1, <4>2 DEF Working
    <3>6. ASSUME NEW d \in Daemons, BadPoll(d) PROVE ~Working(p)'
      <4>1. CASE d = p
        <5>1. Leave(p, "off") \/ Leave(p, "unlock")
          BY <1>1, <3>6, <4>1 DEF BadPoll, Working
        <5>2. proc'[p].pc \in {"off", "unlock"}
          BY <2>0, <5>1, MoveKeeps DEF DaemonPcs
        <5>3. QED
          BY <5>2 DEF Working
      <4>2. CASE d # p
        <5>1. proc'[p] = proc[p]
          BY <2>0, <3>6, <4>2 DEF BadPoll, Leave
        <5>2. QED
          BY <1>1, <5>1 DEF Working
      <4>3. QED
        BY <4>1, <4>2
    <3>7. ASSUME NEW d \in Daemons, LoseLock(d) PROVE ~Working(p)'
      <4>1. PICK r : r = [proc[d] EXCEPT !.cut = TRUE]
        OBVIOUS
      <4>2. r.pc = proc[d].pc /\ proc' = [proc EXCEPT ![d] = r]
        BY <2>0, <3>7, <4>1 DEF LoseLock, Process
      <4>3. proc'[p].pc = proc[p].pc
        BY <2>0, <3>7, <4>2
      <4>4. QED
        BY <1>1, <4>3 DEF Working
    <3>8. QED
      BY <2>4, <3>1, <3>3, <3>4, <3>5, <3>6, <3>7 DEF Fault
  <2>5. QED
    BY <1>1, <2>2, <2>3, <2>4 DEF Next
<1>2. LiveInv /\ [Next]_vars
        => [row.status \in Terminal => \A p \in Procs : Working(p)' => Working(p)]_vars
  BY <1>1
<1>3. QED
  BY <1>2, Inductive, PTL DEF Spec, EndedIsLeftAlone
==============================================================================
