---------------------------- MODULE RunnerProofs ----------------------------
(***************************************************************************)
(* What Runner promises for any hosts, versions, units and policies.       *)
(***************************************************************************)
EXTENDS Runner, FiniteSetTheorems, WellFoundedInduction, TLAPS

(***************************************************************************)
(* The inductive invariant.  That a row can be trusted depends on what the *)
(* lock's holder remembers of it (Forward, Backward): the count in its     *)
(* hands runs ahead of the row's, and whatever the row does not count yet  *)
(* is covered by its claim.  Every other host can do one thing to the      *)
(* holder: delete its row, and then the version is in rerun.               *)
(***************************************************************************)

Working == {"unit", "exec", "ack", "finish"}

\* Row r of version v beside the units e that are in the schema.
RowOK(v, r, e, gone) ==
  /\ r.total # NoTotal => r.total = Cardinality(NonTx(v))
  /\ r.status \in {"pending", "failed"} => Acked(v, r.steps) \subseteq e
  /\ r.status = "rolled_back" => e = {}
  /\ v \notin gone /\ r.status = "none" => e = {}
  /\ v \notin gone /\ r.status \in {"pending", "failed"} /\ ~r.claim
       => NonTx(v) \cap e \subseteq Acked(v, r.steps)

Walk(v, op) == IF op = "apply" THEN Units(v) ELSE NonTx(v)

\* Command c has every unit up to k behind it, and counted.
Passed(v, c, e, k) ==
  /\ \A u \in Walk(v, c.op) : u <= k => u \in e
  /\ \A u \in NonTx(v) : u > k => StepsUpTo(v, u) > c.done
  /\ StepsUpTo(v, k) <= c.done

\* An apply or resume at work.
Forward(v, c, r, e, gone) ==
  /\ r.status \in {"none", "pending", "failed"}
  /\ r.status # "none" => r.id = c.id
  /\ v \notin gone => r.status # "none" /\ NonTx(v) \cap e \subseteq Acked(v, c.done)
  /\ c.pc = "unit" /\ v \notin gone => NonTx(v) \cap e \subseteq Acked(v, r.steps)
  /\ c.pc \in {"exec", "ack"} => c.at \in NonTx(v) /\ (v \notin gone => r.claim)
  /\ c.pc \in {"unit", "exec"} => c.at \in Walk(v, c.op) /\ Passed(v, c, e, c.at - 1)
  /\ c.pc = "ack" => Passed(v, c, e, c.at)
  /\ c.pc = "finish" => Walk(v, c.op) \subseteq e

\* A rollback at work.
Backward(v, c, r, e) ==
  /\ r.status \in {"none", "applied", "faked"}
  /\ c.pc = "unit" => c.at \in NonTx(v) /\ \A u \in NonTx(v) \cap e : u <= c.at
  /\ c.pc = "undo" => NonTx(v) \cap e = {}
  /\ c.pc = "finish" => e = {}

\* The command of the lock's holder.
Busy(v, c, r, e, gone) ==
  /\ c.op \in {"apply", "resume"} =>
       c.pc # "undo" /\ (c.pc \in Working => Forward(v, c, r, e, gone))
  /\ c.op = "down" =>
       c.pc \notin {"exec", "ack"} /\ (c.pc \in {"unit", "undo", "finish"} => Backward(v, c, r, e))
  /\ c.op = "repair" => c.pc \notin Working \cup {"undo"}

\* An apply that has begun has been let past a newer version, in its row's words.
Late(h, c, r) ==
  c.op = "apply" /\ c.pc \in Working /\ HigherApplied(c.ver)
    => h \notin Strict /\ (r.status # "none" => r.late)

RowsOK == \A v \in Versions : RowOK(v, ledger[v], effect[v], rerun)
Holder ==
  \A h \in Hosts : lock = h =>
    /\ Busy(run[h].ver, run[h], ledger[run[h].ver], effect[run[h].ver], rerun)
    /\ Late(h, run[h], ledger[run[h].ver])
Fresh == \A h \in Hosts : run[h].pc \in {"delete", "lock", "begin"} => run[h].done = 0

RunnerInv == TypeOK /\ RowsOK /\ Holder /\ Fresh

\* What a step makes applied deserves it: AppliedComplete and InVersionOrder.
Earned ==
  \A h \in Hosts, v \in Versions : Applies(h, v) =>
    /\ run[h].op = "apply" => effect'[v] = Units(v)
    /\ run[h].op = "resume" => NonTx(v) \subseteq effect'[v]
    /\ run[h].op = "apply" /\ HigherApplied(v) => ledger'[v].late /\ h \notin Strict

-----------------------------------------------------------------------------
(* Plans, counts and walks.                                                 *)

\* A nonempty set of numbers has a least one.
LEMMA LeastExists ==
  ASSUME NEW S \in SUBSET Nat, S # {}
  PROVE  Min(S) \in S /\ \A y \in S : Min(S) <= y
  <1>1. \E x \in S : \A y \in S : x <= y
    <2> DEFINE R == {p \in Nat \X Nat : p[1] < p[2]}
    <2>1. IsWellFoundedOn(R, Nat) BY NatLessThanWellFounded DEF OpToRel
    <2>2. PICK x \in S : \A y \in S : <<y, x>> \notin R
      <3> HIDE DEF R
      <3> QED BY <2>1, WFMin
    <2>3. \A y \in S : ~(y < x) BY <2>2
    <2> QED BY <2>3
  <1> QED BY <1>1 DEF Min

\* A nonempty set of numbers up to n has a greatest one.
LEMMA GreatestExists ==
  ASSUME NEW S \in SUBSET Nat, S # {}, NEW n \in Nat, \A x \in S : x <= n
  PROVE  Max(S) \in S /\ \A y \in S : Max(S) >= y
  <1> DEFINE T == {n - x : x \in S}
  <1>1. T \in SUBSET Nat /\ T # {}
    <2>1. \A x \in S : n - x \in Nat OBVIOUS
    <2> QED BY <2>1
  <1>2. PICK m \in T : \A y \in T : m <= y BY <1>1, LeastExists
  <1>3. PICK x \in S : m = n - x BY <1>2
  <1>4. \A y \in S : x >= y
    <2> SUFFICES ASSUME NEW y \in S PROVE x >= y OBVIOUS
    <2>1. n - x <= n - y BY <1>2, <1>3
    <2> QED BY <2>1
  <1> QED BY <1>3, <1>4 DEF Max

\* A plan is finite, and its versions and units are numbered from one.
LEMMA PlanFacts ==
  ASSUME TypeOK, NEW v \in Versions
  PROVE  /\ Versions \subseteq Nat
         /\ Len(plans[v]) \in Nat /\ Units(v) = 1..Len(plans[v])
         /\ NonTx(v) \subseteq Units(v) /\ Tx(v) \subseteq Units(v)
         /\ \A u \in Units(v) : u \in Tx(v) <=> u \notin NonTx(v)
         /\ IsFiniteSet(NonTx(v))
  <1>1. plans \in Seq(Seq({"tx", "non"})) BY BucketsAssumption DEF TypeOK
  <1>2. Versions = 1..Len(plans) /\ Len(plans) \in Nat BY <1>1 DEF Versions
  <1>3. plans[v] \in Seq({"tx", "non"}) BY <1>1, <1>2
  <1>4. Units(v) = 1..Len(plans[v]) /\ Len(plans[v]) \in Nat BY <1>3 DEF Units
  <1>5. NonTx(v) \subseteq Units(v) BY DEF NonTx
  <1>6. IsFiniteSet(Units(v)) BY <1>4, FS_Interval
  <1>7. IsFiniteSet(NonTx(v)) BY <1>5, <1>6, FS_Subset
  <1> QED BY <1>2, <1>4, <1>5, <1>7 DEF Tx

\* The count grows by one at each non-transactional statement and nowhere else.
LEMMA StepsFacts ==
  ASSUME TypeOK, NEW v \in Versions
  PROVE  /\ \A u \in Int : StepsUpTo(v, u) \in Nat
         /\ \A u, w \in Int : w <= u /\ (\A x \in NonTx(v) : x <= w \/ x > u)
              => StepsUpTo(v, u) = StepsUpTo(v, w)
         /\ \A u \in NonTx(v) : StepsUpTo(v, u) = StepsUpTo(v, u - 1) + 1
         /\ \A u \in NonTx(v), w \in Int : w < u => StepsUpTo(v, w) < StepsUpTo(v, u)
         /\ \A u \in Int : (\A x \in NonTx(v) : x > u) => StepsUpTo(v, u) = 0
  <1> DEFINE S(u) == {w \in NonTx(v) : w <= u}
  <1>1. IsFiniteSet(NonTx(v)) /\ NonTx(v) \subseteq Nat BY PlanFacts
  <1>2. \A u \in Int : StepsUpTo(v, u) = Cardinality(S(u)) BY DEF StepsUpTo
  <1>3. \A u : IsFiniteSet(S(u)) BY <1>1, FS_Subset
  <1>4. \A u \in Int : StepsUpTo(v, u) \in Nat BY <1>2, <1>3, FS_CardinalityType
  <1>5. ASSUME NEW u \in Int, NEW w \in Int, w <= u, \A x \in NonTx(v) : x <= w \/ x > u
        PROVE  StepsUpTo(v, u) = StepsUpTo(v, w)
    <2>1. S(u) = S(w) BY <1>1, <1>5
    <2> QED BY <1>2, <2>1
  <1>6. ASSUME NEW u \in NonTx(v) PROVE StepsUpTo(v, u) = StepsUpTo(v, u - 1) + 1
    <2>1. S(u) = S(u - 1) \cup {u} /\ u \notin S(u - 1) BY <1>1
    <2>2. Cardinality(S(u - 1) \cup {u}) = Cardinality(S(u - 1)) + 1
      BY <1>3, <2>1, FS_AddElement
    <2>3. u \in Int /\ u - 1 \in Int BY <1>1
    <2> QED BY <1>2, <2>1, <2>2, <2>3
  <1>7. ASSUME NEW u \in NonTx(v), NEW w \in Int, w < u
        PROVE  StepsUpTo(v, w) < StepsUpTo(v, u)
    <2>1. S(w) \subseteq S(u - 1) BY <1>1, <1>7
    <2>2. Cardinality(S(w)) <= Cardinality(S(u - 1)) BY <1>3, <2>1, FS_Subset
    <2>3. u \in Int /\ u - 1 \in Int BY <1>1
    <2>4. StepsUpTo(v, w) <= StepsUpTo(v, u - 1) BY <1>2, <2>2, <2>3
    <2> QED BY <1>4, <1>6, <2>3, <2>4
  <1>8. ASSUME NEW u \in Int, \A x \in NonTx(v) : x > u PROVE StepsUpTo(v, u) = 0
    <2>1. S(u) = {} BY <1>1, <1>8
    <2> QED BY <1>2, <2>1, FS_EmptySet
  <1> QED BY <1>4, <1>5, <1>6, <1>7, <1>8

\* Nobody writes the plans.
LEMMA PlansKept ==
  ASSUME UNCHANGED plans
  PROVE  /\ Versions' = Versions
         /\ \A v : /\ Units(v)' = Units(v) /\ NonTx(v)' = NonTx(v)
                   /\ \A n : Acked(v, n)' = Acked(v, n) /\ StepsUpTo(v, n)' = StepsUpTo(v, n)
                   /\ \A op : Walk(v, op)' = Walk(v, op)
  <1>1. Versions' = Versions BY DEF Versions
  <1>2. \A v : Units(v)' = Units(v) BY DEF Units
  <1>3. \A v : NonTx(v)' = NonTx(v) BY DEF NonTx, Units
  <1>4. \A v, n : StepsUpTo(v, n)' = StepsUpTo(v, n) BY <1>3 DEF StepsUpTo
  <1>5. \A v, n : Acked(v, n)' = Acked(v, n) BY <1>3, <1>4 DEF Acked
  <1>6. \A v, op : Walk(v, op)' = Walk(v, op) BY <1>2, <1>3 DEF Walk
  <1> QED BY <1>1, <1>2, <1>3, <1>4, <1>5, <1>6

\* What is said of a row or a command depends on the plans alone.
LEMMA SaidKept ==
  ASSUME UNCHANGED plans
  PROVE  /\ \A v, r, e, gone : RowOK(v, r, e, gone) => RowOK(v, r, e, gone)'
         /\ \A v, c, r, e, gone : Busy(v, c, r, e, gone) => Busy(v, c, r, e, gone)'
  <1>1. \A v, r, e, gone : RowOK(v, r, e, gone) => RowOK(v, r, e, gone)'
    BY PlansKept DEF RowOK
  <1>2. \A v, c, e, k : Passed(v, c, e, k) => Passed(v, c, e, k)'
    BY PlansKept DEF Passed
  <1>3. \A v, c, r, e, gone : Forward(v, c, r, e, gone) => Forward(v, c, r, e, gone)'
    BY <1>2, PlansKept DEF Forward
  <1>4. \A v, c, r, e : Backward(v, c, r, e) => Backward(v, c, r, e)'
    BY PlansKept DEF Backward
  <1> QED BY <1>1, <1>3, <1>4 DEF Busy

\* A step that touches neither ledger nor schema, of a command that is at no
\* statement afterwards.
LEMMA QuietStep ==
  ASSUME RunnerInv, NEW h \in Hosts, NEW c \in Run,
         run' = [run EXCEPT ![h] = c],
         c.pc \in {"idle", "delete", "lock", "begin", "unlock"},
         c.pc # "idle" => c.ver \in Versions,
         c.pc \in {"delete", "lock", "begin"} => c.done = 0,
         \/ lock' = lock /\ (lock = h <=> c.pc \notin {"idle", "delete", "lock"})
         \/ lock = NoHost /\ lock' = h /\ c.pc = "begin"
         \/ lock = h /\ lock' = NoHost /\ c.pc = "idle",
         UNCHANGED <<plans, ledger, rows, effect, rerun>>, stops' \in 0..MaxStops[plans]
  PROVE  RunnerInv' /\ Earned
  <1>1. run'[h] = c /\ \A g \in Hosts \ {h} : run'[g] = run[g] BY DEF RunnerInv, TypeOK
  <1>2. \A g \in Hosts : lock' = g <=> run'[g].pc \notin {"idle", "delete", "lock"}
    BY <1>1, HostsAssumption DEF RunnerInv, TypeOK
  <1>3. TypeOK' BY <1>1, <1>2, PlansKept DEF RunnerInv, TypeOK
  <1>4. RowsOK' BY SaidKept, PlansKept DEF RunnerInv, RowsOK
  <1>5. Holder'
    <2> SUFFICES ASSUME NEW g \in Hosts, lock' = g
                 PROVE  (/\ Busy(run[g].ver, run[g], ledger[run[g].ver], effect[run[g].ver], rerun)
                         /\ Late(g, run[g], ledger[run[g].ver]))'
      BY DEF Holder
    <2>1. CASE g = h BY <1>1, <2>1 DEF Busy, Late, Working, Run
    <2>2. CASE g # h
      <3>1. lock = g /\ run'[g] = run[g] BY <1>1, <2>2, HostsAssumption
      <3>2. Busy(run[g].ver, run[g], ledger[run[g].ver], effect[run[g].ver], rerun)
        BY <3>1 DEF RunnerInv, Holder
      <3>3. Late(g, run[g], ledger[run[g].ver]) BY <3>1 DEF RunnerInv, Holder
      <3>4. Late(g, run[g], ledger[run[g].ver])'
        BY <3>1, <3>3, PlansKept DEF Late, HigherApplied
      <3> QED BY <3>1, <3>2, <3>4, SaidKept
    <2> QED BY <2>1, <2>2
  <1>6. Fresh' BY <1>1 DEF RunnerInv, Fresh
  <1>7. Earned BY DEF Earned, Applies
  <1> QED BY <1>3, <1>4, <1>5, <1>6, <1>7 DEF RunnerInv

\* A step of the lock's holder, who works on one version.
LEMMA HolderStep ==
  ASSUME RunnerInv, NEW h \in Hosts, lock = h,
         NEW v \in Versions, run[h].ver = v,
         NEW c \in Run, NEW r \in Row, NEW e, e \subseteq Units(v),
         c.ver = v, c.pc \notin {"idle", "delete", "lock", "begin"},
         run' = [run EXCEPT ![h] = c],
         ledger' = [ledger EXCEPT ![v] = r], effect' = [effect EXCEPT ![v] = e],
         rows' \in 0..MaxRows[plans], UNCHANGED <<plans, lock, rerun, stops>>,
         RowOK(v, r, e, rerun), Busy(v, c, r, e, rerun), Late(h, c, r),
         r.status = "applied" /\ ledger[v].status # "applied" =>
           /\ run[h].op = "apply" => e = Units(v)
           /\ run[h].op = "resume" => NonTx(v) \subseteq e
           /\ run[h].op = "apply" /\ HigherApplied(v) => r.late /\ h \notin Strict
  PROVE  RunnerInv' /\ Earned
  <1>1. run'[h] = c /\ \A g \in Hosts \ {h} : run'[g] = run[g] BY DEF RunnerInv, TypeOK
  <1>2. /\ ledger'[v] = r /\ effect'[v] = e
        /\ \A w \in Versions \ {v} : ledger'[w] = ledger[w] /\ effect'[w] = effect[w]
    BY DEF RunnerInv, TypeOK
  <1>3. TypeOK'
    <2>1. \A g \in Hosts : lock' = g <=> run'[g].pc \notin {"idle", "delete", "lock"}
      BY <1>1 DEF RunnerInv, TypeOK
    <2>2. Units(v) \subseteq Nat BY PlanFacts DEF RunnerInv
    <2>3. ledger' \in [Versions -> Row] /\ effect' \in [Versions -> SUBSET Nat]
      BY <2>2 DEF RunnerInv, TypeOK
    <2>4. \A w \in Versions : effect'[w] \subseteq Units(w) BY <1>2 DEF RunnerInv, TypeOK
    <2>5. run' \in [Hosts -> Run] BY DEF RunnerInv, TypeOK
    <2>6. \A g \in Hosts : run'[g].pc # "idle" => run'[g].ver \in Versions
      BY <1>1 DEF RunnerInv, TypeOK
    <2> QED BY <2>1, <2>3, <2>4, <2>5, <2>6, PlansKept DEF RunnerInv, TypeOK
  <1>4. RowsOK'
    <2>1. \A w \in Versions : RowOK(w, ledger'[w], effect'[w], rerun)
      BY <1>2 DEF RunnerInv, RowsOK
    <2> QED BY <2>1, SaidKept, PlansKept DEF RowsOK
  <1>5. Holder'
    <2>1. \A g \in Hosts : lock' = g => g = h OBVIOUS
    <2>2. Busy(v, c, r, e, rerun)' BY SaidKept
    <2>3. HigherApplied(v)' => HigherApplied(v)
      <3>1. \A w \in Versions : w > v => w # v BY PlanFacts DEF RunnerInv
      <3> QED BY <1>2, <3>1, PlansKept DEF HigherApplied
    <2>4. Late(h, c, r)' BY <2>3 DEF Late
    <2> QED BY <1>1, <1>2, <2>1, <2>2, <2>4 DEF Holder
  <1>6. Fresh' BY <1>1 DEF RunnerInv, Fresh
  <1>7. Earned
    <2> SUFFICES ASSUME NEW g \in Hosts, NEW w \in Versions, Applies(g, w)
                 PROVE  g = h /\ w = v /\ r.status = "applied" /\ ledger[v].status # "applied"
      BY <1>2 DEF Earned
    <2> QED BY <1>2 DEF Applies
  <1> QED BY <1>3, <1>4, <1>5, <1>6, <1>7 DEF RunnerInv

-----------------------------------------------------------------------------
(* Steps that leave ledger and schema alone, and the cleanup.               *)

\* A command is given, waits, gets the lock, ends, crashes or is refused.
LEMMA CommandsInv ==
  ASSUME RunnerInv, NEW h \in Hosts,
         \/ \E v \in Versions, op \in {"apply", "resume", "down", "repair"} : Command(h, op, v)
         \/ \E v \in Versions : CliApply(h, v)
         \/ Lock(h) \/ GiveUp(h) \/ Unlock(h) \/ Stop(h) \/ Refuse(h) \/ FailDown(h)
  PROVE  RunnerInv' /\ Earned
  <1> USE DEF At, Doing, Go, NoRun
  <1> DEFINE y == run[h]
  <1>1. y \in Run /\ NoRun \in Run BY DEF RunnerInv, TypeOK, Run
  <1>2. /\ y.pc # "idle" => y.ver \in Versions
        /\ lock = h <=> y.pc \notin {"idle", "delete", "lock"}
        /\ y.pc \in {"delete", "lock", "begin"} => y.done = 0
        /\ stops \in 0..MaxStops[plans]
    BY DEF RunnerInv, TypeOK, Fresh
  <1>3. ASSUME NEW v \in Versions, NEW op \in {"apply", "resume", "down", "repair"},
               Command(h, op, v)
        PROVE  RunnerInv' /\ Earned
    <2> DEFINE c == [NoRun EXCEPT !.ver = v, !.op = op, !.pc = "lock"]
    <2>1. c \in Run /\ c.pc = "lock" /\ c.ver = v /\ c.done = 0
      BY PlanFacts DEF Run, RunnerInv
    <2>2. run' = [run EXCEPT ![h] = c] /\ UNCHANGED <<plans, ledger, rows, effect, lock, rerun, stops>>
      BY <1>3 DEF Command
    <2>3. lock # h BY <1>2, <1>3 DEF Command
    <2> HIDE DEF c
    <2> QED BY <1>2, <2>1, <2>2, <2>3, QuietStep
  <1>4. ASSUME NEW v \in Versions, CliApply(h, v) PROVE RunnerInv' /\ Earned
    <2> DEFINE c == [NoRun EXCEPT !.ver = v,
                       !.pc = IF ledger[v].status = "none" THEN "lock" ELSE "delete"]
    <2>1. c \in Run /\ c.pc \in {"lock", "delete"} /\ c.ver = v /\ c.done = 0
      BY PlanFacts DEF Run, RunnerInv
    <2>2. run' = [run EXCEPT ![h] = c] /\ UNCHANGED <<plans, ledger, rows, effect, lock, rerun, stops>>
      BY <1>4 DEF CliApply
    <2>3. lock # h BY <1>2, <1>4 DEF CliApply
    <2> HIDE DEF c
    <2> QED BY <1>2, <2>1, <2>2, <2>3, QuietStep
  <1>5. CASE Lock(h)
    <2> DEFINE c == [y EXCEPT !.pc = "begin"]
    <2>1. c \in Run /\ c.pc = "begin" /\ c.ver = y.ver /\ c.done = y.done BY <1>1 DEF Run
    <2>2. /\ run' = [run EXCEPT ![h] = c] /\ lock = NoHost /\ lock' = h /\ y.pc = "lock"
          /\ UNCHANGED <<plans, ledger, rows, effect, rerun, stops>>
      BY <1>5 DEF Lock
    <2> HIDE DEF c, y
    <2> QED BY <1>2, <2>1, <2>2, QuietStep
  <1>6. ASSUME GiveUp(h) \/ Unlock(h) \/ Stop(h) PROVE RunnerInv' /\ Earned
    <2>1. /\ run' = [run EXCEPT ![h] = NoRun] /\ stops' \in 0..MaxStops[plans]
          /\ UNCHANGED <<plans, ledger, rows, effect, rerun>>
          /\ \/ lock' = lock /\ lock # h
             \/ lock = h /\ lock' = NoHost
      <3>1. CASE GiveUp(h) BY <1>2, <3>1 DEF GiveUp
      <3>2. CASE Unlock(h) BY <1>2, <3>2 DEF Unlock
      <3>3. CASE Stop(h)
        <4>1. stops + 1 \in 0..MaxStops[plans]
          <5>1. plans \in Buckets BY DEF RunnerInv, TypeOK
          <5>2. MaxStops[plans] \in Nat BY <5>1, BoundsAssumption
          <5> QED BY <1>2, <3>3, <5>2 DEF Stop
        <4> QED BY <3>3, <4>1 DEF Stop
      <3> QED BY <1>6, <3>1, <3>2, <3>3
    <2> QED BY <1>1, <2>1, QuietStep
  <1>7. ASSUME Refuse(h) \/ FailDown(h) PROVE RunnerInv' /\ Earned
    <2> DEFINE c == [y EXCEPT !.pc = "unlock"]
    <2>1. c \in Run /\ c.pc = "unlock" /\ c.ver = y.ver BY <1>1 DEF Run
    <2>2. /\ run' = [run EXCEPT ![h] = c] /\ y.pc \in {"begin", "unit", "undo"}
          /\ UNCHANGED <<plans, ledger, rows, effect, lock, rerun, stops>>
      BY <1>7 DEF Refuse, FailDown
    <2> HIDE DEF c, y
    <2> QED BY <1>2, <2>1, <2>2, QuietStep
  <1> QED BY <1>3, <1>4, <1>5, <1>6, <1>7

\* The cleanup takes a row away from whoever works on it, and the version is
\* then in rerun.
LEMMA DeleteInv ==
  ASSUME RunnerInv, NEW g \in Hosts, CliDelete(g)
  PROVE  RunnerInv' /\ Earned
  <1>1. PICK w \in Versions : w = run[g].ver /\ run[g].pc = "delete" /\ lock # g
    BY DEF RunnerInv, TypeOK, CliDelete, At
  <1>2. /\ ledger' = [ledger EXCEPT ![w] = NoRow] /\ run' = [run EXCEPT ![g].pc = "lock"]
        /\ rerun' = IF ledger[w].status # "none" /\ (effect[w] # {} \/ lock # NoHost)
                    THEN rerun \cup {w} ELSE rerun
        /\ UNCHANGED <<plans, rows, effect, lock, stops>>
    BY <1>1 DEF CliDelete, Go, Mine
  <1>3. /\ ledger'[w] = NoRow /\ \A v \in Versions \ {w} : ledger'[v] = ledger[v]
        /\ run'[g] = [run[g] EXCEPT !.pc = "lock"] /\ \A h \in Hosts \ {g} : run'[h] = run[h]
    BY <1>2 DEF RunnerInv, TypeOK
  <1>4. run[g] \in Run /\ run'[g] \in Run /\ NoRow \in Row
    BY <1>3 DEF RunnerInv, TypeOK, Run, Row, NoRow
  <1>5. run'[g].pc = "lock" /\ run'[g].ver = w /\ run'[g].done = run[g].done
    BY <1>1, <1>3, <1>4 DEF Run
  <1>6. NoRow.status = "none" /\ NoRow.total = NoTotal BY DEF NoRow
  <1>7. TypeOK'
    <2>1. ledger' \in [Versions -> Row] /\ run' \in [Hosts -> Run] /\ rerun' \subseteq Versions
      BY <1>2, <1>3, <1>4 DEF RunnerInv, TypeOK
    <2>2. \A h \in Hosts : /\ lock = h <=> run'[h].pc \notin {"idle", "delete", "lock"}
                           /\ run'[h].pc # "idle" => run'[h].ver \in Versions
      BY <1>1, <1>3, <1>5 DEF RunnerInv, TypeOK
    <2> QED BY <1>2, <2>1, <2>2, PlansKept DEF RunnerInv, TypeOK
  <1>8. RowsOK'
    <2>1. ASSUME NEW v \in Versions PROVE RowOK(v, ledger'[v], effect[v], rerun')
      <3>1. RowOK(v, ledger[v], effect[v], rerun) BY DEF RunnerInv, RowsOK
      <3>2. CASE v = w BY <1>2, <1>3, <1>6, <3>1, <3>2 DEF RowOK
      <3>3. CASE v # w
        <4>1. ledger'[v] = ledger[v] /\ (v \in rerun' <=> v \in rerun) BY <1>2, <1>3, <3>3
        <4> QED BY <3>1, <4>1 DEF RowOK
      <3> QED BY <3>2, <3>3
    <2> QED BY <1>2, <2>1, SaidKept, PlansKept DEF RowsOK
  <1>9. ASSUME NEW h \in Hosts, lock = h, NEW v \in Versions, NEW y, NEW r,
               y = run[h], v = y.ver, r = ledger'[v]
        PROVE  Busy(v, y, r, effect[v], rerun') /\ Late(h, y, r)'
    <2>1. Busy(v, y, ledger[v], effect[v], rerun) /\ Late(h, y, ledger[v])
      BY <1>9 DEF RunnerInv, Holder
    <2>2. lock # NoHost BY <1>9, HostsAssumption
    <2>3. HigherApplied(v)' => HigherApplied(v) BY <1>2, <1>3, <1>6, PlansKept DEF HigherApplied
    <2>4. CASE v = w
      <3>1. r = NoRow BY <1>3, <1>9, <2>4
      <3>2. v \in rerun' \/ (ledger[v].status = "none" /\ rerun' = rerun) BY <1>2, <2>2, <2>4
      <3>3. Busy(v, y, NoRow, effect[v], rerun')
        BY <1>6, <2>1, <3>2 DEF Busy, Forward, Backward
      <3>4. Late(h, y, r)' BY <1>6, <1>9, <2>1, <2>3, <3>1 DEF Late
      <3> QED BY <3>1, <3>3, <3>4
    <2>5. CASE v # w
      <3>1. r = ledger[v] /\ (v \in rerun' <=> v \in rerun) BY <1>2, <1>3, <1>9, <2>5
      <3>2. Busy(v, y, r, effect[v], rerun') BY <2>1, <3>1 DEF Busy, Forward
      <3>3. Late(h, y, r)' BY <1>9, <2>1, <2>3, <3>1 DEF Late
      <3> QED BY <3>2, <3>3
    <2> QED BY <2>4, <2>5
  <1>10. Holder'
    <2> SUFFICES ASSUME NEW h \in Hosts, lock' = h
                 PROVE  (/\ Busy(run[h].ver, run[h], ledger[run[h].ver], effect[run[h].ver], rerun)
                         /\ Late(h, run[h], ledger[run[h].ver]))'
      BY DEF Holder
    <2>1. lock = h /\ h # g /\ run'[h] = run[h] BY <1>1, <1>2, <1>3
    <2>2. PICK v \in Versions : v = run[h].ver BY <2>1 DEF RunnerInv, TypeOK
    <2>3. PICK y, r : y = run[h] /\ r = ledger'[v] OBVIOUS
    <2>4. Busy(v, y, r, effect[v], rerun') /\ Late(h, y, r)' BY <1>9, <2>1, <2>2, <2>3
    <2>5. Busy(v, y, r, effect[v], rerun)' BY <1>2, <2>4, SaidKept
    <2> QED BY <2>1, <2>2, <2>3, <2>4, <2>5
  <1>11. Fresh' BY <1>1, <1>3, <1>5 DEF RunnerInv, Fresh
  <1>12. Earned BY <1>3, <1>6 DEF Earned, Applies
  <1> QED BY <1>7, <1>8, <1>10, <1>11, <1>12 DEF RunnerInv

-----------------------------------------------------------------------------
(* Walks.                                                                   *)

\* The first unit of a set from u on.
LEMMA FromFacts ==
  ASSUME NEW S \in SUBSET (Nat \ {0}), NEW u \in Int, NEW a, a = From(S, u)
  PROVE  /\ a \in Nat
         /\ a = 0 => \A x \in S : x < u
         /\ a # 0 => a \in S /\ a >= u /\ \A x \in S : x >= u => x >= a
  <1> DEFINE T == {v \in S : v >= u}
  <1>1. T \in SUBSET Nat OBVIOUS
  <1>2. a = IF T = {} THEN 0 ELSE Min(T) BY DEF From
  <1>3. CASE T = {} BY <1>2, <1>3
  <1>4. CASE T # {}
    <2>1. Min(T) \in T /\ \A x \in T : Min(T) <= x
      <3> HIDE DEF T
      <3> QED BY <1>1, <1>4, LeastExists
    <2> QED BY <1>2, <1>4, <2>1
  <1> QED BY <1>3, <1>4

\* The last unit of a set up to u.
LEMMA UpToFacts ==
  ASSUME NEW S \in SUBSET (Nat \ {0}), NEW u \in Nat, NEW a, a = UpTo(S, u)
  PROVE  /\ a \in Nat
         /\ a = 0 => \A x \in S : x > u
         /\ a # 0 => a \in S /\ a <= u /\ \A x \in S : x <= u => x <= a
  <1> DEFINE T == {v \in S : v <= u}
  <1>1. T \in SUBSET Nat /\ \A x \in T : x <= u OBVIOUS
  <1>2. a = IF T = {} THEN 0 ELSE Max(T) BY DEF UpTo
  <1>3. CASE T = {} BY <1>2, <1>3
  <1>4. CASE T # {}
    <2>1. Max(T) \in T /\ \A x \in T : Max(T) >= x
      <3> HIDE DEF T
      <3> QED BY <1>1, <1>4, GreatestExists
    <2> QED BY <1>2, <1>4, <2>1
  <1> QED BY <1>3, <1>4

\* A set of units, as the walks need it.
LEMMA WalkFacts ==
  ASSUME TypeOK, NEW v \in Versions, NEW op
  PROVE  /\ Units(v) \subseteq Nat \ {0} /\ NonTx(v) \subseteq Walk(v, op)
         /\ Walk(v, op) \subseteq Units(v)
  BY PlanFacts DEF Walk

\* What of a command Passed looks at.
LEMMA PassedSame ==
  ASSUME NEW v, NEW c, NEW d, NEW e, NEW k, Passed(v, c, e, k),
         d.op = c.op, d.done = c.done
  PROVE  Passed(v, d, e, k)
  BY DEF Passed

\* After u the walk stands at the next unit, with everything before it passed,
\* or has passed all.
LEMMA AfterFacts ==
  ASSUME TypeOK, NEW h \in Hosts, NEW v \in Versions, run[h].ver = v,
         run[h].op \in {"apply", "resume"}, NEW u \in Nat, NEW e,
         Passed(v, run[h], e, u), NEW c, c = After(h, u)
  PROVE  /\ c \in Run /\ c.ver = v /\ c.op = run[h].op /\ c.id = run[h].id
         /\ c.done = run[h].done /\ c.pc \in {"unit", "finish"}
         /\ c.pc = "unit" => c.at \in Walk(v, c.op) /\ Passed(v, c, e, c.at - 1) /\ c.at > u
         /\ c.pc = "finish" => Walk(v, c.op) \subseteq e
  <1>1. PICK y \in Run : y = run[h] BY DEF TypeOK
  <1> DEFINE W == Walk(v, y.op)
  <1>2. W \in SUBSET (Nat \ {0}) /\ NonTx(v) \subseteq W BY WalkFacts
  <1>3. Walked(h) = W BY <1>1 DEF Walked, Walk
  <1> HIDE DEF W
  <1>4. PICK a : a = From(W, u + 1) OBVIOUS
  <1>5. /\ a \in Nat
        /\ a = 0 => \A x \in W : x < u + 1
        /\ a # 0 => a \in W /\ a >= u + 1 /\ \A x \in W : x >= u + 1 => x >= a
    <2>1. PICK k \in Int : k = u + 1 OBVIOUS
    <2>2. a = From(W, k) BY <1>4, <2>1
    <2>3. /\ a \in Nat
          /\ a = 0 => \A x \in W : x < k
          /\ a # 0 => a \in W /\ a >= k /\ \A x \in W : x >= k => x >= a
      BY <1>2, <2>2, FromFacts
    <2> QED BY <2>1, <2>3
  <1>6. c = IF a = 0 THEN [y EXCEPT !.pc = "finish", !.at = 0]
                     ELSE [y EXCEPT !.pc = "unit", !.at = a]
    BY <1>1, <1>3, <1>4 DEF After
  <1>7. /\ \A x \in W : x <= u => x \in e
        /\ \A x \in NonTx(v) : x > u => StepsUpTo(v, x) > y.done
        /\ StepsUpTo(v, u) <= y.done
    BY <1>1 DEF Passed, W
  <1>8. CASE a = 0
    <2>1. /\ c \in Run /\ c.ver = y.ver /\ c.op = y.op /\ c.id = y.id /\ c.done = y.done
          /\ c.pc = "finish"
      <3>1. c = [y EXCEPT !.pc = "finish", !.at = 0] BY <1>6, <1>8
      <3>2. 0 \in Nat /\ y \in Run OBVIOUS
      <3>3. c \in Run BY <3>1, <3>2 DEF Run
      <3> QED BY <3>1, <3>2 DEF Run
    <2>2. W \subseteq e BY <1>2, <1>5, <1>7, <1>8
    <2> QED BY <1>1, <2>1, <2>2 DEF W
  <1>9. CASE a # 0
    <2>1. /\ c \in Run /\ c.ver = y.ver /\ c.op = y.op /\ c.id = y.id /\ c.done = y.done
          /\ c.pc = "unit" /\ c.at = a
      BY <1>5, <1>6, <1>9 DEF Run
    <2>2. \A x \in W : x <= a - 1 => x \in e BY <1>2, <1>5, <1>7, <1>9
    <2>3. \A x \in NonTx(v) : x > a - 1 => StepsUpTo(v, x) > y.done
      <3>1. \A x \in NonTx(v) : x \in Nat BY <1>2
      <3>2. \A x \in Nat : x > a - 1 => x > u BY <1>5, <1>9
      <3> QED BY <1>7, <3>1, <3>2
    <2>4. StepsUpTo(v, a - 1) = StepsUpTo(v, u)
      <3>1. ASSUME NEW x \in NonTx(v) PROVE x <= u \/ x > a - 1
        <4>1. x \in W /\ x \in Nat BY <1>2
        <4> QED BY <1>5, <1>9, <4>1
      <3>2. a - 1 \in Int /\ u <= a - 1 BY <1>5, <1>9
      <3> QED BY <3>1, <3>2, StepsFacts
    <2>5. Passed(v, c, e, a - 1) BY <1>7, <2>1, <2>2, <2>3, <2>4 DEF Passed, W
    <2> QED BY <1>1, <1>5, <1>9, <2>1, <2>5 DEF W
  <1> QED BY <1>8, <1>9

\* The sets of units whose changes may be in the schema.
Effects == SUBSET Nat

\* What the lock's holder may rely on.
LEMMA Here ==
  ASSUME RunnerInv, NEW h \in Hosts, run[h].pc \notin {"idle", "delete", "lock"}
  PROVE  \E v \in Versions, y \in Run, r \in Row, e \in Effects :
           /\ v = y.ver /\ y = run[h] /\ r = ledger[v] /\ e = effect[v]
           /\ lock = h /\ TypeOK /\ e \subseteq Units(v)
           /\ RowOK(v, r, e, rerun) /\ Busy(v, y, r, e, rerun) /\ Late(h, y, r)
           /\ rows \in 0..MaxRows[plans] /\ (y.pc = "begin" => y.done = 0)
           /\ ledger = [ledger EXCEPT ![v] = r] /\ effect = [effect EXCEPT ![v] = e]
  <1>1. PICK y \in Run : y = run[h] BY DEF RunnerInv, TypeOK
  <1>2. PICK v \in Versions : v = y.ver BY <1>1 DEF RunnerInv, TypeOK
  <1>3. PICK r \in Row, e \in Effects : r = ledger[v] /\ e = effect[v] BY DEF RunnerInv, TypeOK, Effects
  <1>4. lock = h BY DEF RunnerInv, TypeOK
  <1>5. TypeOK /\ e \subseteq Units(v) /\ rows \in 0..MaxRows[plans] BY <1>3 DEF RunnerInv, TypeOK
  <1>6. RowOK(v, r, e, rerun) BY <1>3 DEF RunnerInv, RowsOK
  <1>7. Busy(v, y, r, e, rerun) /\ Late(h, y, r) BY <1>1, <1>2, <1>3, <1>4 DEF RunnerInv, Holder
  <1>8. y.pc = "begin" => y.done = 0 BY <1>1 DEF RunnerInv, Fresh
  <1>9. ledger = [ledger EXCEPT ![v] = r] /\ effect = [effect EXCEPT ![v] = e]
    BY <1>3 DEF RunnerInv, TypeOK
  <1> QED BY <1>1, <1>2, <1>3, <1>4, <1>5, <1>6, <1>7, <1>8, <1>9

\* Row r after a statement that writes new, which finds it unless it is gone.
Written(r, new) == IF r.status = "none" THEN r ELSE new

\* A ledger write of the holder: its row, or none.
LEMMA WriteFacts ==
  ASSUME TypeOK, NEW h \in Hosts, NEW v \in Versions, run[h].ver = v, NEW new,
         \/ UpdateByVersion(h, new)
         \/ UpdateById(h, new) /\ (ledger[v].status # "none" => ledger[v].id = run[h].id)
  PROVE  ledger' = [ledger EXCEPT ![v] = Written(ledger[v], new)]
  <1>1. ledger = [ledger EXCEPT ![v] = ledger[v]] BY DEF TypeOK
  <1> QED BY <1>1 DEF UpdateByVersion, UpdateById, Mine, Written

-----------------------------------------------------------------------------
(* Apply and resume.                                                        *)

\* A row a command has counted right: every statement it acknowledges is done.
LEMMA CountHonest ==
  ASSUME TypeOK, NEW v \in Versions, NEW c \in Run, NEW e, NEW k \in Int,
         Passed(v, c, e, k)
  PROVE  Acked(v, c.done) \subseteq e
  <1> SUFFICES ASSUME NEW u \in NonTx(v), StepsUpTo(v, u) <= c.done PROVE u \in e
    BY DEF Acked
  <1>1. u \in Nat \ {0} /\ u \in Walk(v, c.op) BY WalkFacts
  <1>2. StepsUpTo(v, u) \in Nat /\ c.done \in Nat BY <1>1, StepsFacts DEF Run
  <1>3. ~(u > k) BY <1>2 DEF Passed
  <1> QED BY <1>1, <1>3 DEF Passed

\* A transactional segment commits.
LEMMA RunTxInv ==
  ASSUME RunnerInv, NEW h \in Hosts, RunTx(h) PROVE RunnerInv' /\ Earned
  <1>0. run[h].pc = "unit" /\ run[h].op = "apply" BY DEF RunTx, Doing, At
  <1>1. PICK v \in Versions, y \in Run, r \in Row, e \in Effects :
           /\ v = y.ver /\ y = run[h] /\ r = ledger[v] /\ e = effect[v]
           /\ lock = h /\ TypeOK /\ e \subseteq Units(v)
           /\ RowOK(v, r, e, rerun) /\ Busy(v, y, r, e, rerun) /\ Late(h, y, r)
           /\ rows \in 0..MaxRows[plans]
           /\ ledger = [ledger EXCEPT ![v] = r]
    BY <1>0, Here
  <1>2. PICK u : u = y.at OBVIOUS
  <1>3. u \in Tx(v) /\ u \in Nat \ {0} /\ u \notin NonTx(v) /\ u \in Units(v)
    BY <1>1, <1>2, PlanFacts, WalkFacts DEF RunTx
  <1>4. PICK c : c = After(h, u) OBVIOUS
  <1>5. PICK f : f = e \cup {u} OBVIOUS
  <1>6. Forward(v, y, r, e, rerun) BY <1>0, <1>1 DEF Busy, Working
  <1>7. Passed(v, y, f, u)
    <2>1. Passed(v, y, e, u - 1) BY <1>0, <1>1, <1>2, <1>6 DEF Forward
    <2>2. \A x \in Walk(v, y.op) : x \in Nat BY <1>1, WalkFacts
    <2>3. \A x \in Walk(v, y.op) : x <= u => x \in f
      BY <1>3, <1>5, <2>1, <2>2 DEF Passed
    <2>4. \A x \in NonTx(v) : x > u => StepsUpTo(v, x) > y.done
      <3> SUFFICES ASSUME NEW x \in NonTx(v), x > u PROVE StepsUpTo(v, x) > y.done OBVIOUS
      <3>1. x \in Nat BY <1>1, WalkFacts
      <3>2. x > u - 1 BY <1>3, <3>1
      <3> QED BY <2>1, <3>2 DEF Passed
    <2>5. StepsUpTo(v, u) = StepsUpTo(v, u - 1)
      <3>1. ASSUME NEW x \in NonTx(v) PROVE x <= u - 1 \/ x > u
        <4>1. x \in Nat /\ x # u BY <1>1, <1>3, WalkFacts
        <4> QED BY <1>3, <4>1
      <3>2. u \in Int /\ u - 1 \in Int /\ u - 1 <= u BY <1>3
      <3> QED BY <1>1, <3>1, <3>2, StepsFacts
    <2> QED BY <2>1, <2>3, <2>4, <2>5 DEF Passed
  <1>8. /\ c \in Run /\ c.ver = v /\ c.op = "apply" /\ c.id = y.id
        /\ c.done = y.done /\ c.pc \in {"unit", "finish"}
        /\ c.pc = "unit" => c.at \in Walk(v, c.op) /\ Passed(v, c, f, c.at - 1)
        /\ c.pc = "finish" => Walk(v, c.op) \subseteq f
    BY <1>0, <1>1, <1>3, <1>4, <1>7, AfterFacts
  <1>9. NonTx(v) \cap f = NonTx(v) \cap e /\ e \subseteq f /\ f \subseteq Units(v)
    BY <1>1, <1>3, <1>5
  <1>10. RowOK(v, r, f, rerun) BY <1>1, <1>6, <1>9 DEF RowOK, Forward
  <1>11. Forward(v, c, r, f, rerun) BY <1>0, <1>1, <1>6, <1>8, <1>9 DEF Forward
  <1>12. Busy(v, c, r, f, rerun) BY <1>8, <1>11 DEF Busy, Working
  <1>13. Late(h, c, r) BY <1>0, <1>1, <1>8 DEF Late, Working
  <1>14. /\ run' = [run EXCEPT ![h] = c] /\ ledger' = [ledger EXCEPT ![v] = r]
         /\ effect' = [effect EXCEPT ![v] = f] /\ UNCHANGED <<plans, rows, lock, rerun, stops>>
    BY <1>1, <1>2, <1>4, <1>5 DEF RunTx
  <1> QED BY <1>1, <1>6, <1>8, <1>9, <1>10, <1>12, <1>13, <1>14, HolderStep DEF Forward

\* The command ends with a ledger write of its own: no statement is under way.
LEMMA LeavesWith ==
  ASSUME RunnerInv, NEW h \in Hosts, NEW v \in Versions, NEW r \in Row, NEW e,
         e \subseteq Units(v), run[h].ver = v, lock = h,
         ledger' = [ledger EXCEPT ![v] = r], effect' = [effect EXCEPT ![v] = e],
         Go(h, "unlock"), UNCHANGED <<plans, rows, lock, rerun, stops>>,
         RowOK(v, r, e, rerun),
         r.status = "applied" /\ ledger[v].status # "applied" =>
           /\ run[h].op = "apply" => e = Units(v)
           /\ run[h].op = "resume" => NonTx(v) \subseteq e
           /\ run[h].op = "apply" /\ HigherApplied(v) => r.late /\ h \notin Strict
  PROVE  RunnerInv' /\ Earned
  <1>1. PICK y \in Run : y = run[h] BY DEF RunnerInv, TypeOK
  <1>2. PICK c : c = [y EXCEPT !.pc = "unlock"] OBVIOUS
  <1>3. c \in Run /\ c.ver = v /\ c.pc = "unlock" BY <1>1, <1>2 DEF Run
  <1>4. run' = [run EXCEPT ![h] = c] BY <1>1, <1>2 DEF Go
  <1>5. Busy(v, c, r, e, rerun) /\ Late(h, c, r) BY <1>3 DEF Busy, Late, Working
  <1>6. rows' \in 0..MaxRows[plans] BY DEF RunnerInv, TypeOK
  <1> QED BY <1>3, <1>4, <1>5, <1>6, HolderStep

\* A transactional segment fails, or a statement does: the row says so.
LEMMA FailuresInv ==
  ASSUME RunnerInv, NEW h \in Hosts, FailTx(h) \/ FailExec(h) PROVE RunnerInv' /\ Earned
  <1>0. /\ run[h].pc \in {"unit", "exec"} /\ Go(h, "unlock")
        /\ FailTx(h) => run[h].op = "apply" /\ run[h].pc = "unit"
        /\ FailExec(h) => run[h].pc = "exec"
        /\ UNCHANGED <<plans, rows, effect, lock, rerun, stops>>
    BY DEF FailTx, FailExec, Doing, At
  <1>1. PICK v \in Versions, y \in Run, r \in Row, e \in Effects :
           /\ v = y.ver /\ y = run[h] /\ r = ledger[v] /\ e = effect[v]
           /\ lock = h /\ TypeOK /\ e \subseteq Units(v)
           /\ RowOK(v, r, e, rerun) /\ Busy(v, y, r, e, rerun)
           /\ effect = [effect EXCEPT ![v] = e]
    BY <1>0, Here
  <1>2. y.op \in {"apply", "resume"}
    <2>1. y.op \in {"apply", "resume", "down", "repair"} BY DEF Run
    <2> QED BY <1>0, <1>1, <2>1 DEF Busy, Working
  <1>3. Forward(v, y, r, e, rerun) BY <1>0, <1>1, <1>2 DEF Busy, Working
  <1>4. PICK n \in Nat : n = IF FailTx(h) THEN r.steps ELSE y.done BY DEF Row, Run
  <1> DEFINE new == [r EXCEPT !.status = "failed", !.steps = n, !.claim = FALSE]
             z == Written(r, new)
  <1>5. ledger' = [ledger EXCEPT ![v] = z]
    <2>1. UpdateById(h, new)
      <3>1. CASE FailTx(h)
        <4>1. new = [r EXCEPT !.status = "failed", !.claim = FALSE] BY <1>4, <3>1 DEF Row
        <4> QED BY <1>1, <3>1, <4>1 DEF FailTx, Mine
      <3>2. CASE ~FailTx(h) BY <1>1, <1>4, <3>2 DEF FailExec, Mine
      <3> QED BY <3>1, <3>2
    <2> HIDE DEF new
    <2> QED BY <1>1, <1>3, <2>1, WriteFacts DEF Forward
  <1>6. /\ z \in Row /\ z.status \in {"none", "failed"} /\ z.total = r.total
        /\ z.status = "none" <=> r.status = "none"
        /\ z.status = "failed" => z.steps = n /\ ~z.claim
    BY <1>3 DEF Row, Written, Forward
  <1> HIDE DEF z
  <1>7. Acked(v, n) \subseteq e \/ r.status = "none"
    <2>1. CASE FailTx(h) BY <1>1, <1>3, <1>4, <2>1 DEF RowOK, Forward
    <2>2. CASE ~FailTx(h)
      <3>1. Passed(v, y, e, y.at - 1) /\ y.at \in NonTx(v)
        BY <1>0, <1>1, <1>3, <2>2 DEF Forward
      <3>2. y.at - 1 \in Int BY <1>1, <3>1, WalkFacts
      <3> QED BY <1>1, <1>4, <2>2, <3>1, <3>2, CountHonest
    <2> QED BY <2>1, <2>2
  <1>8. v \notin rerun => NonTx(v) \cap e \subseteq Acked(v, n)
    BY <1>0, <1>1, <1>3, <1>4 DEF Forward
  <1>9. RowOK(v, z, e, rerun) BY <1>1, <1>6, <1>7, <1>8 DEF RowOK
  <1> QED BY <1>0, <1>1, <1>5, <1>6, <1>9, LeavesWith

\* A statement is claimed.
LEMMA ClaimInv ==
  ASSUME RunnerInv, NEW h \in Hosts, Claim(h) PROVE RunnerInv' /\ Earned
  <1>0. /\ run[h].pc = "unit" /\ run[h].op \in {"apply", "resume"}
        /\ run[h].at \in NonTx(run[h].ver)
    BY DEF Claim, At
  <1>1. PICK v \in Versions, y \in Run, r \in Row, e \in Effects :
           /\ v = y.ver /\ y = run[h] /\ r = ledger[v] /\ e = effect[v]
           /\ lock = h /\ TypeOK /\ e \subseteq Units(v)
           /\ RowOK(v, r, e, rerun) /\ Busy(v, y, r, e, rerun) /\ Late(h, y, r)
           /\ rows \in 0..MaxRows[plans]
           /\ effect = [effect EXCEPT ![v] = e]
    BY <1>0, Here
  <1>2. Forward(v, y, r, e, rerun) BY <1>0, <1>1 DEF Busy, Working
  <1> DEFINE new == [r EXCEPT !.claim = TRUE]
             z == Written(r, new)
             c == [y EXCEPT !.pc = "exec"]
  <1>3. ledger' = [ledger EXCEPT ![v] = z]
    <2>1. UpdateById(h, new) BY <1>1 DEF Claim, Mine
    <2> HIDE DEF new
    <2> QED BY <1>1, <1>2, <2>1, WriteFacts DEF Forward
  <1>4. /\ z \in Row /\ z.status = r.status /\ z.total = r.total /\ z.id = r.id
        /\ z.steps = r.steps /\ z.late = r.late
        /\ r.status # "none" => z.claim
    BY DEF Row, Written
  <1>5. /\ c \in Run /\ c.ver = v /\ c.op = y.op /\ c.id = y.id /\ c.done = y.done
        /\ c.at = y.at /\ c.pc = "exec"
    BY <1>1 DEF Run
  <1> HIDE DEF z, c
  <1>6. RowOK(v, z, e, rerun)
    <2>1. z.claim \/ r.status = "none" BY <1>4
    <2> QED BY <1>1, <1>4, <2>1 DEF RowOK
  <1>7. Passed(v, c, e, c.at - 1)
    <2>1. Passed(v, y, e, y.at - 1) BY <1>0, <1>1, <1>2 DEF Forward
    <2> QED BY <1>5, <2>1, PassedSame
  <1>8. c.at \in NonTx(v) /\ c.at \in Walk(v, c.op) BY <1>0, <1>1, <1>5, WalkFacts
  <1>9. Forward(v, c, z, e, rerun) BY <1>2, <1>4, <1>5, <1>7, <1>8 DEF Forward
  <1>10. Busy(v, c, z, e, rerun) BY <1>0, <1>1, <1>5, <1>9 DEF Busy, Working
  <1>11. Late(h, c, z) BY <1>0, <1>1, <1>4, <1>5 DEF Late, Working
  <1>12. /\ run' = [run EXCEPT ![h] = c] /\ effect' = [effect EXCEPT ![v] = e]
         /\ UNCHANGED <<plans, rows, lock, rerun, stops>>
    BY <1>1 DEF Claim, Go, c
  <1>13. z.status # "applied" BY <1>2, <1>4 DEF Forward
  <1> QED BY <1>1, <1>3, <1>4, <1>5, <1>6, <1>10, <1>11, <1>12, <1>13, HolderStep

\* A statement commits: it is behind the command, and its claim is in the row.
LEMMA ExecInv ==
  ASSUME RunnerInv, NEW h \in Hosts, Exec(h) PROVE RunnerInv' /\ Earned
  <1>0. run[h].pc = "exec" BY DEF Exec, At
  <1>1. PICK v \in Versions, y \in Run, r \in Row, e \in Effects :
           /\ v = y.ver /\ y = run[h] /\ r = ledger[v] /\ e = effect[v]
           /\ lock = h /\ TypeOK /\ e \subseteq Units(v)
           /\ RowOK(v, r, e, rerun) /\ Busy(v, y, r, e, rerun) /\ Late(h, y, r)
           /\ rows \in 0..MaxRows[plans]
           /\ ledger = [ledger EXCEPT ![v] = r]
    BY <1>0, Here
  <1>2. y.op \in {"apply", "resume"}
    <2>1. y.op \in {"apply", "resume", "down", "repair"} BY DEF Run
    <2> QED BY <1>0, <1>1, <2>1 DEF Busy, Working
  <1>3. Forward(v, y, r, e, rerun) BY <1>0, <1>1, <1>2 DEF Busy, Working
  <1>4. PICK u : u = y.at OBVIOUS
  <1>5. /\ u \in NonTx(v) /\ u \in Nat \ {0} /\ u \in Units(v)
        /\ Passed(v, y, e, u - 1) /\ (v \notin rerun => r.claim)
    BY <1>0, <1>1, <1>3, <1>4, WalkFacts DEF Forward
  <1>6. PICK f : f = e \cup {u} OBVIOUS
  <1>7. PICK n \in Nat : n = y.done BY DEF Run
  <1> DEFINE c == [y EXCEPT !.pc = "ack", !.done = n + 1]
  <1>8. /\ c \in Run /\ c.ver = v /\ c.op = y.op /\ c.id = y.id /\ c.done = n + 1
        /\ c.at = u /\ c.pc = "ack"
    <2>1. n + 1 \in Nat /\ y \in Run OBVIOUS
    <2>2. c \in Run BY <2>1 DEF Run
    <2>3. /\ c.ver = y.ver /\ c.op = y.op /\ c.id = y.id /\ c.done = n + 1
          /\ c.at = y.at /\ c.pc = "ack"
      BY <2>1 DEF Run
    <2> QED BY <1>1, <1>4, <2>2, <2>3
  <1>9. run' = [run EXCEPT ![h] = c] BY <1>1, <1>7 DEF Exec, TypeOK
  <1> HIDE DEF c
  <1>10. /\ \A x \in Walk(v, y.op) : x \in Nat
         /\ \A x \in NonTx(v) : x \in Nat /\ StepsUpTo(v, x) \in Nat
         /\ StepsUpTo(v, u) = StepsUpTo(v, u - 1) + 1 /\ StepsUpTo(v, u - 1) \in Nat
    <2>1. \A x \in Walk(v, y.op) : x \in Nat BY <1>1, WalkFacts
    <2>2. \A x \in NonTx(v) : x \in Nat BY <1>1, WalkFacts
    <2>3. \A x \in Int : StepsUpTo(v, x) \in Nat BY <1>1, StepsFacts
    <2>4. StepsUpTo(v, u) = StepsUpTo(v, u - 1) + 1 BY <1>1, <1>5, StepsFacts
    <2>5. u - 1 \in Int BY <1>5
    <2> QED BY <2>1, <2>2, <2>3, <2>4, <2>5
  <1>11. Passed(v, c, f, u)
    <2>1. \A x \in Walk(v, y.op) : x <= u => x \in f
      BY <1>5, <1>6, <1>10 DEF Passed
    <2>2. ASSUME NEW x \in NonTx(v), x > u PROVE StepsUpTo(v, x) > n + 1
      <3>1. StepsUpTo(v, u) > n
        <4>1. u > u - 1 BY <1>5
        <4> QED BY <1>5, <1>7, <4>1 DEF Passed
      <3>2. StepsUpTo(v, u) < StepsUpTo(v, x) BY <1>1, <1>5, <1>10, <2>2, StepsFacts
      <3> QED BY <1>5, <1>10, <3>1, <3>2
    <2>3. StepsUpTo(v, u) <= n + 1 BY <1>5, <1>7, <1>10 DEF Passed
    <2> QED BY <1>8, <2>1, <2>2, <2>3 DEF Passed
  <1>12. e \subseteq f /\ f \subseteq Units(v) BY <1>1, <1>5, <1>6
  <1>13. v \notin rerun => NonTx(v) \cap f \subseteq Acked(v, n + 1)
    <2> SUFFICES ASSUME v \notin rerun, NEW x \in NonTx(v), x \in f
                 PROVE  StepsUpTo(v, x) <= n + 1
      BY DEF Acked
    <2>1. CASE x = u BY <1>8, <1>11, <2>1 DEF Passed
    <2>2. CASE x \in e
      <3>1. StepsUpTo(v, x) <= n BY <1>3, <1>7, <2>2 DEF Forward, Acked
      <3> QED BY <1>10, <3>1
    <2> QED BY <1>6, <2>1, <2>2
  <1>14. RowOK(v, r, f, rerun)
    <2>1. v \notin rerun => r.claim /\ r.status # "none" BY <1>3, <1>5 DEF Forward
    <2>2. r.status # "rolled_back" BY <1>3 DEF Forward
    <2> QED BY <1>1, <1>12, <2>1, <2>2 DEF RowOK
  <1>15. Forward(v, c, r, f, rerun) BY <1>3, <1>5, <1>8, <1>11, <1>13 DEF Forward
  <1>16. Busy(v, c, r, f, rerun) BY <1>2, <1>8, <1>15 DEF Busy, Working
  <1>17. Late(h, c, r) BY <1>0, <1>1, <1>8 DEF Late, Working
  <1>18. /\ ledger' = [ledger EXCEPT ![v] = r] /\ effect' = [effect EXCEPT ![v] = f]
         /\ UNCHANGED <<plans, rows, lock, rerun, stops>>
    BY <1>1, <1>4, <1>6 DEF Exec
  <1>19. r.status # "applied" BY <1>3 DEF Forward
  <1> QED BY <1>1, <1>8, <1>9, <1>12, <1>14, <1>16, <1>17, <1>18, <1>19, HolderStep

\* The statement is acknowledged, and the walk goes on.
LEMMA AckInv ==
  ASSUME RunnerInv, NEW h \in Hosts, Ack(h) PROVE RunnerInv' /\ Earned
  <1>0. run[h].pc = "ack" BY DEF Ack, At
  <1>1. PICK v \in Versions, y \in Run, r \in Row, e \in Effects :
           /\ v = y.ver /\ y = run[h] /\ r = ledger[v] /\ e = effect[v]
           /\ lock = h /\ TypeOK /\ e \subseteq Units(v)
           /\ RowOK(v, r, e, rerun) /\ Busy(v, y, r, e, rerun) /\ Late(h, y, r)
           /\ rows \in 0..MaxRows[plans]
           /\ effect = [effect EXCEPT ![v] = e]
    BY <1>0, Here
  <1>2. y.op \in {"apply", "resume"}
    <2>1. y.op \in {"apply", "resume", "down", "repair"} BY DEF Run
    <2> QED BY <1>0, <1>1, <2>1 DEF Busy, Working
  <1>3. Forward(v, y, r, e, rerun) BY <1>0, <1>1, <1>2 DEF Busy, Working
  <1>4. PICK u : u = y.at OBVIOUS
  <1>5. u \in NonTx(v) /\ u \in Nat \ {0} /\ Passed(v, y, e, u)
    BY <1>0, <1>1, <1>3, <1>4, WalkFacts DEF Forward
  <1>6. PICK c : c = After(h, u) OBVIOUS
  <1>7. PICK n \in Nat : n = y.done BY DEF Run
  <1> DEFINE new == [r EXCEPT !.steps = n, !.claim = FALSE]
             z == Written(r, new)
  <1>8. ledger' = [ledger EXCEPT ![v] = z]
    <2>1. UpdateById(h, new) BY <1>1, <1>7 DEF Ack, Mine
    <2> HIDE DEF new
    <2> QED BY <1>1, <1>3, <2>1, WriteFacts DEF Forward
  <1>9. /\ z \in Row /\ z.status = r.status /\ z.total = r.total /\ z.id = r.id
        /\ z.late = r.late /\ (r.status # "none" => z.steps = n)
    BY DEF Row, Written
  <1> HIDE DEF z
  <1>10. /\ c \in Run /\ c.ver = v /\ c.op = y.op /\ c.id = y.id
         /\ c.done = n /\ c.pc \in {"unit", "finish"}
         /\ c.pc = "unit" => c.at \in Walk(v, c.op) /\ Passed(v, c, e, c.at - 1)
         /\ c.pc = "finish" => Walk(v, c.op) \subseteq e
    BY <1>1, <1>2, <1>5, <1>6, <1>7, AfterFacts
  <1>11. Acked(v, n) \subseteq e BY <1>1, <1>5, <1>7, CountHonest
  <1>12. v \notin rerun => NonTx(v) \cap e \subseteq Acked(v, n) /\ r.status # "none"
    BY <1>3, <1>7 DEF Forward
  <1>13. RowOK(v, z, e, rerun) BY <1>1, <1>9, <1>11, <1>12 DEF RowOK
  <1>14. Forward(v, c, z, e, rerun) BY <1>3, <1>9, <1>10, <1>12 DEF Forward
  <1>15. Busy(v, c, z, e, rerun) BY <1>2, <1>10, <1>14 DEF Busy, Working
  <1>16. Late(h, c, z) BY <1>0, <1>1, <1>9, <1>10 DEF Late, Working
  <1>17. /\ run' = [run EXCEPT ![h] = c] /\ effect' = [effect EXCEPT ![v] = e]
         /\ UNCHANGED <<plans, rows, lock, rerun, stops>>
    BY <1>1, <1>4, <1>6 DEF Ack
  <1>18. z.status # "applied" BY <1>3, <1>9 DEF Forward
  <1> QED BY <1>1, <1>8, <1>9, <1>10, <1>13, <1>15, <1>16, <1>17, <1>18, HolderStep

\* Apply and resume mark the version applied, over all they were to do.
LEMMA FinishInv ==
  ASSUME RunnerInv, NEW h \in Hosts, Finish(h) PROVE RunnerInv' /\ Earned
  <1>0. run[h].pc = "finish" /\ run[h].op \in {"apply", "resume"} BY DEF Finish, At
  <1>1. PICK v \in Versions, y \in Run, r \in Row, e \in Effects :
           /\ v = y.ver /\ y = run[h] /\ r = ledger[v] /\ e = effect[v]
           /\ lock = h /\ TypeOK /\ e \subseteq Units(v)
           /\ RowOK(v, r, e, rerun) /\ Busy(v, y, r, e, rerun) /\ Late(h, y, r)
           /\ effect = [effect EXCEPT ![v] = e]
    BY <1>0, Here
  <1>2. Forward(v, y, r, e, rerun) BY <1>0, <1>1 DEF Busy, Working
  <1>3. PICK n \in Nat : n = y.done BY DEF Run
  <1> DEFINE new == [r EXCEPT !.status = "applied", !.steps = n, !.claim = FALSE]
             z == Written(r, new)
  <1>4. ledger' = [ledger EXCEPT ![v] = z]
    <2>1. UpdateById(h, new) \/ UpdateByVersion(h, new) BY <1>1, <1>3 DEF Finish, AppliedRow, Mine
    <2> HIDE DEF new
    <2> QED BY <1>1, <1>2, <2>1, WriteFacts DEF Forward
  <1>5. /\ z \in Row /\ z.total = r.total /\ z.late = r.late
        /\ z.status = IF r.status = "none" THEN "none" ELSE "applied"
    BY DEF Row, Written
  <1> HIDE DEF z
  <1>6. RowOK(v, z, e, rerun)
    <2>1. r.status # "none" => z.status = "applied" BY <1>5
    <2>2. r.status = "none" => z.status = "none" BY <1>5
    <2> QED BY <1>1, <1>5, <2>1, <2>2 DEF RowOK
  <1>7. Walk(v, y.op) \subseteq e /\ NonTx(v) \subseteq Walk(v, y.op)
    BY <1>0, <1>1, <1>2, WalkFacts DEF Forward
  <1>8. y.op = "apply" => e = Units(v) BY <1>1, <1>7 DEF Walk
  <1>9. z.status = "applied" /\ y.op = "apply" /\ HigherApplied(v) => z.late /\ h \notin Strict
    BY <1>0, <1>1, <1>5 DEF Late, Working
  <1>10. Go(h, "unlock") /\ UNCHANGED <<plans, rows, effect, lock, rerun, stops>> BY DEF Finish
  <1> QED BY <1>1, <1>4, <1>5, <1>6, <1>7, <1>8, <1>9, <1>10, LeavesWith

\* A row whose count falls short of its total has statements left.
LEMMA Uncounted ==
  ASSUME TypeOK, NEW v \in Versions, NEW n \in Nat, n < Cardinality(NonTx(v))
  PROVE  NonTx(v) \ Acked(v, n) # {}
  <1> SUFFICES ASSUME NonTx(v) \subseteq Acked(v, n) PROVE FALSE BY DEF Acked
  <1>1. /\ NonTx(v) \in SUBSET Nat /\ IsFiniteSet(NonTx(v))
        /\ Len(plans[v]) \in Nat /\ \A x \in NonTx(v) : x <= Len(plans[v])
    BY PlanFacts
  <1>2. NonTx(v) # {} BY FS_EmptySet
  <1>3. PICK m \in NonTx(v) : \A x \in NonTx(v) : m >= x BY <1>1, <1>2, GreatestExists
  <1>4. {w \in NonTx(v) : w <= m} = NonTx(v) BY <1>1, <1>3
  <1>5. StepsUpTo(v, m) = Cardinality(NonTx(v)) BY <1>4 DEF StepsUpTo
  <1>6. StepsUpTo(v, m) <= n BY <1>3 DEF Acked
  <1>7. Cardinality(NonTx(v)) \in Nat BY <1>1, FS_CardinalityType
  <1> QED BY <1>5, <1>6, <1>7

\* An apply that is let through inserts its row and starts at the first unit.
LEMMA BeginApplyInv ==
  ASSUME RunnerInv, NEW h \in Hosts, BeginApply(h) PROVE RunnerInv' /\ Earned
  <1>0. run[h].pc = "begin" /\ run[h].op = "apply" BY DEF BeginApply, Insert, Doing, At
  <1>1. PICK v \in Versions, y \in Run, r \in Row, e \in Effects :
           /\ v = y.ver /\ y = run[h] /\ r = ledger[v] /\ e = effect[v]
           /\ lock = h /\ TypeOK /\ e \subseteq Units(v)
           /\ RowOK(v, r, e, rerun)
           /\ rows \in 0..MaxRows[plans] /\ y.done = 0
           /\ effect = [effect EXCEPT ![v] = e]
    BY <1>0, Here
  <1>2. PICK late \in BOOLEAN : /\ late = HigherApplied(v) /\ (late => h \notin Strict)
                                /\ Insert(h, v, late)
    BY <1>1 DEF BeginApply, HigherApplied
  <1>3. PICK t \in Nat \cup {NoTotal} :
           /\ t = IF NonTx(v) = {} THEN NoTotal ELSE Cardinality(NonTx(v))
           /\ t # NoTotal => t = Cardinality(NonTx(v))
    BY <1>1, PlanFacts, FS_CardinalityType
  <1>4. PICK i \in Nat : i = rows + 1 BY <1>1
  <1>5. PICK a : a = From(Units(v), 1) OBVIOUS
  <1> DEFINE z == [NoRow EXCEPT !.status = "pending", !.id = i, !.late = late, !.total = t]
             c == [y EXCEPT !.id = i, !.at = a,
                            !.pc = IF Units(v) = {} THEN "finish" ELSE "unit"]
  <1>6. /\ Units(v) \in SUBSET (Nat \ {0}) /\ NonTx(v) \subseteq Units(v)
        /\ \A x \in NonTx(v) : StepsUpTo(v, x) > 0 /\ StepsUpTo(v, x) \in Nat
    <2>1. Units(v) \in SUBSET (Nat \ {0}) /\ NonTx(v) \subseteq Units(v)
      BY <1>1, WalkFacts, PlanFacts
    <2>2. ASSUME NEW x \in NonTx(v) PROVE StepsUpTo(v, x) > 0 /\ StepsUpTo(v, x) \in Nat
      <3>1. x \in Int /\ x - 1 \in Int BY <2>1
      <3>2. StepsUpTo(v, x) = StepsUpTo(v, x - 1) + 1 BY <1>1, StepsFacts
      <3>3. StepsUpTo(v, x) \in Nat /\ StepsUpTo(v, x - 1) \in Nat BY <1>1, <3>1, StepsFacts
      <3> QED BY <3>2, <3>3
    <2> QED BY <2>1, <2>2
  <1>7. /\ a \in Nat /\ (a = 0 => \A x \in Units(v) : x < 1)
        /\ a # 0 => a \in Units(v) /\ \A x \in Units(v) : x >= 1 => x >= a
    BY <1>5, <1>6, FromFacts
  <1>8. /\ z \in Row /\ z.status = "pending" /\ z.id = i /\ z.late = late /\ z.total = t
        /\ z.steps = 0
    BY DEF Row, NoRow
  <1>9. /\ c \in Run /\ c.ver = v /\ c.op = "apply" /\ c.id = i /\ c.at = a /\ c.done = 0
        /\ c.pc = IF Units(v) = {} THEN "finish" ELSE "unit"
    BY <1>0, <1>1, <1>7 DEF Run
  <1>10. /\ run' = [run EXCEPT ![h] = c] /\ ledger' = [ledger EXCEPT ![v] = z]
         /\ effect' = [effect EXCEPT ![v] = e] /\ r.status = "none"
         /\ rows' \in 0..MaxRows[plans] /\ UNCHANGED <<plans, lock, rerun, stops>>
    <2>1. rows + 1 \in 0..MaxRows[plans] /\ r.status = "none"
      <3>1. plans \in Buckets BY <1>1 DEF TypeOK
      <3>2. MaxRows[plans] \in Nat BY <3>1, BoundsAssumption
      <3> QED BY <1>1, <1>2, <3>2 DEF Insert
    <2>2. run' = [run EXCEPT ![h] = c] BY <1>1, <1>2, <1>4, <1>5 DEF Insert, TypeOK
    <2>3. ledger' = [ledger EXCEPT ![v] = z] BY <1>2, <1>3, <1>4 DEF Insert, NoRow
    <2> QED BY <1>1, <1>2, <2>1, <2>2, <2>3 DEF Insert
  <1> HIDE DEF z, c
  <1>11. Acked(v, 0) = {} BY <1>6 DEF Acked
  <1>12. v \notin rerun => e = {} BY <1>1, <1>10 DEF RowOK
  <1>13. RowOK(v, z, e, rerun) BY <1>3, <1>8, <1>11, <1>12 DEF RowOK
  <1>14. Forward(v, c, z, e, rerun)
    <2>1. CASE Units(v) = {}
      <3>1. Walk(v, c.op) = {} BY <1>9, <2>1 DEF Walk
      <3> QED BY <1>8, <1>9, <1>12, <2>1, <3>1 DEF Forward
    <2>2. CASE Units(v) # {}
      <3>1. a \in Units(v) /\ a \in Nat \ {0} /\ \A x \in Units(v) : x >= a
        BY <1>6, <1>7, <2>2
      <3>2. \A x \in Units(v) : ~(x <= a - 1) BY <1>6, <3>1
      <3>3. StepsUpTo(v, a - 1) = 0
        <4>1. \A x \in NonTx(v) : x > a - 1 BY <1>6, <3>1
        <4>2. a - 1 \in Int BY <3>1
        <4> QED BY <1>1, <4>1, <4>2, StepsFacts
      <3>4. Passed(v, c, e, a - 1) BY <1>6, <1>9, <3>2, <3>3 DEF Passed, Walk
      <3>5. a \in Walk(v, c.op) BY <1>9, <3>1 DEF Walk
      <3> QED BY <1>8, <1>9, <1>12, <2>2, <3>4, <3>5 DEF Forward
    <2> QED BY <2>1, <2>2
  <1>15. Busy(v, c, z, e, rerun) BY <1>9, <1>14 DEF Busy, Working
  <1>16. Late(h, c, z) BY <1>2, <1>8, <1>9 DEF Late
  <1> QED BY <1>1, <1>8, <1>9, <1>10, <1>13, <1>15, <1>16, HolderStep

\* A resume starts where the count ends: at the first statement past it.
LEMMA BeginResumeInv ==
  ASSUME RunnerInv, NEW h \in Hosts, BeginResume(h) PROVE RunnerInv' /\ Earned
  <1>0. run[h].pc = "begin" /\ run[h].op = "resume" BY DEF BeginResume, Doing, At
  <1>1. PICK v \in Versions, y \in Run, r \in Row, e \in Effects :
           /\ v = y.ver /\ y = run[h] /\ r = ledger[v] /\ e = effect[v]
           /\ lock = h /\ TypeOK /\ e \subseteq Units(v)
           /\ RowOK(v, r, e, rerun)
           /\ rows \in 0..MaxRows[plans]
           /\ ledger = [ledger EXCEPT ![v] = r] /\ effect = [effect EXCEPT ![v] = e]
    BY <1>0, Here
  <1>2. PICK n \in Nat : n = r.steps BY DEF Row
  <1>3. /\ r.status \in {"failed", "pending"} /\ ~r.claim
        /\ r.total # NoTotal /\ n < r.total
    BY <1>1, <1>2 DEF BeginResume, Resumable, Mine
  <1> DEFINE S == NonTx(v) \ Acked(v, n)
  <1>4. S # {} BY <1>1, <1>3, Uncounted DEF RowOK
  <1>5. PICK a : a = From(S, 1) OBVIOUS
  <1>6. NonTx(v) \in SUBSET (Nat \ {0}) BY <1>1, WalkFacts
  <1>7. a \in S /\ a \in Nat \ {0} /\ \A x \in S : x >= a
    <2>1. S \in SUBSET (Nat \ {0}) /\ 1 \in Int /\ \A x \in S : x >= 1 BY <1>6
    <2> HIDE DEF S
    <2>2. /\ a \in Nat /\ (a = 0 => \A x \in S : x < 1)
          /\ a # 0 => a \in S /\ \A x \in S : x >= 1 => x >= a
      BY <1>5, <2>1, FromFacts
    <2>3. PICK x \in S : TRUE BY <1>4
    <2>4. x \in Nat /\ x >= 1 BY <2>1, <2>3
    <2>5. a # 0 BY <2>2, <2>3, <2>4
    <2> QED BY <2>1, <2>2, <2>5
  <1> DEFINE c == [y EXCEPT !.pc = "unit", !.id = r.id, !.done = n, !.at = a]
  <1>8. /\ c \in Run /\ c.ver = v /\ c.op = "resume" /\ c.id = r.id /\ c.at = a
        /\ c.done = n /\ c.pc = "unit"
    <2>1. r.id \in Nat /\ a \in Nat BY <1>7 DEF Row
    <2> QED BY <1>0, <1>1, <2>1 DEF Run
  <1>9. run' = [run EXCEPT ![h] = c] BY <1>1, <1>2, <1>5 DEF BeginResume, Mine, TypeOK
  <1> HIDE DEF c
  <1>10. /\ \A x \in NonTx(v) : x \in Nat /\ StepsUpTo(v, x) \in Nat
         /\ \A x \in NonTx(v) : x \in S <=> StepsUpTo(v, x) > n
         /\ \A x \in NonTx(v) : x \notin S => StepsUpTo(v, x) <= n /\ x \in Acked(v, n)
    BY <1>1, <1>6, StepsFacts DEF Acked
  <1> HIDE DEF S
  <1>11. Passed(v, c, e, a - 1)
    <2>1. ASSUME NEW x \in NonTx(v), x <= a - 1 PROVE x \in e
      <3>1. x \notin S BY <1>7, <1>10, <2>1
      <3> QED BY <1>1, <1>2, <1>3, <1>10, <3>1 DEF RowOK
    <2>2. ASSUME NEW x \in NonTx(v), x > a - 1 PROVE StepsUpTo(v, x) > n
      <3>1. x = a \/ a < x BY <1>7, <1>10, <2>2
      <3>2. a \in NonTx(v) /\ StepsUpTo(v, a) > n BY <1>7, <1>10 DEF S
      <3>3. a < x => StepsUpTo(v, a) < StepsUpTo(v, x) BY <1>1, <1>7, StepsFacts
      <3> QED BY <1>10, <3>1, <3>2, <3>3
    <2>3. StepsUpTo(v, a - 1) <= n
      <3> DEFINE T == {x \in NonTx(v) : x <= a - 1}
      <3>1. a - 1 \in Nat /\ T \in SUBSET Nat /\ \A x \in T : x <= a - 1 BY <1>6, <1>7
      <3>2. CASE T = {}
        <4>1. \A x \in NonTx(v) : x > a - 1 BY <1>10, <3>1, <3>2
        <4>2. StepsUpTo(v, a - 1) = 0 BY <1>1, <3>1, <4>1, StepsFacts
        <4> QED BY <4>2
      <3>3. CASE T # {}
        <4>1. PICK m \in T : \A x \in T : m >= x
          <5> HIDE DEF T
          <5> QED BY <3>1, <3>3, GreatestExists
        <4>2. m \in NonTx(v) /\ m <= a - 1 /\ m \in Nat BY <3>1
        <4>3. ASSUME NEW x \in NonTx(v) PROVE x <= m \/ x > a - 1 BY <1>10, <3>1, <4>1
        <4>4. StepsUpTo(v, a - 1) = StepsUpTo(v, m) BY <1>1, <3>1, <4>2, <4>3, StepsFacts
        <4>5. m \notin S BY <1>7, <4>2
        <4> QED BY <1>10, <4>2, <4>4, <4>5
      <3> QED BY <3>2, <3>3
    <2>4. Walk(v, c.op) = NonTx(v) BY <1>8 DEF Walk
    <2> QED BY <1>8, <2>1, <2>2, <2>3, <2>4 DEF Passed
  <1>12. v \notin rerun => NonTx(v) \cap e \subseteq Acked(v, n) BY <1>1, <1>2, <1>3 DEF RowOK
  <1>13. a \in Walk(v, c.op) BY <1>7, <1>8 DEF Walk, S
  <1>14. Forward(v, c, r, e, rerun) BY <1>2, <1>3, <1>8, <1>11, <1>12, <1>13 DEF Forward
  <1>15. Busy(v, c, r, e, rerun) BY <1>8, <1>14 DEF Busy, Working
  <1>16. Late(h, c, r) BY <1>8 DEF Late
  <1>17. UNCHANGED <<plans, ledger, rows, effect, lock, rerun, stops>> BY DEF BeginResume
  <1> QED BY <1>1, <1>3, <1>8, <1>9, <1>15, <1>16, <1>17, HolderStep

-----------------------------------------------------------------------------
(* Repair and rollback.                                                     *)

\* The operator resolves a partial apply.
LEMMA ResolveInv ==
  ASSUME RunnerInv, NEW h \in Hosts, NEW status \in {"rolled_back", "faked", "applied"},
         Resolve(h, status)
  PROVE  RunnerInv' /\ Earned
  <1>0. run[h].pc = "begin" /\ run[h].op = "repair" BY DEF Resolve, Doing, At
  <1>1. PICK v \in Versions, y \in Run, r \in Row, e \in Effects :
           /\ v = y.ver /\ y = run[h] /\ r = ledger[v] /\ e = effect[v]
           /\ lock = h /\ TypeOK /\ e \subseteq Units(v)
           /\ RowOK(v, r, e, rerun)
    BY <1>0, Here
  <1>2. PICK n \in Nat : n = IF status = "applied" /\ r.total # NoTotal THEN r.total ELSE r.steps
    BY DEF Row
  <1>3. PICK f : f = CASE status = "rolled_back" -> {}
                       [] status = "applied" -> Units(v)
                       [] status = "faked" -> e
    OBVIOUS
  <1>4. f \subseteq Units(v) /\ (status = "rolled_back" => f = {}) BY <1>1, <1>3
  <1> DEFINE z == [r EXCEPT !.status = status, !.claim = FALSE, !.steps = n]
  <1>5. z \in Row /\ z.status = status /\ z.total = r.total BY DEF Row
  <1>6. ledger' = [ledger EXCEPT ![v] = z] /\ effect' = [effect EXCEPT ![v] = f]
    <2>1. ledger' = [ledger EXCEPT ![v] = z]
      <3>1. run[h].ver = v /\ Mine(h) = r BY <1>1 DEF Mine
      <3>2. PICK w : w = [Mine(h) EXCEPT !.status = status, !.claim = FALSE,
                            !.steps = IF status = "applied" /\ Mine(h).total # NoTotal
                                      THEN Mine(h).total ELSE Mine(h).steps]
        OBVIOUS
      <3>3. ledger' = [ledger EXCEPT ![run[h].ver] = w] BY <3>2 DEF Resolve
      <3>4. w = z BY <1>2, <3>1, <3>2
      <3> QED BY <3>1, <3>3, <3>4
    <2>2. effect' = [effect EXCEPT ![v] = f] BY <1>1, <1>3 DEF Resolve, TypeOK
    <2> QED BY <2>1, <2>2
  <1> HIDE DEF z
  <1>7. RowOK(v, z, f, rerun) BY <1>1, <1>4, <1>5 DEF RowOK
  <1>8. Go(h, "unlock") /\ UNCHANGED <<plans, rows, lock, rerun, stops>> BY DEF Resolve
  <1> QED BY <1>0, <1>1, <1>4, <1>5, <1>6, <1>7, <1>8, LeavesWith

\* The statements a rollback has still to undo are the last of the walk down.
LEMMA DownFacts ==
  ASSUME TypeOK, NEW h \in Hosts, NEW v \in Versions, run[h].ver = v, NEW u \in Nat,
         NEW e, e \subseteq Units(v), \A x \in NonTx(v) \cap e : x <= u,
         NEW c, c = DownFrom(h, u)
  PROVE  /\ c \in Run /\ c.ver = v /\ c.op = run[h].op /\ c.pc \in {"unit", "undo"}
         /\ c.pc = "unit" => c.at \in NonTx(v) /\ c.at <= u /\ \A x \in NonTx(v) \cap e : x <= c.at
         /\ c.pc = "undo" => NonTx(v) \cap e = {}
  <1>1. PICK y \in Run : y = run[h] BY DEF TypeOK
  <1>2. NonTx(v) \in SUBSET (Nat \ {0}) BY WalkFacts
  <1>3. PICK a : a = UpTo(NonTx(v), u) OBVIOUS
  <1>4. /\ a \in Nat
        /\ a = 0 => \A x \in NonTx(v) : x > u
        /\ a # 0 => a \in NonTx(v) /\ a <= u /\ \A x \in NonTx(v) : x <= u => x <= a
    BY <1>2, <1>3, UpToFacts
  <1>5. c = [y EXCEPT !.pc = IF a = 0 THEN "undo" ELSE "unit", !.at = a]
    BY <1>1, <1>3 DEF DownFrom
  <1>6. /\ c \in Run /\ c.ver = y.ver /\ c.op = y.op /\ c.at = a
        /\ c.pc = IF a = 0 THEN "undo" ELSE "unit"
    BY <1>4, <1>5 DEF Run
  <1>7. CASE a = 0
    <2>1. \A x \in NonTx(v) : ~(x <= u) BY <1>2, <1>4, <1>7
    <2>2. NonTx(v) \cap e = {} BY <2>1
    <2> QED BY <1>1, <1>6, <1>7, <2>2
  <1>8. CASE a # 0 BY <1>1, <1>4, <1>6, <1>8
  <1> QED BY <1>7, <1>8

\* A rollback begins, or one of its statements commits.
LEMMA DownInv ==
  ASSUME RunnerInv, NEW h \in Hosts, BeginDown(h) \/ DownNonTx(h) \/ DownTx(h)
  PROVE  RunnerInv' /\ Earned
  <1>0. run[h].pc \in {"begin", "unit", "undo"} /\ run[h].op = "down"
    BY DEF BeginDown, DownNonTx, DownTx, Doing, At
  <1>1. PICK v \in Versions, y \in Run, r \in Row, e \in Effects :
           /\ v = y.ver /\ y = run[h] /\ r = ledger[v] /\ e = effect[v]
           /\ lock = h /\ TypeOK /\ e \subseteq Units(v)
           /\ RowOK(v, r, e, rerun) /\ Busy(v, y, r, e, rerun)
           /\ rows \in 0..MaxRows[plans]
           /\ ledger = [ledger EXCEPT ![v] = r] /\ effect = [effect EXCEPT ![v] = e]
    BY <1>0, Here
  <1>2. r.status \in {"none", "applied", "faked"}
    <2>1. CASE BeginDown(h) BY <1>1, <2>1 DEF BeginDown, Mine
    <2>2. CASE DownNonTx(h) \/ DownTx(h)
      <3>1. y.pc \in {"unit", "undo"} BY <1>1, <2>2 DEF DownNonTx, DownTx, Doing, At
      <3> QED BY <1>0, <1>1, <3>1 DEF Busy, Backward
    <2> QED BY <2>1, <2>2
  <1>3. ASSUME NEW f, f \subseteq e PROVE RowOK(v, r, f, rerun) /\ f \subseteq Units(v)
    BY <1>1, <1>2, <1>3 DEF RowOK
  <1>4. ASSUME NEW f, f \subseteq e, NEW c \in Run, c.ver = v, c.op = "down",
               c.pc \in {"unit", "undo", "finish"}, Backward(v, c, r, f),
               run' = [run EXCEPT ![h] = c], effect' = [effect EXCEPT ![v] = f],
               UNCHANGED <<plans, ledger, rows, lock, rerun, stops>>
        PROVE  RunnerInv' /\ Earned
    <2>1. Busy(v, c, r, f, rerun) /\ Late(h, c, r) BY <1>4 DEF Busy, Late
    <2>2. RowOK(v, r, f, rerun) /\ f \subseteq Units(v) BY <1>3, <1>4
    <2> QED BY <1>1, <1>4, <2>1, <2>2, HolderStep
  <1>5. CASE BeginDown(h)
    <2>1. PICK n \in Nat : n = Len(plans[v]) /\ Units(v) = 1..n BY <1>1, PlanFacts
    <2>2. PICK c : c = DownFrom(h, n) OBVIOUS
    <2>3. \A x \in NonTx(v) \cap e : x <= n BY <1>1, <2>1
    <2>4. c \in Run /\ c.ver = v /\ c.op = "down" /\ c.pc \in {"unit", "undo"} /\ Backward(v, c, r, e)
      <3>1. TypeOK /\ run[h].ver = v /\ run[h].op = "down" /\ e \subseteq Units(v) BY <1>0, <1>1
      <3>2. /\ c \in Run /\ c.ver = v /\ c.op = "down" /\ c.pc \in {"unit", "undo"}
            /\ c.pc = "unit" => c.at \in NonTx(v) /\ \A x \in NonTx(v) \cap e : x <= c.at
            /\ c.pc = "undo" => NonTx(v) \cap e = {}
        BY <2>2, <2>3, <3>1, DownFacts
      <3> QED BY <1>2, <3>2 DEF Backward
    <2>5. /\ run' = [run EXCEPT ![h] = c]
          /\ UNCHANGED <<plans, ledger, rows, effect, lock, rerun, stops>>
      BY <1>1, <1>5, <2>1, <2>2 DEF BeginDown
    <2> QED BY <1>1, <1>4, <2>4, <2>5
  <1>6. CASE DownNonTx(h)
    <2>1. PICK u : u = y.at OBVIOUS
    <2>2. u \in NonTx(v) /\ \A x \in NonTx(v) \cap e : x <= u
      <3>1. y.pc = "unit" /\ y.op = "down" BY <1>0, <1>1, <1>6 DEF DownNonTx, Doing, At
      <3> QED BY <1>1, <2>1, <3>1 DEF Busy, Backward
    <2>3. NonTx(v) \in SUBSET (Nat \ {0}) /\ u - 1 \in Nat BY <1>1, <2>2, WalkFacts
    <2>4. PICK f : f = e \ {u} OBVIOUS
    <2>5. \A x \in NonTx(v) \cap f : x <= u - 1 BY <2>2, <2>3, <2>4
    <2>6. PICK c : c = DownFrom(h, u - 1) OBVIOUS
    <2>7. f \subseteq e /\ f \subseteq Units(v) BY <1>1, <2>4
    <2>8. c \in Run /\ c.ver = v /\ c.op = "down" /\ c.pc \in {"unit", "undo"} /\ Backward(v, c, r, f)
      <3>1. TypeOK /\ run[h].ver = v /\ run[h].op = "down" /\ f \subseteq Units(v) BY <1>0, <1>1, <2>7
      <3>2. /\ c \in Run /\ c.ver = v /\ c.op = "down" /\ c.pc \in {"unit", "undo"}
            /\ c.pc = "unit" => c.at \in NonTx(v) /\ \A x \in NonTx(v) \cap f : x <= c.at
            /\ c.pc = "undo" => NonTx(v) \cap f = {}
        BY <2>3, <2>5, <2>6, <2>7, <3>1, DownFacts
      <3> QED BY <1>2, <3>2 DEF Backward
    <2>9. /\ run' = [run EXCEPT ![h] = c] /\ effect' = [effect EXCEPT ![v] = f]
          /\ UNCHANGED <<plans, ledger, rows, lock, rerun, stops>>
      BY <1>1, <1>6, <2>1, <2>4, <2>6 DEF DownNonTx
    <2> QED BY <1>4, <2>7, <2>8, <2>9
  <1>7. CASE DownTx(h)
    <2>1. y.pc = "undo" BY <1>1, <1>7 DEF DownTx, Doing, At
    <2>2. NonTx(v) \cap e = {} BY <1>0, <1>1, <2>1 DEF Busy, Backward
    <2>3. e \ Tx(v) = {} BY <1>1, <2>2 DEF Tx
    <2> DEFINE c == [y EXCEPT !.pc = "finish"]
    <2>4. c \in Run /\ c.ver = v /\ c.op = "down" /\ c.pc = "finish" BY <1>0, <1>1 DEF Run
    <2>5. /\ run' = [run EXCEPT ![h] = c] /\ effect' = [effect EXCEPT ![v] = {}]
          /\ UNCHANGED <<plans, ledger, rows, lock, rerun, stops>>
      BY <1>1, <1>7, <2>3 DEF DownTx, Go
    <2> HIDE DEF c
    <2>6. Backward(v, c, r, {}) BY <1>2, <2>4 DEF Backward
    <2>7. {} \subseteq e OBVIOUS
    <2> QED BY <1>4, <2>4, <2>5, <2>6, <2>7
  <1> QED BY <1>5, <1>6, <1>7

\* A rollback that got to its end says so: nothing of the migration is left.
LEMMA MarkRolledBackInv ==
  ASSUME RunnerInv, NEW h \in Hosts, MarkRolledBack(h) PROVE RunnerInv' /\ Earned
  <1>0. run[h].pc = "finish" /\ run[h].op = "down" BY DEF MarkRolledBack, Doing, At
  <1>1. PICK v \in Versions, y \in Run, r \in Row, e \in Effects :
           /\ v = y.ver /\ y = run[h] /\ r = ledger[v] /\ e = effect[v]
           /\ lock = h /\ TypeOK /\ e \subseteq Units(v)
           /\ RowOK(v, r, e, rerun) /\ Busy(v, y, r, e, rerun)
           /\ effect = [effect EXCEPT ![v] = e]
    BY <1>0, Here
  <1>2. e = {} BY <1>0, <1>1 DEF Busy, Backward
  <1> DEFINE new == [r EXCEPT !.status = "rolled_back", !.steps = 0,
                              !.total = NoTotal, !.claim = FALSE]
             z == Written(r, new)
  <1>3. ledger' = [ledger EXCEPT ![v] = z]
    <2>1. UpdateByVersion(h, new) BY <1>1 DEF MarkRolledBack, Mine
    <2> HIDE DEF new
    <2> QED BY <1>1, <2>1, WriteFacts
  <1>4. new \in Row /\ new.status = "rolled_back" /\ new.total = NoTotal BY DEF Row
  <1>5. z \in Row /\ ((z = r /\ r.status = "none") \/ z = new) BY <1>4 DEF Written
  <1>6. RowOK(v, z, e, rerun) BY <1>1, <1>2, <1>4, <1>5 DEF RowOK
  <1>7. z.status # "applied" BY <1>4, <1>5
  <1>8. Go(h, "unlock") /\ UNCHANGED <<plans, rows, effect, lock, rerun, stops>>
    BY DEF MarkRolledBack
  <1>9. effect' = [effect EXCEPT ![v] = e] /\ run[h].ver = v /\ z \in Row BY <1>1, <1>5, <1>8
  <1> HIDE DEF z
  <1> QED BY <1>1, <1>3, <1>6, <1>7, <1>8, <1>9, LeavesWith

-----------------------------------------------------------------------------
(* The theorems.                                                            *)

\* Nothing has been done and nothing is recorded.
LEMMA InitInv == Init => RunnerInv
  <1> SUFFICES ASSUME Init PROVE RunnerInv OBVIOUS
  <1>1. plans \in Buckets /\ MaxRows[plans] \in Nat /\ MaxStops[plans] \in Nat
    BY BoundsAssumption DEF Init
  <1>2. NoRow \in Row /\ NoRun \in Run /\ NoRow.status = "none" /\ NoRow.total = NoTotal
        /\ NoRun.pc = "idle"
    BY DEF Row, NoRow, Run, NoRun
  <1>3. TypeOK BY <1>1, <1>2, HostsAssumption DEF Init, TypeOK
  <1>4. RowsOK BY <1>2 DEF Init, RowsOK, RowOK
  <1>5. Holder /\ Fresh BY <1>2, HostsAssumption DEF Init, Holder, Fresh
  <1> QED BY <1>3, <1>4, <1>5 DEF RunnerInv

\* Every step keeps the invariant, and makes a version applied only when it
\* deserves it.
LEMMA NextInv == RunnerInv /\ [Next]_vars => RunnerInv' /\ (Earned \/ UNCHANGED vars)
  <1> SUFFICES ASSUME RunnerInv, [Next]_vars PROVE RunnerInv' /\ (Earned \/ UNCHANGED vars)
    OBVIOUS
  <1>1. CASE UNCHANGED vars
    <2>1. UNCHANGED plans BY <1>1 DEF vars
    <2>2. TypeOK' BY <1>1, <2>1, PlansKept DEF RunnerInv, TypeOK, vars
    <2>3. RowsOK' BY <1>1, <2>1, PlansKept, SaidKept DEF RunnerInv, RowsOK, vars
    <2>4. Fresh' BY <1>1 DEF RunnerInv, Fresh, vars
    <2>5. Holder'
      <3> SUFFICES ASSUME NEW h \in Hosts, lock' = h
                   PROVE  (/\ Busy(run[h].ver, run[h], ledger[run[h].ver], effect[run[h].ver], rerun)
                           /\ Late(h, run[h], ledger[run[h].ver]))'
        BY DEF Holder
      <3>1. PICK y, r : y = run[h] /\ r = ledger[y.ver] OBVIOUS
      <3>2. Busy(y.ver, y, r, effect[y.ver], rerun) /\ Late(h, y, r)
        BY <1>1, <3>1 DEF RunnerInv, Holder, vars
      <3>3. Busy(y.ver, y, r, effect[y.ver], rerun)'
        BY <1>1, <2>1, <3>2, SaidKept DEF vars
      <3>4. Late(h, y, r)' BY <1>1, <2>1, <3>2, PlansKept DEF Late, HigherApplied, vars
      <3> QED BY <1>1, <3>1, <3>3, <3>4 DEF vars
    <2> QED BY <1>1, <2>2, <2>3, <2>4, <2>5 DEF RunnerInv
  <1>2. ASSUME NEW h \in Hosts, Work(h) PROVE RunnerInv' /\ Earned
    BY <1>2, CommandsInv, DeleteInv, BeginApplyInv, BeginResumeInv, RunTxInv, FailuresInv,
       ClaimInv, ExecInv, AckInv, FinishInv, ResolveInv, DownInv, MarkRolledBackInv DEF Work
  <1> QED BY <1>1, <1>2, CommandsInv DEF Next

\* The inductive invariant holds of every behaviour: rows, the schema and what
\* the lock's holder remembers of them agree (runner.rs, repair.rs).
THEOREM Inductive == Spec => []RunnerInv
  <1>1. RunnerInv /\ [Next]_vars => RunnerInv' BY NextInv
  <1> QED BY <1>1, InitInv, PTL DEF Spec

\* Rows, commands and the schema have their types, and a command works only
\* while it holds the advisory lock of the bucket (runner.rs 1345-1366).
THEOREM TypeCorrect == Spec => []TypeOK
  <1>1. RunnerInv => TypeOK BY DEF RunnerInv
  <1> QED BY <1>1, Inductive, PTL

\* What the row of an unfinished version counts as done is done, so that a
\* resume may skip it (ledger.rs 814-882).
THEOREM Honest == Spec => []LedgerHonest
  <1>1. RunnerInv => LedgerHonest BY DEF RunnerInv, RowsOK, RowOK, LedgerHonest
  <1> QED BY <1>1, Inductive, PTL

\* An unclaimed row hides no statement: what a resume runs has not run
\* (ledger.rs 814-828, repair.rs 1317).
THEOREM NothingHidden == Spec => []NoSilentStep
  <1>1. RunnerInv => NoSilentStep BY DEF RunnerInv, RowsOK, RowOK, NoSilentStep
  <1> QED BY <1>1, Inductive, PTL

\* A row says rolled_back over a schema without the migration (runner.rs
\* 2665-2790).
THEOREM Undone == Spec => []UndoneWhenRolledBack
  <1>1. RunnerInv => UndoneWhenRolledBack BY DEF RunnerInv, RowsOK, RowOK, UndoneWhenRolledBack
  <1> QED BY <1>1, Inductive, PTL

\* A version becomes applied over its whole migration (runner.rs 1701-1730,
\* repair.rs 1488-1526).
THEOREM Complete == Spec => AppliedComplete
  <1>1. RunnerInv /\ [Next]_vars =>
          [\A h \in Hosts, v \in Versions : Applies(h, v) =>
             /\ run[h].op = "apply" => effect'[v] = Units(v)
             /\ run[h].op = "resume" => NonTx(v) \subseteq effect'[v]]_vars
    BY NextInv DEF Earned
  <1> QED BY <1>1, Inductive, PTL DEF Spec, AppliedComplete

\* No version becomes applied under a newer one unless its row admits it, and
\* never by a strict host (runner.rs 1408-1434).
THEOREM Ordered == Spec => InVersionOrder
  <1>1. RunnerInv /\ [Next]_vars =>
          [\A h \in Hosts, v \in Versions :
             Applies(h, v) /\ run[h].op = "apply" /\ HigherApplied(v)
               => ledger'[v].late /\ h \notin Strict]_vars
    BY NextInv DEF Earned
  <1> QED BY <1>1, Inductive, PTL DEF Spec, InVersionOrder
-----------------------------------------------------------------------------
(* At most one statement is in doubt.  The count in the holder's hands is   *)
(* the row's, or one ahead of it while the row still carries the claim: the *)
(* second invariant, relative to the first.                                 *)

SureOf(v, c, r) ==
  /\ c.op = "down" /\ c.pc \in {"unit", "undo", "finish"} /\ r.status = "none" => v \in rerun
  /\ c.op \in {"apply", "resume"} /\ c.pc \in Working /\ v \notin rerun
       => c.done = r.steps + (IF c.pc = "ack" THEN 1 ELSE 0)

Sure == \A h \in Hosts : lock = h => SureOf(run[h].ver, run[h], ledger[run[h].ver])
SureInv == Sure /\ OneInDoubt

\* A larger count acknowledges more.
LEMMA AckedMore ==
  ASSUME TypeOK, NEW v \in Versions, NEW n \in Nat
  PROVE  Acked(v, n) \subseteq Acked(v, n + 1)
  <1> SUFFICES ASSUME NEW u \in NonTx(v), StepsUpTo(v, u) <= n
               PROVE  StepsUpTo(v, u) <= n + 1
    BY DEF Acked
  <1>1. u \in Int BY WalkFacts
  <1>2. StepsUpTo(v, u) \in Nat BY <1>1, StepsFacts
  <1> QED BY <1>2

\* A step after which the holder, if there is one, is another host as before,
\* or at no statement.
LEMMA QuietSure ==
  ASSUME RunnerInv, SureInv, NEW h \in Hosts, NEW c \in Run,
         run' = [run EXCEPT ![h] = c],
         c.pc \in {"idle", "delete", "lock", "begin", "unlock"},
         lock' \in {lock, h, NoHost},
         UNCHANGED <<plans, ledger, effect, rerun>>
  PROVE  SureInv'
  <1>1. run'[h] = c /\ \A g \in Hosts \ {h} : run'[g] = run[g] BY DEF RunnerInv, TypeOK
  <1>2. OneInDoubt' BY PlansKept DEF SureInv, OneInDoubt
  <1>3. ASSUME NEW g \in Hosts, lock' = g
        PROVE  SureOf(run[g].ver, run[g], ledger[run[g].ver])'
    <2>1. CASE g = h BY <1>1, <2>1 DEF SureOf, Working
    <2>2. CASE g # h
      <3>1. lock = g BY <1>3, <2>2, HostsAssumption
      <3>2. SureOf(run[g].ver, run[g], ledger[run[g].ver]) BY <3>1 DEF SureInv, Sure
      <3> QED BY <1>1, <2>2, <3>2 DEF SureOf
    <2> QED BY <2>1, <2>2
  <1> QED BY <1>2, <1>3 DEF SureInv, Sure

\* A step of the holder, whose row is afterwards trusted in one of four ways.
LEMMA HolderSure ==
  ASSUME RunnerInv, RunnerInv', SureInv, NEW h \in Hosts, lock = h,
         NEW v \in Versions, run[h].ver = v,
         NEW c \in Run, NEW r \in Row, NEW e, c.ver = v,
         run' = [run EXCEPT ![h] = c],
         ledger' = [ledger EXCEPT ![v] = r], effect' = [effect EXCEPT ![v] = e],
         UNCHANGED <<plans, lock, rerun>>, SureOf(v, c, r),
         \/ r = ledger[v] /\ e = effect[v]
         \/ r.status \notin {"pending", "failed"}
         \/ ~r.claim
         \/ c.op \in {"apply", "resume"} /\ c.pc \in Working
  PROVE  SureInv'
  <1>1. run'[h] = c BY DEF RunnerInv, TypeOK
  <1>2. /\ ledger'[v] = r /\ effect'[v] = e
        /\ \A w \in Versions \ {v} : ledger'[w] = ledger[w] /\ effect'[w] = effect[w]
    BY DEF RunnerInv, TypeOK
  <1>3. Sure'
    <2> SUFFICES ASSUME NEW g \in Hosts, lock' = g
                 PROVE  SureOf(run[g].ver, run[g], ledger[run[g].ver])'
      BY DEF Sure
    <2>1. g = h OBVIOUS
    <2>2. SureOf(v, c, r)' BY DEF SureOf
    <2> QED BY <1>1, <1>2, <2>1, <2>2
  <1>4. ASSUME NEW w \in Versions, w \notin rerun, ledger'[w].status \in {"pending", "failed"}
        PROVE  NonTx(w) \cap effect'[w] \subseteq Acked(w, ledger'[w].steps + 1)
    <2>1. CASE ledger'[w] = ledger[w] /\ effect'[w] = effect[w]
      BY <1>4, <2>1 DEF SureInv, OneInDoubt
    <2>2. CASE w = v /\ ~r.claim
      <3>1. RowOK(v, r, e, rerun)' BY <1>2, PlansKept DEF RunnerInv, RowsOK
      <3>2. NonTx(v) \cap e \subseteq Acked(v, r.steps)
        BY <1>2, <1>4, <2>2, <3>1, PlansKept DEF RowOK
      <3>3. Acked(v, r.steps) \subseteq Acked(v, r.steps + 1)
        BY AckedMore DEF RunnerInv, Row
      <3> QED BY <1>2, <2>2, <3>2, <3>3
    <2>3. CASE w = v /\ c.op \in {"apply", "resume"} /\ c.pc \in Working
      <3>1. Busy(v, c, r, e, rerun)' BY <1>1, <1>2 DEF RunnerInv, Holder
      <3>2. Forward(v, c, r, e, rerun)' BY <2>3, <3>1 DEF Busy, Working
      <3>3. NonTx(v) \cap e \subseteq Acked(v, c.done)
        BY <1>4, <2>3, <3>2, PlansKept DEF Forward
      <3>4. c.done = r.steps \/ c.done = r.steps + 1
        <4>1. r.steps \in Nat BY DEF Row
        <4> QED BY <1>4, <2>3, <4>1 DEF SureOf, Working
      <3>5. Acked(v, r.steps) \subseteq Acked(v, r.steps + 1)
        BY AckedMore DEF RunnerInv, Row
      <3> QED BY <1>2, <2>3, <3>3, <3>4, <3>5
    <2> QED BY <1>2, <1>4, <2>1, <2>2, <2>3
  <1>5. OneInDoubt' BY <1>4, PlansKept DEF OneInDoubt
  <1> QED BY <1>3, <1>5 DEF SureInv

\* Commands come, wait, get the lock, end, crash or are refused.
LEMMA CommandsSure ==
  ASSUME RunnerInv, SureInv, NEW h \in Hosts,
         \/ \E v \in Versions, op \in {"apply", "resume", "down", "repair"} : Command(h, op, v)
         \/ \E v \in Versions : CliApply(h, v)
         \/ Lock(h) \/ GiveUp(h) \/ Unlock(h) \/ Stop(h) \/ Refuse(h) \/ FailDown(h)
  PROVE  SureInv'
  <1> USE DEF At, Doing, Go
  <1>1. PICK y \in Run : y = run[h] /\ NoRun \in Run /\ NoRun.pc = "idle"
    BY DEF RunnerInv, TypeOK, Run, NoRun
  <1>2. UNCHANGED <<plans, ledger, effect, rerun>> /\ lock' \in {lock, h, NoHost}
    BY DEF Command, CliApply, Lock, GiveUp, Unlock, Stop, Refuse, FailDown
  <1>3. ASSUME NEW v \in Versions, NEW op \in {"apply", "resume", "down", "repair"},
               Command(h, op, v)
        PROVE  SureInv'
    <2> DEFINE c == [NoRun EXCEPT !.ver = v, !.op = op, !.pc = "lock"]
    <2>1. c \in Run /\ c.pc = "lock" BY PlanFacts DEF Run, RunnerInv, NoRun
    <2>2. run' = [run EXCEPT ![h] = c] BY <1>3 DEF Command
    <2> HIDE DEF c
    <2> QED BY <1>2, <2>1, <2>2, QuietSure
  <1>4. ASSUME NEW v \in Versions, CliApply(h, v) PROVE SureInv'
    <2> DEFINE c == [NoRun EXCEPT !.ver = v,
                       !.pc = IF ledger[v].status = "none" THEN "lock" ELSE "delete"]
    <2>1. c \in Run /\ c.pc \in {"lock", "delete"} BY PlanFacts DEF Run, RunnerInv, NoRun
    <2>2. run' = [run EXCEPT ![h] = c] BY <1>4 DEF CliApply
    <2> HIDE DEF c
    <2> QED BY <1>2, <2>1, <2>2, QuietSure
  <1>5. CASE GiveUp(h) \/ Unlock(h) \/ Stop(h)
    <2>1. run' = [run EXCEPT ![h] = NoRun] BY <1>5 DEF GiveUp, Unlock, Stop
    <2> QED BY <1>1, <1>2, <2>1, QuietSure
  <1>6. ASSUME NEW p \in {"begin", "unlock"}, run' = [run EXCEPT ![h].pc = p] PROVE SureInv'
    <2> DEFINE c == [y EXCEPT !.pc = p]
    <2>1. c \in Run /\ c.pc = p BY <1>1 DEF Run
    <2>2. run' = [run EXCEPT ![h] = c] BY <1>1, <1>6
    <2> HIDE DEF c
    <2> QED BY <1>2, <2>1, <2>2, QuietSure
  <1>7. CASE Lock(h) \/ Refuse(h) \/ FailDown(h) BY <1>6, <1>7 DEF Lock, Refuse, FailDown
  <1> QED BY <1>3, <1>4, <1>5, <1>7

\* Whoever loses his row to the cleanup works on a version in rerun.
LEMMA DeleteSure ==
  ASSUME RunnerInv, SureInv, NEW g \in Hosts, CliDelete(g) PROVE SureInv'
  <1>1. PICK w \in Versions : w = run[g].ver /\ run[g].pc = "delete" /\ lock # g
    BY DEF RunnerInv, TypeOK, CliDelete, At
  <1>2. /\ ledger' = [ledger EXCEPT ![w] = NoRow] /\ run' = [run EXCEPT ![g].pc = "lock"]
        /\ rerun' = IF ledger[w].status # "none" /\ (effect[w] # {} \/ lock # NoHost)
                    THEN rerun \cup {w} ELSE rerun
        /\ UNCHANGED <<plans, effect, lock>>
    BY <1>1 DEF CliDelete, Go, Mine
  <1>3. /\ ledger'[w] = NoRow /\ \A v \in Versions \ {w} : ledger'[v] = ledger[v]
        /\ \A h \in Hosts \ {g} : run'[h] = run[h]
    BY <1>2 DEF RunnerInv, TypeOK
  <1>4. NoRow.status = "none" BY DEF NoRow
  <1>5. OneInDoubt'
    <2>1. ASSUME NEW v \in Versions, v \notin rerun', ledger'[v].status \in {"pending", "failed"}
          PROVE  NonTx(v) \cap effect'[v] \subseteq Acked(v, ledger'[v].steps + 1)
      BY <1>2, <1>3, <1>4, <2>1 DEF SureInv, OneInDoubt
    <2> QED BY <1>2, <2>1, PlansKept DEF OneInDoubt
  <1>6. ASSUME NEW h \in Hosts, lock' = h
        PROVE  SureOf(run[h].ver, run[h], ledger[run[h].ver])'
    <2>1. lock = h /\ h # g /\ run'[h] = run[h] /\ lock # NoHost
      BY <1>1, <1>2, <1>3, <1>6, HostsAssumption
    <2>2. PICK v \in Versions, y \in Run : v = y.ver /\ y = run[h]
      BY <2>1 DEF RunnerInv, TypeOK
    <2>3. SureOf(v, y, ledger[v]) /\ Busy(v, y, ledger[v], effect[v], rerun)
      BY <2>1, <2>2 DEF SureInv, Sure, RunnerInv, Holder
    <2>4. CASE v = w
      <3>1. v \in rerun' \/ (ledger[v].status = "none" /\ rerun' = rerun)
        BY <1>2, <2>1, <2>4
      <3>2. SureOf(v, y, NoRow)'
        BY <2>3, <3>1 DEF SureOf, Busy, Forward
      <3> QED BY <1>3, <2>1, <2>2, <2>4, <3>2 DEF SureOf
    <2>5. CASE v # w
      <3>1. ledger'[v] = ledger[v] /\ (v \in rerun' <=> v \in rerun) BY <1>2, <1>3, <2>5
      <3> QED BY <2>1, <2>2, <2>3, <3>1 DEF SureOf
    <2> QED BY <2>4, <2>5
  <1> QED BY <1>5, <1>6 DEF SureInv, Sure

\* The command ends with a ledger write that leaves no claim.
LEMMA LeavesSure ==
  ASSUME RunnerInv, RunnerInv', SureInv, NEW h \in Hosts, lock = h,
         NEW v \in Versions, run[h].ver = v, NEW r \in Row, NEW e,
         ledger' = [ledger EXCEPT ![v] = r], effect' = [effect EXCEPT ![v] = e],
         Go(h, "unlock"), UNCHANGED <<plans, lock, rerun>>,
         (r = ledger[v] /\ e = effect[v]) \/ ~r.claim
  PROVE  SureInv'
  <1>1. PICK y \in Run : y = run[h] BY DEF RunnerInv, TypeOK
  <1> DEFINE c == [y EXCEPT !.pc = "unlock"]
  <1>2. c \in Run /\ c.ver = v /\ c.pc = "unlock" BY <1>1 DEF Run
  <1>3. run' = [run EXCEPT ![h] = c] BY <1>1 DEF Go
  <1> HIDE DEF c
  <1>4. SureOf(v, c, r) BY <1>2 DEF SureOf, Working
  <1> QED BY <1>2, <1>3, <1>4, HolderSure

\* An apply inserts its row with nothing counted, a resume takes the count over.
LEMMA BeginsSure ==
  ASSUME RunnerInv, RunnerInv', SureInv, NEW h \in Hosts, BeginApply(h) \/ BeginResume(h)
  PROVE  SureInv'
  <1>0. run[h].pc = "begin" BY DEF BeginApply, Insert, BeginResume, Doing, At
  <1>1. PICK v \in Versions, y \in Run, r \in Row, e \in Effects :
           /\ v = y.ver /\ y = run[h] /\ r = ledger[v] /\ e = effect[v] /\ lock = h
           /\ TypeOK /\ rows \in 0..MaxRows[plans] /\ y.done = 0
           /\ ledger = [ledger EXCEPT ![v] = r] /\ effect = [effect EXCEPT ![v] = e]
    BY <1>0, Here
  <1>2. CASE BeginApply(h)
    <2>1. PICK late \in BOOLEAN : Insert(h, v, late) BY <1>1, <1>2 DEF BeginApply, HigherApplied
    <2>2. PICK t \in Nat \cup {NoTotal} :
             t = IF NonTx(v) = {} THEN NoTotal ELSE Cardinality(NonTx(v))
      BY <1>1, PlanFacts, FS_CardinalityType
    <2>3. PICK i \in Nat : i = rows + 1 BY <1>1
    <2>4. PICK a \in Nat : a = From(Units(v), 1)
      <3>1. Units(v) \in SUBSET (Nat \ {0}) BY <1>1, WalkFacts
      <3>2. PICK S \in SUBSET (Nat \ {0}) : S = Units(v) BY <3>1
      <3>3. PICK b : b = From(S, 1) OBVIOUS
      <3>4. b \in Nat BY <3>3, FromFacts
      <3> QED BY <3>2, <3>3, <3>4
    <2> DEFINE z == [NoRow EXCEPT !.status = "pending", !.id = i, !.late = late, !.total = t]
               c == [y EXCEPT !.id = i, !.at = a,
                              !.pc = IF Units(v) = {} THEN "finish" ELSE "unit"]
    <2>5. z \in Row /\ z.status = "pending" /\ z.steps = 0 /\ ~z.claim BY DEF Row, NoRow
    <2>6. /\ c \in Run /\ c.ver = v /\ c.op = "apply" /\ c.done = 0 /\ c.pc \in {"finish", "unit"}
      BY <1>1, <2>1 DEF Run, Insert, Doing
    <2>7. run' = [run EXCEPT ![h] = c] BY <1>1, <2>1, <2>3, <2>4 DEF Insert, TypeOK
    <2>8. ledger' = [ledger EXCEPT ![v] = z] BY <2>1, <2>2, <2>3 DEF Insert, NoRow
    <2>9. effect' = [effect EXCEPT ![v] = e] /\ UNCHANGED <<plans, lock, rerun>>
      BY <1>1, <2>1 DEF Insert
    <2> HIDE DEF z, c
    <2>10. SureOf(v, c, z) BY <2>5, <2>6 DEF SureOf
    <2> QED BY <1>1, <2>5, <2>6, <2>7, <2>8, <2>9, <2>10, HolderSure
  <1>3. CASE BeginResume(h)
    <2>1. run'[h] \in Run /\ y.op = "resume" BY <1>1, <1>3 DEF RunnerInv, TypeOK, BeginResume, Doing
    <2>2. PICK c \in Run : c = run'[h] BY <2>1
    <2>3. /\ c.pc = "unit" /\ c.done = r.steps /\ c.ver = v /\ c.op = "resume"
          /\ run' = [run EXCEPT ![h] = c]
      <3>1. PICK a : a = From(NonTx(v) \ Acked(v, r.steps), 1) OBVIOUS
      <3>2. PICK d : d = [y EXCEPT !.pc = "unit", !.id = r.id, !.done = r.steps, !.at = a]
        OBVIOUS
      <3>3. run' = [run EXCEPT ![h] = d] BY <1>1, <1>3, <3>1, <3>2 DEF BeginResume, Mine
      <3>4. d = c BY <1>1, <2>2, <3>3 DEF TypeOK
      <3>5. d.pc = "unit" /\ d.done = r.steps /\ d.ver = y.ver /\ d.op = y.op
        BY <3>2 DEF Run
      <3> QED BY <1>1, <2>1, <3>3, <3>4, <3>5
    <2>4. SureOf(v, c, r)
      <3>1. r.steps \in Nat BY DEF Row
      <3> QED BY <2>3, <3>1 DEF SureOf
    <2>5. /\ ledger' = [ledger EXCEPT ![v] = r] /\ effect' = [effect EXCEPT ![v] = e]
          /\ UNCHANGED <<plans, lock, rerun>>
      BY <1>1, <1>3 DEF BeginResume
    <2> QED BY <1>1, <2>3, <2>4, <2>5, HolderSure
  <1> QED BY <1>2, <1>3

\* A segment or a statement commits, is claimed or is acknowledged.
LEMMA WalkSure ==
  ASSUME RunnerInv, RunnerInv', SureInv, NEW h \in Hosts,
         RunTx(h) \/ Claim(h) \/ Exec(h) \/ Ack(h)
  PROVE  SureInv'
  <1>0. run[h].pc \in {"unit", "exec", "ack"} BY DEF RunTx, Claim, Exec, Ack, Doing, At
  <1>1. PICK v \in Versions, y \in Run, r \in Row, e \in Effects :
           /\ v = y.ver /\ y = run[h] /\ r = ledger[v] /\ e = effect[v] /\ lock = h
           /\ TypeOK /\ Busy(v, y, r, e, rerun)
           /\ ledger = [ledger EXCEPT ![v] = r] /\ effect = [effect EXCEPT ![v] = e]
    BY <1>0, Here
  <1>2. y.op \in {"apply", "resume"}
    <2>1. y.op \in {"apply", "resume", "down", "repair"} BY DEF Run
    <2>2. RunTx(h) \/ Claim(h) => y.op \in {"apply", "resume"}
      BY <1>1 DEF RunTx, Claim, Doing
    <2>3. Exec(h) \/ Ack(h) => y.pc \in {"exec", "ack"} BY <1>1 DEF Exec, Ack, At
    <2> QED BY <1>1, <2>1, <2>2, <2>3 DEF Busy, Working
  <1>3. Forward(v, y, r, e, rerun) BY <1>0, <1>1, <1>2 DEF Busy, Working
  <1>4. v \notin rerun => y.done = r.steps + (IF y.pc = "ack" THEN 1 ELSE 0)
    BY <1>0, <1>1, <1>2 DEF SureInv, Sure, SureOf, Working
  <1>5. v \notin rerun => r.status # "none" BY <1>3 DEF Forward
  <1>6. r.steps \in Nat /\ y.done \in Nat BY DEF Row, Run
  <1>7. PICK z : z = ledger'[v] OBVIOUS
  <1>8. PICK c \in Run : c = run'[h] BY DEF RunnerInv, TypeOK
  <1>9. PICK f : f = effect'[v] OBVIOUS
  <1>10. /\ v \in Versions /\ z \in Row
    <2>1. Versions' = Versions BY PlansKept DEF RunTx, Claim, Exec, Ack
    <2> QED BY <1>7, <2>1 DEF RunnerInv, TypeOK
  <1>11. ASSUME NEW u PROVE /\ After(h, u).op = y.op /\ After(h, u).ver = v
                            /\ After(h, u).done = y.done
                            /\ After(h, u).pc \in {"unit", "finish"}
    BY <1>1 DEF After, Run
  <1>12. CASE RunTx(h)
    <2>1. c = After(h, y.at) /\ run' = [run EXCEPT ![h] = c] /\ z = r
      BY <1>1, <1>7, <1>8, <1>12 DEF RunTx, TypeOK
    <2>2. y.pc = "unit" BY <1>1, <1>12 DEF RunTx, Doing, At
    <2>3. c.op = y.op /\ c.ver = v /\ c.done = y.done /\ c.pc \in {"unit", "finish"}
      BY <1>11, <2>1
    <2>4. SureOf(v, c, z) BY <1>2, <1>4, <1>6, <2>1, <2>2, <2>3 DEF SureOf, Working
    <2>5. /\ ledger' = [ledger EXCEPT ![v] = z] /\ effect' = [effect EXCEPT ![v] = f]
          /\ UNCHANGED <<plans, lock, rerun>>
      BY <1>1, <1>9, <1>12, <2>1 DEF RunTx, TypeOK
    <2> QED BY <1>1, <1>2, <1>10, <2>1, <2>3, <2>4, <2>5, HolderSure DEF Working
  <1>13. CASE Claim(h)
    <2>1. UpdateById(h, [r EXCEPT !.claim = TRUE]) BY <1>1, <1>13 DEF Claim, Mine
    <2>2. ledger' = [ledger EXCEPT ![v] = Written(r, [r EXCEPT !.claim = TRUE])]
      BY <1>1, <1>3, <2>1, WriteFacts DEF Forward
    <2>3. z = Written(r, [r EXCEPT !.claim = TRUE]) BY <1>1, <1>7, <2>2 DEF TypeOK
    <2>4. z.steps = r.steps BY <2>3 DEF Written, Row
    <2>5. /\ run' = [run EXCEPT ![h] = c] /\ c.pc = "exec" /\ c.op = y.op /\ c.ver = v
          /\ c.done = y.done
      BY <1>1, <1>8, <1>13 DEF Claim, Go, TypeOK, Run
    <2>6. y.pc = "unit" BY <1>1, <1>13 DEF Claim, At
    <2>7. SureOf(v, c, z) BY <1>2, <1>4, <1>6, <2>4, <2>5, <2>6 DEF SureOf, Working
    <2>8. effect' = [effect EXCEPT ![v] = e] /\ UNCHANGED <<plans, lock, rerun>>
      BY <1>1, <1>13 DEF Claim
    <2> QED BY <1>1, <1>2, <1>10, <2>2, <2>3, <2>5, <2>7, <2>8, HolderSure DEF Working
  <1>14. CASE Exec(h)
    <2>1. y.pc = "exec" /\ z = r BY <1>1, <1>7, <1>14 DEF Exec, At
    <2>2. /\ run' = [run EXCEPT ![h] = c] /\ c.pc = "ack" /\ c.op = y.op /\ c.ver = v
          /\ c.done = y.done + 1
      <3>1. c = [y EXCEPT !.pc = "ack", !.done = @ + 1] BY <1>1, <1>8, <1>14 DEF Exec, TypeOK
      <3>2. run' = [run EXCEPT ![h] = c] BY <1>1, <1>14, <3>1 DEF Exec
      <3> QED BY <1>1, <3>1, <3>2 DEF Run
    <2>3. SureOf(v, c, z) BY <1>2, <1>4, <1>6, <2>1, <2>2 DEF SureOf, Working
    <2>4. /\ ledger' = [ledger EXCEPT ![v] = z] /\ effect' = [effect EXCEPT ![v] = f]
          /\ UNCHANGED <<plans, lock, rerun>>
      BY <1>1, <1>9, <1>14, <2>1 DEF Exec, TypeOK
    <2> QED BY <1>1, <1>2, <1>10, <2>2, <2>3, <2>4, HolderSure DEF Working
  <1>15. CASE Ack(h)
    <2> DEFINE new == [r EXCEPT !.steps = y.done, !.claim = FALSE]
    <2>1. UpdateById(h, new) BY <1>1, <1>15 DEF Ack, Mine
    <2>2. ledger' = [ledger EXCEPT ![v] = Written(r, new)]
      <3> HIDE DEF new
      <3> QED BY <1>1, <1>3, <2>1, WriteFacts DEF Forward
    <2>3. z = Written(r, new)
      <3> HIDE DEF new
      <3> QED BY <1>1, <1>7, <2>2 DEF TypeOK
    <2>4. v \notin rerun => z.steps = y.done BY <1>5, <2>3 DEF Written, Row
    <2> HIDE DEF new
    <2>5. c = After(h, y.at) /\ run' = [run EXCEPT ![h] = c]
      BY <1>1, <1>8, <1>15 DEF Ack, TypeOK
    <2>6. c.op = y.op /\ c.ver = v /\ c.done = y.done /\ c.pc \in {"unit", "finish"}
      BY <1>11, <2>5
    <2>7. SureOf(v, c, z) BY <1>2, <1>6, <2>4, <2>6 DEF SureOf, Working
    <2>8. effect' = [effect EXCEPT ![v] = e] /\ UNCHANGED <<plans, lock, rerun>>
      BY <1>1, <1>15 DEF Ack
    <2> QED BY <1>1, <1>2, <1>10, <2>2, <2>3, <2>5, <2>6, <2>7, <2>8, HolderSure DEF Working
  <1> QED BY <1>12, <1>13, <1>14, <1>15

\* The last write of a command clears the claim, if it finds the row.
LEMMA EndsSure ==
  ASSUME RunnerInv, RunnerInv', SureInv, NEW h \in Hosts,
         \/ FailTx(h) \/ FailExec(h) \/ Finish(h) \/ MarkRolledBack(h)
         \/ \E status \in {"rolled_back", "faked", "applied"} : Resolve(h, status)
  PROVE  SureInv'
  <1>0. /\ run[h].pc \in {"unit", "exec", "finish", "begin"} /\ Go(h, "unlock")
        /\ UNCHANGED <<plans, lock, rerun>>
    BY DEF FailTx, FailExec, Finish, MarkRolledBack, Resolve, Doing, At
  <1>1. PICK v \in Versions, y \in Run, r \in Row, e \in Effects :
           /\ v = y.ver /\ y = run[h] /\ r = ledger[v] /\ e = effect[v] /\ lock = h
           /\ TypeOK /\ Busy(v, y, r, e, rerun)
           /\ ledger = [ledger EXCEPT ![v] = r] /\ effect = [effect EXCEPT ![v] = e]
    BY <1>0, Here
  <1>2. ledger'[v] \in Row
    <2>1. v \in Versions' BY <1>0, PlansKept
    <2> QED BY <2>1 DEF RunnerInv, TypeOK
  <1>3. PICK z \in Row : z = ledger'[v] BY <1>2
  <1>4. PICK f : f = effect'[v] OBVIOUS
  <1>5. ASSUME UNCHANGED effect, NEW new, ~new.claim,
               UpdateById(h, new) \/ UpdateByVersion(h, new)
        PROVE  SureInv'
    <2>1. ledger' = [ledger EXCEPT ![v] = r] \/ ledger' = [ledger EXCEPT ![v] = new]
      BY <1>1, <1>5 DEF UpdateById, UpdateByVersion, Mine
    <2>2. ledger' = [ledger EXCEPT ![v] = z] /\ (z = r \/ z = new)
      BY <1>1, <1>3, <2>1 DEF TypeOK
    <2>3. effect' = [effect EXCEPT ![v] = e] BY <1>1, <1>5
    <2>4. (z = ledger[v] /\ e = effect[v]) \/ ~z.claim BY <1>1, <1>5, <2>2
    <2> QED BY <1>0, <1>1, <2>2, <2>3, <2>4, LeavesSure
  <1>6. CASE FailTx(h)
    <2>1. ~[r EXCEPT !.status = "failed", !.claim = FALSE].claim BY DEF Row
    <2> QED BY <1>1, <1>5, <1>6, <2>1 DEF FailTx, Mine
  <1>7. CASE FailExec(h)
    <2>1. ~[r EXCEPT !.status = "failed", !.steps = run[h].done, !.claim = FALSE].claim BY DEF Row
    <2> QED BY <1>1, <1>5, <1>7, <2>1 DEF FailExec, Mine
  <1>8. CASE Finish(h)
    <2>1. ~AppliedRow(h).claim BY <1>1 DEF AppliedRow, Mine, Row
    <2> QED BY <1>5, <1>8, <2>1 DEF Finish
  <1>9. CASE MarkRolledBack(h)
    <2>1. ~[r EXCEPT !.status = "rolled_back", !.steps = 0,
                     !.total = NoTotal, !.claim = FALSE].claim
      BY DEF Row
    <2> QED BY <1>1, <1>5, <1>9, <2>1 DEF MarkRolledBack, Mine
  <1>10. ASSUME NEW status \in {"rolled_back", "faked", "applied"}, Resolve(h, status)
         PROVE  SureInv'
    <2>1. PICK n : n = IF status = "applied" /\ Mine(h).total # NoTotal
                         THEN Mine(h).total ELSE Mine(h).steps
      OBVIOUS
    <2>2. ledger' = [ledger EXCEPT ![v] = [r EXCEPT !.status = status, !.claim = FALSE, !.steps = n]]
      BY <1>1, <1>10, <2>1 DEF Resolve, Mine
    <2>3. ledger' = [ledger EXCEPT ![v] = z] /\ ~z.claim BY <1>1, <1>3, <2>2 DEF TypeOK, Row
    <2>4. effect' = [effect EXCEPT ![v] = f]
      <3>1. PICK g : effect' = [effect EXCEPT ![v] = g] BY <1>1, <1>10 DEF Resolve
      <3> QED BY <1>1, <1>4, <3>1 DEF TypeOK
    <2> QED BY <1>0, <1>1, <2>3, <2>4, LeavesSure
  <1> QED BY <1>6, <1>7, <1>8, <1>9, <1>10

\* A rollback begins over a row, and keeps it or loses it to the cleanup.
LEMMA DownSure ==
  ASSUME RunnerInv, RunnerInv', SureInv, NEW h \in Hosts,
         BeginDown(h) \/ DownNonTx(h) \/ DownTx(h)
  PROVE  SureInv'
  <1>0. run[h].pc \in {"begin", "unit", "undo"} /\ run[h].op = "down"
    BY DEF BeginDown, DownNonTx, DownTx, Doing, At
  <1>1. PICK v \in Versions, y \in Run, r \in Row, e \in Effects :
           /\ v = y.ver /\ y = run[h] /\ r = ledger[v] /\ e = effect[v] /\ lock = h
           /\ TypeOK /\ Busy(v, y, r, e, rerun)
           /\ ledger = [ledger EXCEPT ![v] = r] /\ effect = [effect EXCEPT ![v] = e]
    BY <1>0, Here
  <1>2. r.status \in {"applied", "faked"} \/ (r.status = "none" /\ v \in rerun)
    <2>1. CASE BeginDown(h) BY <1>1, <2>1 DEF BeginDown, Mine
    <2>2. CASE ~BeginDown(h)
      <3>1. y.pc \in {"unit", "undo"} BY <1>1, <2>2 DEF DownNonTx, DownTx, Doing, At
      <3>2. r.status \in {"none", "applied", "faked"} BY <1>0, <1>1, <3>1 DEF Busy, Backward
      <3>3. r.status = "none" => v \in rerun BY <1>0, <1>1, <3>1 DEF SureInv, Sure, SureOf
      <3> QED BY <3>2, <3>3
    <2> QED BY <2>1, <2>2
  <1>3. PICK c \in Run : c = run'[h] BY DEF RunnerInv, TypeOK
  <1>4. PICK f : f = effect'[v] OBVIOUS
  <1>5. run' = [run EXCEPT ![h] = c] /\ c.ver = v /\ c.op = "down"
    <2>1. ASSUME NEW u PROVE DownFrom(h, u).ver = v /\ DownFrom(h, u).op = "down"
      BY <1>0, <1>1 DEF DownFrom, Run
    <2>2. CASE BeginDown(h) \/ DownNonTx(h)
      BY <1>1, <1>3, <2>1, <2>2 DEF BeginDown, DownNonTx, TypeOK
    <2>3. CASE DownTx(h)
      BY <1>0, <1>1, <1>3, <2>3 DEF DownTx, Go, TypeOK, Run
    <2> QED BY <2>2, <2>3
  <1>6. SureOf(v, c, r) BY <1>2, <1>5 DEF SureOf
  <1>7. /\ ledger' = [ledger EXCEPT ![v] = r] /\ effect' = [effect EXCEPT ![v] = f]
        /\ UNCHANGED <<plans, lock, rerun>>
    BY <1>1, <1>4 DEF BeginDown, DownNonTx, DownTx, TypeOK
  <1>8. r.status \notin {"pending", "failed"} BY <1>2
  <1> QED BY <1>1, <1>5, <1>6, <1>7, <1>8, HolderSure

\* Every step keeps the second invariant, too.
LEMMA NextSure == RunnerInv /\ RunnerInv' /\ SureInv /\ [Next]_vars => SureInv'
  <1> SUFFICES ASSUME RunnerInv, RunnerInv', SureInv, [Next]_vars PROVE SureInv' OBVIOUS
  <1>1. CASE UNCHANGED vars
    <2>1. OneInDoubt' BY <1>1, PlansKept DEF SureInv, OneInDoubt, vars
    <2>2. Sure' BY <1>1 DEF SureInv, Sure, SureOf, vars
    <2> QED BY <2>1, <2>2 DEF SureInv
  <1>2. ASSUME NEW h \in Hosts, Work(h) PROVE SureInv'
    BY <1>2, CommandsSure, DeleteSure, BeginsSure, WalkSure, EndsSure, DownSure DEF Work
  <1> QED BY <1>1, <1>2, CommandsSure DEF Next

\* A row and its count are exact to one statement, at any moment and after any
\* crash: a repair has a single statement to look at (ledger.rs 814-828).
THEOREM Sound == Spec => [](RunnerInv /\ SureInv)
  <1>1. Init => SureInv
    <2>1. Init => \A v \in Versions : ledger[v].status = "none" BY DEF Init, NoRow
    <2>2. Init => Sure BY HostsAssumption DEF Init, Sure
    <2> QED BY <2>1, <2>2 DEF SureInv, OneInDoubt
  <1>2. RunnerInv /\ RunnerInv' /\ SureInv /\ [Next]_vars => SureInv' BY NextSure
  <1> QED BY <1>1, <1>2, Inductive, PTL DEF Spec

\* The same, as the runs check it.
THEOREM Doubt == Spec => []OneInDoubt
  <1>1. SureInv => OneInDoubt BY DEF SureInv
  <1> QED BY <1>1, Sound, PTL


-----------------------------------------------------------------------------
(* Every step of a command brings it nearer to its end.                     *)

\* How far command c is from its end: the units its walk has before it, by
\* three for the stations of a unit, and the stations outside the walk.
Left(c) ==
  LET n == Len(plans[c.ver])
      k == 3 * (IF c.op = "down" THEN c.at ELSE n - c.at)
  IN  CASE c.pc = "idle" -> 0 [] c.pc = "unlock" -> 1
        [] c.pc = "finish" -> 2 [] c.pc = "undo" -> 3
        [] c.pc = "ack" -> k + 4 [] c.pc = "exec" -> k + 5 [] c.pc = "unit" -> k + 6
        [] c.pc = "begin" -> 3 * n + 7 [] c.pc = "lock" -> 3 * n + 8
        [] c.pc = "delete" -> 3 * n + 9

\* Every step of a command brings it nearer to its end, whatever the others do
\* to its row and its lock: no statement is repeated, and no walk turns back
\* (runner.rs 1640-1700, 2665-2790, repair.rs 1440-1487).
CommandsShorten ==
  [][\A h \in Hosts : ~At(h, "idle") /\ run'[h] # run[h]
       => Left(run[h])' \in Nat /\ Left(run[h])' < Left(run[h])]_vars

\* What is left, by the place the command is at.
LEMMA LeftIs ==
  ASSUME NEW c, NEW n \in Nat, n = Len(plans[c.ver]),
         NEW k \in Int, k = 3 * (IF c.op = "down" THEN c.at ELSE n - c.at)
  PROVE  /\ c.pc = "idle" => Left(c) = 0
         /\ c.pc = "unlock" => Left(c) = 1
         /\ c.pc = "finish" => Left(c) = 2
         /\ c.pc = "undo" => Left(c) = 3
         /\ c.pc = "ack" => Left(c) = k + 4
         /\ c.pc = "exec" => Left(c) = k + 5
         /\ c.pc = "unit" => Left(c) = k + 6
         /\ c.pc = "begin" => Left(c) = 3 * n + 7
         /\ c.pc = "lock" => Left(c) = 3 * n + 8
         /\ c.pc = "delete" => Left(c) = 3 * n + 9
  <1> USE DEF Left
  <1>1. CASE c.pc = "idle" BY <1>1
  <1>2. CASE c.pc = "unlock" BY <1>2
  <1>3. CASE c.pc = "finish" BY <1>3
  <1>4. CASE c.pc = "undo" BY <1>4
  <1>5. CASE c.pc = "ack" BY <1>5
  <1>6. CASE c.pc = "exec" BY <1>6
  <1>7. CASE c.pc = "unit" BY <1>7
  <1>8. CASE c.pc = "begin" BY <1>8
  <1>9. CASE c.pc = "lock" BY <1>9
  <1>10. CASE c.pc = "delete" BY <1>10
  <1> QED BY <1>1, <1>2, <1>3, <1>4, <1>5, <1>6, <1>7, <1>8, <1>9, <1>10

\* The unit a command is at is one of its migration.
LEMMA AtUnit ==
  ASSUME RunnerInv, NEW h \in Hosts, run[h].pc \in {"unit", "exec", "ack"}
  PROVE  /\ run[h].at \in Nat \ {0} /\ run[h].at <= Len(plans[run[h].ver])
         /\ Len(plans[run[h].ver]) \in Nat
  <1>1. PICK v \in Versions, y \in Run, r \in Row, e \in Effects :
           /\ v = y.ver /\ y = run[h] /\ TypeOK /\ Busy(v, y, r, e, rerun)
    BY Here
  <1>2. y.at \in Units(v)
    <2>1. CASE y.op = "down" BY <1>1, <2>1, PlanFacts DEF Busy, Backward
    <2>2. CASE y.op # "down"
      <3>1. y.op \in {"apply", "resume"}
        <4>1. y.op \in {"apply", "resume", "down", "repair"} BY DEF Run
        <4> QED BY <1>1, <2>2, <4>1 DEF Busy, Working
      <3>2. Forward(v, y, r, e, rerun) BY <1>1, <3>1 DEF Busy, Working
      <3>3. y.at \in Walk(v, y.op) BY <1>1, <3>2, WalkFacts DEF Forward
      <3> QED BY <1>1, <3>3, WalkFacts
    <2> QED BY <2>1, <2>2
  <1> QED BY <1>1, <1>2, PlanFacts

\* The step of h is one of those that shorten.
Shorter(h) == Left(run[h])' \in Nat /\ Left(run[h])' < Left(run[h])

\* There is something left as long as the command is not over, and the end is
\* nearer from anywhere but the end.
LEMMA LeftMin ==
  ASSUME RunnerInv, NEW h \in Hosts, ~At(h, "idle")
  PROVE  /\ Left(run[h]) \in Nat /\ Left(run[h]) > 0
         /\ run[h].pc # "unlock" => Left(run[h]) > 1
  <1>1. PICK y \in Run : y = run[h] /\ y.pc # "idle" BY DEF RunnerInv, TypeOK, At
  <1>2. PICK n \in Nat : n = Len(plans[y.ver])
    BY <1>1, PlanFacts DEF RunnerInv, TypeOK
  <1>3. PICK k \in Int : k = 3 * (IF y.op = "down" THEN y.at ELSE n - y.at)
    BY DEF Run
  <1>4. y.pc \in {"delete", "lock", "begin", "unit", "exec", "ack", "undo", "finish", "unlock"}
    BY <1>1 DEF Run
  <1>5. y.pc \in {"unit", "exec", "ack"} => k \in Nat
    BY <1>1, <1>2, <1>3, AtUnit DEF Run
  <1>6. CASE y.pc \in {"unit", "exec", "ack"}
    BY <1>1, <1>2, <1>3, <1>5, <1>6, LeftIs
  <1>7. CASE y.pc \notin {"unit", "exec", "ack"}
    <2>1. Left(y) \in {1, 2, 3, 3 * n + 7, 3 * n + 8, 3 * n + 9}
      BY <1>2, <1>3, <1>4, <1>7, LeftIs
    <2>2. y.pc # "unlock" => Left(y) # 1
      BY <1>2, <1>3, <1>4, <1>7, LeftIs
    <2> QED BY <1>1, <2>1, <2>2
  <1> QED BY <1>6, <1>7

\* A step to a place whose rest is known.
LEMMA GoesTo ==
  ASSUME RunnerInv, NEW h \in Hosts, NEW c, run'[h] = c, UNCHANGED plans,
         Left(c) \in Nat, Left(c) < Left(run[h])
  PROVE  Shorter(h)
  <1>1. Left(c)' = Left(c) BY DEF Left
  <1>2. Left(run[h])' = Left(c)' BY DEF Left
  <1> QED BY <1>1, <1>2 DEF Shorter

\* The command ends, or has only to unlock.
LEMMA EndShorter ==
  ASSUME RunnerInv, NEW h \in Hosts, UNCHANGED plans,
         \/ ~At(h, "idle") /\ run' = [run EXCEPT ![h] = NoRun]
         \/ run[h].pc \notin {"idle", "unlock"} /\ Go(h, "unlock")
  PROVE  Shorter(h)
  <1>1. PICK y \in Run : y = run[h] BY DEF RunnerInv, TypeOK
  <1>2. CASE ~At(h, "idle") /\ run' = [run EXCEPT ![h] = NoRun]
    <2>1. run'[h] = NoRun BY <1>2 DEF RunnerInv, TypeOK
    <2>2. Left(NoRun) = 0 BY DEF Left, NoRun
    <2> QED BY <1>2, <2>1, <2>2, LeftMin, GoesTo
  <1>3. CASE run[h].pc \notin {"idle", "unlock"} /\ Go(h, "unlock")
    <2>1. PICK c : c = [y EXCEPT !.pc = "unlock"] OBVIOUS
    <2>2. run'[h] = c /\ c.pc = "unlock" BY <1>1, <1>3, <2>1 DEF Go, RunnerInv, TypeOK, Run
    <2>3. Left(c) = 1 BY <2>2 DEF Left
    <2> QED BY <1>3, <2>2, <2>3, LeftMin, GoesTo DEF At
  <1> QED BY <1>2, <1>3

\* The cleanup and the lock: one station further.
LEMMA WaitShorter ==
  ASSUME RunnerInv, NEW h \in Hosts, CliDelete(h) \/ Lock(h) PROVE Shorter(h)
  <1>1. PICK y \in Run : y = run[h] /\ y.pc \in {"delete", "lock"}
    BY DEF RunnerInv, TypeOK, CliDelete, Lock, At
  <1>2. PICK n \in Nat : n = Len(plans[y.ver]) BY <1>1, PlanFacts DEF RunnerInv, TypeOK
  <1>3. PICK k \in Int : k = 3 * (IF y.op = "down" THEN y.at ELSE n - y.at) BY DEF Run
  <1>4. PICK c : c = run'[h] OBVIOUS
  <1>5. c.ver = y.ver /\ c.op = y.op /\ c.at = y.at /\ UNCHANGED plans
    BY <1>1, <1>4 DEF RunnerInv, TypeOK, CliDelete, Lock, Go, Run
  <1>6. \/ y.pc = "delete" /\ c.pc = "lock"
        \/ y.pc = "lock" /\ c.pc = "begin"
    BY <1>1, <1>4 DEF RunnerInv, TypeOK, CliDelete, Lock, Go, At, Run
  <1>7. Left(c) \in Nat /\ Left(c) < Left(y)
    <2>1. CASE y.pc = "delete" /\ c.pc = "lock"
      <3>1. Left(y) = 3 * n + 9 BY <1>2, <1>3, <2>1, LeftIs
      <3>2. Left(c) = 3 * n + 8 BY <1>2, <1>3, <1>5, <2>1, LeftIs
      <3> QED BY <3>1, <3>2
    <2>2. CASE y.pc = "lock" /\ c.pc = "begin"
      <3>1. Left(y) = 3 * n + 8 BY <1>2, <1>3, <2>2, LeftIs
      <3>2. Left(c) = 3 * n + 7 BY <1>2, <1>3, <1>5, <2>2, LeftIs
      <3> QED BY <3>1, <3>2
    <2> QED BY <1>6, <2>1, <2>2
  <1> QED BY <1>1, <1>4, <1>5, <1>7, GoesTo

\* The walk begins: at one of the units, or behind them.
LEMMA BeginShorter ==
  ASSUME RunnerInv, NEW h \in Hosts, BeginApply(h) \/ BeginResume(h) \/ BeginDown(h)
  PROVE  Shorter(h)
  <1>0. run[h].pc = "begin" /\ UNCHANGED plans
    BY DEF BeginApply, Insert, BeginResume, BeginDown, Doing, At
  <1>1. PICK v \in Versions, y \in Run, r \in Row, e \in Effects :
           v = y.ver /\ y = run[h] /\ r = ledger[v] /\ TypeOK /\ e \subseteq Units(v)
    BY <1>0, Here
  <1>2. PICK n \in Nat : n = Len(plans[v]) /\ Units(v) = 1..n /\ NonTx(v) \subseteq 1..n
    BY <1>1, PlanFacts
  <1>3. Left(y) = 3 * n + 7
    <2>1. PICK k \in Int : k = 3 * (IF y.op = "down" THEN y.at ELSE n - y.at) BY DEF Run
    <2>2. n = Len(plans[y.ver]) /\ y.pc = "begin" BY <1>0, <1>1, <1>2
    <2> QED BY <2>1, <2>2, LeftIs
  <1>4. ASSUME NEW c, c.ver = v, NEW a \in 0..n, c.at = a, c.pc \in {"unit", "undo", "finish"}
        PROVE  Left(c) \in Nat /\ Left(c) < Left(y)
    <2>1. PICK k \in Int : k = 3 * (IF c.op = "down" THEN c.at ELSE n - c.at) BY <1>4
    <2>2. k \in Nat /\ k <= 3 * n BY <1>4, <2>1
    <2>3. Left(c) \in {k + 6, 3, 2} BY <1>1, <1>2, <1>4, <2>1, LeftIs
    <2> QED BY <1>3, <2>2, <2>3
  <1>5. CASE BeginApply(h)
    <2>1. PICK a : a = From(Units(v), 1) OBVIOUS
    <2>2. a \in 0..n
      <3>1. PICK S \in SUBSET (Nat \ {0}) : S = Units(v) BY <1>2
      <3>2. a = 0 \/ a \in S BY <2>1, <3>1, FromFacts
      <3> QED BY <1>2, <3>1, <3>2
    <2>3. PICK late \in BOOLEAN : Insert(h, v, late) BY <1>1, <1>5 DEF BeginApply, HigherApplied
    <2>4. PICK i : i = rows + 1 OBVIOUS
    <2> DEFINE c == [y EXCEPT !.id = i, !.at = a,
                              !.pc = IF Units(v) = {} THEN "finish" ELSE "unit"]
    <2>5. run'[h] = c BY <1>1, <2>1, <2>3, <2>4 DEF Insert, TypeOK
    <2>6. c.ver = v /\ c.at = a /\ c.pc \in {"unit", "finish"} BY <1>1 DEF Run
    <2> HIDE DEF c
    <2> QED BY <1>0, <1>1, <1>4, <2>2, <2>5, <2>6, GoesTo
  <1>6. CASE BeginResume(h)
    <2>1. PICK m : m = r.steps OBVIOUS
    <2>2. PICK a : a = From(NonTx(v) \ Acked(v, m), 1) OBVIOUS
    <2>3. a \in 0..n
      <3>1. PICK S : S = NonTx(v) \ Acked(v, m) OBVIOUS
      <3>2. S \subseteq 1..n BY <1>2, <3>1
      <3>3. S \in SUBSET (Nat \ {0}) BY <3>2
      <3>4. a = 0 \/ a \in S BY <2>2, <3>1, <3>3, FromFacts
      <3>5. a = 0 \/ a \in 1..n BY <3>2, <3>4
      <3> QED BY <3>5
    <2> DEFINE c == [y EXCEPT !.pc = "unit", !.id = r.id, !.done = m, !.at = a]
    <2>4. run'[h] = c BY <1>1, <1>6, <2>1, <2>2 DEF BeginResume, Mine, TypeOK
    <2>5. c.ver = v /\ c.at = a /\ c.pc = "unit" BY <1>1 DEF Run
    <2> HIDE DEF c
    <2> QED BY <1>0, <1>1, <1>4, <2>3, <2>4, <2>5, GoesTo
  <1>7. CASE BeginDown(h)
    <2>1. PICK a : a = UpTo(NonTx(v), n) OBVIOUS
    <2>2. a \in 0..n
      <3>1. NonTx(v) \in SUBSET (Nat \ {0}) BY <1>2
      <3> QED BY <2>1, <3>1, UpToFacts
    <2> DEFINE c == [y EXCEPT !.pc = IF a = 0 THEN "undo" ELSE "unit", !.at = a]
    <2>3. run'[h] = c BY <1>1, <1>2, <1>7, <2>1 DEF BeginDown, DownFrom, TypeOK
    <2>4. c.ver = v /\ c.at = a /\ c.pc \in {"unit", "undo"} BY <1>1 DEF Run
    <2> HIDE DEF c
    <2> QED BY <1>0, <1>1, <1>4, <2>2, <2>3, <2>4, GoesTo
  <1> QED BY <1>5, <1>6, <1>7

\* The walk goes on: to the next station of its unit, or to a unit it has not
\* been at.
LEMMA WalkShorter ==
  ASSUME RunnerInv, NEW h \in Hosts,
         RunTx(h) \/ Claim(h) \/ Exec(h) \/ Ack(h) \/ DownNonTx(h)
  PROVE  Shorter(h)
  <1>0. run[h].pc \in {"unit", "exec", "ack"} /\ UNCHANGED plans
    BY DEF RunTx, Claim, Exec, Ack, DownNonTx, Doing, At
  <1>1. PICK v \in Versions, y \in Run, r \in Row, e \in Effects :
           /\ v = y.ver /\ y = run[h] /\ r = ledger[v] /\ TypeOK /\ Busy(v, y, r, e, rerun)
           /\ e \subseteq Units(v)
    BY <1>0, Here
  <1>2. PICK n \in Nat : n = Len(plans[v]) /\ Units(v) = 1..n /\ NonTx(v) \subseteq 1..n
    BY <1>1, PlanFacts
  <1>3. PICK u \in 1..n : u = y.at BY <1>0, <1>1, <1>2, AtUnit
  <1>4. PICK k \in Nat : k = 3 * (IF y.op = "down" THEN u ELSE n - u) OBVIOUS
  <1>5. /\ y.pc = "unit" => Left(y) = k + 6
        /\ y.pc = "exec" => Left(y) = k + 5
        /\ y.pc = "ack" => Left(y) = k + 4
    <2>1. n = Len(plans[y.ver]) /\ k = 3 * (IF y.op = "down" THEN y.at ELSE n - y.at)
      BY <1>1, <1>2, <1>3, <1>4
    <2> QED BY <2>1, LeftIs
  <1>6. PICK c : c = run'[h] OBVIOUS
  <1>7. CASE Claim(h) \/ Exec(h)
    <2>1. /\ c.ver = v /\ c.op = y.op /\ c.at = u
          /\ \/ y.pc = "unit" /\ c.pc = "exec"
             \/ y.pc = "exec" /\ c.pc = "ack"
      BY <1>1, <1>3, <1>6, <1>7 DEF Claim, Exec, Go, At, TypeOK, Run
    <2>2. /\ c.pc = "exec" => Left(c) = k + 5
          /\ c.pc = "ack" => Left(c) = k + 4
      <3>1. n = Len(plans[c.ver]) /\ k = 3 * (IF c.op = "down" THEN c.at ELSE n - c.at)
        BY <1>2, <1>3, <1>4, <2>1
      <3> QED BY <3>1, LeftIs
    <2>3. Left(c) \in Nat /\ Left(c) < Left(y) BY <1>5, <2>1, <2>2
    <2> QED BY <1>0, <1>1, <1>6, <2>3, GoesTo
  <1>8. CASE RunTx(h) \/ Ack(h)
    <2>1. c = After(h, u) /\ y.pc \in {"unit", "ack"}
      BY <1>1, <1>3, <1>6, <1>8 DEF RunTx, Ack, TypeOK, Doing, At
    <2>2. PICK a : a = From(Walked(h), u + 1) OBVIOUS
    <2>3. Walked(h) \subseteq 1..n BY <1>1, <1>2 DEF Walked
    <2>4. a = 0 \/ a \in (u + 1)..n
      <3>1. Walked(h) \in SUBSET (Nat \ {0}) /\ u + 1 \in Int BY <2>3
      <3> QED BY <2>2, <2>3, <3>1, FromFacts
    <2>5. y.op \in {"apply", "resume"}
      <3>1. y.op \in {"apply", "resume", "down", "repair"} BY DEF Run
      <3>2. RunTx(h) => y.op = "apply" BY <1>1 DEF RunTx, Doing
      <3>3. Ack(h) => y.pc = "ack" BY <1>1 DEF Ack, At
      <3> QED BY <1>1, <1>8, <3>1, <3>2, <3>3 DEF Busy, Working
    <2>6. c = IF a = 0 THEN [y EXCEPT !.pc = "finish", !.at = 0]
                       ELSE [y EXCEPT !.pc = "unit", !.at = a]
      BY <1>1, <2>1, <2>2 DEF After
    <2>7. c.ver = v /\ c.op = y.op /\ c.at = a /\ c.pc = IF a = 0 THEN "finish" ELSE "unit"
      BY <1>1, <2>6 DEF Run
    <2>8. Left(c) \in Nat /\ Left(c) < Left(y)
      <3>1. PICK m \in Int : m = 3 * (IF c.op = "down" THEN c.at ELSE n - c.at)
        BY <2>4, <2>7
      <3>2. Left(c) = IF a = 0 THEN 2 ELSE m + 6 BY <1>2, <2>7, <3>1, LeftIs
      <3>3. a # 0 => m \in Nat /\ m + 3 <= k
        <4>1. c.op # "down" /\ y.op # "down" BY <2>5, <2>7
        <4>2. m = 3 * (n - a) /\ k = 3 * (n - u) BY <1>4, <2>7, <3>1, <4>1
        <4> QED BY <2>4, <4>2
      <3>4. Left(y) >= k + 4 BY <1>5, <2>1
      <3>5. Left(y) \in {k + 4, k + 6} BY <1>5, <2>1
      <3> QED BY <3>2, <3>3, <3>5
    <2> QED BY <1>0, <1>1, <1>6, <2>8, GoesTo
  <1>9. CASE DownNonTx(h)
    <2>1. c = DownFrom(h, u - 1) /\ y.pc = "unit" /\ y.op = "down"
      BY <1>1, <1>3, <1>6, <1>9 DEF DownNonTx, TypeOK, Doing, At
    <2>2. PICK a : a = UpTo(NonTx(v), u - 1) OBVIOUS
    <2>3. a \in 0..(u - 1)
      <3>1. NonTx(v) \in SUBSET (Nat \ {0}) /\ u - 1 \in Nat BY <1>2
      <3> QED BY <2>2, <3>1, UpToFacts
    <2>4. c = [y EXCEPT !.pc = IF a = 0 THEN "undo" ELSE "unit", !.at = a]
      BY <1>1, <2>1, <2>2 DEF DownFrom
    <2>5. c.ver = v /\ c.op = "down" /\ c.at = a /\ c.pc = IF a = 0 THEN "undo" ELSE "unit"
      BY <1>1, <2>1, <2>4 DEF Run
    <2>6. Left(c) \in Nat /\ Left(c) < Left(y)
      <3>1. PICK m \in Nat : m = 3 * a BY <2>3
      <3>2. m = 3 * (IF c.op = "down" THEN c.at ELSE n - c.at) BY <2>5, <3>1
      <3>3. Left(c) = IF a = 0 THEN 3 ELSE m + 6 BY <1>2, <2>5, <3>1, <3>2, LeftIs
      <3>4. m + 3 <= k /\ Left(y) = k + 6 BY <1>4, <1>5, <2>1, <2>3, <3>1
      <3> QED BY <3>3, <3>4
    <2> QED BY <1>0, <1>1, <1>6, <2>6, GoesTo
  <1> QED BY <1>7, <1>8, <1>9

\* Every step of a command shortens it.
LEMMA WorkShorter ==
  ASSUME RunnerInv, NEW h \in Hosts, Work(h) \/ Stop(h) PROVE Shorter(h)
  <1> USE DEF At, Doing
  <1>1. CASE GiveUp(h) \/ Unlock(h) \/ Stop(h)
    BY <1>1, EndShorter DEF GiveUp, Unlock, Stop
  <1>2. CASE Refuse(h) \/ FailTx(h) \/ FailExec(h) \/ Finish(h) \/ FailDown(h) \/ MarkRolledBack(h)
    <2>1. /\ run[h].pc \in {"begin", "unit", "exec", "finish", "undo"}
          /\ Go(h, "unlock") /\ UNCHANGED plans
      BY <1>2 DEF Refuse, FailTx, FailExec, Finish, FailDown, MarkRolledBack
    <2> QED BY <2>1, EndShorter
  <1>3. ASSUME NEW status \in {"rolled_back", "faked", "applied"}, Resolve(h, status)
        PROVE  Shorter(h)
    <2>1. run[h].pc = "begin" /\ Go(h, "unlock") /\ UNCHANGED plans BY <1>3 DEF Resolve
    <2> QED BY <2>1, EndShorter
  <1>4. CASE DownTx(h)
    <2>1. PICK y \in Run : y = run[h] /\ y.pc = "undo" BY <1>4 DEF DownTx, RunnerInv, TypeOK
    <2>2. PICK c : c = [y EXCEPT !.pc = "finish"] OBVIOUS
    <2>3. run'[h] = c /\ c.pc = "finish" /\ UNCHANGED plans
      BY <1>4, <2>1, <2>2 DEF DownTx, Go, RunnerInv, TypeOK, Run
    <2>4. Left(y) = 3 /\ Left(c) = 2 BY <2>1, <2>3 DEF Left
    <2> QED BY <2>1, <2>3, <2>4, GoesTo
  <1> QED BY <1>1, <1>2, <1>3, <1>4, WaitShorter, BeginShorter, WalkShorter DEF Work

\* No command goes round in a loop, and none repeats a statement: with a step
\* that it can take it comes to its end, for any hosts, plans and crashes
\* (runner.rs 1640-1700, 2665-2790, repair.rs 1440-1487).
THEOREM Shortens == Spec => CommandsShorten
  <1>1. RunnerInv /\ [Next]_vars =>
          [\A h \in Hosts : ~At(h, "idle") /\ run'[h] # run[h]
             => Left(run[h])' \in Nat /\ Left(run[h])' < Left(run[h])]_vars
    <2> SUFFICES ASSUME RunnerInv, Next, NEW h \in Hosts, ~At(h, "idle"), run'[h] # run[h]
                 PROVE  Shorter(h)
      BY DEF Shorter
    <2>1. PICK g \in Hosts :
             \/ Stop(g) \/ Work(g)
             \/ \E v \in Versions :
                  \/ CliApply(g, v)
                  \/ \E op \in {"apply", "resume", "down", "repair"} : Command(g, op, v)
      BY DEF Next
    <2>2. ASSUME NEW f \in Hosts, f # g PROVE run'[f] = run[f]
      <3> USE DEF RunnerInv, TypeOK, Go
      <3>1. CASE Stop(g) BY <2>2, <3>1 DEF Stop
      <3>2. CASE Work(g)
        BY <2>2, <3>2 DEF Work, CliDelete, Lock, GiveUp, Unlock, Refuse, BeginApply, Insert,
           BeginResume, RunTx, FailTx, Claim, Exec, FailExec, Ack, Finish, Resolve,
           BeginDown, DownNonTx, DownTx, FailDown, MarkRolledBack
      <3>3. CASE ~(Stop(g) \/ Work(g)) BY <2>1, <2>2, <3>3 DEF CliApply, Command
      <3> QED BY <3>1, <3>2, <3>3
    <2>3. g = h BY <2>2
    <2> QED BY <2>1, <2>3, WorkShorter DEF CliApply, Command
  <1> QED BY <1>1, Inductive, PTL DEF Spec, CommandsShorten


-----------------------------------------------------------------------------
(* The promise to a reader of the ledger.                                   *)

\* The rows as RunnerPromise sees them.
said == [v \in Versions |-> ledger[v].status]

\* The promise means the same migrations.
LEMMA SameNames ==
  /\ Promise!Versions = Versions
  /\ \A v : Promise!Units(v) = Units(v) /\ Promise!NonTx(v) = NonTx(v)
  BY DEF Promise!Versions, Promise!Units, Promise!NonTx, Versions, Units, NonTx

\* Where a row says the same, the promise takes no step.
LEMMA SaidSame ==
  ASSUME UNCHANGED plans, \A v \in Versions : ledger'[v].status = ledger[v].status
  PROVE  said' = said
  BY PlansKept DEF said

\* One row that is written moves one entry.
LEMMA SaidMoves ==
  ASSUME TypeOK, UNCHANGED plans, NEW v \in Versions, NEW r,
         ledger' = [ledger EXCEPT ![v] = r]
  PROVE  /\ said' = [said EXCEPT ![v] = r.status]
         /\ said[v] = ledger[v].status
  <1>1. \A w \in Versions : ledger'[w] = IF w = v THEN r ELSE ledger[w] BY DEF TypeOK
  <1>2. said' = [w \in Versions |-> ledger'[w].status] BY PlansKept DEF said
  <1>3. said = [w \in Versions |-> ledger[w].status] BY DEF said
  <1>4. \A w \in Versions : ledger'[w].status = IF w = v THEN r.status ELSE said[w]
    BY <1>1, <1>3
  <1>5. said' = [w \in Versions |-> IF w = v THEN r.status ELSE said[w]] BY <1>2, <1>4
  <1>6. [said EXCEPT ![v] = r.status]
          = [w \in Versions |-> IF w = v THEN r.status ELSE said[w]] BY <1>3
  <1> QED BY <1>3, <1>5, <1>6

\* A row changes over a schema that stays.
LEMMA SaysPromise ==
  ASSUME TypeOK, NEW v \in Versions, NEW r, ledger' = [ledger EXCEPT ![v] = r],
         UNCHANGED <<plans, effect, rerun>>,
         \/ r.status = ledger[v].status
         \/ /\ ledger[v].status = "none" /\ r.status = "pending"
            /\ effect[v] = {} \/ v \in rerun
         \/ ledger[v].status \in {"pending", "failed"} /\ r.status = "failed"
         \/ /\ ledger[v].status \in {"pending", "failed"} /\ r.status = "applied"
            /\ NonTx(v) \subseteq effect[v]
         \/ /\ ledger[v].status \in {"applied", "faked"} /\ r.status = "rolled_back"
            /\ effect[v] = {}
  PROVE  Promise!PNext \/ UNCHANGED <<plans, said, effect, rerun>>
  <1>1. said' = [said EXCEPT ![v] = r.status] /\ said[v] = ledger[v].status BY SaidMoves
  <1> USE DEF Promise!Says, Promise!Open, Promise!Done, said
  <1>2. CASE r.status = ledger[v].status BY <1>1, <1>2
  <1>3. CASE /\ ledger[v].status = "none" /\ r.status = "pending"
             /\ effect[v] = {} \/ v \in rerun
    <2>1. Promise!PBegin(v) BY <1>1, <1>3 DEF Promise!PBegin
    <2> QED BY <2>1, SameNames DEF Promise!PNext
  <1>4. CASE ledger[v].status \in {"pending", "failed"} /\ r.status = "failed"
    <2>1. Promise!PFail(v) BY <1>1, <1>4 DEF Promise!PFail
    <2> QED BY <2>1, SameNames DEF Promise!PNext
  <1>5. CASE /\ ledger[v].status \in {"pending", "failed"} /\ r.status = "applied"
             /\ NonTx(v) \subseteq effect[v]
    <2>1. Promise!PApply(v) BY <1>1, <1>5, SameNames DEF Promise!PApply
    <2> QED BY <2>1, SameNames DEF Promise!PNext
  <1>6. CASE /\ ledger[v].status \in {"applied", "faked"} /\ r.status = "rolled_back"
             /\ effect[v] = {}
    <2>1. Promise!PRolledBack(v) BY <1>1, <1>6 DEF Promise!PRolledBack
    <2> QED BY <2>1, SameNames DEF Promise!PNext
  <1> QED BY <1>2, <1>3, <1>4, <1>5, <1>6

\* A unit lands under an open row, with those it follows behind it.
LEMMA LandPromise ==
  ASSUME TypeOK, NEW v \in Versions, NEW u \in Units(v),
         effect' = [effect EXCEPT ![v] = @ \cup {u}], UNCHANGED <<plans, ledger, rerun>>,
         \/ ledger[v].status \in {"pending", "failed"}
         \/ ledger[v].status = "none" /\ v \in rerun,
         \A w \in Units(v) : w < u /\ (u \in NonTx(v) => w \in NonTx(v)) => w \in effect[v]
  PROVE  Promise!PNext
  <1>1. said' = said BY SaidSame
  <1>2. said[v] = ledger[v].status BY DEF said
  <1>3. Promise!PLand(v, u)
    <2>1. Promise!Open(v) \/ Promise!Gone(v)
      BY <1>2 DEF Promise!Open, Promise!Gone, said
    <2>2. Promise!Becomes(v, effect[v] \cup {u}) BY <1>1 DEF Promise!Becomes, said
    <2> QED BY <2>1, <2>2, SameNames DEF Promise!PLand
  <1> QED BY <1>3, SameNames DEF Promise!PNext

\* What a rollback may undo under its row.
LEMMA UndoPromise ==
  ASSUME TypeOK, NEW v \in Versions, NEW f,
         effect' = [effect EXCEPT ![v] = f], UNCHANGED <<plans, ledger, rerun>>,
         \/ ledger[v].status \in {"applied", "faked"}
         \/ ledger[v].status = "none" /\ v \in rerun,
         \/ \E u \in NonTx(v) : /\ f = effect[v] \ {u}
                                /\ \A w \in NonTx(v) \cap effect[v] : w <= u
         \/ NonTx(v) \cap effect[v] = {} /\ f = {}
  PROVE  Promise!PNext
  <1>1. said' = said BY SaidSame
  <1>2. said[v] = ledger[v].status BY DEF said
  <1>3. Promise!Done(v) \/ Promise!Gone(v)
    BY <1>2 DEF Promise!Done, Promise!Gone, said
  <1>4. Promise!Becomes(v, f) BY <1>1 DEF Promise!Becomes, said
  <1>5. ASSUME NEW u \in NonTx(v), f = effect[v] \ {u},
               \A w \in NonTx(v) \cap effect[v] : w <= u
        PROVE  Promise!PNext
    <2>1. Promise!PUndo(v, u) BY <1>3, <1>4, <1>5, SameNames DEF Promise!PUndo
    <2>2. u \in Units(v) BY PlanFacts
    <2> QED BY <2>1, <2>2, SameNames DEF Promise!PNext
  <1>6. CASE NonTx(v) \cap effect[v] = {} /\ f = {}
    <2>1. Promise!PUndoTx(v) BY <1>3, <1>4, <1>6, SameNames DEF Promise!PUndoTx
    <2> QED BY <2>1, SameNames DEF Promise!PNext
  <1> QED BY <1>5, <1>6

\* Ledger writes of a command at work.
LEMMA WritePromise ==
  ASSUME RunnerInv, NEW h \in Hosts,
         \/ BeginApply(h) \/ Claim(h) \/ Ack(h) \/ FailTx(h) \/ FailExec(h)
         \/ Finish(h) \/ MarkRolledBack(h)
  PROVE  Promise!PNext \/ UNCHANGED <<plans, said, effect, rerun>>
  <1>0. /\ run[h].pc \in {"begin", "unit", "exec", "ack", "finish"}
        /\ UNCHANGED <<plans, effect, rerun>>
    BY DEF BeginApply, Insert, Claim, Ack, FailTx, FailExec, Finish, MarkRolledBack, Doing, At
  <1>1. PICK v \in Versions, y \in Run, r \in Row, e \in Effects :
           /\ v = y.ver /\ y = run[h] /\ r = ledger[v] /\ e = effect[v] /\ TypeOK
           /\ RowOK(v, r, e, rerun) /\ Busy(v, y, r, e, rerun)
           /\ ledger = [ledger EXCEPT ![v] = r]
    BY <1>0, Here
  <1>2. ASSUME NEW new, UpdateById(h, new) \/ UpdateByVersion(h, new),
               \/ new.status = r.status
               \/ r.status \in {"pending", "failed"} /\ new.status = "failed"
               \/ /\ r.status \in {"none", "pending", "failed"} /\ new.status = "applied"
                  /\ NonTx(v) \subseteq e
               \/ /\ r.status \in {"none", "applied", "faked"} /\ new.status = "rolled_back"
                  /\ e = {}
               \/ r.status = "none" /\ new.status = "failed"
        PROVE  Promise!PNext \/ UNCHANGED <<plans, said, effect, rerun>>
    <2>1. PICK z : z = IF r.status = "none" THEN r ELSE new OBVIOUS
    <2>2. ledger' = [ledger EXCEPT ![v] = r] \/ ledger' = [ledger EXCEPT ![v] = z]
      BY <1>1, <1>2, <2>1 DEF UpdateById, UpdateByVersion, Mine
    <2>3. CASE ledger' = [ledger EXCEPT ![v] = r]
      <3>1. ledger' = ledger BY <1>1, <2>3
      <3> QED BY <1>0, <3>1, SaidSame
    <2>4. CASE ledger' = [ledger EXCEPT ![v] = z]
      <3>1. CASE r.status = "none" BY <1>0, <1>1, <2>1, <2>4, <3>1, SaysPromise
      <3>2. CASE r.status # "none"
        <4>1. z = new BY <2>1, <3>2
        <4>2. \/ z.status = r.status
              \/ r.status \in {"pending", "failed"} /\ z.status = "failed"
              \/ r.status \in {"pending", "failed"} /\ z.status = "applied" /\ NonTx(v) \subseteq e
              \/ r.status \in {"applied", "faked"} /\ z.status = "rolled_back" /\ e = {}
          BY <1>2, <3>2, <4>1
        <4> QED BY <1>0, <1>1, <2>4, <4>2, SaysPromise
      <3> QED BY <3>1, <3>2
    <2> QED BY <2>2, <2>3, <2>4
  <1>3. ASSUME y.op \in {"apply", "resume"}, y.pc \in Working PROVE Forward(v, y, r, e, rerun)
    BY <1>1, <1>3 DEF Busy
  <1>4. y.pc \in {"exec", "ack"} => y.op \in {"apply", "resume"}
    <2>1. y.op \in {"apply", "resume", "down", "repair"} BY DEF Run
    <2> QED BY <1>1, <2>1 DEF Busy, Working
  <1>5. CASE BeginApply(h)
    <2>1. PICK late : Insert(h, v, late) BY <1>1, <1>5 DEF BeginApply, HigherApplied
    <2>2. PICK t : t = IF NonTx(v) = {} THEN NoTotal ELSE Cardinality(NonTx(v)) OBVIOUS
    <2> DEFINE z == [NoRow EXCEPT !.status = "pending", !.id = rows + 1, !.late = late, !.total = t]
    <2>3. ledger' = [ledger EXCEPT ![v] = z] /\ r.status = "none"
      BY <1>1, <2>1, <2>2 DEF Insert
    <2>4. z.status = "pending" BY DEF NoRow
    <2> HIDE DEF z
    <2>5. e = {} \/ v \in rerun BY <1>1, <2>3 DEF RowOK
    <2> QED BY <1>0, <1>1, <2>3, <2>4, <2>5, SaysPromise
  <1>6. CASE Claim(h)
    <2>1. [r EXCEPT !.claim = TRUE].status = r.status BY DEF Row
    <2> QED BY <1>1, <1>2, <1>6, <2>1 DEF Claim, Mine
  <1>7. CASE Ack(h)
    <2>1. [r EXCEPT !.steps = run[h].done, !.claim = FALSE].status = r.status BY DEF Row
    <2> QED BY <1>1, <1>2, <1>7, <2>1 DEF Ack, Mine
  <1>8. CASE FailTx(h)
    <2>1. Forward(v, y, r, e, rerun) BY <1>1, <1>3, <1>8 DEF FailTx, Doing, At, Working
    <2>2. [r EXCEPT !.status = "failed", !.claim = FALSE].status = "failed" BY DEF Row
    <2> QED BY <1>1, <1>2, <1>8, <2>1, <2>2 DEF FailTx, Mine, Forward
  <1>9. CASE FailExec(h)
    <2>1. Forward(v, y, r, e, rerun) BY <1>1, <1>3, <1>4, <1>9 DEF FailExec, At, Working
    <2>2. [r EXCEPT !.status = "failed", !.steps = run[h].done, !.claim = FALSE].status = "failed"
      BY DEF Row
    <2> QED BY <1>1, <1>2, <1>9, <2>1, <2>2 DEF FailExec, Mine, Forward
  <1>10. CASE Finish(h)
    <2>1. y.pc = "finish" /\ y.op \in {"apply", "resume"} BY <1>1, <1>10 DEF Finish, At
    <2>2. Forward(v, y, r, e, rerun) BY <1>3, <2>1 DEF Working
    <2>3. NonTx(v) \subseteq e BY <1>1, <2>1, <2>2, WalkFacts DEF Forward
    <2>4. AppliedRow(h).status = "applied" BY <1>1 DEF AppliedRow, Mine, Row
    <2> QED BY <1>2, <1>10, <2>2, <2>3, <2>4 DEF Finish, Forward
  <1>11. CASE MarkRolledBack(h)
    <2>1. Backward(v, y, r, e) /\ y.pc = "finish"
      BY <1>1, <1>11 DEF MarkRolledBack, Doing, At, Busy
    <2>2. [r EXCEPT !.status = "rolled_back", !.steps = 0,
                    !.total = NoTotal, !.claim = FALSE].status = "rolled_back"
      BY DEF Row
    <2> QED BY <1>1, <1>2, <1>11, <2>1, <2>2 DEF MarkRolledBack, Mine, Backward
  <1> QED BY <1>5, <1>6, <1>7, <1>8, <1>9, <1>10, <1>11

\* Units land and are undone under the row, and in order.
LEMMA SchemaPromise ==
  ASSUME RunnerInv, SureInv, NEW h \in Hosts,
         RunTx(h) \/ Exec(h) \/ DownNonTx(h) \/ DownTx(h)
  PROVE  Promise!PNext
  <1>0. /\ run[h].pc \in {"unit", "exec", "undo"} /\ UNCHANGED <<plans, ledger, rerun>>
    BY DEF RunTx, Exec, DownNonTx, DownTx, Doing, At
  <1>1. PICK v \in Versions, y \in Run, r \in Row, e \in Effects :
           /\ v = y.ver /\ y = run[h] /\ r = ledger[v] /\ e = effect[v] /\ lock = h
           /\ TypeOK /\ e \subseteq Units(v)
           /\ RowOK(v, r, e, rerun) /\ Busy(v, y, r, e, rerun)
    BY <1>0, Here
  <1>2. y.op \in {"apply", "resume", "down", "repair"} BY DEF Run
  <1>3. CASE RunTx(h) \/ Exec(h)
    <2>1. y.op \in {"apply", "resume"} /\ y.pc \in {"unit", "exec"}
      <3>1. RunTx(h) => y.op = "apply" /\ y.pc = "unit" BY <1>1 DEF RunTx, Doing, At
      <3>2. Exec(h) => y.pc = "exec" BY <1>1 DEF Exec, At
      <3> QED BY <1>1, <1>2, <1>3, <3>1, <3>2 DEF Busy, Working
    <2>2. Forward(v, y, r, e, rerun) BY <1>1, <2>1 DEF Busy, Working
    <2>3. PICK u \in Units(v) : u = y.at /\ u \in Walk(v, y.op) /\ Passed(v, y, e, u - 1)
      BY <1>1, <2>1, <2>2, WalkFacts DEF Forward
    <2>4. u \in NonTx(v) \/ y.op = "apply"
      <3>1. RunTx(h) => y.op = "apply" BY <1>1 DEF RunTx, Doing
      <3>2. Exec(h) => u \in NonTx(v) BY <1>1, <2>2, <2>3 DEF Exec, At, Forward
      <3> QED BY <1>3, <3>1, <3>2
    <2>5. ASSUME NEW w \in Units(v), w < u, u \in NonTx(v) => w \in NonTx(v)
          PROVE  w \in e
      <3>1. w \in Walk(v, y.op) BY <1>1, <2>1, <2>4, <2>5, WalkFacts DEF Walk
      <3>2. w <= u - 1
        <4>1. w \in Nat /\ u \in Nat BY <1>1, WalkFacts
        <4> QED BY <2>5, <4>1
      <3> QED BY <2>3, <3>1, <3>2 DEF Passed
    <2>6. ledger[v].status \in {"pending", "failed"} \/ (ledger[v].status = "none" /\ v \in rerun)
      BY <1>1, <2>2 DEF Forward
    <2>7. effect' = [effect EXCEPT ![v] = @ \cup {u}] BY <1>1, <1>3, <2>3 DEF RunTx, Exec
    <2>8. \A w \in Units(v) : w < u /\ (u \in NonTx(v) => w \in NonTx(v)) => w \in effect[v]
      BY <1>1, <2>5
    <2> QED BY <1>0, <1>1, <2>6, <2>7, <2>8, LandPromise
  <1>4. CASE DownNonTx(h) \/ DownTx(h)
    <2>1. y.op = "down" /\ y.pc \in {"unit", "undo"}
      BY <1>1, <1>4 DEF DownNonTx, DownTx, Doing, At
    <2>2. Backward(v, y, r, e) BY <1>1, <2>1 DEF Busy
    <2>3. ledger[v].status \in {"applied", "faked"} \/ (ledger[v].status = "none" /\ v \in rerun)
      BY <1>1, <2>1, <2>2 DEF Backward, SureInv, Sure, SureOf
    <2>4. CASE DownNonTx(h)
      <3>1. y.pc = "unit" BY <1>1, <2>4 DEF DownNonTx, Doing, At
      <3>2. PICK u \in NonTx(v) : u = y.at /\ \A x \in NonTx(v) \cap e : x <= u
        BY <2>2, <3>1 DEF Backward
      <3>3. effect' = [effect EXCEPT ![v] = effect[v] \ {u}] BY <1>1, <2>4, <3>2 DEF DownNonTx
      <3> QED BY <1>0, <1>1, <2>3, <3>2, <3>3, UndoPromise
    <2>5. CASE DownTx(h)
      <3>1. y.pc = "undo" BY <1>1, <2>5 DEF DownTx, Doing, At
      <3>2. NonTx(v) \cap e = {} BY <2>2, <3>1 DEF Backward
      <3>3. e \ Tx(v) = {} BY <1>1, <3>2 DEF Tx
      <3>4. effect' = [effect EXCEPT ![v] = {}] BY <1>1, <2>5, <3>3 DEF DownTx
      <3> QED BY <1>0, <1>1, <2>3, <3>2, <3>4, UndoPromise
    <2> QED BY <1>4, <2>4, <2>5
  <1> QED BY <1>3, <1>4

\* The operator's resolution, and the deletion of a row.
LEMMA HandPromise ==
  ASSUME RunnerInv, NEW h \in Hosts,
         CliDelete(h) \/ \E new \in {"rolled_back", "faked", "applied"} : Resolve(h, new)
  PROVE  Promise!PNext
  <1>0. UNCHANGED plans /\ TypeOK BY DEF CliDelete, Resolve, RunnerInv
  <1>1. PICK v \in Versions : v = run[h].ver
    BY DEF RunnerInv, TypeOK, CliDelete, Resolve, Doing, At
  <1>a. PICK r \in Row : r = ledger[v] /\ RowOK(v, r, effect[v], rerun)
    BY DEF RunnerInv, TypeOK, RowsOK
  <1>b. PICK e : e = effect[v] OBVIOUS
  <1>2. r \in Row /\ r = ledger[v] /\ e = effect[v] /\ RowOK(v, r, e, rerun)
    BY <1>a, <1>b
  <1>3. CASE CliDelete(h)
    <2>1. ledger' = [ledger EXCEPT ![v] = NoRow] BY <1>1, <1>3 DEF CliDelete
    <2>2. said' = [said EXCEPT ![v] = "none"]
      <3>1. NoRow.status = "none" BY DEF NoRow
      <3>2. said' = [said EXCEPT ![v] = NoRow.status] BY <1>0, <2>1, SaidMoves
      <3> QED BY <3>1, <3>2
    <2>3. /\ rerun' \in {rerun, rerun \cup {v}} /\ UNCHANGED <<plans, effect>>
          /\ r.status # "none" /\ e # {} => v \in rerun'
      BY <1>1, <1>2, <1>3 DEF CliDelete, Mine
    <2>4. e # {} => v \in rerun' BY <1>2, <2>3 DEF RowOK
    <2>5. Promise!PDelete(v) BY <1>2, <2>2, <2>3, <2>4 DEF Promise!PDelete, said
    <2> QED BY <2>5, SameNames DEF Promise!PNext
  <1>4. ASSUME NEW new \in {"rolled_back", "faked", "applied"}, Resolve(h, new)
        PROVE  Promise!PNext
    <2>1. PICK n : n = IF new = "applied" /\ Mine(h).total # NoTotal
                         THEN Mine(h).total ELSE Mine(h).steps
      OBVIOUS
    <2>2. PICK z : z = [r EXCEPT !.status = new, !.claim = FALSE, !.steps = n] OBVIOUS
    <2>3. ledger' = [ledger EXCEPT ![v] = z] /\ z.status = new
      BY <1>1, <1>2, <1>4, <2>1, <2>2 DEF Resolve, Mine, Row
    <2>4. said' = [said EXCEPT ![v] = new] /\ said[v] = r.status
      BY <1>0, <1>2, <2>3, SaidMoves
    <2>5. r.status \in {"failed", "pending"} BY <1>1, <1>2, <1>4 DEF Resolve, Mine
    <2>6. effect' = [effect EXCEPT ![v] = CASE new = "applied" -> Units(v)
                                            [] new = "rolled_back" -> {}
                                            [] new = "faked" -> @]
      <3>1. CASE new = "applied" BY <1>1, <1>4, <3>1 DEF Resolve
      <3>2. CASE new = "rolled_back" BY <1>1, <1>4, <3>2 DEF Resolve
      <3>3. CASE new = "faked" BY <1>1, <1>4, <3>3 DEF Resolve
      <3> QED BY <3>1, <3>2, <3>3
    <2>7. Promise!PResolve(v, new)
      BY <1>4, <2>4, <2>5, <2>6, SameNames DEF Promise!PResolve, Promise!Open, said, Resolve
    <2> QED BY <2>7, SameNames DEF Promise!PNext
  <1> QED BY <1>3, <1>4

\* Every step is a step of the promise, or none.
LEMMA PromiseStep ==
  ASSUME RunnerInv, SureInv, [Next]_vars
  PROVE  Promise!PNext \/ UNCHANGED <<plans, said, effect, rerun>>
  <1>1. CASE UNCHANGED vars BY <1>1, SaidSame DEF vars
  <1>2. ASSUME NEW h \in Hosts,
               \/ Stop(h) \/ Lock(h) \/ GiveUp(h) \/ Unlock(h) \/ Refuse(h) \/ FailDown(h)
               \/ BeginResume(h) \/ BeginDown(h)
               \/ \E v \in Versions :
                    \/ CliApply(h, v)
                    \/ \E op \in {"apply", "resume", "down", "repair"} : Command(h, op, v)
        PROVE  UNCHANGED <<plans, said, effect, rerun>>
    <2>1. UNCHANGED <<plans, ledger, effect, rerun>>
      BY <1>2 DEF Stop, Lock, GiveUp, Unlock, Refuse, FailDown, BeginResume, BeginDown,
         CliApply, Command
    <2> QED BY <2>1, SaidSame
  <1>3. ASSUME NEW h \in Hosts, Work(h)
        PROVE  Promise!PNext \/ UNCHANGED <<plans, said, effect, rerun>>
    BY <1>2, <1>3, WritePromise, SchemaPromise, HandPromise DEF Work
  <1> QED BY <1>1, <1>2, <1>3 DEF Next

\* The ledger keeps its promise: the schema of a migration gains and loses
\* units in order, and only under a row that says so, however commands of
\* several hosts crash, fail and follow each other (runner.rs, repair.rs).
THEOREM Refines == Spec => PromiseSpec
  <1>1. Init => Promise!PInit
    <2>1. NoRow.status = "none" BY DEF NoRow
    <2> QED BY <2>1, SameNames DEF Init, Promise!PInit
  <1>2. RunnerInv /\ SureInv /\ [Next]_vars => [Promise!PNext]_<<plans, said, effect, rerun>>
    BY PromiseStep
  <1> QED BY <1>1, <1>2, Sound, PTL DEF Spec, PromiseSpec, Promise!PSpec, said

\* Whatever keeps the promise has an untouched schema under a row that says
\* rolled_back (mark_rolled_back, repair): it is written over one, and no unit
\* lands under it.
THEOREM PromiseUndoes == PromiseSpec => []UndoneWhenRolledBack
  <1> DEFINE Untouched == /\ DOMAIN effect = Versions
                          /\ \A v \in Versions : said[v] = "rolled_back" => effect[v] = {}
  <1>1. Promise!PInit => Untouched BY SameNames DEF Promise!PInit, said
  <1>2. ASSUME Untouched, [Promise!PNext]_<<plans, said, effect, rerun>> PROVE Untouched'
    <2>1. DOMAIN said = Versions BY DEF said
    <2>2. UNCHANGED plans
      BY <1>2 DEF Promise!PNext, Promise!PBegin, Promise!PFail, Promise!PApply,
         Promise!PRolledBack, Promise!PUndoTx, Promise!PDelete, Promise!PLand, Promise!PUndo,
         Promise!PResolve, Promise!Says, Promise!Becomes
    <2>3. Versions' = Versions BY <2>2 DEF Versions
    <2> HIDE DEF said
    <2>4. CASE UNCHANGED <<plans, said, effect, rerun>> BY <1>2, <2>3, <2>4
    <2>5. ASSUME NEW v \in Versions, NEW st, said' = [said EXCEPT ![v] = st],
                 effect' = effect, st = "rolled_back" => effect[v] = {}
          PROVE  Untouched'
      <3>1. \A w \in Versions :
              /\ said'[w] = IF w = v THEN st ELSE said[w]
              /\ effect'[w] = effect[w]
        BY <2>1, <2>5
      <3>2. \A w \in Versions : said'[w] = "rolled_back" => effect'[w] = {}
        BY <1>2, <2>5, <3>1
      <3> QED BY <1>2, <2>3, <2>5, <3>2
    <2>6. ASSUME NEW v \in Versions, NEW S, effect' = [effect EXCEPT ![v] = S],
                 said' = said, said[v] # "rolled_back"
          PROVE  Untouched'
      <3>1. DOMAIN effect' = Versions BY <1>2, <2>6
      <3>2. \A w \in Versions : effect'[w] = IF w = v THEN S ELSE effect[w]
        BY <1>2, <2>6
      <3>3. \A w \in Versions : said'[w] = "rolled_back" => effect'[w] = {}
        BY <1>2, <2>6, <3>2
      <3> QED BY <2>3, <3>1, <3>3
    <2>7. ASSUME NEW v \in Versions,
                 Promise!PBegin(v) \/ Promise!PFail(v) \/ Promise!PApply(v)
                   \/ Promise!PRolledBack(v) \/ Promise!PDelete(v)
          PROVE  Untouched'
      BY <2>5, <2>7 DEF Promise!PBegin, Promise!PFail, Promise!PApply,
         Promise!PRolledBack, Promise!PDelete, Promise!Says, said
    <2>8. ASSUME NEW v \in Versions, NEW u,
                 Promise!PLand(v, u) \/ Promise!PUndo(v, u) \/ Promise!PUndoTx(v)
          PROVE  Untouched'
      BY <2>6, <2>8 DEF Promise!PLand, Promise!PUndo, Promise!PUndoTx, Promise!Becomes,
         Promise!Open, Promise!Done, Promise!Gone, said
    <2>9. ASSUME NEW v \in Versions, NEW new, Promise!PResolve(v, new) PROVE Untouched'
      <3>1. PICK S : effect' = [effect EXCEPT ![v] = S] /\ (new = "rolled_back" => S = {})
        BY <2>9 DEF Promise!PResolve
      <3>2. said' = [said EXCEPT ![v] = new] BY <2>9 DEF Promise!PResolve, said
      <3>3. DOMAIN effect' = Versions BY <1>2, <3>1
      <3>4. \A w \in Versions :
              /\ said'[w] = IF w = v THEN new ELSE said[w]
              /\ effect'[w] = IF w = v THEN S ELSE effect[w]
        BY <1>2, <2>1, <3>1, <3>2
      <3>5. \A w \in Versions : said'[w] = "rolled_back" => effect'[w] = {}
        BY <1>2, <3>1, <3>4
      <3> QED BY <2>3, <3>3, <3>5
    <2> QED BY <1>2, <2>4, <2>7, <2>8, <2>9, SameNames DEF Promise!PNext
  <1>3. Untouched => UndoneWhenRolledBack BY DEF UndoneWhenRolledBack, said
  <1> QED BY <1>1, <1>2, <1>3, PTL DEF PromiseSpec, Promise!PSpec, said

=============================================================================
