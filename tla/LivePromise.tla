----------------------------- MODULE LivePromise -----------------------------
(***************************************************************************)
(* What the row of a live plan promises a reader who sees it, the DDL that *)
(* committed and the rows left to convert, but neither the commands nor    *)
(* the daemons: work happens at a step whose predecessors are done, a row  *)
(* waits for an operator only where the plan says so or once it is         *)
(* drained, completion is stamped, then said, over the whole plan, and     *)
(* nobody takes a plan back to pending or running.                         *)
(***************************************************************************)
EXTENDS Naturals, Sequences, FiniteSets

CONSTANTS
  Plans,      \* the plan files, each a sequence of step kinds
  DdlKinds,   \* the kinds of steps that are one transaction of DDL
  GateKinds,  \* the kinds of steps that wait for the operator
  Rows,       \* rows a table may hold
  ChunkSize   \* rows one transaction may convert

VARIABLES
  plan,     \* the plan file, never written
  todo,     \* the rows left to convert
  applied,  \* the DDL steps that have committed
  status,   \* what the row says
  stamped   \* whether it has its completion stamp

Backfills == {s \in DOMAIN plan : plan[s] = "backfill_chunked"}
Whole == Len(plan) + 1

\* Everything before s is done, and nothing before s waits for the operator.
Ready(s) ==
  \A t \in DOMAIN plan : t < s =>
    /\ plan[t] \in DdlKinds => t \in applied
    /\ plan[t] = "backfill_chunked" => todo = {}
    /\ plan[t] \notin GateKinds

PInit ==
  /\ plan \in Plans /\ todo \in SUBSET Rows /\ (Backfills = {} => todo = {})
  /\ applied = {} /\ status \in {"pending", "running"} /\ stamped = FALSE

Says(new) == status' = new /\ UNCHANGED <<plan, todo, applied, stamped>>

PApply(s) ==
  /\ plan[s] \in DdlKinds /\ Ready(s)
  /\ applied' = applied \cup {s} /\ UNCHANGED <<plan, todo, status, stamped>>

\* Rows are converted a chunk at a time; the chunk that takes the last of them
\* may hand the plan to the operator, and no other.
PConvert ==
  /\ \E s \in Backfills : Ready(s)
  /\ todo' \subseteq todo /\ Cardinality(todo \ todo') <= ChunkSize
  /\ status' = status \/ (status' = "validating" /\ todo' = {})
  /\ UNCHANGED <<plan, applied, stamped>>

PGate(s) ==
  /\ plan[s] \in GateKinds /\ Ready(s)
  /\ Says(IF plan[s] = "validate_backfill" THEN "validating" ELSE "cutover")

PStamp ==
  /\ Ready(Whole)
  /\ stamped' = TRUE /\ UNCHANGED <<plan, todo, applied, status>>

PComplete == stamped /\ Ready(Whole) /\ Says("complete")

\* A failure, or the operator's abandonment, can be written over any status.
PSetback == \E new \in {"abandoned", "failed_retriable", "failed_terminal"} : Says(new)

PNext ==
  \/ \E s \in DOMAIN plan : PApply(s) \/ PGate(s)
  \/ PConvert \/ PStamp \/ PComplete \/ PSetback

PSpec == PInit /\ [][PNext]_<<plan, todo, applied, status, stamped>>

==============================================================================
