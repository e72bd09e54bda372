---------------------------- MODULE RunnerPromise ----------------------------
(***************************************************************************)
(* What the ledger promises a reader who sees rows and schema but none of  *)
(* the commands: the schema changes only under a row that says so.  It     *)
(* gains units, in order, under an open row, and loses them, last first,   *)
(* under one that is applied or faked; a row is applied over every         *)
(* non-transactional statement, rolled back over an untouched schema, and  *)
(* begun over one.  A version whose row was deleted over its changes or    *)
(* under a command (loose) keeps the order, not the row.                   *)
(***************************************************************************)
EXTENDS Naturals

CONSTANTS Buckets

VARIABLES
  plans,   \* per version, the kinds of its units, "tx" or "non"
  status,  \* [Versions -> what the version's row says, "none" without one]
  schema,  \* [Versions -> units whose changes are in the schema]
  loose    \* versions whose row cannot be relied upon to be there

Versions == DOMAIN plans
Units(v) == DOMAIN plans[v]
NonTx(v) == {u \in Units(v) : plans[v][u] = "non"}

Open(v) == status[v] \in {"pending", "failed"}
Done(v) == status[v] \in {"applied", "faked"}
Gone(v) == status[v] = "none" /\ v \in loose

PInit ==
  /\ plans \in Buckets
  /\ status = [v \in Versions |-> "none"] /\ schema = [v \in Versions |-> {}]
  /\ loose = {}

\* The row of v changes, and nothing else.
Says(v, new) ==
  status' = [status EXCEPT ![v] = new] /\ UNCHANGED <<plans, schema, loose>>

\* The schema of v changes, and nothing else.
Becomes(v, units) ==
  schema' = [schema EXCEPT ![v] = units] /\ UNCHANGED <<plans, status, loose>>

PBegin(v) ==
  /\ status[v] = "none" /\ (schema[v] = {} \/ v \in loose)
  /\ Says(v, "pending")

\* A resume walks the non-transactional statements alone; a transactional
\* segment has everything before it behind it.
PLand(v, u) ==
  /\ Open(v) \/ Gone(v)
  /\ \A w \in Units(v) : w < u /\ (u \in NonTx(v) => w \in NonTx(v)) => w \in schema[v]
  /\ Becomes(v, schema[v] \cup {u})

PFail(v) == Open(v) /\ Says(v, "failed")
PApply(v) == Open(v) /\ NonTx(v) \subseteq schema[v] /\ Says(v, "applied")

\* The operator answers for an open row, and for the schema beside it.
PResolve(v, new) ==
  /\ Open(v)
  /\ status' = [status EXCEPT ![v] = new]
  /\ schema' = [schema EXCEPT ![v] = CASE new = "applied" -> Units(v)
                                       [] new = "rolled_back" -> {}
                                       [] new = "faked" -> @]
  /\ UNCHANGED <<plans, loose>>

\* The last non-transactional statement, or, when they are all undone, the rest.
PUndo(v, u) ==
  /\ Done(v) \/ Gone(v)
  /\ u \in NonTx(v) /\ \A w \in NonTx(v) \cap schema[v] : w <= u
  /\ Becomes(v, schema[v] \ {u})

PUndoTx(v) ==
  /\ Done(v) \/ Gone(v)
  /\ NonTx(v) \cap schema[v] = {}
  /\ Becomes(v, {})

PRolledBack(v) == Done(v) /\ schema[v] = {} /\ Says(v, "rolled_back")

\* A row is deleted; over changes of the schema it makes the version loose.
PDelete(v) ==
  /\ status' = [status EXCEPT ![v] = "none"]
  /\ loose' \in {loose, loose \cup {v}} /\ (schema[v] # {} => v \in loose')
  /\ UNCHANGED <<plans, schema>>

PNext ==
  \E v \in Versions :
    \/ PBegin(v) \/ PFail(v) \/ PApply(v) \/ PRolledBack(v) \/ PUndoTx(v) \/ PDelete(v)
    \/ \E u \in Units(v) : PLand(v, u) \/ PUndo(v, u)
    \/ \E new \in {"rolled_back", "faked", "applied"} : PResolve(v, new)

PSpec == PInit /\ [][PNext]_<<plans, status, schema, loose>>

==============================================================================
