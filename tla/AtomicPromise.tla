---------------------------- MODULE AtomicPromise ----------------------------
(***************************************************************************)
(* What atomic() promises, with neither connections, savepoints nor        *)
(* queues: an operation is committed or undone, never both; its on_commit  *)
(* callback runs at most once, and only after the commit.  The operations  *)
(* of one transaction are committed together.                              *)
(***************************************************************************)
EXTENDS Naturals

CONSTANTS Tasks, Effects, MaxAttempts
VARIABLES landed, fired, undone

Operation == Tasks \X (1..MaxAttempts) \X Effects

Init == landed = {} /\ fired = {} /\ undone = {}

\* One transaction commits: all of S, none of which was undone, and nothing of
\* that task committed before.
Land(t, S) ==
  /\ S \cap undone = {}
  /\ \A op \in S : op[1] = t
  /\ \A op \in landed : op[1] # t
  /\ landed' = landed \cup S
  /\ UNCHANGED <<fired, undone>>

\* A scope fails, or a transaction fails.
Undo(S) ==
  /\ S \cap landed = {}
  /\ undone' = undone \cup S
  /\ UNCHANGED <<landed, fired>>

\* A callback runs.
Fire(op) ==
  /\ op \in landed \ fired
  /\ fired' = fired \cup {op}
  /\ UNCHANGED <<landed, undone>>

Next ==
  \/ \E t \in Tasks, S \in SUBSET Operation : Land(t, S)
  \/ \E S \in SUBSET Operation : Undo(S)
  \/ \E op \in Operation : Fire(op)

Spec == Init /\ [][Next]_<<landed, fired, undone>>
=============================================================================
