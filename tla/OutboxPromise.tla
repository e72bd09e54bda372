---------------------------- MODULE OutboxPromise ----------------------------
(***************************************************************************)
(* What the transactional outbox promises: an event enters the queue once, *)
(* is handed to the publisher any number of times, and is settled once and *)
(* for all, as published only after the publisher accepted it.             *)
(***************************************************************************)
CONSTANTS Rows

VARIABLES
  status,   \* [Rows -> {"absent", "queued", "published", "failed"}]
  accepted  \* events some publish call reported Ok for

PInit ==
  /\ status \in [Rows -> {"absent", "queued", "published", "failed"}]
  /\ \A r \in Rows : status[r] = "absent"
  /\ accepted = {}

\* The producer's transaction commits.
PEmit(r) ==
  /\ status[r] = "absent"
  /\ status' = [status EXCEPT ![r] = "queued"]
  /\ UNCHANGED accepted

\* At least once: an event may be accepted again, even after it is settled, by
\* a worker whose lease ran out.
PAccept(r) ==
  /\ status[r] # "absent"
  /\ accepted' = accepted \cup {r}
  /\ UNCHANGED status

\* One transaction settles a batch of events.
PSettle(P, F) ==
  /\ \A r \in P \cup F : status[r] = "queued"
  /\ P \subseteq accepted
  /\ P \cap F = {}
  /\ status' = [r \in Rows |-> IF r \in P THEN "published"
                               ELSE IF r \in F THEN "failed" ELSE status[r]]
  /\ UNCHANGED accepted

PNext ==
  \/ \E r \in Rows : PEmit(r) \/ PAccept(r)
  \/ \E P, F \in SUBSET Rows : PSettle(P, F)

PSpec == PInit /\ [][PNext]_<<status, accepted>>

=============================================================================
