----------------------------- MODULE MCLiveMigrate -----------------------------
(***************************************************************************)
(* Instances of LiveMigrate: plans of its patterns, none of which ends     *)
(* before its first gate, and plans written by hand without a gate and     *)
(* with a cutover.                                                         *)
(***************************************************************************)
EXTENDS LiveMigrate, LivePatterns

CONSTANTS c1, d1, d2, r1, r2, r3

OneCli == {c1}
TwoDaemons == {d1, d2}
ThreeRows == {r1, r2, r3}

Ungated == <<"expand_schema", "backfill_chunked", "finalize_constraints">>
CutoverOnly == <<"cutover_reads", "cleanup_legacy_state">>
SomePlans == {ThreeStepDefault, MultiFkStaging(2), Ungated, CutoverOnly}

\* Tables for the plans that use them: empty, a full chunk, and one row more,
\* which a fault between its chunks makes a short chunk for the next loop.  Rows
\* differ by their names only: of the tables of one size, one will do.
Instances == {<<ThreeStepDefault, {}>>, <<ThreeStepDefault, {r1, r2}>>,
              <<Ungated, {r1, r2, r3}>>, <<MultiFkStaging(2), {}>>,
              <<CutoverOnly, {}>>}
MCInit == Init /\ <<plan, table>> \in Instances
MCSpec == MCInit /\ [][Next]_vars /\ Fairness
=============================================================================
