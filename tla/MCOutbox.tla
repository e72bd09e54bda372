------------------------------- MODULE MCOutbox -------------------------------
(***************************************************************************)
(* Outbox for TLC: rows are numbered in created_at order, workers are model *)
(* values.                                                                 *)
(***************************************************************************)
EXTENDS Outbox, TLC

CONSTANTS w1, w2

OneRow  == {1}
TwoRows == {1, 2}

NoRelays  == {}
OneRelay  == {w1}
TwoRelays == {w1, w2}

\* Workers of the same kind are interchangeable.
SymWorkers == Permutations(Workers \ Relays) \cup Permutations(Relays)

=============================================================================
