------------------------------- MODULE MCRunner -------------------------------
(***************************************************************************)
(* Instances of Runner: the plan CREATE TABLE, two indexes built           *)
(* concurrently, and what can only follow them; and a bucket of two        *)
(* versions with less of everything.                                       *)
(***************************************************************************)
EXTENDS Runner

CONSTANTS h1, h2

TwoHosts == {h1, h2}
OneStrict == {h1}
Mixed == {<<<<"tx", "non", "non", "tx">>>>}
Several == Mixed \cup {<<<<"non", "tx">>, <<"tx">>>>}
One == [b \in Mixed |-> 1]
Two == [b \in Mixed |-> 2]
Rows == [b \in Several |-> IF Len(b) = 1 THEN 3 ELSE 2]
Stops == [b \in Several |-> IF Len(b) = 1 THEN 2 ELSE 1]
=============================================================================
