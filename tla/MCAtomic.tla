------------------------------ MODULE MCAtomic ------------------------------
(* Model-checking instance of Atomic.                                       *)
EXTENDS Atomic, TLC
CONSTANTS t1, t2, c1, c2, a, b, e1, e2
OneTask   == {t1}
TwoTasks  == {t1, t2}
OneConn   == {c1}
TwoConns  == {c1, c2}
OneTenant == {a}
TwoTenants == {a, b}
OneEffect == {e1}
TwoEffects == {e1, e2}

\* The two calls are alike, and no property is a liveness property.
CallSymmetry == Permutations(TwoTasks)
=============================================================================
