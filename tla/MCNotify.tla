------------------------------- MODULE MCNotify -------------------------------
(* Model-checking instance of Notify.                                       *)
EXTENDS Notify
CONSTANTS s1, s2, l1, l2, c1
TwoSubs   == {s1, s2}
TwoListeners   == {l1, l2}
OneChan   == {c1}
=============================================================================
