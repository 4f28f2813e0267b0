---------------------------- MODULE MCDashboard ----------------------------
(***************************************************************************)
(* Instances of Dashboard for TLC: two workers with a thread each.         *)
(***************************************************************************)
EXTENDS Dashboard

CONSTANTS w1, w2, q1, q2

OneEach == [th \in Thread |-> IF th = q1 THEN w1 ELSE w2]
=============================================================================
