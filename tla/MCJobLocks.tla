----------------------------- MODULE MCJobLocks -----------------------------
(***************************************************************************)
(* Instances of JobLocks for TLC.  In one deployment every worker runs on  *)
(* one host, each under a pid of its own.  In the other the container of   *)
(* the first is restarted, and its second process has the pid of the       *)
(* first; the last one comes up in a new container, under another host     *)
(* name.                                                                   *)
(***************************************************************************)
EXTENDS JobLocks, TLC

CONSTANTS p1, p2, p3, p4

OneHost == [p \in Proc |-> "vm"]

TwoHosts == [p \in Proc |-> IF p = p3 THEN "new" ELSE "old"]

Distinct == [p \in Proc |-> CASE p = p1 -> 1 [] p = p2 -> 2 [] OTHER -> 3]

\* p1, p2: the same container twice; p4: there too, but with the next pid.
Reused == [p \in Proc |-> IF p = p4 THEN 8 ELSE 7]

Symmetric == Permutations(Job) \cup Permutations(Run)
=============================================================================
