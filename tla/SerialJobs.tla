----------------------------- MODULE SerialJobs -----------------------------
(***************************************************************************)
(* What job_locks and job_runs promise together: a table of runs in which  *)
(* at most one is open, and which is told the truth about the job at work. *)
(* One job begins when no run is open; it ends and its run is closed, or   *)
(* it is lost and its run is closed before another begins.  JobLocks does  *)
(* this in several statements, with two locks and expiry times, and with   *)
(* workers that die between any two of them.                               *)
(***************************************************************************)
CONSTANT Run

VARIABLES
    open,   \* the runs whose row says running
    work    \* the runs whose job is at work

Init == open = {} /\ work = {}

Begin(r) ==
    /\ open = {}
    /\ open' = {r} /\ work' = {r}

\* The job at work ends and its run is closed.
End ==
    /\ work # {}
    /\ open' = {} /\ work' = {}

\* The job ends without a word, or its process does.
Lose ==
    /\ work # {}
    /\ work' = {} /\ UNCHANGED open

\* A later cleanup closes what was lost.
Close ==
    /\ open # {} /\ work = {}
    /\ open' = {} /\ UNCHANGED work

Next == (\E r \in Run : Begin(r)) \/ End \/ Lose \/ Close

Spec == Init /\ [][Next]_<<open, work>>
=============================================================================
