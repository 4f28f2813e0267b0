------------------------------ MODULE JobLocks ------------------------------
(***************************************************************************)
(* The database-backed job locks of the GDL Flower Tracker: the tables     *)
(* job_locks and job_runs of api_server.py and everything that writes      *)
(* them.  Refresh, scrape, sync, bootstrap and scheduled scrape all start  *)
(* with try_begin_job, keep their locks alive with job_lock_heartbeat and  *)
(* end with finish_job; a worker process that starts, and every            *)
(* try_begin_job, first removes what earlier processes left behind.        *)
(*                                                                         *)
(* One action is one SQLite statement or transaction.  cleanup_stale_jobs  *)
(* and try_begin_job never await, so while a process is inside them none   *)
(* of its other jobs runs: the other processes' do.  Time is counted in    *)
(* ticks much longer than those calls, so no tick falls inside them.       *)
(***************************************************************************)
EXTENDS Naturals, FiniteSets

CONSTANTS
    Proc,         \* worker processes; the tables have "host:pid" for them
    HostOf,       \* the host name of a process
    PidOf,        \* its pid, which a restarted container gives out again
    Job,          \* job names: refresh, scrape, sync, bootstrap, ...
    Pipeline,     \* UPDATE_LOCK_NAME, the lock all jobs share
    Run,          \* ids of job_runs; one nobody refers to any more is reused
    NoProc, NoJob,
    TTL,          \* job_lock_ttl_seconds
    MinInterval,  \* the least heartbeat interval, 30 s
    Late,         \* how late a busy event loop may run a due heartbeat
    Concurrent,   \* WEB_CONCURRENCY > 1: workers run side by side
    Faults        \* the faults that occur: a process dies, a database error
                  \* in try_begin_job, in touch_job_locks, in finish_job

Lock == Job \cup {Pipeline}

Larger(a, b) == IF a >= b THEN a ELSE b

\* Fault: a heartbeat as rare as the TTL.
WholeTTL == Larger(MinInterval, TTL)

\* The heartbeat's interval, max(30, ttl // 3).
Interval == Larger(MinInterval, TTL \div 3)

ASSUME NameAssumption ==
    Pipeline \notin Job /\ NoProc \notin Proc /\ NoJob \notin Job

ASSUME TimeAssumption ==
    /\ TTL \in Nat \ {0} /\ MinInterval \in Nat \ {0} /\ Late \in Nat
    /\ Concurrent \in BOOLEAN
    /\ Faults \subseteq {"crash", "begin", "touch", "finish"}

VARIABLES
    locks,   \* job_locks: who owns a lock, and the ticks until expires_at
    runs,    \* job_runs: job_name, lock_owner, status
    task,    \* the coroutine of a run, in the memory of its owner
    proc     \* where a process is in cleanup_stale_jobs and try_begin_job

vars == <<locks, runs, task, proc>>

-----------------------------------------------------------------------------
NoLock == [owner |-> NoProc, left |-> 0]

LocksOf(j) == {Pipeline, j}

\* The lock row is there and has not expired.
Live(l) == locks[l].owner # NoProc /\ locks[l].left > 0

Up(p) == proc[p].pc \notin {"unborn", "dead"}

Working(r) == task[r].pc = "working"

\* _lock_owner: the tables cannot tell a process from an earlier one of its host
\* that had its pid (docker-compose.yml 4: the same container starts again).
SameOwner(p, q) ==
    p # NoProc /\ q # NoProc /\ HostOf[p] = HostOf[q] /\ PidOf[p] = PidOf[q]

\* _pid_exists, for an owner of any host.
Alive(q) == \E o \in Proc : Up(o) /\ SameOwner(o, q)

\* Fault: any owner on this host is taken for a dead process.
AnyPid(p, q) == HostOf[q] = HostOf[p]

\* cleanup_stale_jobs: a lock or run owned by q is abandoned as p sees it.
Orphan(p, q) == HostOf[q] = HostOf[p] /\ ~Alive(q)

\* Fault: no cleanup distrusts other hosts.
NotForeign(p, q) == FALSE

\* Only the cleanup at startup, which has no job, distrusts other hosts.
Foreign(p, q) == proc[p].job = NoJob /\ HostOf[q] # HostOf[p]

At(p, label) == [proc EXCEPT ![p].pc = label]

\* Where p goes when its cleanup is over.
AfterCleanup(p) == IF proc[p].job = NoJob THEN "idle" ELSE "acquire"

\* A run id that no row in progress, coroutine or cleanup refers to.
Unused(r) ==
    /\ runs[r].status # "running" /\ ~Working(r)
    /\ \A p \in Proc : r \notin proc[p].running \cup proc[p].repair

Gone == [pc |-> "gone", idle |-> 0, beating |-> FALSE]

\* A process that has read nothing yet.
Blank(label, j) == [pc |-> label, job |-> j, stale |-> {}, running |-> {}, repair |-> {}]

-----------------------------------------------------------------------------
Init ==
    /\ locks = [l \in Lock |-> NoLock]
    /\ runs = [r \in Run |-> [job |-> NoJob, owner |-> NoProc, status |-> "error"]]
    /\ task = [r \in Run |-> Gone]
    /\ proc = [p \in Proc |-> Blank("unborn", NoJob)]

\* lifespan: a new worker process begins its startup cleanup.
StartWorker(p) ==
    /\ proc[p].pc = "unborn"
    /\ Concurrent \/ \A q \in Proc : ~Up(q)
    /\ \A q \in Proc : Up(q) => ~SameOwner(p, q)
    /\ proc' = At(p, "locks")
    /\ UNCHANGED <<locks, runs, task>>

\* A request, the scheduler or the bootstrap calls try_begin_job.  Run bounds
\* the rows that matter at a time.
BeginJob(p, j) ==
    /\ proc[p].pc = "idle"
    /\ \E r \in Run : Unused(r)
    /\ proc' = [proc EXCEPT ![p] = Blank("locks", j)]
    /\ UNCHANGED <<locks, runs, task>>

\* The first SELECT: expired locks, foreign ones and those of dead processes.
ScanLocks(p) ==
    /\ proc[p].pc = "locks"
    /\ proc' = [proc EXCEPT ![p].pc = "runs",
                            ![p].stale = {l \in Lock :
                                /\ locks[l].owner # NoProc
                                /\ \/ locks[l].left = 0
                                   \/ Foreign(p, locks[l].owner)
                                   \/ Orphan(p, locks[l].owner)}]
    /\ UNCHANGED <<locks, runs, task>>

\* The second SELECT: the runs in progress.
ScanRuns(p) ==
    /\ proc[p].pc = "runs"
    /\ proc' = [proc EXCEPT ![p].pc = "active",
                            ![p].running = {r \in Run : runs[r].status = "running"}]
    /\ UNCHANGED <<locks, runs, task>>

\* The third SELECT: a run is to be closed unless its owner holds its job's lock.
ScanActive(p) ==
    /\ proc[p].pc = "active"
    /\ LET held(r) == /\ Live(runs[r].job) /\ runs[r].job \notin proc[p].stale
                      /\ SameOwner(locks[runs[r].job].owner, runs[r].owner)
           repair == {r \in proc[p].running :
                        \/ Foreign(p, runs[r].owner)
                        \/ Orphan(p, runs[r].owner)
                        \/ ~held(r)}
       IN proc' = [proc EXCEPT ![p].pc = IF proc[p].stale = {} /\ repair = {}
                                         THEN AfterCleanup(p) ELSE "repair",
                               ![p].running = {}, ![p].repair = repair]
    /\ UNCHANGED <<locks, runs, task>>

\* Fault: the rows are not closed.
RepairLocksOnly(p) ==
    /\ proc[p].pc = "repair"
    /\ locks' = [l \in Lock |-> IF l \in proc[p].stale THEN NoLock ELSE locks[l]]
    /\ proc' = [proc EXCEPT ![p].pc = AfterCleanup(p), ![p].stale = {}, ![p].repair = {}]
    /\ UNCHANGED <<runs, task>>

\* The transaction: DELETE by job_name, UPDATE by id, whatever they are now.
Repair(p) ==
    /\ proc[p].pc = "repair"
    /\ locks' = [l \in Lock |-> IF l \in proc[p].stale THEN NoLock ELSE locks[l]]
    /\ runs' = [r \in Run |-> IF r \in proc[p].repair
                              THEN [runs[r] EXCEPT !.status = "error"] ELSE runs[r]]
    /\ proc' = [proc EXCEPT ![p].pc = AfterCleanup(p), ![p].stale = {}, ![p].repair = {}]
    /\ UNCHANGED task

\* BEGIN IMMEDIATE: refused while one of the two locks is live.
Refuse(p) ==
    /\ proc[p].pc = "acquire"
    /\ \E l \in LocksOf(proc[p].job) : Live(l)
    /\ proc' = At(p, "idle")
    /\ UNCHANGED <<locks, runs, task>>

\* Fault: only the job's own lock is looked at.
AcquireUnshared(p, r) ==
    /\ proc[p].pc = "acquire"
    /\ ~Live(proc[p].job)
    /\ Unused(r)
    /\ locks' = [l \in Lock |-> IF l \in LocksOf(proc[p].job)
                                THEN [owner |-> p, left |-> TTL] ELSE locks[l]]
    /\ runs' = [runs EXCEPT ![r] = [job |-> proc[p].job, owner |-> p,
                                    status |-> "running"]]
    /\ task' = [task EXCEPT ![r] = [pc |-> "working", idle |-> 0, beating |-> TRUE]]
    /\ proc' = At(p, "idle")

Acquire(p, r) ==
    /\ proc[p].pc = "acquire"
    /\ \A l \in LocksOf(proc[p].job) : ~Live(l)
    /\ Unused(r)
    /\ locks' = [l \in Lock |-> IF l \in LocksOf(proc[p].job)
                                THEN [owner |-> p, left |-> TTL] ELSE locks[l]]
    /\ runs' = [runs EXCEPT ![r] = [job |-> proc[p].job, owner |-> p,
                                    status |-> "running"]]
    /\ task' = [task EXCEPT ![r] = [pc |-> "working", idle |-> 0, beating |-> TRUE]]
    /\ proc' = At(p, "idle")

\* A database error in the cleanup or the acquisition: the call gives up, and a
\* worker that cannot start exits.
Abort(p) ==
    /\ "begin" \in Faults
    /\ proc[p].pc \in {"locks", "runs", "active", "repair", "acquire"}
    /\ LET label == IF proc[p].job = NoJob THEN "dead" ELSE "idle"
       IN proc' = [proc EXCEPT ![p] = Blank(label, NoJob)]
    /\ UNCHANGED <<locks, runs, task>>

\* finish_job: the row by its id, the locks by name and owner.
Finish(r, outcome) ==
    /\ Working(r) /\ proc[runs[r].owner].pc = "idle"
    /\ runs' = [runs EXCEPT ![r].status = outcome]
    /\ locks' = [l \in Lock |-> IF l \in LocksOf(runs[r].job)
                                      /\ SameOwner(locks[l].owner, runs[r].owner)
                                THEN NoLock ELSE locks[l]]
    /\ task' = [task EXCEPT ![r] = Gone]
    /\ UNCHANGED proc

\* finish_job raises: the coroutine and its heartbeat are gone all the same.
FinishFails(r) ==
    /\ "finish" \in Faults
    /\ Working(r) /\ proc[runs[r].owner].pc = "idle"
    /\ task' = [task EXCEPT ![r] = Gone]
    /\ UNCHANGED <<locks, runs, proc>>

\* Fault: only the pipeline lock is renewed.
HeartbeatOfOne(r) ==
    /\ Working(r) /\ task[r].beating /\ task[r].idle >= Interval
    /\ proc[runs[r].owner].pc = "idle"
    /\ locks' = [locks EXCEPT ![Pipeline].left = TTL]
    /\ task' = [task EXCEPT ![r].idle = 0]
    /\ UNCHANGED <<runs, proc>>

\* touch_job_locks after a sleep of Interval: it goes on only if both locks are
\* still the owner's.
Heartbeat(r) ==
    /\ Working(r) /\ task[r].beating /\ task[r].idle >= Interval
    /\ proc[runs[r].owner].pc = "idle"
    /\ LET mine == {l \in LocksOf(runs[r].job) :
                       SameOwner(locks[l].owner, runs[r].owner)}
       IN /\ locks' = [l \in Lock |-> IF l \in mine
                                      THEN [locks[l] EXCEPT !.left = TTL] ELSE locks[l]]
          /\ task' = [task EXCEPT ![r].idle = 0,
                                  ![r].beating = (mine = LocksOf(runs[r].job))]
    /\ UNCHANGED <<runs, proc>>

\* One database error while touching, and the heartbeat returns for good.
HeartbeatFails(r) ==
    /\ "touch" \in Faults
    /\ Working(r) /\ task[r].beating /\ task[r].idle >= Interval
    /\ proc[runs[r].owner].pc = "idle"
    /\ task' = [task EXCEPT ![r].idle = 0, ![r].beating = FALSE]
    /\ UNCHANGED <<locks, runs, proc>>

\* The process is killed, or shut down with its jobs cancelled: CancelledError
\* is no Exception, so finish_job does not run.  Another worker can follow.
Crash(p) ==
    /\ "crash" \in Faults
    /\ Up(p) /\ \E q \in Proc : proc[q].pc = "unborn"
    /\ proc' = [proc EXCEPT ![p] = Blank("dead", NoJob)]
    /\ task' = [r \in Run |-> IF runs[r].owner = p
                              THEN Gone ELSE task[r]]
    /\ UNCHANGED <<locks, runs>>

\* Fault: expired locks count on below zero.
TickBelowZero ==
    /\ \A p \in Proc : proc[p].pc \in {"unborn", "idle", "dead"}
    /\ locks' = [l \in Lock |-> [locks[l] EXCEPT !.left = locks[l].left - 1]]
    /\ UNCHANGED <<runs, task, proc>>

\* A tick of the clock; a due heartbeat is at most Late ticks late.
Tick ==
    /\ \A p \in Proc : proc[p].pc \in {"unborn", "idle", "dead"}
    /\ \A r \in Run : Working(r) /\ task[r].beating => task[r].idle < Interval + Late
    /\ locks' = [l \in Lock |-> IF locks[l].left > 0
                                THEN [locks[l] EXCEPT !.left = locks[l].left - 1]
                                ELSE locks[l]]
    /\ task' = [r \in Run |-> IF Working(r) /\ task[r].beating
                              THEN [task[r] EXCEPT !.idle = task[r].idle + 1] ELSE task[r]]
    /\ UNCHANGED <<runs, proc>>

-----------------------------------------------------------------------------
\* What a process does once it has entered cleanup_stale_jobs.
Call(p) ==
    \/ ScanLocks(p) \/ ScanRuns(p) \/ ScanActive(p) \/ Repair(p)
    \/ Refuse(p) \/ \E r \in Run : Acquire(p, r)

End(r) == (\E outcome \in {"success", "error"} : Finish(r, outcome)) \/ FinishFails(r)

Next ==
    \/ \E p \in Proc : \/ StartWorker(p) \/ Call(p) \/ Abort(p) \/ Crash(p)
                       \/ \E j \in Job : BeginJob(p, j)
    \/ \E r \in Run : End(r) \/ Heartbeat(r) \/ HeartbeatFails(r)
    \/ Tick

Spec == Init /\ [][Next]_vars

\* Gunicorn replaces a worker that died, calls run to their end, jobs end
\* because each of their requests times out, time passes, and cron or the
\* scheduler asks again.  The event loop serves callbacks in the order they
\* became ready: it gets to a due heartbeat or a finished job between two
\* calls, although each call disables them, hence strong fairness.
LiveSpec ==
    /\ Spec
    /\ \A p \in Proc : /\ WF_vars(StartWorker(p)) /\ WF_vars(Call(p))
                       /\ WF_vars(\E j \in Job : BeginJob(p, j))
    /\ \A r \in Run : SF_vars(Heartbeat(r)) /\ SF_vars(End(r))
    /\ SF_vars(Tick)

-----------------------------------------------------------------------------
Label == {"unborn", "dead", "idle", "locks", "runs", "active", "repair", "acquire"}

LockState == [owner: Proc \cup {NoProc}, left: 0..TTL]

RunState == [job: Job \cup {NoJob}, owner: Proc \cup {NoProc},
             status: {"running", "success", "error"}]

TaskState == [pc: {"working", "gone"}, idle: Nat, beating: BOOLEAN]

ProcState == [pc: Label, job: Job \cup {NoJob}, stale: SUBSET Lock,
              running: SUBSET Run, repair: SUBSET Run]

TypeOK ==
    /\ locks \in [Lock -> LockState]
    /\ runs \in [Run -> RunState]
    /\ task \in [Run -> TaskState]
    /\ proc \in [Proc -> ProcState]

(***************************************************************************)
(* Refresh, scrape, sync and bootstrap never overlap, in one worker or     *)
(* between workers: README.md 18 and the docstring of try_begin_job.       *)
(***************************************************************************)
MutualExclusion == \A r, s \in Run : Working(r) /\ Working(s) => r = s

(***************************************************************************)
(* A job holds both its locks, unexpired, for as long as it works: README  *)
(* 34, job-lock heartbeats.                                                *)
(***************************************************************************)
LocksHeld ==
    \A r \in Run : Working(r) =>
        \A l \in LocksOf(runs[r].job) : Live(l) /\ locks[l].owner = runs[r].owner

(***************************************************************************)
(* A restart waits for no lock of an owner that cannot be running: once a  *)
(* worker has come up, what is left of live locks and running rows, on any *)
(* host, bears the host name and the pid of a process that is up.  In a    *)
(* restarted container that may be an earlier process, whose lock then     *)
(* lasts until it expires (api_server.py 983-1061, called by lifespan).    *)
(***************************************************************************)
RestartFrees ==
    \A p \in Proc : proc[p].pc = "idle" =>
        /\ \A l \in Lock : Live(l) => Alive(locks[l].owner)
        /\ \A r \in Run : runs[r].status = "running" => Alive(runs[r].owner)

\* The rows that say running, and the jobs at work.
OpenRuns == {r \in Run : runs[r].status = "running"}
AtWorkRuns == {r \in Run : Working(r)}

Serial == INSTANCE SerialJobs WITH open <- OpenRuns, work <- AtWorkRuns

(***************************************************************************)
(* The two tables together are a serial table of runs: whatever dies or    *)
(* fails, a job begins only when every earlier run has been closed, and    *)
(* only the run of a job that is gone is closed for it (README.md 18,      *)
(* api_server.py 1064-1129).                                               *)
(***************************************************************************)
ImplementsSerialJobs == Serial!Spec

(***************************************************************************)
(* Recovery: a row that says running after its coroutine is gone, through  *)
(* a crash, a shutdown or a failed finish_job, is eventually closed, and   *)
(* no heartbeat or later job keeps it open (api_server.py 1033-1044).      *)
(***************************************************************************)
AbandonedClosed ==
    \A r \in Run : (runs[r].status = "running" /\ ~Working(r))
                      ~> (runs[r].status # "running" \/ Working(r))
=============================================================================
