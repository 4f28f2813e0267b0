--------------------------- MODULE JobLocksProofs ---------------------------
(***************************************************************************)
(* Theorems about JobLocks, for every set of processes, hosts, jobs and    *)
(* runs and every TTL: type correctness; that a restarted worker is never  *)
(* blocked by what dead ones left, and that jobs exclude each other and    *)
(* keep their locks, if workers do not run side by side.                   *)
(***************************************************************************)
EXTENDS JobLocks, TLAPS

-----------------------------------------------------------------------------
\* A coroutine or an open row names a process and a job, and the job a process
\* is called for is known from its label.
Named ==
    /\ \A r \in Run : Working(r) \/ runs[r].status = "running"
                        => runs[r].owner \in Proc /\ runs[r].job \in Job
    /\ \A p \in Proc : /\ proc[p].pc = "unborn" => proc[p].job = NoJob
                       /\ proc[p].pc = "acquire" => proc[p].job \in Job

Typed == TypeOK /\ Named

\* The heartbeat interval is a positive number.
LEMMA IntervalNat == Interval \in Nat /\ Interval > 0
<1>1. TTL \in Nat /\ MinInterval \in Nat /\ MinInterval > 0
  BY TimeAssumption
<1>2. TTL \div 3 \in Nat
  BY <1>1
<1> QED
  BY <1>1, <1>2 DEF Interval, Larger

\* A step of the system is one of these actions.
LEMMA NextCases ==
    ASSUME Next
    PROVE  \/ \E p \in Proc : \/ StartWorker(p) \/ ScanLocks(p) \/ ScanRuns(p)
                              \/ ScanActive(p) \/ Repair(p) \/ Refuse(p)
                              \/ Abort(p) \/ Crash(p)
           \/ \E p \in Proc, j \in Job : BeginJob(p, j)
           \/ \E p \in Proc, r \in Run : Acquire(p, r)
           \/ \E r \in Run, outcome \in {"success", "error"} : Finish(r, outcome)
           \/ \E r \in Run : FinishFails(r) \/ Heartbeat(r) \/ HeartbeatFails(r)
           \/ Tick
BY DEF Next, Call, End

-----------------------------------------------------------------------------
\* A field of a process changes within its type.
LEMMA ProcField ==
    ASSUME proc \in [Proc -> ProcState], NEW p \in Proc, NEW l \in Label
    PROVE  /\ At(p, l) \in [Proc -> ProcState]
           /\ \A s \in SUBSET Lock :
                [proc EXCEPT ![p].pc = l, ![p].stale = s] \in [Proc -> ProcState]
           /\ \A r \in SUBSET Run :
                [proc EXCEPT ![p].pc = l, ![p].running = r] \in [Proc -> ProcState]
           /\ \A r \in SUBSET Run :
                [proc EXCEPT ![p].pc = l, ![p].running = {}, ![p].repair = r]
                    \in [Proc -> ProcState]
           /\ [proc EXCEPT ![p].pc = l, ![p].stale = {}, ![p].repair = {}]
                    \in [Proc -> ProcState]
           /\ \A j \in Job \cup {NoJob} :
                [proc EXCEPT ![p] = Blank(l, j)] \in [Proc -> ProcState]
BY DEF ProcState, At, Blank

\* Every initial state is typed.
LEMMA TypedInit == Init => Typed
<1> SUFFICES ASSUME Init PROVE Typed
  OBVIOUS
<1>1. Blank("unborn", NoJob) \in ProcState
  BY DEF Blank, ProcState, Label
<1>2. NoLock \in LockState /\ Gone \in TaskState
  BY TimeAssumption DEF NoLock, LockState, Gone, TaskState
<1>3. [job |-> NoJob, owner |-> NoProc, status |-> "error"] \in RunState
  BY DEF RunState
<1>4. TypeOK
  BY <1>1, <1>2, <1>3 DEF Init, TypeOK
<1>5. Named
  BY DEF Init, Named, Working, Gone, Blank
<1> QED
  BY <1>4, <1>5 DEF Typed

\* What the steps of a process do to a process.
LEMMA ProcTypes == TypeOK /\ [Next]_vars => proc' \in [Proc -> ProcState]
<1> SUFFICES ASSUME TypeOK, [Next]_vars PROVE proc' \in [Proc -> ProcState]
  OBVIOUS
<1>t. proc \in [Proc -> ProcState]
  BY DEF TypeOK
<1>1. ASSUME NEW p \in Proc, \/ StartWorker(p) \/ ScanLocks(p) \/ ScanRuns(p)
                            \/ ScanActive(p) \/ Repair(p) \/ Refuse(p)
                            \/ Abort(p) \/ Crash(p)
      PROVE  proc' \in [Proc -> ProcState]
  <2>1. \A l \in {"locks", "runs", "active", "repair", "idle", "acquire", "dead"} : l \in Label
    BY DEF Label
  <2>2. AfterCleanup(p) \in Label
    BY DEF AfterCleanup, Label
  <2>3. CASE StartWorker(p)
    BY <2>3, <2>1, <1>t, ProcField DEF StartWorker
  <2>10. CASE Refuse(p)
    BY <2>10, <2>1, <1>t, ProcField DEF Refuse
  <2>4. CASE ScanLocks(p)
    BY <2>4, <2>1, <1>t, ProcField DEF ScanLocks
  <2>5. CASE ScanRuns(p)
    BY <2>5, <2>1, <1>t, ProcField DEF ScanRuns
  <2>6. CASE ScanActive(p)
    <3>1. PICK repair \in SUBSET Run :
            proc' = [proc EXCEPT ![p].pc = IF proc[p].stale = {} /\ repair = {}
                                           THEN AfterCleanup(p) ELSE "repair",
                                 ![p].running = {}, ![p].repair = repair]
      <4>1. proc[p].running \in SUBSET Run
        BY <1>t DEF ProcState
      <4> QED
        BY <2>6, <4>1 DEF ScanActive
    <3> QED
      BY <3>1, <2>1, <2>2, <1>t, ProcField
  <2>7. CASE Repair(p)
    BY <2>7, <2>2, <1>t, ProcField DEF Repair
  <2>8. CASE Abort(p)
    BY <2>8, <2>1, <1>t, ProcField DEF Abort
  <2>9. CASE Crash(p)
    BY <2>9, <2>1, <1>t, ProcField DEF Crash
  <2> QED
    BY <1>1, <2>3, <2>4, <2>5, <2>6, <2>7, <2>8, <2>9, <2>10
<1>2. ASSUME NEW p \in Proc, NEW j \in Job, BeginJob(p, j)
      PROVE  proc' \in [Proc -> ProcState]
  BY <1>2, <1>t, ProcField DEF BeginJob, Label
<1>3. ASSUME NEW p \in Proc, NEW r \in Run, Acquire(p, r)
      PROVE  proc' \in [Proc -> ProcState]
  BY <1>3, <1>t, ProcField DEF Acquire, Label
<1>4. ASSUME NEW r \in Run, \/ \E outcome \in {"success", "error"} : Finish(r, outcome)
                           \/ FinishFails(r) \/ Heartbeat(r) \/ HeartbeatFails(r)
      PROVE  proc' \in [Proc -> ProcState]
  BY <1>4, <1>t DEF Finish, FinishFails, Heartbeat, HeartbeatFails
<1>5. CASE Tick \/ UNCHANGED vars
  BY <1>5, <1>t DEF Tick, vars
<1> QED
  BY <1>1, <1>2, <1>3, <1>4, <1>5, NextCases

\* The types of what the database and the coroutines hold.
Tables ==
    /\ locks \in [Lock -> LockState]
    /\ runs \in [Run -> RunState]
    /\ task \in [Run -> TaskState]

\* What a step does to a lock, a row and a coroutine.
LEMMA TableTypes == ASSUME TypeOK, [Next]_vars PROVE Tables'
<1>t. /\ locks \in [Lock -> LockState] /\ runs \in [Run -> RunState]
      /\ task \in [Run -> TaskState] /\ proc \in [Proc -> ProcState]
      /\ NoLock \in LockState /\ Gone \in TaskState
  BY TimeAssumption DEF TypeOK, NoLock, LockState, Gone, TaskState
<1>1. ASSUME NEW p \in Proc, \/ StartWorker(p) \/ ScanLocks(p) \/ ScanRuns(p)
                             \/ ScanActive(p) \/ Refuse(p) \/ Abort(p)
      PROVE  Tables'
  BY <1>1, <1>t DEF StartWorker, ScanLocks, ScanRuns, ScanActive, Refuse, Abort, Tables
<1>2. ASSUME NEW p \in Proc, Repair(p) PROVE Tables'
  <2>1. \A r \in Run : [runs[r] EXCEPT !.status = "error"] \in RunState
    BY <1>t DEF RunState
  <2> QED
    BY <1>2, <2>1, <1>t DEF Repair, Tables
<1>3. ASSUME NEW p \in Proc, Crash(p) PROVE Tables'
  BY <1>3, <1>t DEF Crash, Tables
<1>4. ASSUME NEW p \in Proc, NEW j \in Job, BeginJob(p, j) PROVE Tables'
  BY <1>4, <1>t DEF BeginJob, Tables
<1>5. ASSUME NEW p \in Proc, NEW r \in Run, Acquire(p, r) PROVE Tables'
  <2>1. [owner |-> p, left |-> TTL] \in LockState
    BY TimeAssumption DEF LockState
  <2>2. proc[p].job \in Job \cup {NoJob}
    BY <1>t DEF ProcState
  <2>3. [job |-> proc[p].job, owner |-> p, status |-> "running"] \in RunState
    BY <2>2 DEF RunState
  <2>4. [pc |-> "working", idle |-> 0, beating |-> TRUE] \in TaskState
    BY DEF TaskState
  <2> QED
    BY <1>5, <2>1, <2>3, <2>4, <1>t DEF Acquire, Tables
<1>6. ASSUME NEW r \in Run, NEW outcome \in {"success", "error"}, Finish(r, outcome)
      PROVE  Tables'
  <2>1. [runs[r] EXCEPT !.status = outcome] \in RunState
    BY <1>t DEF RunState
  <2>2. runs' = [runs EXCEPT ![r] = [runs[r] EXCEPT !.status = outcome]]
    BY <1>6 DEF Finish
  <2>3. runs' \in [Run -> RunState]
    BY <2>1, <2>2, <1>t
  <2> QED
    BY <1>6, <2>3, <1>t DEF Finish, Tables
<1>7. ASSUME NEW r \in Run, FinishFails(r) PROVE Tables'
  BY <1>7, <1>t DEF FinishFails, Tables
<1>8. ASSUME NEW r \in Run, Heartbeat(r) PROVE Tables'
  <2>1. \A l \in Lock : [locks[l] EXCEPT !.left = TTL] \in LockState
    BY <1>t, TimeAssumption DEF LockState
  <2>2. PICK b \in BOOLEAN : task' = [task EXCEPT ![r].idle = 0, ![r].beating = b]
    BY <1>8 DEF Heartbeat
  <2>3. task' \in [Run -> TaskState]
    BY <2>2, <1>t DEF TaskState
  <2>4. locks' \in [Lock -> LockState]
    BY <1>8, <2>1, <1>t DEF Heartbeat
  <2> QED
    BY <1>8, <2>3, <2>4, <1>t DEF Heartbeat, Tables
<1>9. ASSUME NEW r \in Run, HeartbeatFails(r) PROVE Tables'
  <2>1. task' \in [Run -> TaskState]
    BY <1>9, <1>t DEF HeartbeatFails, TaskState
  <2> QED
    BY <1>9, <2>1, <1>t DEF HeartbeatFails, Tables
<1>10. CASE Tick
  <2>1. \A l \in Lock : locks[l].left > 0
                          => [locks[l] EXCEPT !.left = locks[l].left - 1] \in LockState
    BY <1>t, TimeAssumption DEF LockState
  <2>2. \A r \in Run : [task[r] EXCEPT !.idle = task[r].idle + 1] \in TaskState
    BY <1>t DEF TaskState
  <2>3. locks' \in [Lock -> LockState]
    BY <1>10, <2>1, <1>t DEF Tick
  <2> QED
    BY <1>10, <2>2, <2>3, <1>t DEF Tick, Tables
<1>11. CASE UNCHANGED vars
  BY <1>11, <1>t DEF vars, Tables
<1> QED
  BY <1>1, <1>2, <1>3, <1>4, <1>5, <1>6, <1>7, <1>8, <1>9, <1>10, <1>11, NextCases

\* Rows and coroutines stay named, and a label stays true to its job.
LEMMA NamedStep ==
    ASSUME Typed, [Next]_vars
    PROVE  Named'
<1>t. /\ runs \in [Run -> RunState] /\ task \in [Run -> TaskState]
      /\ proc \in [Proc -> ProcState] /\ Named /\ NoJob \notin Job
  BY NameAssumption DEF Typed, TypeOK
<1>1. ASSUME NEW p \in Proc, \/ StartWorker(p) \/ ScanLocks(p) \/ ScanRuns(p)
                             \/ Refuse(p)
      PROVE  Named'
  BY <1>1, <1>t DEF StartWorker, ScanLocks, ScanRuns, Refuse, At, Named, Working, ProcState
<1>2. ASSUME NEW p \in Proc, ScanActive(p) PROVE Named'
  <2>1. /\ \A q \in Proc : q # p => proc'[q] = proc[q]
        /\ proc'[p].job = proc[p].job
        /\ proc'[p].pc \in {"repair", AfterCleanup(p)}
        /\ proc[p].job \in Job \cup {NoJob}
        /\ runs' = runs /\ task' = task
    BY <1>2, <1>t DEF ScanActive, ProcState
  <2>2. /\ proc'[p].pc # "unborn"
        /\ proc'[p].pc = "acquire" => proc[p].job \in Job
    BY <2>1 DEF AfterCleanup
  <2> QED
    BY <2>1, <2>2, <1>t DEF Named, Working
<1>3. ASSUME NEW p \in Proc, Repair(p) PROVE Named'
  <2>1. /\ \A q \in Proc : q # p => proc'[q] = proc[q]
        /\ proc'[p].job = proc[p].job
        /\ proc'[p].pc = AfterCleanup(p)
        /\ proc[p].job \in Job \cup {NoJob}
    BY <1>3, <1>t DEF Repair, ProcState
  <2>2. \A r \in Run : /\ runs'[r].owner = runs[r].owner /\ runs'[r].job = runs[r].job
                       /\ runs'[r].status = "running" => runs[r].status = "running"
    BY <1>3, <1>t DEF Repair, RunState
  <2> QED
    BY <1>3, <2>1, <2>2, <1>t DEF Repair, AfterCleanup, Named, Working
<1>4. ASSUME NEW p \in Proc, Abort(p) \/ Crash(p) PROVE Named'
  <2>1. /\ \A q \in Proc : q # p => proc'[q] = proc[q]
        /\ proc'[p].pc \in {"dead", "idle"}
        /\ runs' = runs /\ \A r \in Run : task'[r] \in {task[r], Gone}
    BY <1>4, <1>t DEF Abort, Crash, Blank
  <2> QED
    BY <2>1, <1>t DEF Named, Working, Gone
<1>5. ASSUME NEW p \in Proc, NEW j \in Job, BeginJob(p, j) PROVE Named'
  BY <1>5, <1>t DEF BeginJob, Blank, Named, Working
<1>6. ASSUME NEW p \in Proc, NEW r \in Run, Acquire(p, r) PROVE Named'
  BY <1>6, <1>t DEF Acquire, At, Named, Working, ProcState
<1>7. ASSUME NEW r \in Run, \/ \E outcome \in {"success", "error"} : Finish(r, outcome)
                            \/ FinishFails(r) \/ Heartbeat(r) \/ HeartbeatFails(r)
      PROVE  Named'
  <2>1. /\ proc' = proc
        /\ \A s \in Run : /\ Working(s)' => Working(s)
                          /\ runs'[s].owner = runs[s].owner /\ runs'[s].job = runs[s].job
                          /\ runs'[s].status = "running" => runs[s].status = "running"
    BY <1>7, <1>t DEF Finish, FinishFails, Heartbeat, HeartbeatFails, Working, Gone, RunState,
                      TaskState
  <2> QED
    BY <2>1, <1>t DEF Named
<1>8. CASE Tick \/ UNCHANGED vars
  <2>1. proc' = proc /\ runs' = runs /\ \A s \in Run : task'[s].pc = task[s].pc
    BY <1>8, <1>t DEF Tick, vars, TaskState
  <2> QED
    BY <2>1, <1>t DEF Named, Working
<1> QED
  BY <1>1, <1>2, <1>3, <1>4, <1>5, <1>6, <1>7, <1>8, NextCases

\* Every step keeps the types.
LEMMA TypedStep == Typed /\ [Next]_vars => Typed'
BY ProcTypes, TableTypes, NamedStep DEF Typed, TypeOK, Tables

(***************************************************************************)
(* Every reachable state of the job tables, the coroutines and the         *)
(* processes is typed; in particular no remaining time passes its TTL.     *)
(***************************************************************************)
THEOREM TypeCorrect == Spec => []TypeOK
<1>1. Spec => []Typed
  BY TypedInit, TypedStep, PTL DEF Spec
<1>2. Typed => TypeOK
  BY DEF Typed
<1> QED
  BY <1>1, <1>2, PTL

-----------------------------------------------------------------------------
(***************************************************************************)
(* One worker at a time: what the cleanup at startup guarantees, for every *)
(* set of processes, hosts and jobs and whatever crashes or database       *)
(* errors came before.                                                     *)
(***************************************************************************)
\* The assumption of what follows: WEB_CONCURRENCY is 1.
OneWorker == Concurrent = FALSE

-----------------------------------------------------------------------------
Alone == \A p, q \in Proc : Up(p) /\ Up(q) => p = q

\* Process p is past its startup cleanup.
Started(p) == Up(p) /\ (proc[p].pc = "idle" \/ proc[p].job # NoJob)

\* Past its startup a process finds nothing of an owner that is not running.
Reaped ==
    \A p \in Proc : Started(p) =>
        /\ \A l \in Lock : Live(l) => Alive(locks[l].owner)
        /\ \A r \in Run : runs[r].status = "running" => Alive(runs[r].owner)

\* What a startup cleanup has read so far covers all that must go.
Reaping ==
    \A p \in Proc : proc[p].job = NoJob =>
        /\ proc[p].pc \in {"runs", "active", "repair"} =>
             \A l \in Lock : Live(l) => l \in proc[p].stale \/ Alive(locks[l].owner)
        /\ proc[p].pc = "active" =>
             \A r \in Run : runs[r].status = "running" => r \in proc[p].running
        /\ proc[p].pc = "repair" =>
             \A r \in Run : runs[r].status = "running"
                              => r \in proc[p].repair \/ Alive(runs[r].owner)

\* The inductive invariant.
RestartInv == Typed /\ Alone /\ Reaped /\ Reaping

-----------------------------------------------------------------------------
\* The owner string of a process that is up is that of a running process, and
\* so is every string equal to it.
LEMMA Lives ==
    ASSUME NEW p \in Proc, Up(p)
    PROVE  Alive(p) /\ SameOwner(p, p) /\ \A q : SameOwner(q, p) => Alive(q)
BY NameAssumption DEF Alive, SameOwner

\* No process is up at first.
LEMMA RestartInit == Init => RestartInv
<1> SUFFICES ASSUME Init PROVE RestartInv
  OBVIOUS
<1>1. \A p \in Proc : proc[p].pc = "unborn" /\ ~Up(p)
  BY DEF Init, Blank, Up
<1> QED
  BY <1>1, TypedInit DEF RestartInv, Alone, Reaped, Reaping, Started

\* A step that leaves the processes where they are and gives no lock or open
\* row to a process that is not up.
LEMMA QuietStep ==
    ASSUME RestartInv, proc' = proc,
           \A l \in Lock : Live(l)' => /\ locks'[l].owner = locks[l].owner
                                       /\ Live(l) \/ Alive(locks[l].owner),
           \A r \in Run : runs'[r].status = "running"
                            => runs[r].status = "running" /\ runs'[r].owner = runs[r].owner
    PROVE  (Alone /\ Reaped /\ Reaping)'
<1>1. \A p \in Proc : Started(p)' = Started(p)
  BY DEF Started, Up
<1>2. /\ \A q : Up(q)' = Up(q)
      /\ \A q : Alive(q)' = Alive(q)
  BY DEF Up, Alive, SameOwner
<1>3. Alone'
  BY <1>2 DEF RestartInv, Alone
<1>4. Reaped'
  BY <1>1, <1>2 DEF RestartInv, Reaped
<1>5. Reaping'
  BY <1>2 DEF RestartInv, Reaping
<1> QED
  BY <1>3, <1>4, <1>5

\* A step of process p alone, which stays up and leaves the tables alone.
LEMMA OwnStep ==
    ASSUME RestartInv, NEW p \in Proc, Up(p), Up(p)',
           \A q \in Proc \ {p} : proc'[q] = proc[q]
    PROVE  /\ \A q \in Proc : Up(q)' = Up(q)
           /\ \A q : Alive(q)' = Alive(q)
           /\ \A q \in Proc \ {p} : ~Up(q) /\ proc'[q].pc \in {"unborn", "dead"}
           /\ Alone'
<1>1. \A q \in Proc \ {p} : ~Up(q) /\ ~Up(q)'
  BY DEF RestartInv, Alone, Up
<1>2. \A q \in Proc : Up(q)' = Up(q)
  BY <1>1 DEF Up
<1>3. \A q : Alive(q)' = Alive(q)
  BY <1>2 DEF Alive, SameOwner
<1> QED
  BY <1>1, <1>2, <1>3 DEF Alone, Up

-----------------------------------------------------------------------------
\* A worker comes up when no other is.
LEMMA StartWorkerStep ==
    ASSUME OneWorker, RestartInv, NEW p \in Proc, StartWorker(p)
    PROVE  (Alone /\ Reaped /\ Reaping)'
<1>t. proc \in [Proc -> ProcState] /\ Named
  BY DEF RestartInv, Typed, TypeOK
<1>1. /\ \A q \in Proc \ {p} : proc'[q] = proc[q] /\ proc[q].pc \in {"unborn", "dead"}
      /\ proc'[p].pc = "locks" /\ proc'[p].job = NoJob
  BY <1>t DEF StartWorker, At, OneWorker, Up, Named, ProcState
<1>2. \A q \in Proc \ {p} : ~Up(q)' /\ ~Started(q)'
  BY <1>1 DEF Up, Started
<1>3. ~Started(p)'
  BY <1>1 DEF Started
<1>4. Alone'
  BY <1>2 DEF Alone
<1>5. Reaped'
  BY <1>2, <1>3 DEF Reaped
<1>6. Reaping'
  BY <1>1 DEF Reaping
<1> QED
  BY <1>4, <1>5, <1>6

\* A job begins, and its cleanup reads the tables.
LEMMA BeginStep ==
    ASSUME RestartInv, NEW p \in Proc,
           \/ \E j \in Job : BeginJob(p, j)
           \/ ScanLocks(p) \/ ScanRuns(p)
    PROVE  (Alone /\ Reaped /\ Reaping)'
<1>t. /\ proc \in [Proc -> ProcState] /\ locks \in [Lock -> LockState] /\ NoJob \notin Job
  BY NameAssumption DEF RestartInv, Typed, TypeOK
<1>1. /\ Up(p) /\ Up(p)' /\ locks' = locks /\ runs' = runs
      /\ \A q \in Proc \ {p} : proc'[q] = proc[q]
  BY <1>t DEF BeginJob, ScanLocks, ScanRuns, Blank, Up, ProcState
<1>2. /\ \A q \in Proc : Up(q)' = Up(q)
      /\ \A q : Alive(q)' = Alive(q)
      /\ \A q \in Proc \ {p} : ~Up(q) /\ proc'[q].pc \in {"unborn", "dead"}
      /\ Alone'
  BY <1>1, OwnStep
<1>3. \A l \in Lock : Live(l)' = Live(l) /\ (Live(l) => locks[l].owner \in Proc)
  BY <1>1, <1>t DEF Live, LockState
<1>4. \A r \in Run : runs[r].status = "running" => runs[r].owner \in Proc
  BY DEF RestartInv, Typed, Named
<1>5. CASE \E j \in Job : BeginJob(p, j)
  <2>1. Started(p) /\ proc'[p].pc = "locks" /\ proc'[p].job # NoJob
    BY <1>5, <1>t DEF BeginJob, Blank, Started, Up
  <2>2. Reaped'
    BY <2>1, <1>1, <1>2, <1>3, <1>4 DEF RestartInv, Reaped, Started
  <2>3. Reaping'
    BY <2>1, <1>2 DEF Reaping
  <2> QED
    BY <2>2, <2>3, <1>2
<1>6. CASE ScanLocks(p)
  <2>1. /\ proc[p].pc = "locks" /\ proc'[p].pc = "runs" /\ proc'[p].job = proc[p].job
        /\ proc'[p].stale = {l \in Lock : /\ locks[l].owner # NoProc
                                          /\ \/ locks[l].left = 0
                                             \/ Foreign(p, locks[l].owner)
                                             \/ Orphan(p, locks[l].owner)}
    BY <1>6, <1>t DEF ScanLocks, ProcState
  <2>2. Started(p)' = Started(p)
    BY <2>1, <1>2 DEF Started
  <2>3. Reaped'
    BY <2>2, <1>1, <1>2, <1>3, <1>4 DEF RestartInv, Reaped, Started
  <2>4. ASSUME proc[p].job = NoJob, NEW l \in Lock, Live(l)
        PROVE  l \in proc'[p].stale \/ Alive(locks[l].owner)
    BY <2>1, <2>4 DEF Live, Foreign, Orphan
  <2>5. Reaping'
    BY <2>1, <2>4, <1>1, <1>2, <1>3 DEF Reaping
  <2> QED
    BY <2>3, <2>5, <1>2
<1>7. CASE ScanRuns(p)
  <2>1. /\ proc[p].pc = "runs" /\ proc'[p].pc = "active" /\ proc'[p].job = proc[p].job
        /\ proc'[p].stale = proc[p].stale
        /\ proc'[p].running = {r \in Run : runs[r].status = "running"}
    BY <1>7, <1>t DEF ScanRuns, ProcState
  <2>2. Started(p)' = Started(p)
    BY <2>1, <1>2 DEF Started
  <2>3. Reaped'
    BY <2>2, <1>1, <1>2, <1>3, <1>4 DEF RestartInv, Reaped, Started
  <2>4. Reaping'
    BY <2>1, <1>1, <1>2, <1>3 DEF RestartInv, Reaping
  <2> QED
    BY <2>3, <2>4, <1>2
<1> QED
  BY <1>5, <1>6, <1>7

\* The third SELECT: what must go is in repair, or there is nothing to repair.
LEMMA ScanActiveStep ==
    ASSUME RestartInv, NEW p \in Proc, ScanActive(p)
    PROVE  (Alone /\ Reaped /\ Reaping)'
<1>t. proc \in [Proc -> ProcState] /\ locks \in [Lock -> LockState]
  BY DEF RestartInv, Typed, TypeOK
<1> DEFINE held(r) == /\ Live(runs[r].job) /\ runs[r].job \notin proc[p].stale
                      /\ SameOwner(locks[runs[r].job].owner, runs[r].owner)
           repair == {r \in proc[p].running : \/ Foreign(p, runs[r].owner)
                                              \/ Orphan(p, runs[r].owner)
                                              \/ ~held(r)}
<1>0. proc' = [proc EXCEPT ![p].pc = IF proc[p].stale = {} /\ repair = {}
                                     THEN AfterCleanup(p) ELSE "repair",
                           ![p].running = {}, ![p].repair = repair]
  BY <1>t DEF ScanActive
<1>1. /\ proc[p].pc = "active" /\ proc'[p].job = proc[p].job
      /\ proc'[p].stale = proc[p].stale /\ proc'[p].repair = repair
      /\ \/ proc'[p].pc = "repair"
         \/ proc'[p].pc = AfterCleanup(p) /\ proc[p].stale = {} /\ repair = {}
      /\ locks' = locks /\ runs' = runs
      /\ \A q \in Proc \ {p} : proc'[q] = proc[q]
  <2> HIDE DEF repair
  <2>1. proc[p].pc = "active" /\ locks' = locks /\ runs' = runs
    BY DEF ScanActive
  <2>2. \A q \in Proc \ {p} : proc'[q] = proc[q]
    BY <1>0, <1>t
  <2>3. /\ proc'[p].job = proc[p].job /\ proc'[p].stale = proc[p].stale
        /\ proc'[p].repair = repair
        /\ proc'[p].pc = IF proc[p].stale = {} /\ repair = {}
                         THEN AfterCleanup(p) ELSE "repair"
    BY <1>0, <1>t DEF ProcState
  <2> QED
    BY <2>1, <2>2, <2>3
<1>2. Up(p) /\ Up(p)'
  BY <1>1 DEF Up, AfterCleanup
<1>3. /\ \A q \in Proc : Up(q)' = Up(q)
      /\ \A q : Alive(q)' = Alive(q)
      /\ \A q \in Proc \ {p} : ~Up(q) /\ proc'[q].pc \in {"unborn", "dead"}
      /\ Alone'
  BY <1>1, <1>2, OwnStep
<1>4. \A l \in Lock : Live(l)' = Live(l) /\ (Live(l) => locks[l].owner \in Proc)
  BY <1>1, <1>t DEF Live, LockState
<1>5. \A r \in Run : runs[r].status = "running" => runs[r].owner \in Proc
  BY DEF RestartInv, Typed, Named
<1>6. ASSUME proc[p].job = NoJob, NEW r \in Run, runs[r].status = "running"
      PROVE  r \in repair \/ Alive(runs[r].owner)
  <2>1. r \in proc[p].running
    BY <1>1, <1>6 DEF RestartInv, Reaping
  <2> QED
    BY <2>1, <1>6 DEF Foreign, Orphan
<1>7. CASE proc[p].job # NoJob
  <2>1. Started(p)
    BY <1>7, <1>2 DEF Started
  <2>2. Reaped'
    BY <2>1, <1>1, <1>3, <1>4, <1>5 DEF RestartInv, Reaped, Started
  <2>3. Reaping'
    BY <1>7, <1>1, <1>3 DEF Reaping
  <2> QED
    BY <2>2, <2>3, <1>3
<1>8. CASE proc[p].job = NoJob
  <2>1. \A l \in Lock : Live(l) => l \in proc[p].stale \/ Alive(locks[l].owner)
    BY <1>8, <1>1 DEF RestartInv, Reaping
  <2>2. CASE proc'[p].pc = "repair"
    <3>1. ~Started(p)'
      BY <2>2, <1>8, <1>1 DEF Started
    <3>2. Reaped'
      BY <3>1, <1>3 DEF Reaped, Started
    <3>3. Reaping'
      BY <2>1, <2>2, <1>1, <1>3, <1>4, <1>5, <1>6 DEF Reaping
    <3> QED
      BY <3>2, <3>3, <1>3
  <2>3. CASE proc'[p].pc = AfterCleanup(p) /\ proc[p].stale = {} /\ repair = {}
    <3>1. proc'[p].pc = "idle"
      BY <2>3, <1>8 DEF AfterCleanup
    <3>4. \A l \in Lock : Live(l)' => locks'[l].owner \in Proc /\ Alive(locks'[l].owner)
      BY <2>1, <2>3, <1>1, <1>3, <1>4
    <3>5. \A r \in Run : runs'[r].status = "running"
                           => runs'[r].owner \in Proc /\ Alive(runs'[r].owner)
      <4> HIDE DEF repair
      <4> QED
        BY <2>3, <1>1, <1>3, <1>5, <1>6, <1>8
    <3>2. Reaped'
      BY <3>4, <3>5, <1>3 DEF Reaped
    <3>3. Reaping'
      BY <3>1, <1>3 DEF Reaping
    <3> QED
      BY <3>2, <3>3, <1>3
  <2> QED
    BY <2>2, <2>3, <1>1
<1> QED
  BY <1>7, <1>8

\* The repair deletes and closes what was read.
LEMMA RepairStep ==
    ASSUME RestartInv, NEW p \in Proc, Repair(p)
    PROVE  (Alone /\ Reaped /\ Reaping)'
<1>t. /\ proc \in [Proc -> ProcState] /\ locks \in [Lock -> LockState]
      /\ runs \in [Run -> RunState]
  BY DEF RestartInv, Typed, TypeOK
<1>1. /\ proc[p].pc = "repair" /\ proc'[p].job = proc[p].job
      /\ proc'[p].pc = AfterCleanup(p)
      /\ \A q \in Proc \ {p} : proc'[q] = proc[q]
  BY <1>t DEF Repair, ProcState
<1>2. Up(p) /\ Up(p)'
  BY <1>1 DEF Up, AfterCleanup
<1>3. /\ \A q \in Proc : Up(q)' = Up(q)
      /\ \A q : Alive(q)' = Alive(q)
      /\ \A q \in Proc \ {p} : ~Up(q) /\ proc'[q].pc \in {"unborn", "dead"}
      /\ Alone'
  BY <1>1, <1>2, OwnStep
<1>4. \A l \in Lock : Live(l)' => /\ l \notin proc[p].stale /\ Live(l)
                                  /\ locks'[l] = locks[l] /\ locks[l].owner \in Proc
  BY <1>t DEF Repair, Live, NoLock, LockState
<1>5. \A r \in Run : runs'[r].status = "running"
        => /\ r \notin proc[p].repair /\ runs[r].status = "running"
           /\ runs'[r] = runs[r] /\ runs[r].owner \in Proc
  BY <1>t DEF Repair, RestartInv, Typed, Named, RunState
<1>6. Reaping'
  BY <1>1, <1>3 DEF Reaping, AfterCleanup
<1>7. CASE proc[p].job # NoJob
  <2>1. Started(p)
    BY <1>7, <1>2 DEF Started
  <2>2. Reaped'
    BY <2>1, <1>1, <1>3, <1>4, <1>5 DEF RestartInv, Reaped, Started
  <2> QED
    BY <2>2, <1>3, <1>6
<1>8. CASE proc[p].job = NoJob
  <2>1. /\ \A l \in Lock : Live(l) => l \in proc[p].stale \/ Alive(locks[l].owner)
        /\ \A r \in Run : runs[r].status = "running"
                            => r \in proc[p].repair \/ Alive(runs[r].owner)
    BY <1>8, <1>1 DEF RestartInv, Reaping
  <2>2. Reaped'
    BY <2>1, <1>3, <1>4, <1>5 DEF Reaped, Started
  <2> QED
    BY <2>2, <1>3, <1>6
<1> QED
  BY <1>7, <1>8

\* A job is refused or acquires its locks, or its call fails.
LEMMA AcquireStep ==
    ASSUME RestartInv, NEW p \in Proc,
           \/ Refuse(p) \/ (Abort(p) /\ proc[p].job # NoJob)
           \/ \E r \in Run : Acquire(p, r)
    PROVE  (Alone /\ Reaped /\ Reaping)'
<1>t. /\ proc \in [Proc -> ProcState] /\ locks \in [Lock -> LockState]
      /\ runs \in [Run -> RunState] /\ NoJob \notin Job /\ Named
  BY NameAssumption DEF RestartInv, Typed, TypeOK
<1>1. /\ Up(p) /\ proc[p].job # NoJob /\ proc'[p].pc = "idle"
      /\ \A q \in Proc \ {p} : proc'[q] = proc[q]
  BY <1>t DEF Refuse, Abort, Acquire, At, Blank, Up, Named, ProcState
<1>2. Started(p) /\ Up(p)'
  BY <1>1 DEF Started, Up
<1>3. /\ \A q \in Proc : Up(q)' = Up(q)
      /\ \A q : Alive(q)' = Alive(q)
      /\ \A q \in Proc \ {p} : ~Up(q) /\ proc'[q].pc \in {"unborn", "dead"}
      /\ Alone'
  BY <1>1, <1>2, OwnStep
<1>4. \A l \in Lock : Live(l)' => /\ locks'[l].owner \in Proc
                                  /\ Alive(locks'[l].owner)
  <2>1. \A l \in Lock : Live(l) => locks[l].owner \in Proc /\ Alive(locks[l].owner)
    BY <1>2, <1>t DEF RestartInv, Reaped, Live, LockState
  <2>2. \A l \in Lock : locks'[l] = locks[l] \/ locks'[l].owner = p
    BY <1>t DEF Refuse, Abort, Acquire
  <2> QED
    BY <1>1, <1>3, <2>1, <2>2, Lives DEF Live
<1>5. \A r \in Run : runs'[r].status = "running" => /\ runs'[r].owner \in Proc
                                                    /\ Alive(runs'[r].owner)
  <2>1. \A r \in Run : runs[r].status = "running"
                         => runs[r].owner \in Proc /\ Alive(runs[r].owner)
    BY <1>2, <1>t DEF RestartInv, Reaped, Named
  <2>2. \A r \in Run : runs'[r] = runs[r] \/ runs'[r].owner = p
    BY <1>t DEF Refuse, Abort, Acquire
  <2> QED
    BY <1>1, <1>3, <2>1, <2>2, Lives
<1>6. Reaped'
  BY <1>3, <1>4, <1>5 DEF Reaped
<1>7. Reaping'
  BY <1>1, <1>3 DEF Reaping
<1> QED
  BY <1>3, <1>6, <1>7

\* A process goes, and none is left.
LEMMA DieStep ==
    ASSUME RestartInv, NEW p \in Proc, Up(p), proc'[p].pc = "dead",
           \A q \in Proc \ {p} : proc'[q] = proc[q]
    PROVE  (Alone /\ Reaped /\ Reaping)'
<1>1. \A q \in Proc : proc'[q].pc \in {"unborn", "dead"} /\ ~Up(q)'
  BY DEF RestartInv, Alone, Up
<1> QED
  BY <1>1 DEF Alone, Reaped, Reaping, Started

\* A coroutine ends or touches its locks, and time passes.
LEMMA JobStep ==
    ASSUME RestartInv,
           \/ \E r \in Run : \/ \E outcome \in {"success", "error"} : Finish(r, outcome)
                             \/ FinishFails(r) \/ Heartbeat(r) \/ HeartbeatFails(r)
           \/ Tick \/ UNCHANGED vars
    PROVE  (Alone /\ Reaped /\ Reaping)'
<1>t. /\ locks \in [Lock -> LockState] /\ runs \in [Run -> RunState]
  BY DEF RestartInv, Typed, TypeOK
<1>1. ASSUME NEW r \in Run, NEW outcome \in {"success", "error"}, Finish(r, outcome)
      PROVE  (Alone /\ Reaped /\ Reaping)'
  <2>1. /\ proc' = proc
        /\ \A l \in Lock : locks'[l] \in {locks[l], NoLock}
        /\ \A s \in Run : \/ runs'[s] = runs[s]
                          \/ runs'[s].status = outcome
    BY <1>1, <1>t DEF Finish, RunState
  <2> QED
    BY <2>1, QuietStep DEF Live, NoLock
<1>2. ASSUME NEW r \in Run, Heartbeat(r) PROVE (Alone /\ Reaped /\ Reaping)'
  <2>1. /\ proc' = proc /\ runs' = runs /\ Up(runs[r].owner)
        /\ \A l \in Lock : \/ locks'[l] = locks[l]
                           \/ /\ locks'[l].owner = locks[l].owner
                              /\ SameOwner(locks[l].owner, runs[r].owner)
    BY <1>2, <1>t DEF Heartbeat, Up, LockState
  <2>3. runs[r].owner \in Proc
    BY <1>2 DEF Heartbeat, RestartInv, Typed, Named
  <2>2. \A l \in Lock : Live(l)' => Live(l) \/ Alive(locks[l].owner)
    BY <2>1, <2>3, Lives DEF Live
  <2> QED
    BY <2>1, <2>2, QuietStep
<1>3. CASE Tick
  <2>1. proc' = proc /\ runs' = runs
    BY <1>3 DEF Tick
  <2>2. \A l \in Lock : Live(l)' => locks'[l].owner = locks[l].owner /\ Live(l)
    BY <1>3, <1>t DEF Tick, Live, LockState
  <2> QED
    BY <2>1, <2>2, QuietStep
<1>4. CASE \/ \E r \in Run : FinishFails(r) \/ HeartbeatFails(r)
           \/ UNCHANGED vars
  <2>1. proc' = proc /\ runs' = runs /\ locks' = locks
    BY <1>4 DEF FinishFails, HeartbeatFails, vars
  <2> QED
    BY <2>1, QuietStep DEF Live
<1> QED
  BY <1>1, <1>2, <1>3, <1>4

-----------------------------------------------------------------------------
\* Every step keeps the invariant.
LEMMA RestartStep ==
    ASSUME OneWorker
    PROVE  RestartInv /\ [Next]_vars => RestartInv'
<1> SUFFICES ASSUME RestartInv, [Next]_vars PROVE (Alone /\ Reaped /\ Reaping)'
  BY TypedStep DEF RestartInv
<1>t. proc \in [Proc -> ProcState]
  BY DEF RestartInv, Typed, TypeOK
<1>1. ASSUME NEW p \in Proc, StartWorker(p) PROVE (Alone /\ Reaped /\ Reaping)'
  BY <1>1, StartWorkerStep
<1>2. ASSUME NEW p \in Proc, (\E j \in Job : BeginJob(p, j)) \/ ScanLocks(p) \/ ScanRuns(p)
      PROVE  (Alone /\ Reaped /\ Reaping)'
  BY <1>2, BeginStep
<1>3. ASSUME NEW p \in Proc, ScanActive(p) PROVE (Alone /\ Reaped /\ Reaping)'
  BY <1>3, ScanActiveStep
<1>4. ASSUME NEW p \in Proc, Repair(p) PROVE (Alone /\ Reaped /\ Reaping)'
  BY <1>4, RepairStep
<1>5. ASSUME NEW p \in Proc, Refuse(p) PROVE (Alone /\ Reaped /\ Reaping)'
  BY <1>5, AcquireStep
<1>9. ASSUME NEW p \in Proc, NEW r \in Run, Acquire(p, r)
      PROVE  (Alone /\ Reaped /\ Reaping)'
  <2>1. \E s \in Run : Acquire(p, s)
    BY <1>9
  <2> QED
    BY <2>1, AcquireStep
<1>7. ASSUME NEW p \in Proc, Crash(p) PROVE (Alone /\ Reaped /\ Reaping)'
  <2>1. Up(p) /\ proc'[p].pc = "dead" /\ \A q \in Proc \ {p} : proc'[q] = proc[q]
    BY <1>7, <1>t DEF Crash, Blank
  <2> QED
    BY <2>1, DieStep
<1>8. ASSUME NEW p \in Proc, Abort(p) PROVE (Alone /\ Reaped /\ Reaping)'
  <2>1. CASE proc[p].job = NoJob
    <3>1. Up(p) /\ proc'[p].pc = "dead" /\ \A q \in Proc \ {p} : proc'[q] = proc[q]
      BY <1>8, <2>1, <1>t DEF Abort, Blank, Up
    <3> QED
      BY <3>1, DieStep
  <2>2. CASE proc[p].job # NoJob
    BY <1>8, <2>2, AcquireStep
  <2> QED
    BY <2>1, <2>2
<1>6. CASE \/ \E r \in Run : \/ \E outcome \in {"success", "error"} : Finish(r, outcome)
                             \/ FinishFails(r) \/ Heartbeat(r) \/ HeartbeatFails(r)
           \/ Tick \/ UNCHANGED vars
  BY <1>6, JobStep
<1> QED
  BY <1>1, <1>2, <1>3, <1>4, <1>5, <1>6, <1>7, <1>8, <1>9, NextCases

(***************************************************************************)
(* With one worker at a time, what a worker that has come up finds of live *)
(* locks and open rows bears its own host name and pid: the cleanup of     *)
(* lifespan removes all else, of this host or another (api_server.py       *)
(* 993-1061, 2900-2962), for every way hosts and pids are given out, also  *)
(* again after a restart of the container.                                 *)
(***************************************************************************)
THEOREM RestartIsFree == OneWorker => (Spec => []RestartFrees)
<1> SUFFICES ASSUME OneWorker PROVE Spec => []RestartFrees
  OBVIOUS
<1>1. RestartInv /\ [Next]_vars => RestartInv'
  BY RestartStep
<1>2. Spec => []RestartInv
  BY RestartInit, <1>1, PTL DEF Spec
<1>3. RestartInv => RestartFrees
  BY DEF RestartInv, Reaped, Started, RestartFrees, Up
<1> QED
  BY <1>2, <1>3, PTL

-----------------------------------------------------------------------------
(***************************************************************************)
(* What the job locks are for: with one worker at a time, heartbeats that  *)
(* reach the database, and a TTL longer than the interval between two      *)
(* heartbeats, jobs exclude each other and keep their locks to the end.    *)
(* Every assumption is needed: the run jobs_workers_race shows what        *)
(* happens without the first, and a heartbeat that has failed once does    *)
(* not beat again, so its locks expire under the job.                      *)
(***************************************************************************)

TouchWorks == "touch" \notin Faults

HeartbeatInTime == Interval + Late < TTL

-----------------------------------------------------------------------------
\* A job at work runs in a started worker and has both its locks, with as much
\* time left as its next heartbeat needs.
Holding ==
    \A r \in Run : Working(r) =>
        /\ Started(runs[r].owner) /\ runs[r].status = "running"
        /\ task[r].beating /\ task[r].idle <= Interval + Late
        /\ \A l \in LocksOf(runs[r].job) : /\ locks[l].owner = runs[r].owner
                                           /\ locks[l].left + task[r].idle >= TTL

\* What a cleanup is about to delete or close belongs to no job at work.
Careful ==
    \A p \in Proc :
        /\ proc[p].pc \in {"runs", "active", "repair"} =>
             \A r \in Run : Working(r) =>
                 \A l \in LocksOf(runs[r].job) : l \notin proc[p].stale
        /\ proc[p].pc = "active" =>
             \A r \in proc[p].running : runs[r].status = "running"
        /\ proc[p].pc = "repair" =>
             \A r \in proc[p].repair : runs[r].status = "running" /\ ~Working(r)

\* The inductive invariant.
ExclusionInv == RestartInv /\ Holding /\ MutualExclusion /\ Careful

-----------------------------------------------------------------------------
\* No job is at work at first.
LEMMA ExclusionInit == Init => ExclusionInv
<1> SUFFICES ASSUME Init PROVE ExclusionInv
  OBVIOUS
<1>1. \A r \in Run : ~Working(r)
  BY DEF Init, Gone, Working
<1>2. \A p \in Proc : proc[p].pc = "unborn"
  BY DEF Init, Blank
<1> QED
  BY <1>1, <1>2, RestartInit DEF ExclusionInv, Holding, MutualExclusion, Careful

\* A job at work is that of the one worker, and its locks are live.
LEMMA AtWork ==
    ASSUME HeartbeatInTime, ExclusionInv, NEW r \in Run, Working(r)
    PROVE  /\ runs[r].owner \in Proc /\ runs[r].job \in Job
           /\ LocksOf(runs[r].job) \subseteq Lock /\ Pipeline \in LocksOf(runs[r].job)
           /\ runs[r].job \in LocksOf(runs[r].job)
           /\ \A p \in Proc : Up(p) => p = runs[r].owner
           /\ Up(runs[r].owner)
           /\ \A l \in LocksOf(runs[r].job) : Live(l) /\ locks[l].left > 0
<1>1. runs[r].owner \in Proc /\ runs[r].job \in Job
  BY DEF ExclusionInv, RestartInv, Typed, Named
<1>2. Up(runs[r].owner)
  BY DEF ExclusionInv, Holding, Started
<1>3. LocksOf(runs[r].job) \subseteq Lock
  BY <1>1 DEF LocksOf, Lock
<1>4. \A l \in LocksOf(runs[r].job) : Live(l) /\ locks[l].left > 0
  <2> SUFFICES ASSUME NEW l \in LocksOf(runs[r].job) PROVE Live(l) /\ locks[l].left > 0
    OBVIOUS
  <2>1. /\ locks[l].left \in 0..TTL /\ task[r].idle \in Nat
    BY <1>3 DEF ExclusionInv, RestartInv, Typed, TypeOK, LockState, TaskState
  <2>2. /\ locks[l].left + task[r].idle >= TTL /\ task[r].idle <= Interval + Late
        /\ locks[l].owner = runs[r].owner
    BY DEF ExclusionInv, Holding
  <2>3. locks[l].left > 0
    BY <2>1, <2>2, IntervalNat, TimeAssumption DEF HeartbeatInTime
  <2> QED
    BY <2>2, <2>3, <1>1, NameAssumption DEF Live
<1> QED
  BY <1>1, <1>2, <1>3, <1>4 DEF ExclusionInv, RestartInv, Alone, LocksOf

\* A step of the worker that disturbs no job at work.
LEMMA Undisturbed ==
    ASSUME HeartbeatInTime, ExclusionInv, NEW p \in Proc, Up(p), Started(p) => Started(p)',
           task' = task,
           \A r \in Run : Working(r) =>
               /\ runs'[r] = runs[r]
               /\ \A l \in LocksOf(runs[r].job) : locks'[l] = locks[l]
    PROVE  (Holding /\ MutualExclusion)'
<1>1. \A r \in Run : Working(r)' = Working(r)
  BY DEF Working
<1>2. \A r \in Run : Working(r) => runs[r].owner = p
  BY AtWork
<1>3. Holding'
  BY <1>1, <1>2 DEF ExclusionInv, Holding
<1>4. MutualExclusion'
  BY <1>1 DEF ExclusionInv, MutualExclusion
<1> QED
  BY <1>3, <1>4

\* A step after which no job is at work and no cleanup has read anything.
LEMMA Resting ==
    ASSUME \A r \in Run : ~Working(r)',
           \A p \in Proc : proc'[p].pc \notin {"runs", "active", "repair"}
    PROVE  (Holding /\ MutualExclusion /\ Careful)'
BY DEF Holding, MutualExclusion, Careful

-----------------------------------------------------------------------------
\* Only jobs of a worker that is up are at work, so none is when a worker starts
\* or goes.
LEMMA StartOrDie ==
    ASSUME OneWorker, HeartbeatInTime, ExclusionInv, NEW p \in Proc,
           \/ StartWorker(p) \/ Crash(p) \/ (Abort(p) /\ proc[p].job = NoJob)
    PROVE  (Holding /\ MutualExclusion /\ Careful)'
<1>t. proc \in [Proc -> ProcState] /\ task \in [Run -> TaskState]
  BY DEF ExclusionInv, RestartInv, Typed, TypeOK
<1>1. \A q \in Proc \ {p} : proc'[q] = proc[q] /\ ~Up(q)
  BY <1>t DEF StartWorker, Crash, Abort, OneWorker, At, Up, ExclusionInv, RestartInv, Alone
<1>2. proc'[p].pc \in {"locks", "dead"}
  BY <1>t DEF StartWorker, Crash, Abort, At, Blank, ProcState
<1>3. \A q \in Proc : proc'[q].pc \notin {"runs", "active", "repair"}
  BY <1>1, <1>2 DEF Up
<1>4. \A r \in Run : Working(r) => runs[r].owner = p /\ Up(p) /\ Started(p)
  BY <1>1, AtWork DEF ExclusionInv, Holding
<1>5. \A r \in Run : ~Working(r)'
  <2>1. CASE StartWorker(p)
    BY <2>1, <1>4 DEF StartWorker, Up, Working
  <2>2. CASE Crash(p)
    BY <2>2, <1>4, <1>t DEF Crash, Working, Gone
  <2>3. CASE Abort(p) /\ proc[p].job = NoJob
    BY <2>3, <1>4 DEF Abort, Started, Working
  <2> QED
    BY <2>1, <2>2, <2>3
<1> QED
  BY <1>3, <1>5, Resting

\* A call begins or ends without touching the tables.
LEMMA CallStep ==
    ASSUME HeartbeatInTime, ExclusionInv, NEW p \in Proc,
           \/ \E j \in Job : BeginJob(p, j)
           \/ Refuse(p) \/ (Abort(p) /\ proc[p].job # NoJob)
    PROVE  (Holding /\ MutualExclusion /\ Careful)'
<1>t. proc \in [Proc -> ProcState] /\ NoJob \notin Job
  BY NameAssumption DEF ExclusionInv, RestartInv, Typed, TypeOK
<1>1. /\ Up(p) /\ Started(p)' /\ proc'[p].pc \in {"locks", "idle"}
      /\ \A q \in Proc \ {p} : proc'[q] = proc[q]
      /\ task' = task /\ runs' = runs /\ locks' = locks
  BY <1>t DEF BeginJob, Refuse, Abort, At, Blank, Up, Started, ProcState
<1>2. (Holding /\ MutualExclusion)'
  BY <1>1, Undisturbed
<1>3. \A q \in Proc : proc'[q].pc \notin {"runs", "active", "repair"}
  BY <1>1 DEF ExclusionInv, RestartInv, Alone, Up
<1> QED
  BY <1>2, <1>3 DEF Careful

\* The first SELECT finds no lock of a job at work stale.
LEMMA ScanLocksCareful ==
    ASSUME HeartbeatInTime, ExclusionInv, NEW p \in Proc, ScanLocks(p)
    PROVE  (Holding /\ MutualExclusion /\ Careful)'
<1>t. proc \in [Proc -> ProcState] /\ locks \in [Lock -> LockState]
  BY DEF ExclusionInv, RestartInv, Typed, TypeOK
<1>1. /\ Up(p) /\ proc[p].pc = "locks" /\ proc'[p].pc = "runs"
      /\ proc'[p].job = proc[p].job
      /\ proc'[p].stale = {l \in Lock : /\ locks[l].owner # NoProc
                                        /\ \/ locks[l].left = 0
                                           \/ Foreign(p, locks[l].owner)
                                           \/ Orphan(p, locks[l].owner)}
      /\ \A q \in Proc \ {p} : proc'[q] = proc[q]
      /\ task' = task /\ runs' = runs /\ locks' = locks
  BY <1>t DEF ScanLocks, Up, ProcState
<1>2. (Holding /\ MutualExclusion)'
  BY <1>1, Undisturbed DEF Started, Up
<1>3. \A q \in Proc \ {p} : proc'[q].pc \notin {"runs", "active", "repair"}
  BY <1>1 DEF ExclusionInv, RestartInv, Alone, Up
<1>4. ASSUME NEW r \in Run, Working(r), NEW l \in LocksOf(runs[r].job)
      PROVE  l \notin proc'[p].stale
  <2>1. locks[l].owner = p /\ locks[l].left > 0 /\ Up(p)
    BY <1>1, <1>4, AtWork DEF ExclusionInv, Holding
  <2> QED
    BY <1>1, <2>1, Lives DEF Foreign, Orphan
<1>5. Careful'
  BY <1>1, <1>3, <1>4 DEF Careful, Working
<1> QED
  BY <1>2, <1>5

\* The second SELECT reads open rows only.
LEMMA ScanRunsCareful ==
    ASSUME HeartbeatInTime, ExclusionInv, NEW p \in Proc, ScanRuns(p)
    PROVE  (Holding /\ MutualExclusion /\ Careful)'
<1>t. proc \in [Proc -> ProcState]
  BY DEF ExclusionInv, RestartInv, Typed, TypeOK
<1>1. /\ Up(p) /\ proc[p].pc = "runs" /\ proc'[p].pc = "active"
      /\ proc'[p].job = proc[p].job /\ proc'[p].stale = proc[p].stale
      /\ proc'[p].running = {r \in Run : runs[r].status = "running"}
      /\ \A q \in Proc \ {p} : proc'[q] = proc[q]
      /\ task' = task /\ runs' = runs /\ locks' = locks
  BY <1>t DEF ScanRuns, Up, ProcState
<1>2. (Holding /\ MutualExclusion)'
  BY <1>1, Undisturbed DEF Started, Up
<1>3. \A q \in Proc \ {p} : proc'[q].pc \notin {"runs", "active", "repair"}
  BY <1>1 DEF ExclusionInv, RestartInv, Alone, Up
<1>4. \A r \in Run : Working(r)' = Working(r)
  BY <1>1 DEF Working
<1>5. Careful'
  BY <1>1, <1>3, <1>4 DEF ExclusionInv, Careful
<1> QED
  BY <1>2, <1>5

\* The third SELECT decides to close no row of a job at work.
LEMMA ScanActiveCareful ==
    ASSUME HeartbeatInTime, ExclusionInv, NEW p \in Proc, ScanActive(p)
    PROVE  (Holding /\ MutualExclusion /\ Careful)'
<1>t. proc \in [Proc -> ProcState]
  BY DEF ExclusionInv, RestartInv, Typed, TypeOK
<1> DEFINE held(r) == /\ Live(runs[r].job) /\ runs[r].job \notin proc[p].stale
                      /\ SameOwner(locks[runs[r].job].owner, runs[r].owner)
           repair == {r \in proc[p].running : \/ Foreign(p, runs[r].owner)
                                              \/ Orphan(p, runs[r].owner)
                                              \/ ~held(r)}
<1>0. proc' = [proc EXCEPT ![p].pc = IF proc[p].stale = {} /\ repair = {}
                                     THEN AfterCleanup(p) ELSE "repair",
                           ![p].running = {}, ![p].repair = repair]
  BY <1>t DEF ScanActive
<1>1. /\ proc[p].pc = "active" /\ proc'[p].job = proc[p].job
      /\ proc'[p].stale = proc[p].stale /\ proc'[p].repair = repair
      /\ proc'[p].pc \in {"repair", AfterCleanup(p)}
      /\ \A q \in Proc \ {p} : proc'[q] = proc[q]
      /\ task' = task /\ runs' = runs /\ locks' = locks
  <2> HIDE DEF repair
  <2>1. proc[p].pc = "active" /\ locks' = locks /\ runs' = runs /\ task' = task
    BY DEF ScanActive
  <2>2. /\ proc'[p].job = proc[p].job /\ proc'[p].stale = proc[p].stale
        /\ proc'[p].repair = repair
        /\ proc'[p].pc \in {"repair", AfterCleanup(p)}
        /\ \A q \in Proc \ {p} : proc'[q] = proc[q]
    BY <1>0, <1>t DEF ProcState
  <2> QED
    BY <2>1, <2>2
<1>2. /\ Up(p) /\ (Started(p) => Started(p)')
      /\ proc'[p].pc \in {"repair", "idle", "acquire"}
  BY <1>1 DEF Up, Started, AfterCleanup
<1>3. (Holding /\ MutualExclusion)'
  BY <1>1, <1>2, Undisturbed
<1>4. \A q \in Proc \ {p} : proc'[q].pc \notin {"runs", "active", "repair"}
  BY <1>1, <1>2 DEF ExclusionInv, RestartInv, Alone, Up
<1>5. ASSUME NEW r \in repair
      PROVE  r \in Run /\ runs[r].status = "running" /\ ~Working(r)
  <2>1. r \in proc[p].running /\ r \in Run
    BY <1>t DEF ProcState
  <2>2. runs[r].status = "running"
    BY <2>1, <1>1 DEF ExclusionInv, Careful
  <2>3. ASSUME Working(r) PROVE FALSE
    <3>1. /\ runs[r].owner = p /\ runs[r].job \in LocksOf(runs[r].job)
          /\ Live(runs[r].job)
      BY <1>2, <2>1, <2>3, AtWork
    <3>2. locks[runs[r].job].owner = runs[r].owner
      BY <2>1, <2>3, <3>1 DEF ExclusionInv, Holding
    <3>3. runs[r].job \notin proc[p].stale
      BY <1>1, <2>1, <2>3, <3>1 DEF ExclusionInv, Careful
    <3>4. ~Foreign(p, runs[r].owner) /\ ~Orphan(p, runs[r].owner)
      BY <1>2, <3>1, Lives DEF Foreign, Orphan
    <3>5. SameOwner(locks[runs[r].job].owner, runs[r].owner)
      BY <1>2, <3>1, <3>2, Lives
    <3> QED
      BY <3>1, <3>3, <3>4, <3>5
  <2> QED
    BY <2>1, <2>2, <2>3
<1>6. \A r \in Run : Working(r)' = Working(r)
  BY <1>1 DEF Working
<1>7. Careful'
  <2> HIDE DEF repair
  <2>1. \A r \in Run : Working(r) => \A l \in LocksOf(runs[r].job) : l \notin proc[p].stale
    BY <1>1 DEF ExclusionInv, Careful
  <2> QED
    BY <1>1, <1>2, <1>4, <1>5, <1>6, <2>1 DEF Careful
<1> QED
  BY <1>3, <1>7

\* The repair deletes no lock and closes no row of a job at work.
LEMMA RepairCareful ==
    ASSUME HeartbeatInTime, ExclusionInv, NEW p \in Proc, Repair(p)
    PROVE  (Holding /\ MutualExclusion /\ Careful)'
<1>t. /\ proc \in [Proc -> ProcState] /\ locks \in [Lock -> LockState]
      /\ runs \in [Run -> RunState]
  BY DEF ExclusionInv, RestartInv, Typed, TypeOK
<1>1. /\ proc[p].pc = "repair" /\ proc'[p].job = proc[p].job
      /\ proc'[p].pc = AfterCleanup(p)
      /\ \A q \in Proc \ {p} : proc'[q] = proc[q]
      /\ task' = task
  BY <1>t DEF Repair, ProcState
<1>2. /\ Up(p) /\ (Started(p) => Started(p)') /\ proc'[p].pc \in {"idle", "acquire"}
  BY <1>1 DEF Up, Started, AfterCleanup
<1>3. ASSUME NEW r \in Run, Working(r)
      PROVE  /\ runs'[r] = runs[r]
             /\ \A l \in LocksOf(runs[r].job) : locks'[l] = locks[l]
  <2>1. r \notin proc[p].repair /\ \A l \in LocksOf(runs[r].job) : l \notin proc[p].stale
    BY <1>1, <1>3 DEF ExclusionInv, Careful
  <2>2. LocksOf(runs[r].job) \subseteq Lock
    BY <1>3, AtWork
  <2> QED
    BY <2>1, <2>2, <1>t DEF Repair
<1>4. (Holding /\ MutualExclusion)'
  BY <1>1, <1>2, <1>3, Undisturbed
<1>5. \A q \in Proc : proc'[q].pc \notin {"runs", "active", "repair"}
  BY <1>1, <1>2 DEF ExclusionInv, RestartInv, Alone, Up
<1> QED
  BY <1>4, <1>5 DEF Careful

\* A job acquires its locks only when no other is at work.
LEMMA AcquireExclusive ==
    ASSUME HeartbeatInTime, ExclusionInv, NEW p \in Proc, NEW r \in Run, Acquire(p, r)
    PROVE  (Holding /\ MutualExclusion /\ Careful)'
<1>t. /\ proc \in [Proc -> ProcState] /\ locks \in [Lock -> LockState]
      /\ runs \in [Run -> RunState] /\ task \in [Run -> TaskState] /\ Named
  BY DEF ExclusionInv, RestartInv, Typed, TypeOK
<1>1. /\ Up(p) /\ proc[p].job \in Job /\ proc'[p].pc = "idle"
      /\ \A q \in Proc \ {p} : proc'[q] = proc[q]
  BY <1>t DEF Acquire, At, Up, Named, ProcState
<1>2. \A s \in Run : ~Working(s)
  BY AtWork DEF Acquire, LocksOf
<1>3. /\ \A s \in Run : Working(s)' => s = r
      /\ runs'[r] = [job |-> proc[p].job, owner |-> p, status |-> "running"]
      /\ task'[r] = [pc |-> "working", idle |-> 0, beating |-> TRUE]
  BY <1>2, <1>t DEF Acquire, Working
<1>4. \A l \in LocksOf(proc[p].job) : locks'[l] = [owner |-> p, left |-> TTL]
  BY <1>1, <1>t DEF Acquire, LocksOf, Lock
<1>5. Started(p)'
  BY <1>1 DEF Started, Up
<1>6. 0 <= Interval + Late /\ TTL + 0 >= TTL
  BY IntervalNat, TimeAssumption
<1>7. Holding'
  BY <1>3, <1>4, <1>5, <1>6 DEF Holding
<1>8. MutualExclusion'
  BY <1>3 DEF MutualExclusion
<1>9. \A q \in Proc : proc'[q].pc \notin {"runs", "active", "repair"}
  BY <1>1 DEF ExclusionInv, RestartInv, Alone, Up
<1> QED
  BY <1>7, <1>8, <1>9 DEF Careful

\* A job that ends was the only one.
LEMMA EndStep ==
    ASSUME HeartbeatInTime, ExclusionInv, NEW r \in Run,
           FinishFails(r) \/ \E outcome \in {"success", "error"} : Finish(r, outcome)
    PROVE  (Holding /\ MutualExclusion /\ Careful)'
<1>t. task \in [Run -> TaskState]
  BY DEF ExclusionInv, RestartInv, Typed, TypeOK
<1>1. /\ Working(r) /\ proc[runs[r].owner].pc = "idle" /\ proc' = proc
      /\ task' = [task EXCEPT ![r] = Gone]
  BY DEF Finish, FinishFails
<1>2. \A s \in Run : ~Working(s)'
  BY <1>1, <1>t DEF ExclusionInv, MutualExclusion, Working, Gone
<1>3. \A q \in Proc : proc'[q].pc \notin {"runs", "active", "repair"}
  BY <1>1, AtWork DEF Up
<1> QED
  BY <1>2, <1>3, Resting

\* A heartbeat finds both locks and renews them.
LEMMA HeartbeatStep ==
    ASSUME HeartbeatInTime, ExclusionInv, NEW r \in Run, Heartbeat(r)
    PROVE  (Holding /\ MutualExclusion /\ Careful)'
<1>t. /\ task \in [Run -> TaskState] /\ locks \in [Lock -> LockState]
  BY DEF ExclusionInv, RestartInv, Typed, TypeOK
<1>1. /\ Working(r) /\ proc[runs[r].owner].pc = "idle" /\ proc' = proc /\ runs' = runs
  BY DEF Heartbeat
<1>2. \A s \in Run : Working(s) => s = r
  BY <1>1 DEF ExclusionInv, MutualExclusion
<1>3. /\ LocksOf(runs[r].job) \subseteq Lock
      /\ \A l \in LocksOf(runs[r].job) : locks[l].owner = runs[r].owner
      /\ Started(runs[r].owner) /\ runs[r].status = "running"
  BY <1>1, AtWork DEF ExclusionInv, Holding
<1>4. {l \in LocksOf(runs[r].job) : SameOwner(locks[l].owner, runs[r].owner)}
        = LocksOf(runs[r].job)
  BY <1>1, <1>3, AtWork, Lives
<1>5. /\ \A l \in LocksOf(runs[r].job) : locks'[l] = [locks[l] EXCEPT !.left = TTL]
      /\ task' = [task EXCEPT ![r].idle = 0, ![r].beating = TRUE]
  BY <1>3, <1>4, <1>t DEF Heartbeat
<1>6. \A l \in LocksOf(runs[r].job) : /\ locks'[l].owner = runs[r].owner
                                      /\ locks'[l].left = TTL
  BY <1>3, <1>5, <1>t DEF LockState
<1>7. /\ task'[r].pc = task[r].pc /\ task'[r].idle = 0 /\ task'[r].beating
      /\ \A s \in Run \ {r} : task'[s] = task[s]
  BY <1>5, <1>t DEF TaskState
<1>8. \A s \in Run : Working(s)' => s = r
  BY <1>2, <1>7 DEF Working
<1>9. 0 <= Interval + Late /\ TTL + 0 >= TTL /\ Started(runs[r].owner)'
  BY <1>1, <1>3, IntervalNat, TimeAssumption DEF Started, Up
<1>10. Holding'
  BY <1>1, <1>3, <1>6, <1>7, <1>8, <1>9 DEF Holding
<1>11. MutualExclusion'
  BY <1>8 DEF MutualExclusion
<1>12. \A q \in Proc : proc'[q].pc \notin {"runs", "active", "repair"}
  BY <1>1, AtWork DEF Up
<1> QED
  BY <1>10, <1>11, <1>12 DEF Careful

\* A tick takes no more from a lock than it adds to the wait for its heartbeat.
LEMMA TickStep ==
    ASSUME HeartbeatInTime, ExclusionInv, Tick
    PROVE  (Holding /\ MutualExclusion /\ Careful)'
<1>t. task \in [Run -> TaskState] /\ locks \in [Lock -> LockState]
  BY DEF ExclusionInv, RestartInv, Typed, TypeOK
<1>1. /\ proc' = proc /\ runs' = runs
      /\ \A p \in Proc : proc[p].pc \notin {"runs", "active", "repair"}
  BY DEF Tick
<1>2. \A r \in Run : Working(r)' = Working(r)
  BY <1>t DEF Tick, Working, TaskState
<1>3. ASSUME NEW r \in Run, Working(r)
      PROVE  /\ Started(runs[r].owner)' /\ runs'[r].status = "running"
             /\ task'[r].beating /\ task'[r].idle <= Interval + Late
             /\ \A l \in LocksOf(runs[r].job) : /\ locks'[l].owner = runs[r].owner
                                                /\ locks'[l].left + task'[r].idle >= TTL
  <2>1. /\ Started(runs[r].owner) /\ runs[r].status = "running" /\ task[r].beating
        /\ \A l \in LocksOf(runs[r].job) : /\ locks[l].owner = runs[r].owner
                                           /\ locks[l].left + task[r].idle >= TTL
    BY <1>3 DEF ExclusionInv, Holding
  <2>2. /\ task'[r].beating /\ task'[r].idle = task[r].idle + 1
        /\ task[r].idle < Interval + Late /\ task[r].idle \in Nat
    BY <1>3, <2>1, <1>t DEF Tick, TaskState
  <2>3. task'[r].idle <= Interval + Late
    BY <2>2, IntervalNat, TimeAssumption
  <2>4. ASSUME NEW l \in LocksOf(runs[r].job)
        PROVE  locks'[l].owner = runs[r].owner /\ locks'[l].left + task'[r].idle >= TTL
    <3>1. l \in Lock /\ locks[l].left > 0 /\ locks[l].left \in Nat
      BY <1>3, <2>4, <1>t, AtWork, TimeAssumption DEF LockState
    <3>2. locks'[l].owner = locks[l].owner /\ locks'[l].left = locks[l].left - 1
      BY <3>1, <1>t DEF Tick, LockState
    <3> QED
      BY <3>1, <3>2, <2>1, <2>2, TimeAssumption
  <2>5. Started(runs[r].owner)'
    BY <1>1, <2>1 DEF Started, Up
  <2> QED
    BY <2>1, <2>2, <2>3, <2>4, <2>5, <1>1
<1>4. Holding'
  BY <1>1, <1>2, <1>3 DEF Holding
<1>5. MutualExclusion'
  BY <1>2 DEF ExclusionInv, MutualExclusion
<1> QED
  BY <1>1, <1>4, <1>5 DEF Careful

-----------------------------------------------------------------------------
\* Every step keeps the invariant.
LEMMA ExclusionStep ==
    ASSUME OneWorker, TouchWorks, HeartbeatInTime
    PROVE  ExclusionInv /\ [Next]_vars => ExclusionInv'
<1> SUFFICES ASSUME ExclusionInv, [Next]_vars
             PROVE  (Holding /\ MutualExclusion /\ Careful)'
  BY RestartStep DEF ExclusionInv
<1>1. ASSUME NEW p \in Proc, StartWorker(p) PROVE (Holding /\ MutualExclusion /\ Careful)'
  BY <1>1, StartOrDie
<1>2. ASSUME NEW p \in Proc, NEW j \in Job, BeginJob(p, j)
         PROVE  (Holding /\ MutualExclusion /\ Careful)'
  <2>1. \E i \in Job : BeginJob(p, i)
    BY <1>2
  <2> QED
    BY <2>1, CallStep
<1>3. ASSUME NEW p \in Proc, ScanLocks(p) PROVE (Holding /\ MutualExclusion /\ Careful)'
  BY <1>3, ScanLocksCareful
<1>4. ASSUME NEW p \in Proc, ScanRuns(p) PROVE (Holding /\ MutualExclusion /\ Careful)'
  BY <1>4, ScanRunsCareful
<1>5. ASSUME NEW p \in Proc, ScanActive(p) PROVE (Holding /\ MutualExclusion /\ Careful)'
  BY <1>5, ScanActiveCareful
<1>6. ASSUME NEW p \in Proc, Repair(p) PROVE (Holding /\ MutualExclusion /\ Careful)'
  BY <1>6, RepairCareful
<1>7. ASSUME NEW p \in Proc, Refuse(p) PROVE (Holding /\ MutualExclusion /\ Careful)'
  BY <1>7, CallStep
<1>8. ASSUME NEW p \in Proc, NEW r \in Run, Acquire(p, r)
         PROVE  (Holding /\ MutualExclusion /\ Careful)'
  BY <1>8, AcquireExclusive
<1>9. ASSUME NEW p \in Proc, Abort(p) PROVE (Holding /\ MutualExclusion /\ Careful)'
  <2>1. CASE proc[p].job = NoJob
    BY <1>9, <2>1, StartOrDie
  <2>2. CASE proc[p].job # NoJob
    BY <1>9, <2>2, CallStep
  <2> QED
    BY <2>1, <2>2
<1>10. ASSUME NEW p \in Proc, Crash(p) PROVE (Holding /\ MutualExclusion /\ Careful)'
  BY <1>10, StartOrDie
<1>11. ASSUME NEW r \in Run, NEW outcome \in {"success", "error"}, Finish(r, outcome)
       PROVE  (Holding /\ MutualExclusion /\ Careful)'
  <2>1. \E o \in {"success", "error"} : Finish(r, o)
    BY <1>11
  <2> QED
    BY <2>1, EndStep
<1>12. ASSUME NEW r \in Run, FinishFails(r) PROVE (Holding /\ MutualExclusion /\ Careful)'
  BY <1>12, EndStep
<1>13. ASSUME NEW r \in Run, Heartbeat(r) PROVE (Holding /\ MutualExclusion /\ Careful)'
  BY <1>13, HeartbeatStep
<1>14. ASSUME NEW r \in Run, HeartbeatFails(r) PROVE (Holding /\ MutualExclusion /\ Careful)'
  BY <1>14 DEF HeartbeatFails, TouchWorks
<1>15. CASE Tick
  BY <1>15, TickStep
<1>16. CASE UNCHANGED vars
  <2>1. locks' = locks /\ runs' = runs /\ task' = task /\ proc' = proc
    BY <1>16 DEF vars
  <2>2. Holding'
    BY <2>1 DEF ExclusionInv, Holding, Working, Started, Up
  <2>3. MutualExclusion' /\ Careful'
    BY <2>1 DEF ExclusionInv, MutualExclusion, Careful, Working
  <2> QED
    BY <2>2, <2>3
<1> QED
  BY <1>1, <1>2, <1>3, <1>4, <1>5, <1>6, <1>7, <1>8, <1>9, <1>10, <1>11, <1>12,
     <1>13, <1>14, <1>15, <1>16, NextCases

\* The invariant of every behaviour under the three assumptions.
LEMMA Exclusion ==
    ASSUME OneWorker, TouchWorks, HeartbeatInTime
    PROVE  Spec => []ExclusionInv
<1>1. ExclusionInv /\ [Next]_vars => ExclusionInv'
  BY ExclusionStep
<1> QED
  BY ExclusionInit, <1>1, PTL DEF Spec

(***************************************************************************)
(* Refresh, scrape, sync and bootstrap never overlap (README.md 18), for   *)
(* every TTL, when one worker runs at a time.                              *)
(***************************************************************************)
THEOREM JobsExclude ==
    OneWorker /\ TouchWorks /\ HeartbeatInTime => (Spec => []MutualExclusion)
<1> SUFFICES ASSUME OneWorker, TouchWorks, HeartbeatInTime PROVE Spec => []MutualExclusion
  OBVIOUS
<1>1. ExclusionInv => MutualExclusion
  BY DEF ExclusionInv
<1> QED
  BY Exclusion, <1>1, PTL

(***************************************************************************)
(* A job keeps both its locks as long as it works (README.md 34), however  *)
(* late its heartbeats are, as long as they are in time.                   *)
(***************************************************************************)
THEOREM LocksAreHeld ==
    OneWorker /\ TouchWorks /\ HeartbeatInTime => (Spec => []LocksHeld)
<1> SUFFICES ASSUME OneWorker, TouchWorks, HeartbeatInTime PROVE Spec => []LocksHeld
  OBVIOUS
<1>1. ExclusionInv => LocksHeld
  BY AtWork DEF ExclusionInv, Holding, LocksHeld
<1> QED
  BY Exclusion, <1>1, PTL

-----------------------------------------------------------------------------
(***************************************************************************)
(* The refinement: with one worker at a time, heartbeats that reach the    *)
(* database and come in time, the tables job_locks and job_runs together   *)
(* are a serial table of runs, for every set of processes, hosts, jobs and *)
(* runs, every TTL and whatever crashes or database errors occur.          *)
(***************************************************************************)

\* At most one run is open.
Single == \A r, s \in OpenRuns : r = s

\* The two locks of an open run were taken together, are renewed together and
\* expire together.
Paired == \A s \in OpenRuns : locks[runs[s].job] = locks[Pipeline]

\* What a cleanup has read covers every open run: either its locks are live, and then
\* the acquisition will be refused, or it is going to be closed.
Settled ==
    \A p \in Proc :
        /\ proc[p].pc \in {"runs", "active", "repair"} =>
             \A s \in OpenRuns : runs[s].job \in proc[p].stale <=> Pipeline \in proc[p].stale
        /\ proc[p].pc = "active" => OpenRuns \subseteq proc[p].running
        /\ proc[p].pc = "repair" =>
             \A s \in OpenRuns \ proc[p].repair :
                 Live(runs[s].job) /\ runs[s].job \notin proc[p].stale
        /\ proc[p].pc = "acquire" => \A s \in OpenRuns : Live(runs[s].job)

SerialInv == ExclusionInv /\ Single /\ Paired /\ Settled

-----------------------------------------------------------------------------
LEMMA SerialInit == Init => SerialInv /\ Serial!Init
<1> SUFFICES ASSUME Init PROVE SerialInv /\ Serial!Init
  OBVIOUS
<1>1. OpenRuns = {} /\ AtWorkRuns = {}
  BY DEF Init, OpenRuns, AtWorkRuns, Working, Gone
<1>2. \A p \in Proc : proc[p].pc = "unborn"
  BY DEF Init, Blank
<1> QED
  BY <1>1, <1>2, ExclusionInit DEF SerialInv, Single, Paired, Settled, Serial!Init

\* A job at work has an open run, and open runs have jobs.
LEMMA WorkIsOpen ==
    ASSUME ExclusionInv
    PROVE  /\ AtWorkRuns \subseteq OpenRuns
           /\ \A s \in OpenRuns : s \in Run /\ runs[s].job \in Job /\ runs[s].job \in Lock
BY DEF AtWorkRuns, OpenRuns, Working, ExclusionInv, Holding, RestartInv, Typed, Named, Lock

\* A step of process p finds the others down.
LEMMA OthersDown ==
    ASSUME ExclusionInv, NEW p \in Proc, Up(p)
    PROVE  \A q \in Proc \ {p} : proc[q].pc \in {"unborn", "dead"}
BY DEF ExclusionInv, RestartInv, Alone, Up

\* No process is inside the cleanup or the acquisition.
Outside == \A p \in Proc : proc[p].pc \notin {"runs", "active", "repair", "acquire"}

LEMMA OutsideSettled == Outside => Settled
BY DEF Outside, Settled

\* The tables stay as they are and the step ends outside.
LEMMA TablesKept ==
    ASSUME SerialInv, locks' = locks, runs' = runs, Outside'
    PROVE  (Single /\ Paired /\ Settled)' /\ OpenRuns' = OpenRuns
<1>1. OpenRuns' = OpenRuns
  BY DEF OpenRuns
<1>2. Settled'
  BY DEF Outside, Settled
<1> QED
  BY <1>1, <1>2 DEF SerialInv, Single, Paired

-----------------------------------------------------------------------------
\* Steps that leave the tables and the jobs alone and end outside the call.
LEMMA QuietSerial ==
    ASSUME OneWorker, SerialInv, NEW p \in Proc,
           \/ StartWorker(p) \/ Refuse(p) \/ Abort(p) \/ \E j \in Job : BeginJob(p, j)
    PROVE  /\ (Single /\ Paired /\ Settled)'
           /\ UNCHANGED <<OpenRuns, AtWorkRuns>>
<1>t. proc \in [Proc -> ProcState]
  BY DEF SerialInv, ExclusionInv, RestartInv, Typed, TypeOK
<1>1. /\ locks' = locks /\ runs' = runs /\ task' = task
      /\ proc'[p].pc \in {"locks", "idle", "dead"}
      /\ \A q \in Proc \ {p} : proc'[q] = proc[q]
  BY <1>t DEF StartWorker, Refuse, Abort, BeginJob, At, Blank, ProcState
<1>2. \A q \in Proc \ {p} : proc[q].pc \in {"unborn", "idle", "dead"}
  <2>1. CASE Up(p)
    BY <2>1, OthersDown DEF SerialInv
  <2>2. CASE ~Up(p)
    <3>1. StartWorker(p)
      BY <2>2 DEF Refuse, Abort, BeginJob, Up
    <3> QED BY <3>1 DEF StartWorker, Up, OneWorker
  <2> QED BY <2>1, <2>2
<1>3. Outside'
  BY <1>1, <1>2 DEF Outside
<1>4. AtWorkRuns' = AtWorkRuns
  BY <1>1 DEF AtWorkRuns, Working
<1> QED
  BY <1>1, <1>3, <1>4, TablesKept

\* What a step of the call leaves alone.
LEMMA CallFrame ==
    ASSUME SerialInv, NEW p \in Proc, Up(p),
           \A q \in Proc \ {p} : proc'[q] = proc[q]
    PROVE  \A q \in Proc \ {p} :
               proc'[q].pc \notin {"runs", "active", "repair", "acquire"}
BY OthersDown DEF SerialInv

LEMMA ScanLocksSerial ==
    ASSUME SerialInv, NEW p \in Proc, ScanLocks(p)
    PROVE  /\ (Single /\ Paired /\ Settled)'
           /\ UNCHANGED <<OpenRuns, AtWorkRuns>>
<1>t. proc \in [Proc -> ProcState]
  BY DEF SerialInv, ExclusionInv, RestartInv, Typed, TypeOK
<1>1. /\ locks' = locks /\ runs' = runs /\ task' = task
      /\ OpenRuns' = OpenRuns /\ AtWorkRuns' = AtWorkRuns
  BY DEF ScanLocks, OpenRuns, AtWorkRuns, Working
<1>2. /\ proc'[p].pc = "runs" /\ Up(p)
      /\ \A q \in Proc \ {p} : proc'[q] = proc[q]
      /\ proc'[p].stale = {l \in Lock : /\ locks[l].owner # NoProc
                                       /\ \/ locks[l].left = 0
                                          \/ Foreign(p, locks[l].owner)
                                          \/ Orphan(p, locks[l].owner)}
  BY <1>t DEF ScanLocks, Up, ProcState
<1>3. \A s \in OpenRuns : /\ runs[s].job \in Lock /\ Pipeline \in Lock
                          /\ locks[runs[s].job] = locks[Pipeline]
  BY WorkIsOpen DEF SerialInv, Paired, Lock
<1>4. \A s \in OpenRuns : runs[s].job \in proc'[p].stale <=> Pipeline \in proc'[p].stale
  BY <1>2, <1>3
<1>5. Settled'
  BY <1>1, <1>2, <1>4, CallFrame DEF Settled
<1> QED
  BY <1>1, <1>5 DEF SerialInv, Single, Paired

LEMMA ScanRunsSerial ==
    ASSUME SerialInv, NEW p \in Proc, ScanRuns(p)
    PROVE  /\ (Single /\ Paired /\ Settled)'
           /\ UNCHANGED <<OpenRuns, AtWorkRuns>>
<1>t. proc \in [Proc -> ProcState]
  BY DEF SerialInv, ExclusionInv, RestartInv, Typed, TypeOK
<1>1. /\ locks' = locks /\ runs' = runs /\ task' = task
      /\ OpenRuns' = OpenRuns /\ AtWorkRuns' = AtWorkRuns
  BY DEF ScanRuns, OpenRuns, AtWorkRuns, Working
<1>2. /\ proc[p].pc = "runs" /\ proc'[p].pc = "active" /\ Up(p)
      /\ \A q \in Proc \ {p} : proc'[q] = proc[q]
      /\ proc'[p].stale = proc[p].stale /\ proc'[p].running = OpenRuns
  BY <1>t DEF ScanRuns, Up, ProcState, OpenRuns
<1>3. Settled'
  BY <1>1, <1>2, CallFrame DEF SerialInv, Settled
<1> QED
  BY <1>1, <1>3 DEF SerialInv, Single, Paired

LEMMA ScanActiveSerial ==
    ASSUME SerialInv, NEW p \in Proc, ScanActive(p)
    PROVE  /\ (Single /\ Paired /\ Settled)'
           /\ UNCHANGED <<OpenRuns, AtWorkRuns>>
<1> DEFINE held(r) == /\ Live(runs[r].job) /\ runs[r].job \notin proc[p].stale
                      /\ SameOwner(locks[runs[r].job].owner, runs[r].owner)
           repair == {r \in proc[p].running :
                        \/ Foreign(p, runs[r].owner)
                        \/ Orphan(p, runs[r].owner)
                        \/ ~held(r)}
<1>t. proc \in [Proc -> ProcState]
  BY DEF SerialInv, ExclusionInv, RestartInv, Typed, TypeOK
<1>1. /\ locks' = locks /\ runs' = runs /\ task' = task
      /\ OpenRuns' = OpenRuns /\ AtWorkRuns' = AtWorkRuns
  BY DEF ScanActive, OpenRuns, AtWorkRuns, Working
<1>2. /\ proc[p].pc = "active" /\ Up(p)
      /\ proc'[p].pc = IF proc[p].stale = {} /\ repair = {}
                       THEN AfterCleanup(p) ELSE "repair"
      /\ \A q \in Proc \ {p} : proc'[q] = proc[q]
      /\ proc'[p].stale = proc[p].stale /\ proc'[p].repair = repair
  BY <1>t DEF ScanActive, Up, ProcState
<1>3. \A s \in OpenRuns \ repair : Live(runs[s].job) /\ runs[s].job \notin proc[p].stale
  BY <1>2 DEF SerialInv, Settled
<1>4. \A l \in Lock : Live(l)' = Live(l)
  BY <1>1 DEF Live
<1> HIDE DEF repair
<1>5. proc'[p].pc \in {"idle", "acquire"} => repair = {}
  BY <1>2
<1>6. proc'[p].pc \in {"idle", "acquire", "repair"}
  BY <1>2 DEF AfterCleanup
<1>7. \A s \in OpenRuns : runs[s].job \in proc[p].stale <=> Pipeline \in proc[p].stale
  BY <1>2 DEF SerialInv, Settled
<1>8. \A s \in OpenRuns : runs[s].job \in Lock
  BY WorkIsOpen DEF SerialInv
<1>9. Settled'
  BY <1>1, <1>2, <1>3, <1>4, <1>5, <1>6, <1>7, <1>8, CallFrame DEF Settled
<1> QED
  BY <1>1, <1>9 DEF SerialInv, Single, Paired

-----------------------------------------------------------------------------
\* The transaction closes the one open run, of a job that is gone, or none.
LEMMA RepairSerial ==
    ASSUME SerialInv, NEW p \in Proc, Repair(p)
    PROVE  /\ (Single /\ Paired /\ Settled)'
           /\ Serial!Close \/ UNCHANGED <<OpenRuns, AtWorkRuns>>
<1>t. proc \in [Proc -> ProcState] /\ runs \in [Run -> RunState]
  BY DEF SerialInv, ExclusionInv, RestartInv, Typed, TypeOK
<1>1. /\ proc[p].pc = "repair" /\ Up(p) /\ task' = task
      /\ proc'[p].pc = AfterCleanup(p)
      /\ \A q \in Proc \ {p} : proc'[q] = proc[q]
  BY <1>t DEF Repair, Up, ProcState
<1>2. /\ \A l \in Lock \ proc[p].stale : locks'[l] = locks[l]
      /\ \A l \in Lock \cap proc[p].stale : locks'[l] = NoLock
  BY DEF Repair
<1>3. \A r \in Run : /\ r \notin proc[p].repair => runs'[r] = runs[r]
                     /\ r \in proc[p].repair => runs'[r].status = "error"
  BY <1>t DEF Repair, RunState
<1>4. OpenRuns' = OpenRuns \ proc[p].repair
  BY <1>3 DEF OpenRuns
<1>5. AtWorkRuns' = AtWorkRuns
  BY <1>1 DEF AtWorkRuns, Working
<1>6. \A s \in OpenRuns : s \in Run /\ runs[s].job \in Lock /\ Pipeline \in Lock
  BY WorkIsOpen DEF SerialInv, Lock
<1>7. \A s \in OpenRuns' : /\ s \in OpenRuns /\ runs'[s] = runs[s] /\ Live(runs[s].job)
                          /\ runs[s].job \notin proc[p].stale
                          /\ Pipeline \notin proc[p].stale
  BY <1>1, <1>3, <1>4, <1>6 DEF SerialInv, Settled
<1>8. \A s \in OpenRuns' : /\ locks'[runs'[s].job] = locks[runs[s].job]
                          /\ locks'[Pipeline] = locks[Pipeline]
  BY <1>2, <1>6, <1>7
<1>9. Paired'
  BY <1>7, <1>8 DEF SerialInv, Paired
<1>10. Single'
  BY <1>4 DEF SerialInv, Single
<1>11. \A s \in OpenRuns' : Live(runs[s].job)'
  BY <1>7, <1>8 DEF Live
<1>12. Settled'
  BY <1>1, <1>11, CallFrame DEF Settled, AfterCleanup
<1>13. Serial!Close \/ UNCHANGED <<OpenRuns, AtWorkRuns>>
  <2>1. CASE OpenRuns \cap proc[p].repair = {}
    BY <2>1, <1>4, <1>5
  <2>2. CASE OpenRuns \cap proc[p].repair # {}
    <3>1. PICK s \in OpenRuns : s \in proc[p].repair
      BY <2>2
    <3>2. OpenRuns = {s} /\ OpenRuns' = {}
      BY <3>1, <1>4 DEF SerialInv, Single
    <3>3. s \notin AtWorkRuns
      BY <3>1, <1>1 DEF SerialInv, ExclusionInv, Careful, AtWorkRuns
    <3>4. AtWorkRuns = {}
      BY <3>2, <3>3, WorkIsOpen DEF SerialInv
    <3> QED BY <3>2, <3>4, <1>5 DEF Serial!Close
  <2> QED BY <2>1, <2>2
<1> QED
  BY <1>9, <1>10, <1>12, <1>13

\* No run is open when one is acquired.
LEMMA AcquireSerial ==
    ASSUME SerialInv, NEW p \in Proc, NEW r \in Run, Acquire(p, r)
    PROVE  (Single /\ Paired /\ Settled)' /\ Serial!Begin(r)
<1>t. /\ proc \in [Proc -> ProcState] /\ runs \in [Run -> RunState]
      /\ task \in [Run -> TaskState] /\ Named
  BY DEF SerialInv, ExclusionInv, RestartInv, Typed, TypeOK
<1>1. OpenRuns = {}
  <2>1. ASSUME NEW s \in OpenRuns PROVE FALSE
    <3>1. Live(runs[s].job) /\ ~Live(Pipeline)
      BY <2>1 DEF Acquire, LocksOf, SerialInv, Settled
    <3>2. locks[runs[s].job] = locks[Pipeline]
      BY <2>1 DEF SerialInv, Paired
    <3> QED BY <3>1, <3>2 DEF Live
  <2> QED BY <2>1
<1>2. AtWorkRuns = {}
  BY <1>1, WorkIsOpen DEF SerialInv
<1>3. /\ runs'[r] = [job |-> proc[p].job, owner |-> p, status |-> "running"]
      /\ task'[r] = [pc |-> "working", idle |-> 0, beating |-> TRUE]
      /\ \A s \in Run \ {r} : runs'[s] = runs[s] /\ task'[s] = task[s]
  BY <1>t DEF Acquire
<1>4. OpenRuns' = {r}
  BY <1>1, <1>3 DEF OpenRuns
<1>5. AtWorkRuns' = {r}
  BY <1>2, <1>3 DEF AtWorkRuns, Working
<1>6. Up(p) /\ proc'[p].pc = "idle" /\ \A q \in Proc \ {p} : proc'[q] = proc[q]
  BY <1>t DEF Acquire, At, Up, ProcState
<1>7. Settled'
  BY <1>6, CallFrame DEF Settled
<1>8. proc[p].job \in Lock /\ Pipeline \in Lock
  BY <1>t DEF Acquire, Named, Lock
<1>9. locks'[proc[p].job] = locks'[Pipeline]
  BY <1>8 DEF Acquire, LocksOf
<1> QED
  BY <1>1, <1>3, <1>4, <1>5, <1>7, <1>9 DEF Single, Paired, Serial!Begin

-----------------------------------------------------------------------------
\* While a job is doing something, its worker and with it every other is outside.
LEMMA JobOutside ==
    ASSUME SerialInv, NEW r \in Run, Working(r), proc[runs[r].owner].pc = "idle"
    PROVE  Outside
<1>1. runs[r].owner \in Proc
  BY DEF SerialInv, ExclusionInv, RestartInv, Typed, Named
<1>2. Up(runs[r].owner)
  BY DEF Up
<1> QED
  BY <1>1, <1>2, OthersDown DEF SerialInv, Outside

\* The job that ends is the only one, and its run the only one open.
LEMMA TheOne ==
    ASSUME SerialInv, NEW r \in Run, Working(r)
    PROVE  OpenRuns = {r} /\ AtWorkRuns = {r}
<1>1. r \in AtWorkRuns
  BY DEF AtWorkRuns
<1>2. OpenRuns = {r}
  BY <1>1, WorkIsOpen DEF SerialInv, Single
<1> QED
  BY <1>1, <1>2, WorkIsOpen DEF SerialInv

LEMMA FinishSerial ==
    ASSUME SerialInv, NEW r \in Run, NEW outcome \in {"success", "error"},
           Finish(r, outcome)
    PROVE  (Single /\ Paired /\ Settled)' /\ Serial!End
<1>t. runs \in [Run -> RunState] /\ task \in [Run -> TaskState]
  BY DEF SerialInv, ExclusionInv, RestartInv, Typed, TypeOK
<1>1. OpenRuns = {r} /\ AtWorkRuns = {r} /\ Outside /\ proc' = proc
  BY TheOne, JobOutside DEF Finish
<1>2. OpenRuns' = {}
  BY <1>1, <1>t DEF Finish, OpenRuns, RunState
<1>3. AtWorkRuns' = {}
  BY <1>1, <1>t DEF Finish, AtWorkRuns, Working, Gone
<1>4. Outside'
  BY <1>1 DEF Outside
<1>5. Settled'
  BY <1>4 DEF Outside, Settled
<1> QED
  BY <1>1, <1>2, <1>3, <1>5 DEF Single, Paired, Serial!End

LEMMA LoseSerial ==
    ASSUME SerialInv, NEW r \in Run, FinishFails(r)
    PROVE  (Single /\ Paired /\ Settled)' /\ Serial!Lose
<1>t. task \in [Run -> TaskState]
  BY DEF SerialInv, ExclusionInv, RestartInv, Typed, TypeOK
<1>1. /\ OpenRuns = {r} /\ AtWorkRuns = {r} /\ Outside
      /\ locks' = locks /\ runs' = runs /\ proc' = proc
  BY TheOne, JobOutside DEF FinishFails
<1>2. Outside'
  BY <1>1 DEF Outside
<1>3. AtWorkRuns' = {}
  BY <1>1, <1>t DEF FinishFails, AtWorkRuns, Working, Gone
<1> QED
  BY <1>1, <1>2, <1>3, TablesKept DEF Serial!Lose

\* Every job at work is one of the process that dies.
LEMMA CrashSerial ==
    ASSUME HeartbeatInTime, SerialInv, NEW p \in Proc, Crash(p)
    PROVE  /\ (Single /\ Paired /\ Settled)'
           /\ Serial!Lose \/ UNCHANGED <<OpenRuns, AtWorkRuns>>
<1>t. proc \in [Proc -> ProcState] /\ task \in [Run -> TaskState]
  BY DEF SerialInv, ExclusionInv, RestartInv, Typed, TypeOK
<1>1. /\ locks' = locks /\ runs' = runs /\ Up(p) /\ proc'[p].pc = "dead"
      /\ \A q \in Proc \ {p} : proc'[q] = proc[q]
  BY <1>t DEF Crash, Blank
<1>2. Outside'
  BY <1>1, CallFrame DEF Outside
<1>3. \A s \in Run : Working(s) => runs[s].owner = p
  BY <1>1, AtWork DEF SerialInv
<1>4. AtWorkRuns' = {}
  BY <1>3, <1>t DEF Crash, AtWorkRuns, Working, Gone
<1> QED
  BY <1>1, <1>2, <1>4, TablesKept DEF Serial!Lose

LEMMA HeartbeatSerial ==
    ASSUME SerialInv, NEW r \in Run, Heartbeat(r)
    PROVE  /\ (Single /\ Paired /\ Settled)'
           /\ UNCHANGED <<OpenRuns, AtWorkRuns>>
<1>t. /\ task \in [Run -> TaskState] /\ locks \in [Lock -> LockState]
      /\ runs \in [Run -> RunState]
  BY DEF SerialInv, ExclusionInv, RestartInv, Typed, TypeOK
<1>1. /\ OpenRuns = {r} /\ Outside /\ runs' = runs /\ proc' = proc
  BY TheOne, JobOutside DEF Heartbeat
<1>2. OpenRuns' = OpenRuns /\ Outside'
  BY <1>1 DEF OpenRuns, Outside
<1>3. AtWorkRuns' = AtWorkRuns
  BY <1>t DEF Heartbeat, AtWorkRuns, Working, TaskState
<1>4. /\ locks[runs[r].job] = locks[Pipeline]
      /\ runs[r].job \in Lock /\ Pipeline \in Lock
  BY <1>1, WorkIsOpen DEF SerialInv, Paired, Lock
<1>5. locks'[runs[r].job] = locks'[Pipeline]
  BY <1>4, <1>t DEF Heartbeat, LocksOf, LockState
<1>6. Settled'
  BY <1>2 DEF Outside, Settled
<1> QED
  BY <1>1, <1>2, <1>3, <1>5, <1>6 DEF Single, Paired

LEMMA TickSerial ==
    ASSUME SerialInv, Tick
    PROVE  /\ (Single /\ Paired /\ Settled)'
           /\ UNCHANGED <<OpenRuns, AtWorkRuns>>
<1>t. task \in [Run -> TaskState] /\ locks \in [Lock -> LockState]
  BY DEF SerialInv, ExclusionInv, RestartInv, Typed, TypeOK
<1>1. /\ OpenRuns' = OpenRuns /\ runs' = runs /\ Outside'
  BY DEF Tick, OpenRuns, Outside
<1>2. AtWorkRuns' = AtWorkRuns
  BY <1>t DEF Tick, AtWorkRuns, Working, TaskState
<1>3. \A s \in OpenRuns : /\ locks[runs[s].job] = locks[Pipeline]
                          /\ runs[s].job \in Lock /\ Pipeline \in Lock
  BY WorkIsOpen DEF SerialInv, Paired, Lock
<1>4. \A s \in OpenRuns : locks'[runs[s].job] = locks'[Pipeline]
  BY <1>3 DEF Tick
<1>5. Settled'
  BY <1>1 DEF Outside, Settled
<1> QED
  BY <1>1, <1>2, <1>4, <1>5 DEF SerialInv, Single, Paired

-----------------------------------------------------------------------------
\* Every step keeps the invariant and is a step of the serial table or none of it.
LEMMA SerialStep ==
    ASSUME OneWorker, TouchWorks, HeartbeatInTime
    PROVE  SerialInv /\ [Next]_vars => SerialInv' /\ [Serial!Next]_<<OpenRuns, AtWorkRuns>>
<1> SUFFICES ASSUME SerialInv, [Next]_vars
             PROVE  /\ (Single /\ Paired /\ Settled)'
                    /\ Serial!Next \/ UNCHANGED <<OpenRuns, AtWorkRuns>>
  BY ExclusionStep DEF SerialInv
<1> DEFINE Good == /\ (Single /\ Paired /\ Settled)'
                   /\ Serial!Next \/ UNCHANGED <<OpenRuns, AtWorkRuns>>
<1>1. ASSUME NEW p \in Proc, StartWorker(p) \/ Refuse(p) \/ Abort(p) PROVE Good
  BY <1>1, QuietSerial
<1>2. ASSUME NEW p \in Proc, NEW j \in Job, BeginJob(p, j) PROVE Good
  <2>1. \E i \in Job : BeginJob(p, i)
    BY <1>2
  <2> QED BY <2>1, QuietSerial
<1>3. ASSUME NEW p \in Proc, ScanLocks(p) PROVE Good
  BY <1>3, ScanLocksSerial
<1>4. ASSUME NEW p \in Proc, ScanRuns(p) PROVE Good
  BY <1>4, ScanRunsSerial
<1>5. ASSUME NEW p \in Proc, ScanActive(p) PROVE Good
  BY <1>5, ScanActiveSerial
<1>6. ASSUME NEW p \in Proc, Repair(p) PROVE Good
  BY <1>6, RepairSerial DEF Serial!Next
<1>7. ASSUME NEW p \in Proc, NEW r \in Run, Acquire(p, r) PROVE Good
  BY <1>7, AcquireSerial DEF Serial!Next
<1>8. ASSUME NEW r \in Run, NEW outcome \in {"success", "error"}, Finish(r, outcome)
      PROVE  Good
  BY <1>8, FinishSerial DEF Serial!Next
<1>9. ASSUME NEW r \in Run, FinishFails(r) PROVE Good
  BY <1>9, LoseSerial DEF Serial!Next
<1>10. ASSUME NEW p \in Proc, Crash(p) PROVE Good
  BY <1>10, CrashSerial DEF Serial!Next
<1>11. ASSUME NEW r \in Run, Heartbeat(r) PROVE Good
  BY <1>11, HeartbeatSerial
<1>12. ASSUME NEW r \in Run, HeartbeatFails(r) PROVE Good
  BY <1>12 DEF HeartbeatFails, TouchWorks
<1>13. ASSUME Tick PROVE Good
  BY <1>13, TickSerial
<1>14. ASSUME UNCHANGED vars PROVE Good
  <2>1. locks' = locks /\ runs' = runs /\ task' = task /\ proc' = proc
    BY <1>14 DEF vars
  <2>2. OpenRuns' = OpenRuns /\ AtWorkRuns' = AtWorkRuns
    BY <2>1 DEF OpenRuns, AtWorkRuns, Working
  <2>3. Settled' /\ Single' /\ Paired'
    BY <2>1, <2>2 DEF SerialInv, Settled, Single, Paired, Live
  <2> QED BY <2>2, <2>3
<1> HIDE DEF Good
<1>15. ASSUME Next PROVE Good
  BY <1>15, <1>1, <1>2, <1>3, <1>4, <1>5, <1>6, <1>7, <1>8, <1>9, <1>10, <1>11, <1>12,
     <1>13, NextCases
<1>16. Good
  BY <1>14, <1>15
<1> QED
  BY <1>16 DEF Good

(***************************************************************************)
(* job_locks and job_runs implement the serial table of runs: no job       *)
(* begins while a run is open (README.md 18), and a cleanup closes only    *)
(* what was lost.                                                          *)
(***************************************************************************)
THEOREM LocksAreSerial ==
    OneWorker /\ TouchWorks /\ HeartbeatInTime => (Spec => ImplementsSerialJobs)
<1> SUFFICES ASSUME OneWorker, TouchWorks, HeartbeatInTime
             PROVE  Spec => ImplementsSerialJobs
  OBVIOUS
<1>1. SerialInv /\ [Next]_vars => SerialInv' /\ [Serial!Next]_<<OpenRuns, AtWorkRuns>>
  BY SerialStep
<1> QED
  BY SerialInit, <1>1, PTL DEF Spec, ImplementsSerialJobs, Serial!Spec

-----------------------------------------------------------------------------
(***************************************************************************)
(* Workers side by side, any number of them on one host, none of which     *)
(* dies with a lock: WEB_CONCURRENCY above 1 and its normal operation.     *)
(* Their cleanups, acquisitions, heartbeats and ends interleave freely.    *)
(* The argument is another one than for a single worker: there a cleanup   *)
(* is safe because no other process is up, here because every lock row     *)
(* belongs to a job at work, so that no cleanup finds anything stale.      *)
(* Each fault left out breaks it: two cleanups that read the locks of a    *)
(* lost job stale delete the lock its successor takes in between, which    *)
(* the run jobs_workers_race shows.                                        *)
(***************************************************************************)
\* No job is lost: only try_begin_job itself may fail.
NothingLost == Faults \subseteq {"begin"}

OneHostOnly == \A p, q \in Proc : HostOf[p] = HostOf[q]

-----------------------------------------------------------------------------
\* Every lock row belongs to a job at work, hence is neither expired nor stale.
Claimed ==
    \A l \in Lock : locks[l].owner # NoProc =>
        \E r \in Run : Working(r) /\ l \in LocksOf(runs[r].job)

\* The rows that say running are those of the jobs at work.
Truthful == \A r \in Run : runs[r].status = "running" => Working(r)

\* No cleanup is about to delete a lock or to close the row of a job at work; what
\* it closes may have finished since it was read.
Harmless ==
    \A p \in Proc : proc[p].stale = {} /\ \A r \in proc[p].repair : ~Working(r)

\* The inductive invariant.
BesideInv == Typed /\ Holding /\ MutualExclusion /\ Claimed /\ Truthful /\ Harmless

\* What a step has to keep besides the types, and what it is to the serial table.
BesideKept ==
    /\ (Holding /\ MutualExclusion /\ Claimed /\ Truthful /\ Harmless)'
    /\ Serial!Next \/ UNCHANGED <<OpenRuns, AtWorkRuns>>

\* There is neither a lock nor a job at first.
LEMMA BesideInit == Init => BesideInv /\ Serial!Init
<1> SUFFICES ASSUME Init PROVE BesideInv /\ Serial!Init
  OBVIOUS
<1>1. \A r \in Run : ~Working(r) /\ runs[r].status # "running"
  BY DEF Init, Gone, Working
<1>2. Holding /\ MutualExclusion /\ Truthful
  BY <1>1 DEF Holding, MutualExclusion, Truthful
<1>3. Claimed /\ Harmless
  BY <1>1 DEF Init, Claimed, NoLock, Harmless, Blank
<1>4. OpenRuns = {} /\ AtWorkRuns = {}
  BY <1>1 DEF OpenRuns, AtWorkRuns
<1> QED
  BY <1>2, <1>3, <1>4, TypedInit DEF BesideInv, Serial!Init

\* A job at work has a worker that is up and two live locks.
LEMMA AtWorkBeside ==
    ASSUME HeartbeatInTime, BesideInv, NEW r \in Run, Working(r)
    PROVE  /\ runs[r].owner \in Proc /\ runs[r].job \in Job
           /\ LocksOf(runs[r].job) \subseteq Lock /\ Pipeline \in LocksOf(runs[r].job)
           /\ runs[r].job \in LocksOf(runs[r].job)
           /\ Started(runs[r].owner) /\ Up(runs[r].owner)
           /\ \A l \in LocksOf(runs[r].job) :
                Live(l) /\ locks[l].left > 0 /\ locks[l].owner = runs[r].owner
<1>1. runs[r].owner \in Proc /\ runs[r].job \in Job
  BY DEF BesideInv, Typed, Named
<1>2. Started(runs[r].owner) /\ Up(runs[r].owner)
  BY DEF BesideInv, Holding, Started
<1>3. LocksOf(runs[r].job) \subseteq Lock
  BY <1>1 DEF LocksOf, Lock
<1>4. ASSUME NEW l \in LocksOf(runs[r].job)
      PROVE  Live(l) /\ locks[l].left > 0 /\ locks[l].owner = runs[r].owner
  <2>1. locks[l].left \in 0..TTL /\ task[r].idle \in Nat
    BY <1>3 DEF BesideInv, Typed, TypeOK, LockState, TaskState
  <2>2. /\ locks[l].left + task[r].idle >= TTL /\ task[r].idle <= Interval + Late
        /\ locks[l].owner = runs[r].owner
    BY DEF BesideInv, Holding
  <2>3. locks[l].left > 0
    BY <2>1, <2>2, IntervalNat, TimeAssumption DEF HeartbeatInTime
  <2> QED
    BY <2>2, <2>3, <1>1, NameAssumption DEF Live
<1> QED
  BY <1>1, <1>2, <1>3, <1>4 DEF LocksOf

\* A step that writes neither table.
LEMMA QuietBeside ==
    ASSUME BesideInv, locks' = locks, runs' = runs, task' = task,
           \A p \in Proc : Started(p) => Started(p)',
           \A p \in Proc : proc'[p].stale = {} /\ \A r \in proc'[p].repair : ~Working(r)
    PROVE  BesideKept
<1>1. \A r \in Run : Working(r)' = Working(r)
  BY DEF Working
<1>2. \A r \in Run : Working(r) => runs[r].owner \in Proc
  BY DEF BesideInv, Typed, Named
<1>3. Holding'
  BY <1>1, <1>2 DEF BesideInv, Holding
<1>4. MutualExclusion' /\ Claimed' /\ Truthful'
  BY <1>1 DEF BesideInv, MutualExclusion, Claimed, Truthful
<1>5. Harmless'
  BY DEF Harmless, Working
<1>6. OpenRuns' = OpenRuns /\ AtWorkRuns' = AtWorkRuns
  BY <1>1 DEF OpenRuns, AtWorkRuns
<1> QED
  BY <1>3, <1>4, <1>5, <1>6 DEF BesideKept

\* A worker that starts, a call that begins and one that ends with nothing done.
LEMMA CallBeside ==
    ASSUME BesideInv, NEW p \in Proc,
           \/ StartWorker(p) \/ Refuse(p) \/ Abort(p)
           \/ \E j \in Job : BeginJob(p, j)
    PROVE  BesideKept
<1>t. proc \in [Proc -> ProcState] /\ NoJob \notin Job
  BY NameAssumption DEF BesideInv, Typed, TypeOK
<1>1. locks' = locks /\ runs' = runs /\ task' = task
  BY DEF StartWorker, Refuse, Abort, BeginJob
<1>2. \A q \in Proc \ {p} : proc'[q] = proc[q]
  BY <1>t DEF StartWorker, Refuse, Abort, BeginJob, At
<1>3. /\ proc'[p].stale \in {{}, proc[p].stale}
      /\ proc'[p].repair \in {{}, proc[p].repair}
      /\ Started(p) => Started(p)'
  <2>1. CASE StartWorker(p)
    BY <2>1, <1>t DEF StartWorker, At, ProcState, Started, Up
  <2>2. CASE Refuse(p)
    BY <2>2, <1>t DEF Refuse, At, ProcState, Started, Up
  <2>3. CASE Abort(p)
    <3>1. /\ proc'[p] = Blank(IF proc[p].job = NoJob THEN "dead" ELSE "idle", NoJob)
          /\ proc[p].pc # "idle"
      BY <2>3, <1>t DEF Abort
    <3> QED
      BY <3>1 DEF Blank, Started, Up
  <2>4. ASSUME NEW j \in Job, BeginJob(p, j)
        PROVE  /\ proc'[p].stale = {} /\ proc'[p].repair = {}
               /\ Started(p) => Started(p)'
    <3>1. proc'[p] = Blank("locks", j)
      BY <2>4, <1>t DEF BeginJob
    <3> QED
      BY <3>1, <1>t DEF Blank, Started, Up
  <2> QED
    BY <2>1, <2>2, <2>3, <2>4
<1>4. \A q \in Proc : Started(q) => Started(q)'
  BY <1>2, <1>3 DEF Started, Up
<1>5. \A q \in Proc : proc'[q].stale = {} /\ \A r \in proc'[q].repair : ~Working(r)
  BY <1>2, <1>3 DEF BesideInv, Harmless
<1> QED
  BY <1>1, <1>4, <1>5, QuietBeside

\* The first SELECT finds nothing stale: each lock is that of a job at work, in
\* a worker that is up, on this host.
LEMMA ScanLocksBeside ==
    ASSUME HeartbeatInTime, OneHostOnly, BesideInv, NEW p \in Proc, ScanLocks(p)
    PROVE  BesideKept
<1>t. proc \in [Proc -> ProcState]
  BY DEF BesideInv, Typed, TypeOK
<1>1. /\ proc[p].pc = "locks" /\ proc'[p].pc = "runs" /\ proc'[p].job = proc[p].job
      /\ proc'[p].repair = proc[p].repair
      /\ proc'[p].stale = {l \in Lock : /\ locks[l].owner # NoProc
                                        /\ \/ locks[l].left = 0
                                           \/ Foreign(p, locks[l].owner)
                                           \/ Orphan(p, locks[l].owner)}
      /\ \A q \in Proc \ {p} : proc'[q] = proc[q]
      /\ task' = task /\ runs' = runs /\ locks' = locks
  BY <1>t DEF ScanLocks, ProcState
<1>2. ASSUME NEW l \in Lock, locks[l].owner # NoProc
      PROVE  /\ locks[l].left # 0 /\ ~Foreign(p, locks[l].owner)
             /\ ~Orphan(p, locks[l].owner)
  <2>1. PICK r \in Run : Working(r) /\ l \in LocksOf(runs[r].job)
    BY <1>2 DEF BesideInv, Claimed
  <2>2. /\ locks[l].owner = runs[r].owner /\ locks[l].left > 0
        /\ runs[r].owner \in Proc /\ Up(runs[r].owner)
    BY <2>1, AtWorkBeside
  <2>3. HostOf[p] = HostOf[runs[r].owner]
    BY <2>2 DEF OneHostOnly
  <2> QED
    BY <2>2, <2>3, Lives DEF Foreign, Orphan
<1>3. proc'[p].stale = {}
  BY <1>1, <1>2
<1>4. \A q \in Proc : Started(q) => Started(q)'
  BY <1>1 DEF Started, Up
<1>5. \A q \in Proc : proc'[q].stale = {} /\ \A r \in proc'[q].repair : ~Working(r)
  BY <1>1, <1>3 DEF BesideInv, Harmless
<1> QED
  BY <1>1, <1>4, <1>5, QuietBeside

LEMMA ScanRunsBeside ==
    ASSUME BesideInv, NEW p \in Proc, ScanRuns(p)
    PROVE  BesideKept
<1>t. proc \in [Proc -> ProcState]
  BY DEF BesideInv, Typed, TypeOK
<1>1. /\ proc[p].pc = "runs" /\ proc'[p].pc = "active" /\ proc'[p].job = proc[p].job
      /\ proc'[p].repair = proc[p].repair /\ proc'[p].stale = proc[p].stale
      /\ \A q \in Proc \ {p} : proc'[q] = proc[q]
      /\ task' = task /\ runs' = runs /\ locks' = locks
  BY <1>t DEF ScanRuns, ProcState
<1>2. \A q \in Proc : Started(q) => Started(q)'
  BY <1>1 DEF Started, Up
<1>3. \A q \in Proc : proc'[q].stale = {} /\ \A r \in proc'[q].repair : ~Working(r)
  BY <1>1 DEF BesideInv, Harmless
<1> QED
  BY <1>1, <1>2, <1>3, QuietBeside

\* The third SELECT leaves the job at work alone, whose lock it sees held; it may
\* decide to close a row that has been finished since the second one.
LEMMA ScanActiveBeside ==
    ASSUME HeartbeatInTime, OneHostOnly, BesideInv, NEW p \in Proc, ScanActive(p)
    PROVE  BesideKept
<1>t. proc \in [Proc -> ProcState]
  BY DEF BesideInv, Typed, TypeOK
<1> DEFINE held(r) == /\ Live(runs[r].job) /\ runs[r].job \notin proc[p].stale
                      /\ SameOwner(locks[runs[r].job].owner, runs[r].owner)
           repair == {r \in proc[p].running : \/ Foreign(p, runs[r].owner)
                                              \/ Orphan(p, runs[r].owner)
                                              \/ ~held(r)}
<1>0. proc' = [proc EXCEPT ![p].pc = IF proc[p].stale = {} /\ repair = {}
                                     THEN AfterCleanup(p) ELSE "repair",
                           ![p].running = {}, ![p].repair = repair]
  BY <1>t DEF ScanActive
<1>1. /\ proc[p].pc = "active" /\ task' = task /\ runs' = runs /\ locks' = locks
      /\ proc'[p].job = proc[p].job /\ proc'[p].stale = proc[p].stale
      /\ proc'[p].repair = repair /\ proc'[p].pc \in {"repair", AfterCleanup(p)}
      /\ \A q \in Proc \ {p} : proc'[q] = proc[q]
  <2> HIDE DEF repair
  <2>1. /\ proc'[p].job = proc[p].job /\ proc'[p].stale = proc[p].stale
        /\ proc'[p].repair = repair /\ proc'[p].pc \in {"repair", AfterCleanup(p)}
        /\ \A q \in Proc \ {p} : proc'[q] = proc[q]
    BY <1>0, <1>t DEF ProcState
  <2> QED
    BY <2>1 DEF ScanActive
<1>2. Started(p) => Started(p)'
  BY <1>1 DEF Started, Up, AfterCleanup
<1>3. ASSUME NEW r \in repair PROVE ~Working(r)
  <2>1. r \in proc[p].running /\ r \in Run /\ proc[p].stale = {}
    BY <1>t DEF ProcState, BesideInv, Harmless
  <2>2. ASSUME Working(r) PROVE FALSE
    <3>1. /\ runs[r].owner \in Proc /\ Up(runs[r].owner) /\ Live(runs[r].job)
          /\ locks[runs[r].job].owner = runs[r].owner
      BY <2>1, <2>2, AtWorkBeside
    <3>2. ~Foreign(p, runs[r].owner) /\ ~Orphan(p, runs[r].owner)
      BY <3>1, Lives DEF OneHostOnly, Foreign, Orphan
    <3>3. SameOwner(locks[runs[r].job].owner, runs[r].owner)
      BY <3>1, Lives
    <3> QED
      BY <2>1, <3>1, <3>2, <3>3
  <2> QED
    BY <2>2
<1> HIDE DEF repair
<1>4. \A q \in Proc : Started(q) => Started(q)'
  BY <1>1, <1>2 DEF Started, Up
<1>5. \A q \in Proc : proc'[q].stale = {} /\ \A r \in proc'[q].repair : ~Working(r)
  BY <1>1, <1>3 DEF BesideInv, Harmless
<1> QED
  BY <1>1, <1>4, <1>5, QuietBeside

\* The repair deletes no lock and closes no open row.
LEMMA RepairBeside ==
    ASSUME BesideInv, NEW p \in Proc, Repair(p)
    PROVE  BesideKept
<1>t. /\ proc \in [Proc -> ProcState] /\ runs \in [Run -> RunState]
      /\ locks \in [Lock -> LockState]
  BY DEF BesideInv, Typed, TypeOK
<1>1. /\ proc[p].pc = "repair" /\ proc'[p].pc = AfterCleanup(p) /\ proc'[p].job = proc[p].job
      /\ proc'[p].repair = {} /\ proc'[p].stale = {}
      /\ \A q \in Proc \ {p} : proc'[q] = proc[q]
      /\ task' = task
  BY <1>t DEF Repair, ProcState
<1>2. locks' = locks
  <2>1. proc[p].stale = {}
    BY DEF BesideInv, Harmless
  <2> QED
    BY <2>1, <1>t DEF Repair
<1>3. \A r \in proc[p].repair : ~Working(r) /\ (r \in Run => runs[r].status # "running")
  BY DEF BesideInv, Harmless, Truthful
<1>4. \A r \in Run : /\ runs'[r].owner = runs[r].owner /\ runs'[r].job = runs[r].job
                     /\ Working(r) => runs'[r] = runs[r]
                     /\ runs'[r].status = "running" <=> runs[r].status = "running"
  BY <1>3, <1>t DEF Repair, RunState
<1>5. \A r \in Run : Working(r)' = Working(r)
  BY <1>1 DEF Working
<1>6. \A q \in Proc : Started(q) => Started(q)'
  BY <1>1 DEF Started, Up, AfterCleanup
<1>7. Holding'
  <2>1. \A r \in Run : Working(r) => runs[r].owner \in Proc
    BY DEF BesideInv, Typed, Named
  <2> QED
    BY <1>1, <1>2, <1>4, <1>5, <1>6, <2>1 DEF BesideInv, Holding
<1>8. MutualExclusion' /\ Truthful'
  BY <1>4, <1>5 DEF BesideInv, MutualExclusion, Truthful
<1>9. Claimed'
  BY <1>2, <1>4, <1>5 DEF BesideInv, Claimed
<1>10. Harmless'
  <2>1. \A q \in Proc : proc[q].repair \subseteq Run
    BY <1>t DEF ProcState
  <2>2. \A q \in Proc : /\ proc'[q].stale = {} /\ proc'[q].repair \subseteq proc[q].repair
                        /\ \A r \in proc[q].repair : ~Working(r)
    BY <1>1 DEF BesideInv, Harmless
  <2> QED
    BY <1>5, <2>1, <2>2 DEF Harmless
<1>11. OpenRuns' = OpenRuns /\ AtWorkRuns' = AtWorkRuns
  BY <1>4, <1>5 DEF OpenRuns, AtWorkRuns
<1> QED
  BY <1>7, <1>8, <1>9, <1>10, <1>11 DEF BesideKept

\* A job that finds the pipeline lock free finds no job at work, hence no open row;
\* the id it takes is in no other worker's list.
LEMMA AcquireBeside ==
    ASSUME HeartbeatInTime, BesideInv, NEW p \in Proc, NEW r \in Run, Acquire(p, r)
    PROVE  BesideKept
<1>t. /\ proc \in [Proc -> ProcState] /\ locks \in [Lock -> LockState]
      /\ runs \in [Run -> RunState] /\ task \in [Run -> TaskState] /\ Named
  BY DEF BesideInv, Typed, TypeOK
<1>1. /\ proc[p].pc = "acquire" /\ proc[p].job \in Job /\ proc'[p].pc = "idle"
      /\ proc'[p].stale = proc[p].stale /\ proc'[p].repair = proc[p].repair
      /\ \A q \in Proc \ {p} : proc'[q] = proc[q]
  BY <1>t DEF Acquire, At, Named, ProcState
<1>2. \A s \in Run : ~Working(s)
  BY AtWorkBeside DEF Acquire, LocksOf
<1>3. /\ runs'[r] = [job |-> proc[p].job, owner |-> p, status |-> "running"]
      /\ task'[r] = [pc |-> "working", idle |-> 0, beating |-> TRUE]
      /\ \A s \in Run \ {r} : runs'[s] = runs[s] /\ task'[s] = task[s]
  BY <1>t DEF Acquire
<1>4. \A s \in Run : Working(s)' <=> s = r
  BY <1>2, <1>3 DEF Working
<1>5. /\ \A l \in LocksOf(proc[p].job) : locks'[l] = [owner |-> p, left |-> TTL]
      /\ \A l \in Lock \ LocksOf(proc[p].job) : locks'[l] = locks[l]
  BY <1>1, <1>t DEF Acquire, LocksOf, Lock
<1>6. Started(p)' /\ 0 <= Interval + Late /\ TTL + 0 >= TTL
  BY <1>1, IntervalNat, TimeAssumption DEF Started, Up
<1>7. Holding'
  BY <1>3, <1>4, <1>5, <1>6 DEF Holding
<1>8. MutualExclusion'
  BY <1>4 DEF MutualExclusion
<1>9. Claimed'
  <2>1. \A l \in Lock : l \notin LocksOf(proc[p].job) => locks'[l].owner = NoProc
    BY <1>2, <1>5 DEF BesideInv, Claimed
  <2> QED
    BY <1>3, <1>4, <2>1 DEF Claimed
<1>10. \A s \in Run : runs[s].status # "running"
  BY <1>2 DEF BesideInv, Truthful
<1>11. Truthful'
  BY <1>3, <1>4, <1>10 DEF Truthful
<1>12. Harmless'
  <2>1. \A q \in Proc : r \notin proc[q].repair
    BY DEF Acquire, Unused
  <2>2. \A q \in Proc : proc'[q].stale = {} /\ proc'[q].repair = proc[q].repair
    BY <1>1 DEF BesideInv, Harmless
  <2>3. \A q \in Proc : proc[q].repair \subseteq Run
    BY <1>t DEF ProcState
  <2> QED
    BY <1>4, <2>1, <2>2, <2>3 DEF Harmless
<1>13. OpenRuns = {} /\ OpenRuns' = {r} /\ AtWorkRuns' = {r}
  BY <1>3, <1>4, <1>10 DEF OpenRuns, AtWorkRuns
<1>14. Serial!Next
  BY <1>13 DEF Serial!Next, Serial!Begin
<1> QED
  BY <1>7, <1>8, <1>9, <1>11, <1>12, <1>14 DEF BesideKept

\* A job that ends was the only one: its run was the only open one, and its locks
\* the only ones.
LEMMA FinishBeside ==
    ASSUME HeartbeatInTime, BesideInv, NEW r \in Run, NEW outcome \in {"success", "error"},
           Finish(r, outcome)
    PROVE  BesideKept
<1>t. /\ proc \in [Proc -> ProcState] /\ locks \in [Lock -> LockState]
      /\ runs \in [Run -> RunState] /\ task \in [Run -> TaskState]
  BY DEF BesideInv, Typed, TypeOK
<1>1. /\ Working(r) /\ proc' = proc /\ task'[r] = Gone
      /\ runs'[r].status = outcome
      /\ \A s \in Run \ {r} : runs'[s] = runs[s] /\ task'[s] = task[s]
  BY <1>t DEF Finish, RunState
<1>2. \A s \in Run : Working(s) => s = r
  BY <1>1 DEF BesideInv, MutualExclusion
<1>3. \A s \in Run : ~Working(s)'
  BY <1>1, <1>2 DEF Working, Gone
<1>4. Holding' /\ MutualExclusion'
  BY <1>3 DEF Holding, MutualExclusion
<1>5. \A s \in Run : runs'[s].status # "running"
  BY <1>1, <1>2 DEF BesideInv, Truthful
<1>6. Claimed'
  <2>1. \A l \in Lock : locks[l].owner # NoProc => l \in LocksOf(runs[r].job)
    BY <1>2 DEF BesideInv, Claimed
  <2>2. \A l \in LocksOf(runs[r].job) : SameOwner(locks[l].owner, runs[r].owner)
    BY <1>1, AtWorkBeside, Lives
  <2>3. \A l \in Lock : locks'[l] \in {locks[l], NoLock}
                        /\ (l \in LocksOf(runs[r].job) => locks'[l] = NoLock)
    BY <2>2, <1>t DEF Finish
  <2>4. \A l \in Lock : locks'[l].owner = NoProc
    BY <2>1, <2>3 DEF NoLock
  <2> QED
    BY <2>4 DEF Claimed
<1>7. Truthful'
  BY <1>5 DEF Truthful
<1>8. Harmless'
  <2>1. \A q \in Proc : proc[q].repair \subseteq Run
    BY <1>t DEF ProcState
  <2> QED
    BY <1>1, <1>3, <2>1 DEF BesideInv, Harmless
<1>9. r \in AtWorkRuns /\ OpenRuns' = {} /\ AtWorkRuns' = {}
  BY <1>1, <1>3, <1>5 DEF OpenRuns, AtWorkRuns
<1>10. Serial!Next
  BY <1>9 DEF Serial!Next, Serial!End
<1> QED
  BY <1>4, <1>6, <1>7, <1>8, <1>10 DEF BesideKept

\* A step of the clock or of a heartbeat: the rows and the processes stay, and so
\* do the owners of the locks.
LEMMA TimedBeside ==
    ASSUME BesideInv, proc' = proc, runs' = runs, Holding',
           \A l \in Lock : locks'[l].owner = locks[l].owner,
           \A s \in Run : task'[s].pc = task[s].pc
    PROVE  BesideKept
<1>1. \A s \in Run : Working(s)' = Working(s)
  BY DEF Working
<1>2. MutualExclusion' /\ Claimed' /\ Truthful'
  BY <1>1 DEF BesideInv, MutualExclusion, Claimed, Truthful
<1>3. Harmless'
  <2>1. \A q \in Proc : proc[q].repair \subseteq Run
    BY DEF BesideInv, Typed, TypeOK, ProcState
  <2> QED
    BY <1>1, <2>1 DEF BesideInv, Harmless
<1>4. OpenRuns' = OpenRuns /\ AtWorkRuns' = AtWorkRuns
  BY <1>1 DEF OpenRuns, AtWorkRuns
<1> QED
  BY <1>2, <1>3, <1>4 DEF BesideKept

\* A heartbeat finds both locks and renews them.
LEMMA HeartbeatBeside ==
    ASSUME HeartbeatInTime, BesideInv, NEW r \in Run, Heartbeat(r)
    PROVE  BesideKept
<1>t. task \in [Run -> TaskState] /\ locks \in [Lock -> LockState]
  BY DEF BesideInv, Typed, TypeOK
<1>1. Working(r) /\ proc' = proc /\ runs' = runs
  BY DEF Heartbeat
<1>2. /\ LocksOf(runs[r].job) \subseteq Lock
      /\ \A l \in LocksOf(runs[r].job) : locks[l].owner = runs[r].owner
      /\ Started(runs[r].owner) /\ runs[r].status = "running"
  BY <1>1, AtWorkBeside DEF BesideInv, Holding
<1>3. {l \in LocksOf(runs[r].job) : SameOwner(locks[l].owner, runs[r].owner)}
        = LocksOf(runs[r].job)
  BY <1>1, <1>2, AtWorkBeside, Lives
<1>4. /\ \A l \in LocksOf(runs[r].job) : locks'[l] = [locks[l] EXCEPT !.left = TTL]
      /\ \A l \in Lock \ LocksOf(runs[r].job) : locks'[l] = locks[l]
      /\ task' = [task EXCEPT ![r].idle = 0, ![r].beating = TRUE]
  BY <1>2, <1>3, <1>t DEF Heartbeat
<1>5. /\ \A l \in LocksOf(runs[r].job) : /\ locks'[l].owner = runs[r].owner
                                         /\ locks'[l].left = TTL
      /\ \A l \in Lock : locks'[l].owner = locks[l].owner
  <2>1. \A l \in Lock : [locks[l] EXCEPT !.left = TTL].owner = locks[l].owner
                        /\ [locks[l] EXCEPT !.left = TTL].left = TTL
    BY <1>t DEF LockState
  <2> QED
    BY <1>2, <1>4, <2>1
<1>6. /\ task'[r].idle = 0 /\ task'[r].beating
      /\ \A s \in Run : task'[s].pc = task[s].pc
      /\ \A s \in Run \ {r} : task'[s] = task[s]
  BY <1>4, <1>t DEF TaskState
<1>7. \A s \in Run : Working(s)' => s = r
  BY <1>1, <1>6 DEF BesideInv, MutualExclusion, Working
<1>8. 0 <= Interval + Late /\ TTL + 0 >= TTL /\ Started(runs[r].owner)'
  BY <1>1, <1>2, IntervalNat, TimeAssumption DEF Started, Up
<1>9. Holding'
  BY <1>1, <1>2, <1>5, <1>6, <1>7, <1>8 DEF Holding
<1> QED
  BY <1>1, <1>5, <1>6, <1>9, TimedBeside

\* A tick takes no more from a lock than it adds to the wait for its heartbeat.
LEMMA TickBeside ==
    ASSUME HeartbeatInTime, BesideInv, Tick
    PROVE  BesideKept
<1>t. task \in [Run -> TaskState] /\ locks \in [Lock -> LockState]
  BY DEF BesideInv, Typed, TypeOK
<1>1. proc' = proc /\ runs' = runs
  BY DEF Tick
<1>2. \A s \in Run : task'[s].pc = task[s].pc
  BY <1>t DEF Tick, TaskState
<1>3. \A l \in Lock : locks'[l].owner = locks[l].owner
  BY <1>t DEF Tick, LockState
<1>4. ASSUME NEW r \in Run, Working(r)
      PROVE  /\ task'[r].beating /\ task'[r].idle <= Interval + Late
             /\ \A l \in LocksOf(runs[r].job) : locks'[l].left + task'[r].idle >= TTL
  <2>1. /\ task[r].beating
        /\ \A l \in LocksOf(runs[r].job) : locks[l].left + task[r].idle >= TTL
    BY <1>4 DEF BesideInv, Holding
  <2>2. /\ task'[r].beating /\ task'[r].idle = task[r].idle + 1
        /\ task[r].idle < Interval + Late /\ task[r].idle \in Nat
    BY <1>4, <2>1, <1>t DEF Tick, TaskState
  <2>3. task'[r].idle <= Interval + Late
    BY <2>2, IntervalNat, TimeAssumption
  <2>4. ASSUME NEW l \in LocksOf(runs[r].job)
        PROVE  locks'[l].left + task'[r].idle >= TTL
    <3>1. l \in Lock /\ locks[l].left > 0 /\ locks[l].left \in Nat
      BY <1>4, <2>4, <1>t, AtWorkBeside, TimeAssumption DEF LockState
    <3>2. locks'[l].left = locks[l].left - 1
      BY <3>1, <1>t DEF Tick, LockState
    <3> QED
      BY <3>1, <3>2, <2>1, <2>2, TimeAssumption
  <2> QED
    BY <2>2, <2>3, <2>4
<1>5. Holding'
  <2>1. \A r \in Run : Working(r)' = Working(r)
    BY <1>2 DEF Working
  <2>2. ASSUME NEW r \in Run, Working(r)
        PROVE  /\ Started(runs[r].owner)' /\ runs'[r].status = "running"
               /\ \A l \in LocksOf(runs[r].job) : locks'[l].owner = runs[r].owner
    <3>1. LocksOf(runs[r].job) \subseteq Lock
      BY <2>2, AtWorkBeside
    <3> QED
      BY <1>1, <1>3, <2>2, <3>1 DEF BesideInv, Holding, Started, Up
  <2> QED
    BY <1>1, <1>4, <2>1, <2>2 DEF Holding
<1> QED
  BY <1>1, <1>2, <1>3, <1>5, TimedBeside

-----------------------------------------------------------------------------
\* Every step keeps the invariant and is a step of the serial table or none of it.
LEMMA BesideStep ==
    ASSUME NothingLost, OneHostOnly, HeartbeatInTime
    PROVE  BesideInv /\ [Next]_vars => BesideInv' /\ [Serial!Next]_<<OpenRuns, AtWorkRuns>>
<1> SUFFICES ASSUME BesideInv, [Next]_vars PROVE BesideKept
  BY TypedStep DEF BesideInv, BesideKept
<1>1. ASSUME NEW p \in Proc, StartWorker(p) \/ Refuse(p) \/ Abort(p) PROVE BesideKept
  BY <1>1, CallBeside
<1>2. ASSUME NEW p \in Proc, NEW j \in Job, BeginJob(p, j) PROVE BesideKept
  <2>1. \E i \in Job : BeginJob(p, i)
    BY <1>2
  <2> QED BY <2>1, CallBeside
<1>3. ASSUME NEW p \in Proc, ScanLocks(p) PROVE BesideKept
  BY <1>3, ScanLocksBeside
<1>4. ASSUME NEW p \in Proc, ScanRuns(p) PROVE BesideKept
  BY <1>4, ScanRunsBeside
<1>5. ASSUME NEW p \in Proc, ScanActive(p) PROVE BesideKept
  BY <1>5, ScanActiveBeside
<1>6. ASSUME NEW p \in Proc, Repair(p) PROVE BesideKept
  BY <1>6, RepairBeside
<1>7. ASSUME NEW p \in Proc, NEW r \in Run, Acquire(p, r) PROVE BesideKept
  BY <1>7, AcquireBeside
<1>8. ASSUME NEW r \in Run, NEW outcome \in {"success", "error"}, Finish(r, outcome)
      PROVE  BesideKept
  BY <1>8, FinishBeside
<1>9. ASSUME NEW r \in Run, Heartbeat(r) PROVE BesideKept
  BY <1>9, HeartbeatBeside
<1>10. ASSUME Tick PROVE BesideKept
  BY <1>10, TickBeside
<1>11. ASSUME UNCHANGED vars PROVE BesideKept
  <2>1. locks' = locks /\ runs' = runs /\ task' = task /\ proc' = proc
    BY <1>11 DEF vars
  <2>2. \A p \in Proc : proc[p].stale = {} /\ \A r \in proc[p].repair : ~Working(r)
    BY DEF BesideInv, Harmless
  <2>3. \A p \in Proc : Started(p) => Started(p)'
    BY <2>1 DEF Started, Up
  <2> QED BY <2>1, <2>2, <2>3, QuietBeside
<1>12. ASSUME NEW r \in Run, FinishFails(r) \/ HeartbeatFails(r) PROVE FALSE
  BY <1>12 DEF NothingLost, FinishFails, HeartbeatFails
<1>13. ASSUME NEW p \in Proc, Crash(p) PROVE FALSE
  BY <1>13 DEF NothingLost, Crash
<1>14. ASSUME Next PROVE BesideKept
  BY <1>14, <1>1, <1>2, <1>3, <1>4, <1>5, <1>6, <1>7, <1>8, <1>9, <1>10, <1>12, <1>13,
     NextCases
<1> QED
  BY <1>11, <1>14

\* The invariant of every behaviour of workers side by side.
LEMMA Beside ==
    ASSUME NothingLost, OneHostOnly, HeartbeatInTime
    PROVE  Spec => [](BesideInv /\ LocksHeld)
<1>1. BesideInv /\ [Next]_vars => BesideInv'
  BY BesideStep
<1>2. BesideInv => LocksHeld
  <2> SUFFICES ASSUME BesideInv, NEW r \in Run, Working(r)
               PROVE  \A l \in LocksOf(runs[r].job) :
                        Live(l) /\ locks[l].owner = runs[r].owner
    BY DEF LocksHeld
  <2> QED
    BY AtWorkBeside
<1> QED
  BY BesideInit, <1>1, <1>2, PTL DEF Spec

(***************************************************************************)
(* Refresh, scrape, sync and bootstrap never overlap between workers that  *)
(* run side by side (README.md 18), however many they are and however      *)
(* their cleanups and acquisitions interleave.                             *)
(***************************************************************************)
THEOREM WorkersExclude ==
    NothingLost /\ OneHostOnly /\ HeartbeatInTime => (Spec => []MutualExclusion)
<1> SUFFICES ASSUME NothingLost, OneHostOnly, HeartbeatInTime
             PROVE  Spec => []MutualExclusion
  OBVIOUS
<1>1. BesideInv => MutualExclusion
  BY DEF BesideInv
<1> QED
  BY Beside, <1>1, PTL

(***************************************************************************)
(* No worker's cleanup takes a lock from the job of another: a job holds   *)
(* both its locks, unexpired, for as long as it works (README.md 34).      *)
(***************************************************************************)
THEOREM WorkersKeepLocks ==
    NothingLost /\ OneHostOnly /\ HeartbeatInTime => (Spec => []LocksHeld)
<1> SUFFICES ASSUME NothingLost, OneHostOnly, HeartbeatInTime
             PROVE  Spec => []LocksHeld
  OBVIOUS
<1> QED
  BY Beside, PTL

(***************************************************************************)
(* With workers side by side, too, job_locks and job_runs implement the    *)
(* serial table of runs (README.md 18, api_server.py 1064-1129): a cleanup *)
(* that closes what another worker has just finished changes an outcome,   *)
(* never which runs are open.                                              *)
(***************************************************************************)
THEOREM WorkersAreSerial ==
    NothingLost /\ OneHostOnly /\ HeartbeatInTime => (Spec => ImplementsSerialJobs)
<1> SUFFICES ASSUME NothingLost, OneHostOnly, HeartbeatInTime
             PROVE  Spec => ImplementsSerialJobs
  OBVIOUS
<1>1. BesideInv /\ [Next]_vars => BesideInv' /\ [Serial!Next]_<<OpenRuns, AtWorkRuns>>
  BY BesideStep
<1> QED
  BY BesideInit, <1>1, PTL DEF Spec, ImplementsSerialJobs, Serial!Spec
=============================================================================
