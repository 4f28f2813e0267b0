----------------------------- MODULE Dashboard -----------------------------
(***************************************************************************)
(* How what a job of the GDL Flower Tracker has stored reaches a dashboard *)
(* that is open in a browser: the hot cache each worker process keeps of   *)
(* its answers (TTLCache of api_server.py), its invalidation by jobs, the  *)
(* request threads that fill it, and the page that asks, polls while a job *)
(* runs, hides and returns.                                                *)
(*                                                                         *)
(* Read handlers are plain functions, so they run in a thread pool beside  *)
(* the event loop the jobs run on: one action is one access to the cache   *)
(* or one group of SELECTs.  The jobs exclude each other (JobLocks).       *)
(* Every key of the cache is filled in the same way; the model has the     *)
(* dashboard's, and stands a version number for the listings.              *)
(***************************************************************************)
EXTENDS Naturals, FiniteSets

CONSTANTS
    Worker,       \* worker processes, each with a cache of its own
    Thread,       \* threads of the workers' pools, each a request at a time
    PoolOf,       \* the worker of a thread
    NoThread,
    TTL,          \* CACHE_TTL_SECONDS in ticks; 0 disables the cache
    Slow,         \* ticks a request may take
    MaxVersion,   \* bounds the jobs that change the listings
    Faults        \* the faults that occur: "job", "lost", "kill"

Version == 0..MaxVersion

ASSUME DashboardAssumption ==
    /\ Worker # {} /\ NoThread \notin Thread /\ PoolOf \in [Thread -> Worker]
    /\ TTL \in Nat /\ Slow \in Nat /\ MaxVersion \in Nat
    /\ Faults \subseteq {"job", "lost", "kill"}

VARIABLES
    data,      \* the version of the listings in the database
    since,     \* ticks since a version was replaced, up to Horizon
    job,       \* the job that has the locks, and the worker it runs in
    cache,     \* a worker's entry: version, jobRunning, ticks until it expires
    thread,    \* a request: where it is, its worker, what it has read
    page       \* the page: what it shows, the request it waits for, visibility

vars == <<data, since, job, cache, thread, page>>

-----------------------------------------------------------------------------
\* The oldest answer that is still in order, and one more.
Limit == TTL + 2 * Slow
Horizon == Limit + 1

\* get_active_jobs: a job's lock is there and has not expired.
Busy == job.pc \in {"begun", "work", "done", "end", "orphan"}

NoEntry == [some |-> FALSE, v |-> 0, busy |-> FALSE, left |-> 0, raced |-> FALSE]

Free == [pc |-> "free", v |-> 0, busy |-> FALSE, age |-> 0, raced |-> FALSE]

Idle == [pc |-> "none", at |-> CHOOSE w \in Worker : TRUE]

\* A request reaches a thread, where CACHE.get finds an entry that has not expired
\* or nothing.  What the page asked before goes on unheard.
Ask(th) ==
    LET e == cache[PoolOf[th]] IN
    /\ thread[th].pc = "free"
    /\ thread' = [thread EXCEPT
          ![th] = IF e.some THEN [Free EXCEPT !.pc = "answer", !.v = e.v, !.busy = e.busy]
                            ELSE [Free EXCEPT !.pc = "data"]]

Init ==
    /\ data = 0
    /\ since = [v \in Version |-> 0]
    /\ job = Idle
    /\ cache = [w \in Worker |-> NoEntry]
    /\ thread = [th \in Thread |-> Free]
    /\ page = [v |-> 0, busy |-> FALSE, want |-> NoThread, visible |-> TRUE]

-----------------------------------------------------------------------------
\* get_all_data, the first SELECTs of get_dashboard_payload.
ReadData(th) ==
    /\ thread[th].pc = "data"
    /\ thread' = [thread EXCEPT ![th].pc = "status", ![th].v = data]
    /\ UNCHANGED <<data, since, job, cache, page>>

\* get_status_payload, some SELECTs later.
ReadStatus(th) ==
    /\ thread[th].pc = "status"
    /\ thread' = [thread EXCEPT ![th].pc = "store", ![th].busy = Busy]
    /\ UNCHANGED <<data, since, job, cache, page>>

\* CACHE.set, whatever has been invalidated since the SELECTs.
Store(th) ==
    LET t == thread[th] IN
    /\ t.pc = "store"
    /\ cache' = IF TTL = 0 THEN cache
                ELSE [cache EXCEPT ![PoolOf[th]] = [some |-> TRUE, v |-> t.v, busy |-> t.busy,
                                             left |-> TTL, raced |-> t.raced]]
    /\ thread' = [thread EXCEPT ![th].pc = "answer", ![th].raced = FALSE]
    /\ UNCHANGED <<data, since, job, page>>

\* The answer arrives.  The page shows it if it still waits for it.
Answer(th) ==
    LET t == thread[th] IN
    /\ t.pc = "answer"
    /\ thread' = [thread EXCEPT ![th] = Free]
    /\ page' = IF page.want = th
               THEN [page EXCEPT !.v = t.v, !.busy = t.busy, !.want = NoThread]
               ELSE page
    /\ UNCHANGED <<data, since, job, cache>>

\* The page's request fails, twice: it keeps what it shows.
RequestFails ==
    /\ "lost" \in Faults
    /\ page.want # NoThread
    /\ page' = [page EXCEPT !.want = NoThread]
    /\ UNCHANGED <<data, since, job, cache, thread>>

\* Another visitor asks.
Visit(th) == Ask(th) /\ UNCHANGED <<data, since, job, cache, page>>

Hide ==
    /\ page.visible
    /\ page' = [page EXCEPT !.visible = FALSE]
    /\ UNCHANGED <<data, since, job, cache, thread>>

\* The page is opened, is looked at again (handleVisibility), comes online or has
\* the answer to a job it has posted (onSuccess): it asks.
Return(th) ==
    /\ page.want = NoThread
    /\ Ask(th)
    /\ page' = [page EXCEPT !.visible = TRUE, !.want = th]
    /\ UNCHANGED <<data, since, job, cache>>

\* The same while it waits: the request in flight is given up.
ReturnAgain(th) ==
    /\ page.want # NoThread
    /\ Ask(th)
    /\ page' = [page EXCEPT !.visible = TRUE, !.want = th]
    /\ UNCHANGED <<data, since, job, cache>>

\* refetchInterval: while the last answer says that a job runs, and the page is
\* visible.
Poll(th) ==
    /\ page.busy /\ page.visible /\ page.want = NoThread
    /\ Ask(th)
    /\ page' = [page EXCEPT !.want = th]
    /\ UNCHANGED <<data, since, job, cache>>

-----------------------------------------------------------------------------
\* try_begin_job, for a request or the scheduler.
Begin(w) ==
    /\ job.pc = "none" /\ data < MaxVersion
    /\ job' = [pc |-> "begun", at |-> w]
    /\ UNCHANGED <<data, since, cache, thread, page>>

\* refresh_data, scrape_menus: the transaction.  Threads that have read the
\* listings already hold the version before.
Commit ==
    /\ job.pc = "work"
    /\ data' = data + 1
    /\ job' = [job EXCEPT !.pc = "done"]
    /\ thread' = [th \in Thread |->
                    IF thread[th].pc \in {"status", "store"}
                    THEN [thread[th] EXCEPT !.raced = TRUE] ELSE thread[th]]
    /\ UNCHANGED <<since, cache, page>>

\* The job raises before its transaction, or has nothing to store.
JobFails ==
    /\ "job" \in Faults
    /\ job.pc = "work"
    /\ job' = [job EXCEPT !.pc = "end"]
    /\ UNCHANGED <<data, since, cache, thread, page>>

\* finish_job: the locks are released.
Finish ==
    /\ job.pc = "end"
    /\ job' = [job EXCEPT !.pc = "ended"]
    /\ UNCHANGED <<data, since, cache, thread, page>>

AfterInvalidate ==
    CASE job.pc = "begun" -> [job EXCEPT !.pc = "work"]
      [] job.pc = "done"  -> [job EXCEPT !.pc = "end"]
      [] job.pc = "ended" -> Idle

\* Fault: the cache of the job's worker is kept.
InvalidateNothing ==
    /\ job.pc \in {"begun", "done", "ended"}
    /\ job' = AfterInvalidate
    /\ UNCHANGED <<data, since, cache, thread, page>>

\* invalidate_hot_caches, in the job's own worker, after each of its three
\* transactions.
Invalidate ==
    /\ job.pc \in {"begun", "done", "ended"}
    /\ cache' = [cache EXCEPT ![job.at] = NoEntry]
    /\ job' = AfterInvalidate
    /\ UNCHANGED <<data, since, thread, page>>

\* A worker dies and another takes its place: its cache, its requests and its job
\* are gone, the job's locks are not.
Kill(w) ==
    LET mine == {th \in Thread : PoolOf[th] = w} IN
    /\ "kill" \in Faults
    /\ cache' = [cache EXCEPT ![w] = NoEntry]
    /\ thread' = [th \in Thread |-> IF th \in mine THEN Free ELSE thread[th]]
    /\ job' = IF job.pc = "none" \/ job.at # w THEN job
              ELSE IF job.pc = "ended" THEN Idle ELSE [job EXCEPT !.pc = "orphan"]
    /\ page' = [page EXCEPT !.want = IF @ \in mine THEN NoThread ELSE @]
    /\ UNCHANGED <<data, since>>

\* cleanup_stale_jobs of a worker, or the end of the lock's own time: only that
\* worker's cache is invalidated, if any.
Reap ==
    /\ job.pc = "orphan"
    /\ job' = Idle
    /\ \/ UNCHANGED cache
       \/ \E w \in Worker : cache' = [cache EXCEPT ![w] = NoEntry]
    /\ UNCHANGED <<data, since, thread, page>>

\* Fault: an entry is kept until it is invalidated.
KeptForGood(e) == IF e.left = 0 THEN e ELSE [e EXCEPT !.left = e.left - 1]

\* Fault: the last tick of an entry is not its end.
PastTheEnd(e) == IF ~e.some THEN NoEntry ELSE [e EXCEPT !.left = e.left - 1]

\* An entry is good up to its last tick.
Older(e) == IF ~e.some \/ e.left = 0 THEN NoEntry ELSE [e EXCEPT !.left = e.left - 1]

\* A tick of the clock.
Tick ==
    /\ \A th \in Thread : thread[th].pc # "free" => thread[th].age < Slow
    /\ job.pc \in {"none", "work", "orphan"}
    /\ thread' = [th \in Thread |-> IF thread[th].pc = "free" THEN thread[th]
                                    ELSE [thread[th] EXCEPT !.age = thread[th].age + 1]]
    /\ cache' = [w \in Worker |-> Older(cache[w])]
    /\ since' = [v \in Version |-> IF v < data /\ since[v] < Horizon
                                   THEN since[v] + 1 ELSE since[v]]
    /\ UNCHANGED <<data, job, page>>

-----------------------------------------------------------------------------
\* What threads and the job do once they are under way.
Serve(th) == ReadData(th) \/ ReadStatus(th) \/ Store(th) \/ Answer(th)

JobStep == Invalidate \/ Commit \/ Finish \/ Reap

Comeback == \E th \in Thread : Return(th)

Calm ==
    \/ \E th \in Thread : Serve(th)
    \/ \E th \in Thread : Poll(th) \/ Visit(th)
    \/ Comeback \/ Hide \/ JobStep \/ Tick

Next ==
    \/ Calm \/ RequestFails \/ JobFails
    \/ \E w \in Worker : Begin(w) \/ Kill(w)
    \/ \E th \in Thread : ReturnAgain(th)

Spec == Init /\ [][Next]_vars

\* Threads and event loops run, timers fire, time passes.  That the user comes
\* back is assumed where it is needed.
LiveSpec ==
    /\ Spec
    /\ \A th \in Thread : WF_vars(Serve(th))
    /\ WF_vars(JobStep) /\ SF_vars(Tick)
    /\ SF_vars(\E th \in Thread : Poll(th))

-----------------------------------------------------------------------------
Entry == [some: BOOLEAN, v: Version, busy: BOOLEAN, left: 0..TTL, raced: BOOLEAN]

TypeOK ==
    /\ data \in Version
    /\ since \in [Version -> 0..Horizon]
    /\ job \in [pc: {"none", "begun", "work", "done", "end", "ended", "orphan"},
                at: Worker]
    /\ cache \in [Worker -> Entry]
    /\ thread \in [Thread -> [pc: {"free", "data", "status", "store", "answer"},
                              v: Version, busy: BOOLEAN, age: 0..Slow, raced: BOOLEAN]]
    /\ page \in [v: Version, busy: BOOLEAN, want: Thread \cup {NoThread},
                 visible: BOOLEAN]

(***************************************************************************)
(* No answer is older than the cache's time and the time of two requests,  *)
(* the one that filled the entry and the one it answers: invalidation      *)
(* cannot be relied on, a request may store what it read before (README    *)
(* 21, TTL caching for hot endpoints).                                     *)
(***************************************************************************)
AnswersFresh == \A th \in Thread : thread[th].pc = "answer" => since[thread[th].v] <= Limit

(***************************************************************************)
(* In the worker the job ran in, an entry outlives the job's transaction   *)
(* only if a request was between its SELECTs and its store: all else has   *)
(* been invalidated before the job's locks are released.                   *)
(***************************************************************************)
StaleOnlyByRace ==
    job.pc \in {"end", "ended"} =>
        \A w \in Worker : w = job.at /\ cache[w].some /\ cache[w].v < data => cache[w].raced

(***************************************************************************)
(* However answers of two workers and of raced entries alternate, a        *)
(* dashboard whose user keeps coming back settles on the latest listings   *)
(* once no job begins any more (README 52: "active jobs still refresh      *)
(* correctly when you return").                                            *)
(***************************************************************************)
SettlesFresh ==
    <>[][Calm]_vars /\ []<><<Comeback>>_vars => <>[](page.v = data /\ ~page.busy)

(***************************************************************************)
(* A visible dashboard that has shown a running job learns of its end      *)
(* without the user: the poll goes on until an answer says so, though the  *)
(* cache and another worker may repeat the old one.                        *)
(***************************************************************************)
PollingEnds ==
    <>[][Calm]_vars /\ <>[]page.visible => <>[](~page.busy)
=============================================================================
