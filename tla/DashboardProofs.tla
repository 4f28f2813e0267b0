-------------------------- MODULE DashboardProofs --------------------------
(***************************************************************************)
(* How old an answer of the hot cache can be, and what outlives an         *)
(* invalidation, for any number of workers and threads, every time of the  *)
(* cache and of a request, and whatever fails.                             *)
(***************************************************************************)
EXTENDS Dashboard, TLAPS

Request == [pc: {"free", "data", "status", "store", "answer"},
            v: Version, busy: BOOLEAN, age: 0..Slow, raced: BOOLEAN]

LEMMA Bounds ==
    /\ TTL \in Nat /\ Slow \in Nat /\ Limit \in Nat /\ Horizon \in Nat
    /\ Limit = TTL + 2 * Slow /\ Horizon = Limit + 1
    /\ MaxVersion \in Nat /\ 0 \in Version /\ Version \subseteq Nat
    /\ NoEntry \in Entry /\ Free \in Request /\ Idle.at \in Worker
BY DashboardAssumption
DEF Limit, Horizon, Version, NoEntry, Entry, Free, Request, Idle

\* A request that begins has an entry's answer, or nothing yet.
LEMMA AskStep ==
    ASSUME TypeOK, NEW th \in Thread, Ask(th)
    PROVE  \E r \in Request :
              /\ thread' = [thread EXCEPT ![th] = r]
              /\ r.age = 0
              /\ \/ r.pc = "data"
                 \/ /\ r.pc = "answer" /\ cache[PoolOf[th]].some
                    /\ r.v = cache[PoolOf[th]].v
<1> DEFINE e == cache[PoolOf[th]]
<1>1. e \in Entry
    BY DashboardAssumption DEF TypeOK
<1> HIDE DEF e
<1>2. CASE e.some
    <2> DEFINE r == [Free EXCEPT !.pc = "answer", !.v = e.v, !.busy = e.busy]
    <2>1. r \in Request /\ r.age = 0 /\ r.pc = "answer" /\ r.v = e.v
        BY <1>1, Bounds DEF Free, Request, Entry
    <2>2. thread' = [thread EXCEPT ![th] = r]
        BY <1>2 DEF Ask, e
    <2> QED BY <1>2, <2>1, <2>2 DEF e
<1>3. CASE ~e.some
    <2> DEFINE r == [Free EXCEPT !.pc = "data"]
    <2>1. r \in Request /\ r.age = 0 /\ r.pc = "data"
        BY Bounds DEF Free, Request
    <2>2. thread' = [thread EXCEPT ![th] = r]
        BY <1>3 DEF Ask, e
    <2> QED BY <2>1, <2>2
<1> QED BY <1>2, <1>3

LEMMA OlderType ==
    ASSUME NEW e \in Entry
    PROVE  /\ Older(e) \in Entry
           /\ Older(e).some => e.some /\ Older(e).v = e.v /\ Older(e).raced = e.raced
                                      /\ Older(e).left = e.left - 1
BY Bounds DEF Older, Entry, NoEntry

LEMMA TypeInit == Init => TypeOK
<1> SUFFICES ASSUME Init PROVE TypeOK
    OBVIOUS
<1>1. /\ job.pc = "none" /\ job.at \in Worker
      /\ job \in [pc: {"none", "begun", "work", "done", "end", "ended", "orphan"},
                  at: Worker]
    BY Bounds DEF Init, Idle
<1>2. thread \in [Thread -> Request] /\ cache \in [Worker -> Entry]
    BY Bounds DEF Init
<1>3. since \in [Version -> 0..Horizon] /\ data \in Version
    BY Bounds DEF Init
<1>4. page \in [v: Version, busy: BOOLEAN, want: Thread \cup {NoThread}, visible: BOOLEAN]
    BY Bounds DEF Init
<1> QED BY <1>1, <1>2, <1>3, <1>4 DEF TypeOK, Request

\* A job that may still store its listings finds room for them.
Bounded == job.pc \in {"begun", "work"} => data < MaxVersion

JobState == [pc: {"none", "begun", "work", "done", "end", "ended", "orphan"}, at: Worker]

PageState == [v: Version, busy: BOOLEAN, want: Thread \cup {NoThread}, visible: BOOLEAN]

LEMMA TypeStep == TypeOK /\ Bounded /\ [Next]_vars => TypeOK' /\ Bounded'
<1> SUFFICES ASSUME TypeOK, Bounded, [Next]_vars PROVE TypeOK' /\ Bounded'
    OBVIOUS
<1>t. TypeOK' <=>
        /\ data' \in Version /\ since' \in [Version -> 0..Horizon] /\ job' \in JobState
        /\ cache' \in [Worker -> Entry] /\ thread' \in [Thread -> Request]
        /\ page' \in PageState
    BY DEF TypeOK, Request, JobState, PageState
<1>a. /\ data \in Version /\ since \in [Version -> 0..Horizon] /\ job \in JobState
      /\ cache \in [Worker -> Entry] /\ thread \in [Thread -> Request]
      /\ page \in PageState
    BY DEF TypeOK, Request, JobState, PageState
<1>1. ASSUME NEW th \in Thread, Ask(th), UNCHANGED <<data, since, job, cache>>,
             page' = page \/ page' = [page EXCEPT !.visible = TRUE, !.want = th]
                          \/ page' = [page EXCEPT !.want = th]
      PROVE  TypeOK' /\ Bounded'
    <2>1. thread' \in [Thread -> Request]
        BY <1>1, <1>a, AskStep
    <2>2. page' \in PageState
        BY <1>1, <1>a DEF PageState
    <2> QED BY <1>1, <1>a, <1>t, <2>1, <2>2 DEF Bounded
<1>2. ASSUME NEW th \in Thread, ReadData(th) \/ ReadStatus(th) PROVE TypeOK' /\ Bounded'
    <2>1. thread[th] \in Request /\ Busy \in BOOLEAN
        BY <1>a DEF Busy
    <2>2. [thread[th] EXCEPT !.pc = "status", !.v = data] \in Request
        BY <1>a, <2>1 DEF Request
    <2>3. [thread[th] EXCEPT !.pc = "store", !.busy = Busy] \in Request
        BY <2>1 DEF Request
    <2>4. \/ thread' = [thread EXCEPT ![th] = [thread[th] EXCEPT !.pc = "status", !.v = data]]
          \/ thread' = [thread EXCEPT ![th] = [thread[th] EXCEPT !.pc = "store", !.busy = Busy]]
        BY <1>2, <1>a DEF ReadData, ReadStatus
    <2> QED BY <1>2, <1>a, <1>t, <2>2, <2>3, <2>4 DEF ReadData, ReadStatus, Bounded
<1>3. ASSUME NEW th \in Thread, Store(th) PROVE TypeOK' /\ Bounded'
    <2> DEFINE e == [some |-> TRUE, v |-> thread[th].v, busy |-> thread[th].busy,
                     left |-> TTL, raced |-> thread[th].raced]
    <2>1. thread[th] \in Request
        BY <1>a
    <2>2. e \in Entry
        BY <2>1, Bounds DEF Request, Entry
    <2>3. [thread[th] EXCEPT !.pc = "answer", !.raced = FALSE] \in Request
        BY <2>1 DEF Request
    <2>4. thread' = [thread EXCEPT ![th] = [thread[th] EXCEPT !.pc = "answer", !.raced = FALSE]]
        BY <1>3, <1>a DEF Store
    <2> HIDE DEF e
    <2>5. cache' = cache \/ cache' = [cache EXCEPT ![PoolOf[th]] = e]
        BY <1>3 DEF Store, e
    <2>6. cache' \in [Worker -> Entry]
        BY <1>a, <2>2, <2>5
    <2> QED BY <1>3, <1>a, <1>t, <2>3, <2>4, <2>6 DEF Store, Bounded
<1>4. ASSUME NEW th \in Thread, Answer(th) PROVE TypeOK' /\ Bounded'
    <2>1. thread' \in [Thread -> Request]
        BY <1>4, <1>a, Bounds DEF Answer
    <2>2. thread[th].v \in Version /\ thread[th].busy \in BOOLEAN
        BY <1>a DEF Request
    <2>3. page' \in PageState
        BY <1>4, <1>a, <2>2 DEF Answer, PageState
    <2> QED BY <1>4, <1>a, <1>t, <2>1, <2>3 DEF Answer, Bounded
<1>5. CASE RequestFails \/ Hide
    <2>1. page' \in PageState
        BY <1>5, <1>a DEF RequestFails, Hide, PageState
    <2> QED BY <1>5, <1>a, <1>t, <2>1 DEF RequestFails, Hide, Bounded
<1>6. ASSUME NEW w \in Worker, Begin(w) PROVE TypeOK' /\ Bounded'
    BY <1>6, <1>a, <1>t DEF Begin, Bounded, JobState
<1>7. CASE Commit
    <2>1. data' \in Version
        BY <1>7, <1>a, Bounds DEF Commit, Bounded, Version
    <2>2. ASSUME NEW th \in Thread PROVE [thread[th] EXCEPT !.raced = TRUE] \in Request
        BY <1>a DEF Request
    <2>3. thread' \in [Thread -> Request]
        BY <1>7, <1>a, <2>2 DEF Commit
    <2> QED BY <1>7, <1>a, <1>t, <2>1, <2>3 DEF Commit, Bounded, JobState
<1>8. CASE JobFails \/ Finish
    BY <1>8, <1>a, <1>t DEF JobFails, Finish, Bounded, JobState
<1>9. CASE Invalidate
    <2>1. job.pc \in {"begun", "done", "ended"}
        BY <1>9 DEF Invalidate
    <2>2. job' \in JobState /\ (job'.pc = "begun" => FALSE)
                            /\ (job'.pc = "work" => job.pc = "begun")
        BY <1>9, <1>a, <2>1, Bounds DEF Invalidate, AfterInvalidate, JobState, Idle
    <2>3. cache' \in [Worker -> Entry]
        BY <1>9, <1>a, Bounds DEF Invalidate
    <2> QED BY <1>9, <1>a, <1>t, <2>2, <2>3 DEF Invalidate, Bounded
<1>10. ASSUME NEW w \in Worker, Kill(w) PROVE TypeOK' /\ Bounded'
    <2>1. job' \in JobState /\ (job'.pc \in {"begun", "work"} => job' = job)
        BY <1>10, <1>a, Bounds DEF Kill, JobState, Idle
    <2>2. cache' \in [Worker -> Entry]
        BY <1>10, <1>a, Bounds DEF Kill
    <2>3. thread' \in [Thread -> Request]
        BY <1>10, <1>a, Bounds DEF Kill
    <2>4. page' \in PageState
        BY <1>10, <1>a DEF Kill, PageState
    <2> QED BY <1>10, <1>a, <1>t, <2>1, <2>2, <2>3, <2>4 DEF Kill, Bounded
<1>11. CASE Reap
    <2>1. job' \in JobState /\ job'.pc = "none"
        BY <1>11, Bounds DEF Reap, JobState, Idle
    <2>2. cache' \in [Worker -> Entry]
        BY <1>11, <1>a, Bounds DEF Reap
    <2> QED BY <1>11, <1>a, <1>t, <2>1, <2>2 DEF Reap, Bounded
<1>12. CASE Tick
    <2>1. ASSUME NEW th \in Thread, thread[th].pc # "free"
          PROVE  [thread[th] EXCEPT !.age = thread[th].age + 1] \in Request
        BY <1>12, <1>a, <2>1, Bounds DEF Tick, Request
    <2>2. thread' \in [Thread -> Request]
        BY <1>12, <1>a, <2>1 DEF Tick
    <2>3. cache' \in [Worker -> Entry]
        BY <1>12, <1>a, OlderType DEF Tick
    <2>4. since' \in [Version -> 0..Horizon]
        BY <1>12, <1>a, Bounds DEF Tick
    <2> QED BY <1>12, <1>a, <1>t, <2>2, <2>3, <2>4 DEF Tick, Bounded
<1>13. CASE UNCHANGED vars
    BY <1>13, <1>a, <1>t DEF vars, Bounded
<1>14. ASSUME NEW th \in Thread, Visit(th) \/ Return(th) \/ ReturnAgain(th) \/ Poll(th)
       PROVE  TypeOK' /\ Bounded'
    BY <1>1, <1>14 DEF Visit, Return, ReturnAgain, Poll
<1> QED
    BY <1>2, <1>3, <1>4, <1>5, <1>6, <1>7, <1>8, <1>9, <1>10, <1>11, <1>12, <1>13, <1>14
    DEF Next, Calm, Serve, Comeback, JobStep

(***************************************************************************)
(* Every state of the caches, the requests, the job and the page is well   *)
(* typed.                                                                  *)
(***************************************************************************)
THEOREM TypeCorrect == Spec => []TypeOK
<1>1. Init => TypeOK /\ Bounded
    BY TypeInit DEF Init, Idle, Bounded
<1> QED BY <1>1, TypeStep, PTL DEF Spec

-----------------------------------------------------------------------------
\* The age of the listings in an answer: what a request has read itself is no older
\* than the request, what it had from an entry no older than the entry allows.
Current == \A v \in Version : v >= data => since[v] = 0

ReadInTime ==
    \A th \in Thread :
        /\ thread[th].pc \in {"status", "store"} => since[thread[th].v] <= thread[th].age
        /\ thread[th].pc = "answer" =>
              since[thread[th].v] <= TTL + Slow + thread[th].age

KeptInTime ==
    \A w \in Worker :
        cache[w].some => since[cache[w].v] + cache[w].left <= TTL + Slow

\* What was read before a transaction is marked, in the requests always and in the
\* cache of a job's worker from the moment it has been invalidated.
ReadRaced ==
    \A th \in Thread :
        thread[th].pc \in {"status", "store"} =>
            /\ thread[th].v <= data
            /\ thread[th].v < data => thread[th].raced

KeptRaced ==
    job.pc \in {"work", "end", "ended"} /\ cache[job.at].some /\ cache[job.at].v < data
        => cache[job.at].raced

CacheInv == TypeOK /\ Bounded /\ Current /\ ReadInTime /\ KeptInTime /\ ReadRaced /\ KeptRaced

LEMMA Values ==
    ASSUME TypeOK
    PROVE  /\ data \in Nat /\ \A v \in Version : v \in Nat /\ since[v] \in Nat
           /\ \A th \in Thread : /\ thread[th] \in Request /\ thread[th].v \in Version
                                 /\ thread[th].age \in Nat /\ thread[th].age <= Slow
                                 /\ PoolOf[th] \in Worker
           /\ \A w \in Worker : /\ cache[w] \in Entry /\ cache[w].v \in Version
                                /\ cache[w].left \in Nat /\ cache[w].left <= TTL
           /\ job.at \in Worker
BY Bounds, DashboardAssumption DEF TypeOK, Request, Entry

LEMMA CacheInit == Init => CacheInv
<1> SUFFICES ASSUME Init PROVE CacheInv
    OBVIOUS
<1>1. TypeOK
    BY TypeInit
<1>2. \A th \in Thread : thread[th].pc = "free"
    BY DEF Init, Free
<1>3. \A w \in Worker : ~cache[w].some
    BY DEF Init, NoEntry
<1>4. job.pc = "none" /\ Current
    BY DEF Init, Idle, Current
<1> QED BY <1>1, <1>2, <1>3, <1>4
        DEF CacheInv, Bounded, ReadInTime, KeptInTime, ReadRaced, KeptRaced

\* A step that drops entries, and requests, and leaves the rest.
LEMMA DropStep ==
    ASSUME CacheInv, UNCHANGED <<data, since>>,
           \A th \in Thread : thread'[th] = thread[th] \/ thread'[th].pc = "free",
           \A w \in Worker : cache'[w] = cache[w] \/ ~cache'[w].some
    PROVE  Current' /\ ReadInTime' /\ KeptInTime' /\ ReadRaced'
<1>1. Current'
    BY DEF CacheInv, Current
<1>2. ReadInTime' /\ ReadRaced'
    BY DEF CacheInv, ReadInTime, ReadRaced
<1>3. KeptInTime'
    BY DEF CacheInv, KeptInTime
<1> QED BY <1>1, <1>2, <1>3

\* The job's entry is marked, if there is one, as long as the job stays where it is.
LEMMA JobStays ==
    ASSUME CacheInv, UNCHANGED data,
           job'.pc \in {"work", "end", "ended"} =>
                job'.at = job.at /\ job.pc \in {"work", "end", "ended"},
           cache'[job.at] = cache[job.at] \/ ~cache'[job.at].some
    PROVE  KeptRaced'
BY DEF CacheInv, KeptRaced

\* One request's step that leaves the cache.
LEMMA RequestStep ==
    ASSUME CacheInv, UNCHANGED <<data, since, job, cache>>, NEW th \in Thread,
           NEW r \in Request, thread' = [thread EXCEPT ![th] = r],
           r.pc \in {"status", "store"} =>
              /\ since[r.v] <= r.age /\ r.v <= data /\ (r.v < data => r.raced),
           r.pc = "answer" => since[r.v] <= TTL + Slow + r.age
    PROVE  Current' /\ ReadInTime' /\ KeptInTime' /\ ReadRaced' /\ KeptRaced'
<1>1. Current' /\ KeptInTime' /\ KeptRaced'
    BY DEF CacheInv, Current, KeptInTime, KeptRaced
<1>2. \A u \in Thread : thread'[u] = IF u = th THEN r ELSE thread[u]
    BY DEF CacheInv, TypeOK
<1>3. ReadInTime' /\ ReadRaced'
    BY <1>2 DEF CacheInv, ReadInTime, ReadRaced
<1> QED BY <1>1, <1>3

LEMMA AskCurrent ==
    ASSUME CacheInv, UNCHANGED <<data, since, job, cache>>, NEW th \in Thread, Ask(th)
    PROVE  Current' /\ ReadInTime' /\ KeptInTime' /\ ReadRaced' /\ KeptRaced'
<1>1. PICK r \in Request :
          /\ thread' = [thread EXCEPT ![th] = r]
          /\ r.age = 0
          /\ \/ r.pc = "data"
             \/ /\ r.pc = "answer" /\ cache[PoolOf[th]].some
                /\ r.v = cache[PoolOf[th]].v
    BY AskStep DEF CacheInv
<1>2. ASSUME r.pc = "answer" PROVE since[r.v] <= TTL + Slow + r.age
    <2>1. /\ r.v \in Version /\ since[r.v] \in Nat /\ r.age = 0
          /\ cache[PoolOf[th]].some /\ r.v = cache[PoolOf[th]].v
          /\ cache[PoolOf[th]].left \in Nat /\ PoolOf[th] \in Worker
        BY <1>1, <1>2, Values DEF CacheInv
    <2>2. since[r.v] + cache[PoolOf[th]].left <= TTL + Slow
        BY <2>1 DEF CacheInv, KeptInTime
    <2> QED BY <2>1, <2>2, Bounds
<1> QED BY <1>1, <1>2, RequestStep

LEMMA CacheStep == CacheInv /\ [Next]_vars => CacheInv'
<1> SUFFICES ASSUME CacheInv, [Next]_vars
             PROVE  Current' /\ ReadInTime' /\ KeptInTime' /\ ReadRaced' /\ KeptRaced'
    BY TypeStep DEF CacheInv
<1> DEFINE Good == Current /\ ReadInTime /\ KeptInTime /\ ReadRaced /\ KeptRaced
<1>v. /\ data \in Nat /\ \A v \in Version : v \in Nat /\ since[v] \in Nat
      /\ \A th \in Thread : /\ thread[th] \in Request /\ thread[th].v \in Version
                            /\ thread[th].age \in Nat /\ thread[th].age <= Slow
                            /\ PoolOf[th] \in Worker
      /\ \A w \in Worker : /\ cache[w] \in Entry /\ cache[w].v \in Version
                           /\ cache[w].left \in Nat /\ cache[w].left <= TTL
      /\ job.at \in Worker
    BY Values DEF CacheInv
<1>i. Current /\ ReadInTime /\ KeptInTime /\ ReadRaced /\ KeptRaced /\ TypeOK
    BY DEF CacheInv
<1>1. ASSUME NEW th \in Thread, Visit(th) \/ Return(th) \/ ReturnAgain(th) \/ Poll(th)
      PROVE  Good'
    BY <1>1, AskCurrent DEF Visit, Return, ReturnAgain, Poll
<1>2. ASSUME NEW th \in Thread, ReadData(th) PROVE Good'
    <2> DEFINE r == [thread[th] EXCEPT !.pc = "status", !.v = data]
    <2>1. r \in Request /\ r.pc = "status" /\ r.v = data /\ r.age = thread[th].age
        BY <1>v, <1>i DEF Request, TypeOK
    <2>2. thread' = [thread EXCEPT ![th] = r] /\ UNCHANGED <<data, since, job, cache>>
        BY <1>2, <1>i DEF ReadData, TypeOK
    <2>3. since[data] = 0
        BY <1>v, <1>i DEF Current, TypeOK
    <2> HIDE DEF r
    <2>4. since[r.v] <= r.age /\ r.v <= data /\ ~(r.v < data)
        BY <1>v, <2>1, <2>3
    <2> QED BY <2>1, <2>2, <2>4, RequestStep
<1>3. ASSUME NEW th \in Thread, ReadStatus(th) PROVE Good'
    <2> DEFINE r == [thread[th] EXCEPT !.pc = "store", !.busy = Busy]
    <2>1. r \in Request /\ r.pc = "store" /\ r.v = thread[th].v
          /\ r.age = thread[th].age /\ r.raced = thread[th].raced
        <3>1. Busy \in BOOLEAN
            BY DEF Busy
        <3> QED BY <1>v, <3>1 DEF Request
    <2>2. thread' = [thread EXCEPT ![th] = r] /\ UNCHANGED <<data, since, job, cache>>
        BY <1>3, <1>i DEF ReadStatus, TypeOK
    <2>3. thread[th].pc = "status"
        BY <1>3 DEF ReadStatus
    <2> HIDE DEF r
    <2> QED BY <1>i, <2>1, <2>2, <2>3, RequestStep DEF ReadInTime, ReadRaced
<1>4. ASSUME NEW th \in Thread, Store(th) PROVE Good'
    <2> DEFINE e == [some |-> TRUE, v |-> thread[th].v, busy |-> thread[th].busy,
                     left |-> TTL, raced |-> thread[th].raced]
               r == [thread[th] EXCEPT !.pc = "answer", !.raced = FALSE]
    <2>1. /\ thread[th].pc = "store" /\ UNCHANGED <<data, since, job>>
          /\ thread' = [thread EXCEPT ![th] = r]
          /\ cache' = cache \/ cache' = [cache EXCEPT ![PoolOf[th]] = e]
        BY <1>4, <1>i DEF Store, TypeOK
    <2>2. r.pc = "answer" /\ r.v = thread[th].v /\ r.age = thread[th].age
        BY <1>v DEF Request
    <2>3. e.some /\ e.v = thread[th].v /\ e.left = TTL /\ e.raced = thread[th].raced
        OBVIOUS
    <2>4. since[thread[th].v] <= thread[th].age
          /\ (thread[th].v < data => thread[th].raced)
        BY <1>i, <2>1 DEF ReadInTime, ReadRaced
    <2> HIDE DEF e, r
    <2>5. \A u \in Thread : thread'[u] = IF u = th THEN r ELSE thread[u]
        BY <1>i, <2>1 DEF TypeOK
    <2>6. \A w \in Worker : cache'[w] = cache[w] \/ (w = PoolOf[th] /\ cache'[w] = e)
        BY <1>i, <2>1 DEF TypeOK
    <2>7. ReadInTime' /\ ReadRaced'
        <3>0. since[r.v] \in Nat /\ r.age \in Nat /\ since[r.v] <= r.age
            BY <1>v, <2>2, <2>4
        <3>1. since[r.v] <= TTL + Slow + r.age
            BY <3>0, Bounds
        <3> QED BY <1>i, <2>1, <2>2, <2>5, <3>1 DEF ReadInTime, ReadRaced
    <2>8. KeptInTime'
        <3> DEFINE old == since[thread[th].v]
                   age == thread[th].age
        <3>a. old \in Nat /\ age \in Nat /\ age <= Slow /\ old <= age
            BY <1>v, <2>4
        <3> HIDE DEF old, age
        <3>b. old \in Nat /\ old <= Slow
            BY <3>a, Bounds
        <3>0. since[e.v] \in Nat /\ since[e.v] <= Slow
            BY <2>3, <3>b DEF old
        <3>1. since[e.v] + e.left <= TTL + Slow
            BY <3>0, <2>3, Bounds
        <3> QED BY <1>i, <2>1, <2>6, <3>1 DEF KeptInTime
    <2>9. KeptRaced'
        BY <1>i, <1>v, <2>1, <2>3, <2>4, <2>6 DEF KeptRaced
    <2> QED BY <1>i, <2>1, <2>7, <2>8, <2>9 DEF Current
<1>5. ASSUME NEW th \in Thread, Answer(th) PROVE Good'
    <2>1. thread' = [thread EXCEPT ![th] = Free] /\ UNCHANGED <<data, since, job, cache>>
        BY <1>5 DEF Answer
    <2>2. Free \in Request /\ Free.pc = "free"
        BY Bounds DEF Free
    <2> QED BY <2>1, <2>2, RequestStep
<1>6. CASE RequestFails \/ Hide \/ UNCHANGED vars
    <2>1. UNCHANGED <<data, since, job, cache, thread>>
        BY <1>6 DEF RequestFails, Hide, vars
    <2> QED BY <1>i, <2>1 DEF Current, ReadInTime, KeptInTime, ReadRaced, KeptRaced
<1>7. ASSUME NEW w \in Worker, Begin(w) PROVE Good'
    <2>1. UNCHANGED <<data, since, cache, thread>> /\ job'.pc = "begun"
        BY <1>7 DEF Begin
    <2> QED BY <2>1, DropStep DEF KeptRaced
<1>8. CASE Commit
    <2>1. /\ data' = data + 1 /\ UNCHANGED <<since, cache>> /\ job'.pc = "done"
          /\ \A th \in Thread : thread'[th] =
                 IF thread[th].pc \in {"status", "store"}
                 THEN [thread[th] EXCEPT !.raced = TRUE] ELSE thread[th]
        BY <1>8, <1>i DEF Commit, TypeOK
    <2>2. ASSUME NEW th \in Thread
          PROVE  /\ thread'[th].pc = thread[th].pc /\ thread'[th].v = thread[th].v
                 /\ thread'[th].age = thread[th].age
                 /\ thread[th].pc \in {"status", "store"} => thread'[th].raced
        BY <1>v, <2>1 DEF Request
    <2>3. Current'
        BY <1>v, <1>i, <2>1 DEF Current
    <2>4. ReadInTime' /\ KeptInTime'
        BY <1>i, <2>1, <2>2 DEF ReadInTime, KeptInTime
    <2>5. ReadRaced'
        BY <1>v, <1>i, <2>1, <2>2 DEF ReadRaced
    <2> QED BY <2>1, <2>3, <2>4, <2>5 DEF KeptRaced
<1>9. CASE JobFails \/ Finish
    <2>1. /\ UNCHANGED <<data, since, cache, thread>>
          /\ job'.at = job.at /\ job.pc \in {"work", "end"}
        BY <1>9, <1>i DEF JobFails, Finish, TypeOK
    <2> QED BY <2>1, DropStep, JobStays
<1>10. CASE Invalidate
    <2>1. /\ UNCHANGED <<data, since, thread>> /\ cache' = [cache EXCEPT ![job.at] = NoEntry]
          /\ job.pc \in {"begun", "done", "ended"} /\ job' = AfterInvalidate
        BY <1>10 DEF Invalidate
    <2>2. \A w \in Worker : cache'[w] = cache[w] \/ ~cache'[w].some
        BY <1>i, <2>1 DEF TypeOK, NoEntry
    <2>3. ~cache'[job.at].some
        BY <1>i, <1>v, <2>1 DEF TypeOK, NoEntry
    <2>4. job'.pc = "none" \/ job'.at = job.at
        BY <1>i, <2>1 DEF AfterInvalidate, Idle, TypeOK
    <2>5. KeptRaced'
        BY <2>3, <2>4 DEF KeptRaced
    <2> QED BY <2>1, <2>2, <2>5, DropStep
<1>11. ASSUME NEW w \in Worker, Kill(w) PROVE Good'
    <2>1. /\ UNCHANGED <<data, since>> /\ cache' = [cache EXCEPT ![w] = NoEntry]
          /\ \A th \in Thread : thread'[th] = thread[th] \/ thread'[th].pc = "free"
          /\ job' = job \/ job'.pc \in {"none", "orphan"}
        BY <1>11, <1>i DEF Kill, Free, Idle, TypeOK
    <2>2. \A u \in Worker : cache'[u] = cache[u] \/ ~cache'[u].some
        BY <1>i, <2>1 DEF TypeOK, NoEntry
    <2> QED BY <1>v, <2>1, <2>2, DropStep, JobStays
<1>12. CASE Reap
    <2>1. /\ UNCHANGED <<data, since, thread>> /\ job'.pc = "none"
          /\ cache' = cache \/ \E w \in Worker : cache' = [cache EXCEPT ![w] = NoEntry]
        BY <1>12 DEF Reap, Idle
    <2>2. \A u \in Worker : cache'[u] = cache[u] \/ ~cache'[u].some
        BY <1>i, <2>1 DEF TypeOK, NoEntry
    <2> QED BY <2>1, <2>2, DropStep DEF KeptRaced
<1>13. CASE Tick
    <2>1. /\ UNCHANGED <<data, job>>
          /\ \A th \in Thread : thread'[th] = IF thread[th].pc = "free" THEN thread[th]
                  ELSE [thread[th] EXCEPT !.age = thread[th].age + 1]
          /\ \A w \in Worker : cache'[w] = Older(cache[w])
          /\ \A v \in Version : since'[v] = IF v < data /\ since[v] < Horizon
                                            THEN since[v] + 1 ELSE since[v]
        BY <1>13, <1>i DEF Tick, TypeOK
    <2>2. ASSUME NEW th \in Thread
          PROVE  /\ thread'[th].pc = thread[th].pc /\ thread'[th].v = thread[th].v
                 /\ thread'[th].raced = thread[th].raced
                 /\ thread[th].pc # "free" => thread'[th].age = thread[th].age + 1
        BY <1>v, <2>1 DEF Request
    <2>3. \A v \in Version : since'[v] <= since[v] + 1 /\ (v >= data => since'[v] = since[v])
        BY <1>v, <2>1
    <2>4. \A w \in Worker : cache'[w].some =>
              /\ cache[w].some /\ cache'[w].v = cache[w].v
              /\ cache'[w].raced = cache[w].raced /\ cache'[w].left = cache[w].left - 1
        BY <1>v, <2>1, OlderType
    <2>5. Current'
        BY <1>i, <2>1, <2>3 DEF Current
    <2>6. ReadInTime'
        <3> SUFFICES ASSUME NEW th \in Thread, thread[th].pc \in {"status", "store", "answer"}
                     PROVE  /\ thread[th].pc \in {"status", "store"} =>
                                  since'[thread[th].v] <= thread[th].age + 1
                            /\ thread[th].pc = "answer" =>
                                  since'[thread[th].v] <= TTL + Slow + (thread[th].age + 1)
            BY <2>2 DEF ReadInTime
        <3> DEFINE old == since[thread[th].v]
                   new == since'[thread[th].v]
                   age == thread[th].age
        <3>1. old \in Nat /\ age \in Nat /\ new <= old + 1 /\ (new = old \/ new = old + 1)
            BY <1>v, <2>1, <2>3
        <3>2. /\ thread[th].pc \in {"status", "store"} => old <= age
              /\ thread[th].pc = "answer" => old <= TTL + Slow + age
            BY <1>i DEF ReadInTime
        <3> HIDE DEF old, new, age
        <3>3. /\ old <= age => new <= age + 1
              /\ old <= TTL + Slow + age => new <= TTL + Slow + (age + 1)
            BY <3>1, Bounds
        <3> QED BY <3>2, <3>3 DEF old, new, age
    <2>7. KeptInTime'
        <3> SUFFICES ASSUME NEW w \in Worker, cache'[w].some
                     PROVE  since'[cache[w].v] + (cache[w].left - 1) <= TTL + Slow
            BY <2>4 DEF KeptInTime
        <3> DEFINE old == since[cache[w].v]
                   new == since'[cache[w].v]
                   left == cache[w].left
        <3>1. old \in Nat /\ left \in Nat /\ (new = old \/ new = old + 1)
            BY <1>v, <2>1
        <3>2. old + left <= TTL + Slow
            BY <1>i, <2>4 DEF KeptInTime
        <3> HIDE DEF old, new, left
        <3>3. new + (left - 1) <= TTL + Slow
            BY <3>1, <3>2, Bounds
        <3> QED BY <3>3 DEF new, left
    <2>8. ReadRaced'
        BY <1>i, <2>1, <2>2 DEF ReadRaced
    <2>9. KeptRaced'
        BY <1>i, <1>v, <2>1, <2>4 DEF KeptRaced
    <2> QED BY <2>5, <2>6, <2>7, <2>8, <2>9
<1> QED
    BY <1>1, <1>2, <1>3, <1>4, <1>5, <1>6, <1>7, <1>8, <1>9, <1>10, <1>11, <1>12, <1>13
    DEF Next, Calm, Serve, Comeback, JobStep

LEMMA CacheAlways == Spec => []CacheInv
<1> QED BY CacheInit, CacheStep, PTL DEF Spec

(***************************************************************************)
(* No answer holds listings that were replaced longer ago than the cache's *)
(* time and the time of two requests.                                      *)
(***************************************************************************)
THEOREM AnswersAreFresh == Spec => []AnswersFresh
<1>1. ASSUME CacheInv PROVE AnswersFresh
    <2> SUFFICES ASSUME NEW th \in Thread, thread[th].pc = "answer"
                 PROVE  since[thread[th].v] <= Limit
        BY DEF AnswersFresh
    <2> DEFINE old == since[thread[th].v]
               age == thread[th].age
    <2>1. old <= TTL + Slow + age
        BY <1>1 DEF CacheInv, ReadInTime
    <2>2. old \in Nat /\ age \in Nat /\ age <= Slow
        BY <1>1, Values DEF CacheInv
    <2> HIDE DEF old, age
    <2>3. old <= Limit
        BY <2>1, <2>2, Bounds
    <2> QED BY <2>3 DEF old
<1> QED BY <1>1, CacheAlways, PTL

(***************************************************************************)
(* When a job has stored its listings and invalidated its worker's cache,  *)
(* only a request that had read before them has left an older entry there. *)
(***************************************************************************)
THEOREM StaleByRaceAlone == Spec => []StaleOnlyByRace
<1>1. CacheInv => StaleOnlyByRace
    BY DEF CacheInv, KeptRaced, StaleOnlyByRace
<1> QED BY <1>1, CacheAlways, PTL

-----------------------------------------------------------------------------
(***************************************************************************)
(* One worker, the default of gunicorn_conf.py (line 17) on up to three    *)
(* processors.                                                             *)
(***************************************************************************)
OneWorker == \A w, x \in Worker : w = x

\* From the invalidation of a job to the transaction of the next one, and whichever
\* of them died, what is older than the listings was stored by a request that had
\* read before the transaction.
StaleAlwaysByRace ==
    job.pc # "done" =>
        \A w \in Worker : cache[w].some /\ cache[w].v < data => cache[w].raced

\* A step before which the caches are in order, and that keeps or drops entries.
LEMMA KeptInOrder ==
    ASSUME StaleAlwaysByRace, job.pc # "done", data' = data,
           \A w \in Worker : cache'[w] = cache[w] \/ ~cache'[w].some
    PROVE  StaleAlwaysByRace'
BY DEF StaleAlwaysByRace

LEMMA OneWorkerStep ==
    ASSUME OneWorker, CacheInv, StaleAlwaysByRace, [Next]_vars
    PROVE  StaleAlwaysByRace'
<1>v. /\ \A th \in Thread : PoolOf[th] \in Worker
      /\ \A w \in Worker : cache[w] \in Entry
      /\ job.at \in Worker
    BY Values DEF CacheInv
<1>i. TypeOK /\ ReadRaced
    BY DEF CacheInv
<1>1. CASE UNCHANGED <<data, job, cache>>
    BY <1>1 DEF StaleAlwaysByRace
<1>2. ASSUME NEW th \in Thread, Store(th) PROVE StaleAlwaysByRace'
    <2> DEFINE e == [some |-> TRUE, v |-> thread[th].v, busy |-> thread[th].busy,
                     left |-> TTL, raced |-> thread[th].raced]
    <2>1. e.v = thread[th].v /\ e.raced = thread[th].raced
        OBVIOUS
    <2>2. thread[th].v < data => thread[th].raced
        BY <1>2, <1>i DEF Store, ReadRaced
    <2> HIDE DEF e
    <2>3. cache' = cache \/ cache' = [cache EXCEPT ![PoolOf[th]] = e]
        BY <1>2 DEF Store, e
    <2>4. \A w \in Worker : cache'[w] = cache[w] \/ cache'[w] = e
        BY <1>i, <2>3 DEF TypeOK
    <2>5. UNCHANGED <<data, job>>
        BY <1>2 DEF Store
    <2> QED BY <2>1, <2>2, <2>4, <2>5 DEF StaleAlwaysByRace
<1>3. CASE Commit
    BY <1>3, <1>i DEF Commit, StaleAlwaysByRace, TypeOK
<1>4. CASE Invalidate
    <2>1. cache' = [cache EXCEPT ![job.at] = NoEntry]
        BY <1>4 DEF Invalidate
    <2>2. \A w \in Worker : ~cache'[w].some
        BY <1>i, <1>v, <2>1 DEF OneWorker, TypeOK, NoEntry
    <2> QED BY <2>2 DEF StaleAlwaysByRace
<1>5. ASSUME NEW w \in Worker, Kill(w) PROVE StaleAlwaysByRace'
    <2>1. cache' = [cache EXCEPT ![w] = NoEntry]
        BY <1>5 DEF Kill
    <2>2. \A x \in Worker : ~cache'[x].some
        BY <1>i, <2>1 DEF OneWorker, TypeOK, NoEntry
    <2> QED BY <2>2 DEF StaleAlwaysByRace
<1>6. CASE Reap
    <2>1. /\ data' = data /\ job.pc # "done"
          /\ cache' = cache \/ \E w \in Worker : cache' = [cache EXCEPT ![w] = NoEntry]
        BY <1>6 DEF Reap
    <2>2. \A w \in Worker : cache'[w] = cache[w] \/ ~cache'[w].some
        BY <1>i, <2>1 DEF TypeOK, NoEntry
    <2> QED BY <2>1, <2>2, KeptInOrder
<1>7. CASE JobFails \/ Finish \/ \E w \in Worker : Begin(w)
    <2>1. data' = data /\ cache' = cache /\ job.pc # "done"
        BY <1>7 DEF JobFails, Finish, Begin
    <2> QED BY <2>1, KeptInOrder
<1>8. CASE Tick
    <2>1. job.pc # "done" /\ data' = data /\ \A w \in Worker : cache'[w] = Older(cache[w])
        BY <1>8, <1>i DEF Tick, TypeOK
    <2>2. \A w \in Worker : cache'[w].some =>
              cache[w].some /\ cache'[w].v = cache[w].v /\ cache'[w].raced = cache[w].raced
        BY <1>v, <2>1, OlderType
    <2> QED BY <2>1, <2>2 DEF StaleAlwaysByRace
<1>9. ASSUME NEW th \in Thread,
             \/ ReadData(th) \/ ReadStatus(th) \/ Answer(th)
             \/ Visit(th) \/ Return(th) \/ ReturnAgain(th) \/ Poll(th)
      PROVE  StaleAlwaysByRace'
    BY <1>1, <1>9 DEF ReadData, ReadStatus, Answer, Visit, Return, ReturnAgain, Poll
<1>10. CASE RequestFails \/ Hide \/ UNCHANGED vars
    BY <1>1, <1>10 DEF RequestFails, Hide, vars
<1> QED
    BY <1>2, <1>3, <1>4, <1>5, <1>6, <1>7, <1>8, <1>9, <1>10
    DEF Next, Calm, Serve, Comeback, JobStep

(***************************************************************************)
(* With one worker invalidate_hot_caches (api_server.py) is good for every *)
(* job and for a job that was killed: outside the moment between a job's   *)
(* transaction and its invalidation only a request that raced with it can  *)
(* have left an older entry.  With several workers this is false, the      *)
(* other workers' entries go by their time alone (AnswersAreFresh).        *)
(***************************************************************************)
THEOREM OneWorkerInvalidates == OneWorker => (Spec => []StaleAlwaysByRace)
<1> SUFFICES ASSUME OneWorker PROVE Spec => []StaleAlwaysByRace
    OBVIOUS
<1>1. Init => StaleAlwaysByRace
    BY DEF Init, NoEntry, StaleAlwaysByRace
<1>2. CacheInv /\ StaleAlwaysByRace /\ [Next]_vars => StaleAlwaysByRace'
    BY OneWorkerStep
<1> QED BY <1>1, <1>2, CacheAlways, PTL DEF Spec
=============================================================================
