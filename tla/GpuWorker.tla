------------------------------ MODULE GpuWorker ------------------------------
(***************************************************************************)
(* Scoring on the GPU worker of the DMB Almanac: the worker runtime and    *)
(* its requests in dmb_wasm/src/webgpu.rs, static/webgpu-worker.js on the  *)
(* other side of the message ports, and the decisions of dmb_app/src/ai.rs *)
(* when to send the matrix again and when to give the worker up.           *)
(*                                                                         *)
(* A call is one future that scores a query against a matrix: a search,    *)
(* the warm-up or the benchmark.  The worker keeps one matrix, whoever     *)
(* sent it, and scores every query against that.  An action is one task of *)
(* the page or of the worker with the continuations it resumes; only a     *)
(* cleared runtime rejects several calls at once, and their continuations  *)
(* then run in any order before the next task (Storm).  Request ids are    *)
(* never used twice while pending, so a call stands for its request.       *)
(***************************************************************************)
EXTENDS Naturals, Sequences, FiniteSets

CONSTANTS
    Call,         \* scoring calls in flight at a time
    Search,       \* matrices searched: the whole index, candidate subsets
    Background,   \* matrices of the warm-up and the benchmark
    NoMatrix,
    SigOf         \* WebgpuMatrixJsSignature of a searched matrix

Matrix == Search \cup Background

ASSUME MatrixAssumption == NoMatrix \notin Matrix

ASSUME SignatureAssumption == \A m \in Search : SigOf[m] # NoMatrix

VARIABLES
    rt,      \* WEBGPU_WORKER_RUNTIME, with its worker and message queues
    sig,     \* WEBGPU_WORKER_MATRIX_SIGNATURE
    cool,    \* the failure cooldown in local storage has not run out
    call     \* call[c]: where call c is suspended

vars == <<rt, sig, cool, call>>

-----------------------------------------------------------------------------
\* No runtime: nothing queued, nothing known of a matrix.
Dead == [up |-> FALSE, ready |-> FALSE, inbox |-> << >>, mat |-> NoMatrix,
         busy |-> {}, out |-> << >>]

Idle == [pc |-> "idle", m |-> NoMatrix, again |-> FALSE, got |-> NoMatrix]

IsSearch(c) == call[c].m \in Search

Waiting(c) == call[c].pc \in {"init", "scores"}

\* Continuations of rejected requests still have to run.
Storm == \E c \in Call : call[c].pc = "rejected"

\* Fault: the runtime is believed to hold whatever the signature says.
TrustSignature(r, required) == required

\* worker_request_requires_init.
NeedsInit(r, required) == required \/ ~r.ready

\* A matrix or a query, the two payloads the worker tells apart.
Payload(c, what, m) == [call |-> c, what |-> what, m |-> m]

\* run_worker_request, in the runtime r or in a new one if there is none.
Post(r, c, what, m) ==
    [r EXCEPT !.up = TRUE, !.inbox = Append(r.inbox, Payload(c, what, m))]

\* webgpu_scores_worker_loaded_with_init up to its first await.
Request(r, c, m, required) ==
    Post(r, c, IF NeedsInit(r, required) THEN "init" ELSE "scores", m)

\* The record of call c once that request is posted; again: it may be retried.
Requested(r, m, required, again) ==
    [pc |-> IF NeedsInit(r, required) THEN "init" ELSE "scores", m |-> m,
     again |-> again, got |-> NoMatrix]

\* Fault: a cleared runtime leaves its pending requests to their timers.
KeepOthers(c, k) == [call EXCEPT ![c] = k]

\* Call c becomes k, and all others that wait are rejected: what clearing the
\* runtime, reject_all_worker_pending, does to the calls.
RejectOthers(c, k) ==
    [d \in Call |-> IF d = c THEN k
                    ELSE IF Waiting(d) THEN [call[d] EXCEPT !.pc = "rejected"]
                    ELSE call[d]]

\* The same when the runtime left is r, and none is rejected if r is still up.
Cleared(r, c, k) == IF r.up THEN [call EXCEPT ![c] = k] ELSE RejectOthers(c, k)

Rejected == [d \in Call |-> IF Waiting(d) THEN [call[d] EXCEPT !.pc = "rejected"]
                            ELSE call[d]]

-----------------------------------------------------------------------------
Init ==
    /\ rt = Dead
    /\ sig = NoMatrix
    /\ cool \in BOOLEAN
    /\ call = [c \in Call |-> Idle]

\* webgpu_scores_with_policy, webgpu_scores_subset_with_policy: the worker is
\* asked unless it cools down; then the scores are computed directly.
BeginSearch(c, m) ==
    /\ ~Storm /\ call[c].pc = "idle"
    /\ LET required == sig # SigOf[m]
       IN IF cool
          THEN /\ call' = [call EXCEPT ![c] = [Idle EXCEPT !.pc = "direct", !.m = m]]
               /\ UNCHANGED rt
          ELSE /\ rt' = Request(rt, c, m, required)
               /\ call' = [call EXCEPT ![c] = Requested(rt, m, required, ~required)]
    /\ UNCHANGED <<sig, cool>>

\* Fault: the matrix of the benchmark is recorded as if it were searched.
BackgroundRecorded(c, m) ==
    /\ ~Storm /\ call[c].pc = "idle"
    /\ rt' = Request(rt, c, m, TRUE)
    /\ call' = [call EXCEPT ![c] = Requested(rt, m, TRUE, FALSE)]
    /\ sig' = m
    /\ UNCHANGED cool

\* warm_webgpu_worker and benchmark_worker_threshold: the matrix is always sent,
\* cooldown or not, and the signature is left alone.
BeginBackground(c, m) ==
    /\ ~Storm /\ call[c].pc = "idle"
    /\ rt' = Request(rt, c, m, TRUE)
    /\ call' = [call EXCEPT ![c] = Requested(rt, m, TRUE, FALSE)]
    /\ UNCHANGED <<sig, cool>>

\* Fault: a retry may be retried.
RetryAgain(c, k, r) ==
    /\ k.m \in Search /\ k.again
    /\ rt' = Request(r, c, k.m, TRUE)
    /\ call' = Cleared(r, c, Requested(r, k.m, TRUE, TRUE))
    /\ sig' = NoMatrix
    /\ UNCHANGED cool

\* What call c with the locals k does when run_worker_request gave it nothing and
\* left the runtime r: a search that skipped the init is retried with it, once.
Retry(c, k, r) ==
    /\ k.m \in Search /\ k.again
    /\ rt' = Request(r, c, k.m, TRUE)
    /\ call' = Cleared(r, c, Requested(r, k.m, TRUE, FALSE))
    /\ sig' = NoMatrix
    /\ UNCHANGED cool

\* A search not to be retried, or whose retry cannot be sent, gives the worker up
\* and scores directly: mark_worker_runtime_failure.
GiveUp(c, k) ==
    /\ k.m \in Search
    /\ rt' = Dead
    /\ call' = RejectOthers(c, [k EXCEPT !.pc = "direct"])
    /\ sig' = NoMatrix
    /\ cool' = TRUE

Forget(c, k, r) ==
    /\ k.m \notin Search
    /\ rt' = r
    /\ call' = Cleared(r, c, [k EXCEPT !.pc = "done"])
    /\ UNCHANGED <<sig, cool>>

Lost(c, k, r) == Retry(c, k, r) \/ GiveUp(c, k) \/ Forget(c, k, r)

\* The request cannot be sent, or no worker be created.
BeginUnsent(c, m) ==
    /\ ~Storm /\ call[c].pc = "idle"
    /\ m \in Search => ~cool
    /\ Lost(c, [Idle EXCEPT !.m = m, !.again = (m \in Search /\ sig = SigOf[m])], Dead)

\* The worker takes the next message: a matrix replaces the one it has, a query
\* is scored against the matrix it has now.
WorkerTakes ==
    /\ ~Storm /\ rt.inbox # << >>
    /\ LET msg == Head(rt.inbox)
       IN IF msg.what = "init"
          THEN rt' = [rt EXCEPT !.inbox = Tail(rt.inbox), !.mat = msg.m,
                                !.out = Append(rt.out, [call |-> msg.call,
                                                        ok |-> TRUE, got |-> NoMatrix])]
          ELSE rt' = [rt EXCEPT !.inbox = Tail(rt.inbox),
                                !.busy = rt.busy \cup {[call |-> msg.call, got |-> rt.mat]}]
    /\ UNCHANGED <<sig, cool, call>>

\* postScores ends, with scores or, without a device, with none; a query may
\* overtake another, and one whose device hangs or throws never ends.
WorkerScores(b, ok) ==
    /\ ~Storm
    /\ rt' = [rt EXCEPT !.busy = rt.busy \ {b},
                        !.out = Append(rt.out, [call |-> b.call, ok |-> ok, got |-> b.got])]
    /\ UNCHANGED <<sig, cool, call>>

\* The answer to an init request: the query follows in the same runtime.
InitAnswered(c) ==
    /\ ~Storm /\ rt.out # << >> /\ Head(rt.out).call = c /\ call[c].pc = "init"
    /\ rt' = Post([rt EXCEPT !.ready = TRUE, !.out = Tail(rt.out)], c, "scores", call[c].m)
    /\ call' = [call EXCEPT ![c].pc = "scores"]
    /\ UNCHANGED <<sig, cool>>

\* Scores arrive: a search records its signature and ends any cooldown.
ScoresAnswered(c) ==
    /\ ~Storm /\ rt.out # << >> /\ Head(rt.out).call = c /\ call[c].pc = "scores"
    /\ Head(rt.out).ok
    /\ rt' = [rt EXCEPT !.out = Tail(rt.out)]
    /\ call' = [call EXCEPT ![c].pc = "done", ![c].got = Head(rt.out).got]
    /\ sig' = IF IsSearch(c) THEN SigOf[call[c].m] ELSE sig
    /\ cool' = (cool /\ ~IsSearch(c))

\* The answer to an init request, but the query cannot be sent.
QueryUnsent(c) ==
    /\ ~Storm /\ rt.out # << >> /\ Head(rt.out).call = c /\ call[c].pc = "init"
    /\ Lost(c, call[c], Dead)

\* An empty answer leaves the runtime alone.
NothingAnswered(c) ==
    /\ ~Storm /\ rt.out # << >> /\ Head(rt.out).call = c /\ call[c].pc = "scores"
    /\ ~Head(rt.out).ok
    /\ Lost(c, call[c], [rt EXCEPT !.out = Tail(rt.out)])

\* The continuation of a rejected request clears the runtime there is, also one
\* that another continuation has just created.
Resume(c) == call[c].pc = "rejected" /\ Lost(c, call[c], Dead)

\* Fault: the timer is set for init requests only.
TimeoutOfInit(c) ==
    /\ ~Storm /\ call[c].pc = "init"
    /\ call' = [call EXCEPT ![c].pc = "rejected"]
    /\ UNCHANGED <<rt, sig, cool>>

\* dmb_promise_with_timeout rejects a request after eight seconds.
Timeout(c) ==
    /\ ~Storm /\ Waiting(c)
    /\ call' = [call EXCEPT ![c].pc = "rejected"]
    /\ UNCHANGED <<rt, sig, cool>>

\* An error event of the worker clears the runtime.
WorkerError ==
    /\ ~Storm /\ rt.up
    /\ rt' = Dead
    /\ call' = Rejected
    /\ UNCHANGED <<sig, cool>>

\* set_webgpu_disabled(true): a search that read its capabilities before may
\* still begin afterwards.
Disable ==
    /\ ~Storm
    /\ rt' = Dead
    /\ sig' = NoMatrix
    /\ call' = Rejected
    /\ UNCHANGED cool

\* The cooldown runs out, or the user clears it.
CooldownEnds ==
    /\ ~Storm /\ cool
    /\ cool' = FALSE
    /\ UNCHANGED <<rt, sig, call>>

\* The direct kernel, or the processor in its place, scores the caller's matrix.
DirectEnds(c) ==
    /\ ~Storm /\ call[c].pc = "direct"
    /\ call' = [call EXCEPT ![c].pc = "done", ![c].got = call[c].m]
    /\ UNCHANGED <<rt, sig, cool>>

\* The caller takes its result.
Return(c) ==
    /\ ~Storm /\ call[c].pc = "done"
    /\ call' = [call EXCEPT ![c] = Idle]
    /\ UNCHANGED <<rt, sig, cool>>

-----------------------------------------------------------------------------
Answer(c) == InitAnswered(c) \/ QueryUnsent(c) \/ ScoresAnswered(c) \/ NothingAnswered(c)

Next ==
    \/ \E c \in Call : \/ \E m \in Search : BeginSearch(c, m)
                       \/ \E m \in Background : BeginBackground(c, m)
                       \/ \E m \in Matrix : BeginUnsent(c, m)
                       \/ Answer(c) \/ Resume(c) \/ Timeout(c)
                       \/ DirectEnds(c) \/ Return(c)
    \/ \E b \in rt.busy, ok \in BOOLEAN : WorkerScores(b, ok)
    \/ WorkerTakes \/ WorkerError \/ Disable \/ CooldownEnds

Spec == Init /\ [][Next]_vars

\* Timers fire and the microtask queue is drained; the direct kernel's answer is a
\* task that gets its turn between any number of storms.  Nothing is assumed of
\* the worker: it may hang.
LiveSpec ==
    /\ Spec
    /\ \A c \in Call : WF_vars(Timeout(c)) /\ WF_vars(Resume(c)) /\ SF_vars(DirectEnds(c))

-----------------------------------------------------------------------------
Message == [call: Call, what: {"init", "scores"}, m: Matrix]

Reply == [call: Call, ok: BOOLEAN, got: Matrix \cup {NoMatrix}]

CallState == [pc: {"idle", "init", "scores", "rejected", "direct", "done"},
              m: Matrix \cup {NoMatrix}, again: BOOLEAN, got: Matrix \cup {NoMatrix}]

Runtime == [up: BOOLEAN, ready: BOOLEAN, inbox: Seq(Message),
            mat: Matrix \cup {NoMatrix},
            busy: SUBSET [call: Call, got: Matrix \cup {NoMatrix}], out: Seq(Reply)]

Signature == {SigOf[m] : m \in Search}

TypeOK ==
    /\ rt \in Runtime
    /\ sig \in Signature \cup {NoMatrix}
    /\ cool \in BOOLEAN
    /\ call \in [Call -> CallState]

(***************************************************************************)
(* No query reaches a worker that has no matrix, although the signature    *)
(* that lets a search skip the matrix is kept in ai.rs and outlives        *)
(* workers that webgpu.rs replaces: GPU_REFERENCE.md 23, init liveness is  *)
(* tracked in Rust and the worker has no branch for it.                    *)
(***************************************************************************)
NeverCold == \A b \in rt.busy : b.got # NoMatrix

(***************************************************************************)
(* A search that ends has the scores of its own matrix (README.md 66: init *)
(* keys avoid stale matrix reuse).                                         *)
(***************************************************************************)
ScoresMatch == \A c \in Call : call[c].pc = "done" /\ IsSearch(c) => call[c].got = call[c].m

(***************************************************************************)
(* No call is left waiting for a terminated worker, and one that waits for *)
(* scores waits for a worker that was given a matrix, however often calls  *)
(* clear each other's runtimes (clear_worker_runtime_with_reason).         *)
(***************************************************************************)
WaitsForThisWorker ==
    \A c \in Call : Waiting(c) =>
        /\ rt.up
        /\ call[c].pc = "scores" => rt.ready

\* How far a call is from its end; a retry it may still make counts.
Stage == [init |-> 5, scores |-> 4, rejected |-> 3, direct |-> 2, done |-> 1, idle |-> 0]

Distance(k) == Stage[k.pc] + IF k.again THEN 3 ELSE 0

(***************************************************************************)
(* No step sets a call back, neither its own nor another call's that       *)
(* clears the runtime under it: whatever calls do to each other, each has  *)
(* at most eight steps to its end (ai.rs 2084-2107: one retry, then the    *)
(* direct path).                                                           *)
(***************************************************************************)
CallsAdvance ==
    [][\A c \in Call : call[c].pc # "idle" =>
            call'[c] = call[c] \/ Distance(call'[c]) < Distance(call[c])]_vars

(***************************************************************************)
(* Every call ends, whatever the worker does, and however calls clear each *)
(* other's runtimes: timeouts and the single retry see to it.              *)
(***************************************************************************)
EveryCallEnds ==
    \A c \in Call : (Waiting(c) \/ call[c].pc = "direct") ~> (call[c].pc = "done")
=============================================================================
