-------------------------- MODULE GpuWorkerProofs --------------------------
(***************************************************************************)
(* Theorems about GpuWorker, for any calls, matrices and signatures: type  *)
(* correctness, that no query reaches a worker without a matrix, that no   *)
(* call waits for a terminated worker, and that no step sets a call back.  *)
(***************************************************************************)
EXTENDS GpuWorker, TLAPS

-----------------------------------------------------------------------------
\* A runtime whose worker, if it is ready or has begun to answer, holds a matrix,
\* and to which queries are only sent when it is ready.
Supplied(r) ==
    /\ r \in Runtime
    /\ r.ready \/ r.busy # {} \/ r.out # << >> => r.mat # NoMatrix
    /\ \A i \in 1..Len(r.inbox) : r.inbox[i].what = "scores" => r.ready
    /\ \A b \in r.busy : b.got # NoMatrix

\* A call that has a matrix once it is under way, and may wait for the runtime r.
Served(k, r) ==
    /\ k \in CallState
    /\ k.pc # "idle" => k.m \in Matrix
    /\ k.pc \in {"init", "scores"} => r.up
    /\ k.pc = "scores" => r.ready

AllServed(f, r) == f \in [Call -> CallState] /\ \A c \in Call : Served(f[c], r)

IInv ==
    /\ Supplied(rt) /\ AllServed(call, rt)
    /\ sig \in Signature \cup {NoMatrix} /\ cool \in BOOLEAN

-----------------------------------------------------------------------------
LEMMA DeadSupplied == Supplied(Dead) /\ ~Dead.up
BY DEF Dead, Runtime, Supplied

LEMMA IdleServed == \A r \in Runtime : Served(Idle, r)
BY DEF Idle, CallState, Served

\* A step of the system is one of these actions.
LEMMA NextCases ==
    ASSUME Next
    PROVE  \/ \E c \in Call, m \in Search : BeginSearch(c, m)
           \/ \E c \in Call, m \in Background : BeginBackground(c, m)
           \/ \E c \in Call, m \in Matrix : BeginUnsent(c, m)
           \/ \E c \in Call : \/ InitAnswered(c) \/ QueryUnsent(c) \/ ScoresAnswered(c)
                              \/ NothingAnswered(c) \/ Resume(c) \/ Timeout(c)
                              \/ DirectEnds(c) \/ Return(c)
           \/ \E b \in rt.busy, ok \in BOOLEAN : WorkerScores(b, ok)
           \/ WorkerTakes \/ WorkerError \/ Disable \/ CooldownEnds
BY DEF Next, Answer

\* What posting a message leaves of a runtime.
LEMMA PostTyped ==
    ASSUME NEW r \in Runtime, NEW c \in Call, NEW what \in {"init", "scores"},
           NEW m \in Matrix
    PROVE  LET q == Post(r, c, what, m)
           IN /\ q \in Runtime
              /\ q.up /\ q.ready = r.ready /\ q.mat = r.mat
              /\ q.busy = r.busy /\ q.out = r.out
              /\ q.inbox = Append(r.inbox, Payload(c, what, m))
<1>1. Payload(c, what, m) \in Message
  BY DEF Message, Payload
<1>2. Append(r.inbox, Payload(c, what, m)) \in Seq(Message)
  BY <1>1 DEF Runtime
<1> QED
  BY <1>2 DEF Post, Runtime

\* A request keeps a runtime supplied, if it is a query only to a ready worker.
LEMMA PostSupplied ==
    ASSUME NEW r, Supplied(r), NEW c \in Call, NEW what \in {"init", "scores"},
           NEW m \in Matrix, what = "scores" => r.ready
    PROVE  LET q == Post(r, c, what, m)
           IN Supplied(q) /\ q.up /\ q.ready = r.ready
<1> DEFINE msg == Payload(c, what, m)
           q == Post(r, c, what, m)
<1>1. /\ q \in Runtime /\ q.up /\ q.ready = r.ready /\ q.mat = r.mat
      /\ q.busy = r.busy /\ q.out = r.out /\ q.inbox = Append(r.inbox, msg)
  BY PostTyped DEF Supplied
<1>2. r.inbox \in Seq(Message) /\ msg \in Message
  BY DEF Runtime, Message, Supplied, Payload
<1>3. /\ Len(Append(r.inbox, msg)) = Len(r.inbox) + 1
      /\ \A i \in 1..Len(r.inbox) : Append(r.inbox, msg)[i] = r.inbox[i]
      /\ Append(r.inbox, msg)[Len(r.inbox) + 1] = msg
  BY <1>2
<1>4. \A i \in 1..(Len(r.inbox) + 1) : i \in 1..Len(r.inbox) \/ i = Len(r.inbox) + 1
  BY <1>2
<1>5. msg.what = what
  BY DEF msg, Payload
<1> HIDE DEF msg, q
<1>6. \A i \in 1..Len(q.inbox) : q.inbox[i].what = "scores" => q.ready
  BY <1>1, <1>3, <1>4, <1>5 DEF Supplied
<1> QED
  BY <1>1, <1>6 DEF Supplied, q

\* A scoring request sends the matrix first to a worker that is not ready.
LEMMA RequestSupplied ==
    ASSUME NEW r, Supplied(r), NEW c \in Call, NEW m \in Matrix,
           NEW required \in BOOLEAN, NEW again \in BOOLEAN
    PROVE  LET q == Request(r, c, m, required)
           IN /\ Supplied(q) /\ q.up /\ q.ready = r.ready
              /\ Served(Requested(r, m, required, again), q)
<1> DEFINE what == IF NeedsInit(r, required) THEN "init" ELSE "scores"
           q == Request(r, c, m, required)
           k == Requested(r, m, required, again)
<1>1. what \in {"init", "scores"} /\ (what = "scores" => r.ready)
  BY DEF NeedsInit, Runtime, Supplied
<1>2. q = Post(r, c, what, m) /\ k = [pc |-> what, m |-> m, again |-> again, got |-> NoMatrix]
  BY DEF Request, Requested
<1> HIDE DEF what
<1>3. Supplied(q) /\ q.up /\ q.ready = r.ready
  BY <1>1, <1>2, PostSupplied
<1>4. Served(k, q)
  BY <1>1, <1>2, <1>3 DEF Served, CallState
<1> QED
  BY <1>3, <1>4

\* Calls rejected with the old runtime are served by any other.
LEMMA RejectServed ==
    ASSUME AllServed(call, rt), NEW q, NEW c \in Call, NEW k, Served(k, q)
    PROVE  AllServed(RejectOthers(c, k), q) /\ AllServed(Rejected, q)
<1>1. \A d \in Call : Waiting(d) =>
        Served([call[d] EXCEPT !.pc = "rejected"], q)
  BY DEF AllServed, Served, CallState, Waiting
<1>2. \A d \in Call : ~Waiting(d) => Served(call[d], q)
  BY DEF AllServed, Served, Waiting
<1>3. \A d \in Call : Served(RejectOthers(c, k)[d], q) /\ Served(Rejected[d], q)
  BY <1>1, <1>2 DEF RejectOthers, Rejected
<1> QED
  BY <1>3 DEF AllServed, Served, RejectOthers, Rejected

\* Calls stay served while the runtime stays up and does not cool.
LEMMA UpdateServed ==
    ASSUME AllServed(call, rt), NEW q, q.up = rt.up \/ q.up, rt.ready => q.ready,
           NEW c \in Call, NEW k, Served(k, q)
    PROVE  AllServed([call EXCEPT ![c] = k], q)
<1>1. \A d \in Call : Served(call[d], q)
  BY DEF AllServed, Served
<1> QED
  BY <1>1 DEF AllServed, Served

\* What a call does when its request came to nothing.
LEMMA LostStep ==
    ASSUME IInv, NEW c \in Call, NEW k \in CallState, k.m \in Matrix, NEW r, Supplied(r),
           r.up => rt.up /\ r.ready = rt.ready, Lost(c, k, r)
    PROVE  IInv'
<1>1. ASSUME Retry(c, k, r) PROVE IInv'
  <2> DEFINE q == Request(r, c, k.m, TRUE)
             j == Requested(r, k.m, TRUE, FALSE)
  <2>1. Supplied(q) /\ q.up /\ q.ready = r.ready /\ Served(j, q)
    BY RequestSupplied
  <2>2. rt' = q /\ call' = Cleared(r, c, j) /\ sig' = NoMatrix /\ cool' = cool
    BY <1>1 DEF Retry
  <2> HIDE DEF q, j
  <2>3. AllServed(Cleared(r, c, j), q)
    <3>1. CASE r.up
      BY <2>1, <3>1, UpdateServed DEF Cleared, IInv
    <3>2. CASE ~r.up
      BY <2>1, <3>2, RejectServed DEF Cleared, IInv
    <3> QED
      BY <3>1, <3>2
  <2> QED
    BY <2>1, <2>2, <2>3 DEF IInv
<1>2. ASSUME GiveUp(c, k) PROVE IInv'
  <2>1. Served([k EXCEPT !.pc = "direct"], Dead)
    BY DEF Served, CallState
  <2>2. AllServed(RejectOthers(c, [k EXCEPT !.pc = "direct"]), Dead)
    BY <2>1, RejectServed DEF IInv
  <2> QED
    BY <1>2, <2>2, DeadSupplied DEF IInv, GiveUp
<1>3. ASSUME Forget(c, k, r) PROVE IInv'
  <2> DEFINE j == [k EXCEPT !.pc = "done"]
  <2>1. Served(j, r)
    BY DEF Served, CallState
  <2>2. rt' = r /\ call' = Cleared(r, c, j) /\ sig' = sig /\ cool' = cool
    BY <1>3 DEF Forget
  <2> HIDE DEF j
  <2>3. AllServed(Cleared(r, c, j), r)
    <3>1. CASE r.up
      BY <2>1, <3>1, UpdateServed DEF Cleared, IInv
    <3>2. CASE ~r.up
      BY <2>1, <3>2, RejectServed DEF Cleared, IInv
    <3> QED
      BY <3>1, <3>2
  <2> QED
    BY <2>2, <2>3 DEF IInv
<1> QED
  BY <1>1, <1>2, <1>3 DEF Lost

-----------------------------------------------------------------------------
\* Taking the first answer off the queue.
LEMMA TailSupplied ==
    ASSUME NEW r, Supplied(r), r.out # << >>
    PROVE  LET q == [r EXCEPT !.out = Tail(r.out)]
           IN /\ Supplied(q) /\ q.up = r.up /\ q.ready = r.ready
              /\ Head(r.out) \in Reply
<1>1. Head(r.out) \in Reply /\ Tail(r.out) \in Seq(Reply)
  BY DEF Supplied, Runtime
<1> QED
  BY <1>1 DEF Supplied, Runtime

\* A matrix or a query reaches the worker.
LEMMA TakeSupplied ==
    ASSUME Supplied(rt), rt.inbox # << >>, WorkerTakes
    PROVE  Supplied(rt') /\ rt'.up = rt.up /\ rt'.ready = rt.ready
<1> DEFINE msg == Head(rt.inbox)
           ack == [call |-> msg.call, ok |-> TRUE, got |-> NoMatrix]
           b == [call |-> msg.call, got |-> rt.mat]
<1>1. rt.inbox \in Seq(Message) /\ rt.out \in Seq(Reply) /\ rt \in Runtime
  BY DEF Supplied, Runtime
<1>2. msg \in Message /\ msg = rt.inbox[1] /\ Len(rt.inbox) >= 1
  BY <1>1
<1>3. /\ Tail(rt.inbox) \in Seq(Message) /\ Len(Tail(rt.inbox)) = Len(rt.inbox) - 1
      /\ \A i \in 1..(Len(rt.inbox) - 1) : Tail(rt.inbox)[i] = rt.inbox[i + 1]
  BY <1>1
<1>4. \A i \in 1..Len(Tail(rt.inbox)) :
         Tail(rt.inbox)[i].what = "scores" => rt.ready
  BY <1>1, <1>3 DEF Supplied
<1>5. ack \in Reply /\ b \in [call: Call, got: Matrix \cup {NoMatrix}]
  BY <1>1, <1>2 DEF Message, Reply, Runtime
<1>6. Append(rt.out, ack) \in Seq(Reply)
  BY <1>1, <1>5
<1>7. CASE msg.what = "init"
  <2>1. rt' = [rt EXCEPT !.inbox = Tail(rt.inbox), !.mat = msg.m,
                         !.out = Append(rt.out, ack)]
    BY <1>7 DEF WorkerTakes
  <2>2. msg.m \in Matrix /\ msg.m # NoMatrix
    BY <1>2, MatrixAssumption DEF Message
  <2> HIDE DEF msg, ack
  <2>3. /\ rt' \in Runtime /\ rt'.up = rt.up /\ rt'.ready = rt.ready /\ rt'.mat = msg.m
        /\ rt'.busy = rt.busy /\ rt'.inbox = Tail(rt.inbox)
    BY <1>1, <1>3, <1>6, <2>1, <2>2 DEF Runtime
  <2> QED
    BY <1>4, <2>2, <2>3 DEF Supplied
<1>8. CASE msg.what # "init"
  <2>1. rt' = [rt EXCEPT !.inbox = Tail(rt.inbox), !.busy = rt.busy \cup {b}]
    BY <1>8 DEF WorkerTakes
  <2>2. rt.ready
    BY <1>2, <1>8 DEF Supplied, Message
  <2>3. rt.mat # NoMatrix /\ b.got = rt.mat
    BY <2>2 DEF Supplied
  <2> HIDE DEF msg, b
  <2>4. /\ rt' \in Runtime /\ rt'.up = rt.up /\ rt'.ready = rt.ready /\ rt'.mat = rt.mat
        /\ rt'.busy = rt.busy \cup {b} /\ rt'.inbox = Tail(rt.inbox)
    BY <1>1, <1>3, <1>5, <2>1 DEF Runtime
  <2> QED
    BY <1>4, <2>3, <2>4 DEF Supplied
<1> QED
  BY <1>7, <1>8

\* The worker posts the outcome of a query.
LEMMA ScoreSupplied ==
    ASSUME Supplied(rt), NEW b \in rt.busy, NEW ok \in BOOLEAN, WorkerScores(b, ok)
    PROVE  Supplied(rt') /\ rt'.up = rt.up /\ rt'.ready = rt.ready
<1> DEFINE a == [call |-> b.call, ok |-> ok, got |-> b.got]
<1>1. rt \in Runtime /\ rt.out \in Seq(Reply) /\ rt.mat # NoMatrix
  BY DEF Supplied, Runtime
<1>2. a \in Reply
  BY <1>1 DEF Runtime, Reply
<1>3. Append(rt.out, a) \in Seq(Reply)
  BY <1>1, <1>2
<1>4. rt' = [rt EXCEPT !.busy = rt.busy \ {b}, !.out = Append(rt.out, a)]
  BY DEF WorkerScores
<1> HIDE DEF a
<1> QED
  BY <1>1, <1>3, <1>4 DEF Supplied, Runtime

\* The initial states satisfy the invariant.
LEMMA InvInit == Init => IInv
<1> SUFFICES ASSUME Init PROVE IInv
  OBVIOUS
<1>1. AllServed(call, rt)
  BY DeadSupplied, IdleServed DEF Init, AllServed, Served, Idle, CallState
<1> QED
  BY <1>1, DeadSupplied DEF Init, IInv

\* Every step preserves the invariant.
LEMMA InvStep == IInv /\ [Next]_vars => IInv'
<1> SUFFICES ASSUME IInv, [Next]_vars PROVE IInv'
  OBVIOUS
<1> USE DEF IInv
<1>1. ASSUME NEW c \in Call, NEW m \in Search, BeginSearch(c, m) PROVE IInv'
  <2> DEFINE required == sig # SigOf[m]
             q == Request(rt, c, m, required)
             k == Requested(rt, m, required, ~required)
             d == [Idle EXCEPT !.pc = "direct", !.m = m]
  <2>1. m \in Matrix /\ sig' = sig /\ cool' = cool
    BY <1>1 DEF BeginSearch, Matrix
  <2>2. CASE cool
    <3>1. Served(d, rt)
      BY <2>1 DEF Served, CallState, Idle
    <3>2. rt' = rt /\ call' = [call EXCEPT ![c] = d]
      BY <1>1, <2>2 DEF BeginSearch
    <3> HIDE DEF d
    <3> QED
      BY <2>1, <3>1, <3>2, UpdateServed
  <2>3. CASE ~cool
    <3>1. Supplied(q) /\ q.up /\ q.ready = rt.ready /\ Served(k, q)
      BY <2>1, RequestSupplied
    <3>2. rt' = q /\ call' = [call EXCEPT ![c] = k]
      BY <1>1, <2>3 DEF BeginSearch
    <3> HIDE DEF q, k
    <3> QED
      BY <2>1, <3>1, <3>2, UpdateServed
  <2> QED
    BY <2>2, <2>3
<1>2. ASSUME NEW c \in Call, NEW m \in Background, BeginBackground(c, m) PROVE IInv'
  <2> DEFINE q == Request(rt, c, m, TRUE)
             k == Requested(rt, m, TRUE, FALSE)
  <2>1. m \in Matrix /\ sig' = sig /\ cool' = cool
        /\ rt' = q /\ call' = [call EXCEPT ![c] = k]
    BY <1>2 DEF BeginBackground, Matrix
  <2>2. Supplied(q) /\ q.up /\ q.ready = rt.ready /\ Served(k, q)
    BY <2>1, RequestSupplied
  <2> HIDE DEF q, k
  <2> QED
    BY <2>1, <2>2, UpdateServed
<1>3. ASSUME NEW c \in Call, NEW m \in Matrix, BeginUnsent(c, m) PROVE IInv'
  <2> DEFINE k == [Idle EXCEPT !.m = m, !.again = (m \in Search /\ sig = SigOf[m])]
  <2>1. k \in CallState /\ k.m \in Matrix
    BY DEF Idle, CallState
  <2>2. Lost(c, k, Dead)
    BY <1>3 DEF BeginUnsent
  <2> HIDE DEF k
  <2> QED
    BY <2>1, <2>2, LostStep, DeadSupplied
<1>4. ASSUME NEW c \in Call, InitAnswered(c) PROVE IInv'
  <2> DEFINE r == [rt EXCEPT !.ready = TRUE, !.out = Tail(rt.out)]
             q == Post(r, c, "scores", call[c].m)
             k == [call[c] EXCEPT !.pc = "scores"]
  <2>1. /\ rt.out # << >> /\ call[c].pc = "init" /\ sig' = sig /\ cool' = cool
        /\ rt' = q /\ call' = [call EXCEPT ![c] = k]
    BY <1>4 DEF InitAnswered
  <2>2. call[c] \in CallState /\ call[c].m \in Matrix
    BY <2>1 DEF AllServed, Served
  <2>3. Supplied(r) /\ r.ready
    BY <2>1, TailSupplied DEF Supplied, Runtime
  <2>4. Supplied(q) /\ q.up /\ q.ready
    BY <2>2, <2>3, PostSupplied
  <2> HIDE DEF q
  <2>5. Served(k, q)
    BY <2>2, <2>4 DEF Served, CallState
  <2> HIDE DEF k
  <2> QED
    BY <2>1, <2>4, <2>5, UpdateServed
<1>5. ASSUME NEW c \in Call, QueryUnsent(c) PROVE IInv'
  <2>1. call[c] \in CallState /\ call[c].m \in Matrix /\ Lost(c, call[c], Dead)
    BY <1>5 DEF QueryUnsent, AllServed, Served
  <2> QED
    BY <2>1, LostStep, DeadSupplied
<1>6. ASSUME NEW c \in Call, ScoresAnswered(c) PROVE IInv'
  <2> DEFINE q == [rt EXCEPT !.out = Tail(rt.out)]
             k == [call[c] EXCEPT !.pc = "done", !.got = Head(rt.out).got]
  <2>1. rt.out # << >> /\ call[c].pc = "scores" /\ rt' = q
        /\ call' = [call EXCEPT ![c] = k]
    BY <1>6 DEF ScoresAnswered, AllServed, Served, CallState
  <2>2. Supplied(q) /\ q.up = rt.up /\ q.ready = rt.ready /\ Head(rt.out) \in Reply
    BY <2>1, TailSupplied
  <2>3. call[c] \in CallState /\ call[c].m \in Matrix
    BY <2>1 DEF AllServed, Served
  <2>4. sig' \in Signature \cup {NoMatrix} /\ cool' \in BOOLEAN
    BY <1>6 DEF ScoresAnswered, IsSearch, Signature
  <2> HIDE DEF q
  <2>5. Served(k, q)
    BY <2>2, <2>3 DEF Served, CallState, Reply
  <2> HIDE DEF k
  <2> QED
    BY <2>1, <2>2, <2>4, <2>5, UpdateServed
<1>7. ASSUME NEW c \in Call, NothingAnswered(c) PROVE IInv'
  <2> DEFINE q == [rt EXCEPT !.out = Tail(rt.out)]
  <2>1. rt.out # << >> /\ call[c].pc = "scores" /\ Lost(c, call[c], q)
    BY <1>7 DEF NothingAnswered
  <2>2. Supplied(q) /\ q.up = rt.up /\ q.ready = rt.ready
    BY <2>1, TailSupplied
  <2>3. call[c] \in CallState /\ call[c].m \in Matrix
    BY <2>1 DEF AllServed, Served
  <2> HIDE DEF q
  <2> QED
    BY <2>1, <2>2, <2>3, LostStep
<1>8. ASSUME NEW c \in Call, Resume(c) PROVE IInv'
  <2>1. call[c] \in CallState /\ call[c].m \in Matrix /\ Lost(c, call[c], Dead)
    BY <1>8 DEF Resume, AllServed, Served
  <2> QED
    BY <2>1, LostStep, DeadSupplied
<1>9. ASSUME NEW c \in Call, Timeout(c) \/ DirectEnds(c) \/ Return(c) PROVE IInv'
  <2>1. PICK k \in CallState : /\ call' = [call EXCEPT ![c] = k]
                               /\ k.pc \in {"rejected", "done"} => k.m \in Matrix
                               /\ k.pc \in {"rejected", "done", "idle"}
    <3>1. call[c] \in CallState
      BY DEF AllServed
    <3>2. call[c].pc # "idle" => call[c].m \in Matrix
      BY DEF AllServed, Served
    <3>3. CASE Timeout(c)
      <4> DEFINE j == [call[c] EXCEPT !.pc = "rejected"]
      <4>1. j \in CallState /\ j.m = call[c].m /\ j.pc = "rejected"
        BY <3>1, <3>2, <3>3 DEF CallState
      <4>2. call' = [call EXCEPT ![c] = j]
        BY <3>1, <3>3 DEF Timeout, AllServed
      <4>3. j.pc # "idle" => j.m \in Matrix
        BY <3>2, <3>3, <4>1 DEF Timeout, Waiting
      <4> HIDE DEF j
      <4> QED
        BY <4>1, <4>2, <4>3
    <3>4. CASE DirectEnds(c)
      <4> DEFINE j == [call[c] EXCEPT !.pc = "done", !.got = call[c].m]
      <4>1. j \in CallState /\ j.m = call[c].m /\ j.pc = "done"
        BY <3>1, <3>2, <3>4 DEF DirectEnds, CallState
      <4>2. call' = [call EXCEPT ![c] = j]
        BY <3>1, <3>4 DEF DirectEnds, AllServed
      <4>3. j.pc # "idle" => j.m \in Matrix
        BY <3>2, <3>4, <4>1 DEF DirectEnds, Waiting
      <4> HIDE DEF j
      <4> QED
        BY <4>1, <4>2, <4>3
    <3>5. CASE Return(c)
      <4> DEFINE j == Idle
      <4>1. j \in CallState /\ j.m = NoMatrix /\ j.pc = "idle"
        BY <3>1, <3>2, <3>5 DEF Idle, CallState
      <4>2. call' = [call EXCEPT ![c] = j]
        BY <3>1, <3>5 DEF Return, AllServed
      <4>3. j.pc # "idle" => j.m \in Matrix
        BY <3>2, <3>5, <4>1 DEF Return, Waiting
      <4> HIDE DEF j
      <4> QED
        BY <4>1, <4>2, <4>3
    <3> QED
      BY <1>9, <3>3, <3>4, <3>5
  <2>2. rt' = rt /\ sig' = sig /\ cool' = cool
    BY <1>9 DEF Timeout, DirectEnds, Return
  <2>3. Served(k, rt)
    BY <2>1 DEF Served
  <2> QED
    BY <2>1, <2>2, <2>3, UpdateServed
<1>10. ASSUME NEW b \in rt.busy, NEW ok \in BOOLEAN, WorkerScores(b, ok) PROVE IInv'
  BY <1>10, ScoreSupplied DEF WorkerScores, AllServed, Served
<1>11. ASSUME WorkerTakes PROVE IInv'
  <2>1. Supplied(rt') /\ rt'.up = rt.up /\ rt'.ready = rt.ready
    BY <1>11, TakeSupplied DEF WorkerTakes
  <2> QED
    BY <1>11, <2>1 DEF WorkerTakes, AllServed, Served
<1>12. ASSUME WorkerError \/ Disable PROVE IInv'
  <2>1. rt' = Dead /\ call' = Rejected /\ cool' = cool
        /\ sig' \in Signature \cup {NoMatrix}
    BY <1>12 DEF WorkerError, Disable
  <2>2. AllServed(Rejected, Dead)
    <3>1. \A d \in Call : Waiting(d) => Served([call[d] EXCEPT !.pc = "rejected"], Dead)
      BY DEF AllServed, Served, CallState, Waiting
    <3>2. \A d \in Call : ~Waiting(d) => Served(call[d], Dead)
      BY DEF AllServed, Served, Waiting
    <3> QED
      BY <3>1, <3>2 DEF AllServed, Served, Rejected
  <2> QED
    BY <2>1, <2>2, DeadSupplied
<1>13. ASSUME CooldownEnds PROVE IInv'
  BY <1>13 DEF CooldownEnds
<1>14. CASE UNCHANGED vars
  BY <1>14 DEF vars
<1> QED
  BY <1>1, <1>2, <1>3, <1>4, <1>5, <1>6, <1>7, <1>8, <1>9, <1>10, <1>11, <1>12, <1>13,
     <1>14, NextCases

LEMMA InvAlways == Spec => []IInv
BY InvInit, InvStep, PTL DEF Spec

(***************************************************************************)
(* The runtime, its queues and the calls keep their types (webgpu.rs       *)
(* 116-134).                                                               *)
(***************************************************************************)
THEOREM TypeCorrect == Spec => []TypeOK
<1>1. IInv => TypeOK
  BY DEF IInv, Supplied, AllServed, TypeOK
<1> QED
  BY <1>1, InvAlways, PTL

(***************************************************************************)
(* No query reaches a worker that was not given a matrix, for any number   *)
(* of overlapping calls: a runtime is believed initialised only after its  *)
(* own init was answered (webgpu.rs 381-383, 544-550).                     *)
(***************************************************************************)
THEOREM QueriesMeetMatrix == Spec => []NeverCold
<1>1. IInv => NeverCold
  BY DEF IInv, Supplied, NeverCold
<1> QED
  BY <1>1, InvAlways, PTL

(***************************************************************************)
(* No call is left waiting for a terminated worker: whoever clears the     *)
(* runtime rejects what waits for it (webgpu.rs 247-265).                  *)
(***************************************************************************)
THEOREM WaitsAreLive == Spec => []WaitsForThisWorker
<1>1. IInv => WaitsForThisWorker
  BY DEF IInv, AllServed, Served, WaitsForThisWorker, Waiting
<1> QED
  BY <1>1, InvAlways, PTL

-----------------------------------------------------------------------------
(***************************************************************************)
(* The argument under EveryCallEnds: a measure that no step of anybody     *)
(* raises while a call is under way.                                       *)
(***************************************************************************)
Ahead(k, j) == j = k \/ Distance(j) < Distance(k)

AllAhead(f) == \A c \in Call : call[c].pc # "idle" => Ahead(call[c], f[c])

\* The measure of a call, for each place it may be suspended at.
LEMMA DistanceOf ==
    ASSUME NEW k \in CallState
    PROVE  /\ Distance(k) \in Nat
           /\ k.pc = "idle" => Distance(k) = IF k.again THEN 3 ELSE 0
           /\ k.pc = "done" => Distance(k) = IF k.again THEN 4 ELSE 1
           /\ k.pc = "direct" => Distance(k) = IF k.again THEN 5 ELSE 2
           /\ k.pc = "rejected" => Distance(k) = IF k.again THEN 6 ELSE 3
           /\ k.pc = "scores" => Distance(k) = IF k.again THEN 7 ELSE 4
           /\ k.pc = "init" => Distance(k) = IF k.again THEN 8 ELSE 5
<1>1. /\ Stage["idle"] = 0 /\ Stage["done"] = 1 /\ Stage["direct"] = 2
      /\ Stage["rejected"] = 3 /\ Stage["scores"] = 4 /\ Stage["init"] = 5
  BY DEF Stage
<1>2. k.pc \in {"idle", "init", "scores", "rejected", "direct", "done"} /\ k.again \in BOOLEAN
  BY DEF CallState
<1> QED
  BY <1>1, <1>2 DEF Distance

\* A call that only changes the place it is suspended at.
LEMMA MoveAhead ==
    ASSUME NEW k \in CallState,
           NEW pc \in {"idle", "init", "scores", "rejected", "direct", "done"}
    PROVE  /\ [k EXCEPT !.pc = pc] \in CallState
           /\ k.pc = "init" /\ pc \in {"scores", "rejected", "direct", "done"}
                => Ahead(k, [k EXCEPT !.pc = pc])
           /\ k.pc = "scores" /\ pc \in {"rejected", "direct", "done"}
                => Ahead(k, [k EXCEPT !.pc = pc])
           /\ k.pc = "rejected" /\ pc \in {"direct", "done"} => Ahead(k, [k EXCEPT !.pc = pc])
           /\ k.pc = "direct" /\ pc = "done" => Ahead(k, [k EXCEPT !.pc = pc])
<1> DEFINE j == [k EXCEPT !.pc = pc]
<1>1. j \in CallState /\ j.pc = pc /\ j.again = k.again
  BY DEF CallState
<1> HIDE DEF j
<1>2. k.again \in BOOLEAN
  BY DEF CallState
<1>3. /\ k.pc = "init" /\ pc \in {"scores", "rejected", "direct", "done"} => Ahead(k, j)
      /\ k.pc = "scores" /\ pc \in {"rejected", "direct", "done"} => Ahead(k, j)
      /\ k.pc = "rejected" /\ pc \in {"direct", "done"} => Ahead(k, j)
      /\ k.pc = "direct" /\ pc = "done" => Ahead(k, j)
  BY <1>1, <1>2, DistanceOf DEF Ahead
<1> QED
  BY <1>1, <1>3 DEF j

\* Scores that arrive with the end do not count.
LEMMA DoneAhead ==
    ASSUME NEW k \in CallState, k.pc \in {"scores", "direct"}, NEW m
    PROVE  Ahead(k, [k EXCEPT !.pc = "done", !.got = m])
<1> DEFINE j == [k EXCEPT !.pc = "done", !.got = m]
<1>1. j.pc = "done" /\ j.again = k.again /\ k.again \in BOOLEAN
  BY DEF CallState
<1>2. Distance(j) = IF k.again THEN 4 ELSE 1
  BY <1>1 DEF Distance, Stage
<1>3. Distance(j) < Distance(k)
  BY <1>1, <1>2, DistanceOf
<1> QED
  BY <1>3 DEF Ahead

\* What a step of one call, and a cleared runtime, do to all of them.
LEMMA RestAhead ==
    ASSUME call \in [Call -> CallState], NEW c \in Call, NEW k,
           call[c].pc # "idle" => Ahead(call[c], k)
    PROVE  /\ AllAhead([call EXCEPT ![c] = k])
           /\ AllAhead(RejectOthers(c, k))
           /\ AllAhead(Rejected)
<1>1. \A d \in Call : Waiting(d) => Ahead(call[d], [call[d] EXCEPT !.pc = "rejected"])
  BY MoveAhead DEF Waiting
<1>2. \A d \in Call : Ahead(call[d], call[d])
  BY DEF Ahead
<1> QED
  BY <1>1, <1>2 DEF AllAhead, RejectOthers, Rejected

\* A retry is behind the request it repeats because it is the only one.
LEMMA RetryAhead ==
    ASSUME NEW k \in CallState, k.pc \in {"init", "scores", "rejected"}, k.again, NEW r
    PROVE  Ahead(k, Requested(r, k.m, TRUE, FALSE))
<1> DEFINE j == Requested(r, k.m, TRUE, FALSE)
<1>1. Stage[j.pc] = 5 /\ j.again = FALSE
  BY DEF Requested, NeedsInit, Stage
<1> HIDE DEF j
<1>2. Distance(j) = 5
  BY <1>1 DEF Distance
<1>3. k.again = TRUE /\ Distance(k) \in {6, 7, 8}
  BY DistanceOf DEF CallState
<1>4. Ahead(k, j)
  BY <1>2, <1>3 DEF Ahead
<1> QED
  BY <1>4 DEF j

\* What a call does when its request came to nothing.
LEMMA LostAhead ==
    ASSUME call \in [Call -> CallState], NEW c \in Call, NEW k, NEW r, Lost(c, k, r),
           \/ call[c].pc = "idle"
           \/ call[c] = k /\ k.pc \in {"init", "scores", "rejected"}
    PROVE  AllAhead(call')
<1>1. CASE Retry(c, k, r)
  <2>1. call' = Cleared(r, c, Requested(r, k.m, TRUE, FALSE))
    BY <1>1 DEF Retry
  <2>2. call[c].pc # "idle" => Ahead(call[c], Requested(r, k.m, TRUE, FALSE))
    BY <1>1, RetryAhead DEF Retry
  <2> QED
    BY <2>1, <2>2, RestAhead DEF Cleared
<1>2. CASE GiveUp(c, k)
  <2>1. call' = RejectOthers(c, [k EXCEPT !.pc = "direct"])
    BY <1>2 DEF GiveUp
  <2>2. call[c].pc # "idle" => Ahead(call[c], [k EXCEPT !.pc = "direct"])
    BY MoveAhead
  <2> QED
    BY <2>1, <2>2, RestAhead
<1>3. CASE Forget(c, k, r)
  <2>1. call' = Cleared(r, c, [k EXCEPT !.pc = "done"])
    BY <1>3 DEF Forget
  <2>2. call[c].pc # "idle" => Ahead(call[c], [k EXCEPT !.pc = "done"])
    BY MoveAhead
  <2> QED
    BY <2>1, <2>2, RestAhead DEF Cleared
<1> QED
  BY <1>1, <1>2, <1>3 DEF Lost

\* No step sets a call back.
LEMMA AheadStep ==
    ASSUME IInv, [Next]_vars
    PROVE  AllAhead(call')
<1>t. call \in [Call -> CallState]
  BY DEF IInv, AllServed
<1>1. ASSUME NEW c \in Call, call[c].pc = "idle", NEW k, call' = [call EXCEPT ![c] = k]
      PROVE  AllAhead(call')
  BY <1>1, <1>t, RestAhead
<1>2. ASSUME NEW c \in Call, NEW m \in Search, BeginSearch(c, m) PROVE AllAhead(call')
  <2>1. call[c].pc = "idle" /\ \E k : call' = [call EXCEPT ![c] = k]
    BY <1>2 DEF BeginSearch
  <2> QED
    BY <2>1, <1>1
<1>3. ASSUME NEW c \in Call, NEW m \in Background, BeginBackground(c, m)
      PROVE  AllAhead(call')
  <2>1. call[c].pc = "idle" /\ \E k : call' = [call EXCEPT ![c] = k]
    BY <1>3 DEF BeginBackground
  <2> QED
    BY <2>1, <1>1
<1>4. ASSUME NEW c \in Call, NEW m \in Matrix, BeginUnsent(c, m) PROVE AllAhead(call')
  <2>1. /\ call[c].pc = "idle"
        /\ Lost(c, [Idle EXCEPT !.m = m, !.again = (m \in Search /\ sig = SigOf[m])], Dead)
    BY <1>4 DEF BeginUnsent
  <2> QED
    BY <2>1, <1>t, LostAhead
<1>5. ASSUME NEW c \in Call, QueryUnsent(c) \/ NothingAnswered(c) \/ Resume(c)
      PROVE  AllAhead(call')
  <2>1. call[c].pc \in {"init", "scores", "rejected"} /\ \E r : Lost(c, call[c], r)
    BY <1>5 DEF QueryUnsent, NothingAnswered, Resume
  <2> QED
    BY <2>1, <1>t, LostAhead
<1>6. ASSUME NEW c \in Call, InitAnswered(c) PROVE AllAhead(call')
  <2>1. call[c].pc = "init" /\ call' = [call EXCEPT ![c] = [call[c] EXCEPT !.pc = "scores"]]
    BY <1>6, <1>t DEF InitAnswered
  <2>2. Ahead(call[c], [call[c] EXCEPT !.pc = "scores"])
    BY <2>1, <1>t, MoveAhead
  <2> QED
    BY <2>1, <2>2, <1>t, RestAhead
<1>7. ASSUME NEW c \in Call, ScoresAnswered(c) PROVE AllAhead(call')
  <2> DEFINE k == [call[c] EXCEPT !.pc = "done", !.got = Head(rt.out).got]
  <2>1. call[c].pc \in {"scores", "direct"} /\ call[c] \in CallState
    BY <1>7, <1>t DEF ScoresAnswered
  <2>2. Ahead(call[c], k)
    BY <2>1, DoneAhead
  <2>3. call' = [call EXCEPT ![c] = k]
    BY <1>7, <1>t DEF ScoresAnswered
  <2> HIDE DEF k
  <2> QED
    BY <2>2, <2>3, <1>t, RestAhead
<1>8. ASSUME NEW c \in Call, DirectEnds(c) PROVE AllAhead(call')
  <2> DEFINE k == [call[c] EXCEPT !.pc = "done", !.got = call[c].m]
  <2>1. call[c].pc \in {"scores", "direct"} /\ call[c] \in CallState
    BY <1>8, <1>t DEF DirectEnds
  <2>2. Ahead(call[c], k)
    BY <2>1, DoneAhead
  <2>3. call' = [call EXCEPT ![c] = k]
    BY <1>8, <1>t DEF DirectEnds
  <2> HIDE DEF k
  <2> QED
    BY <2>2, <2>3, <1>t, RestAhead
<1>9. ASSUME NEW c \in Call, Timeout(c) PROVE AllAhead(call')
  <2>1. /\ call[c].pc \in {"init", "scores"}
        /\ call' = [call EXCEPT ![c] = [call[c] EXCEPT !.pc = "rejected"]]
    BY <1>9, <1>t DEF Timeout, Waiting
  <2>2. Ahead(call[c], [call[c] EXCEPT !.pc = "rejected"])
    BY <2>1, <1>t, MoveAhead
  <2> QED
    BY <2>1, <2>2, <1>t, RestAhead
<1>10. ASSUME NEW c \in Call, Return(c) PROVE AllAhead(call')
  <2>1. call[c].pc = "done" /\ call' = [call EXCEPT ![c] = Idle]
    BY <1>10 DEF Return
  <2>2. Distance(Idle) = 0
    BY DEF Distance, Stage, Idle
  <2>3. Ahead(call[c], Idle)
    BY <2>1, <2>2, <1>t, DistanceOf DEF Ahead
  <2> QED
    BY <2>1, <2>3, <1>t, RestAhead
<1>11. CASE call' = call
  BY <1>11 DEF AllAhead, Ahead
<1>12. CASE WorkerError \/ Disable
  <2>1. call' = Rejected
    BY <1>12 DEF WorkerError, Disable
  <2>2. \A d \in Call : Waiting(d) => Ahead(call[d], [call[d] EXCEPT !.pc = "rejected"])
    BY <1>t, MoveAhead DEF Waiting
  <2> QED
    BY <2>1, <2>2 DEF AllAhead, Rejected, Ahead
<1>13. ASSUME Next PROVE AllAhead(call')
  BY <1>13, <1>2, <1>3, <1>4, <1>5, <1>6, <1>7, <1>8, <1>9, <1>10, <1>11, <1>12,
     NextCases
  DEF WorkerScores, WorkerTakes, CooldownEnds
<1> QED
  BY <1>11, <1>13 DEF vars

(***************************************************************************)
(* For any number of calls, matrices and signatures: no step, of the call  *)
(* or of another that clears the runtime under it, sets a call back, so    *)
(* that each has at most eight steps to its end (ai.rs 2084-2107).         *)
(***************************************************************************)
THEOREM CallsOnlyAdvance == Spec => CallsAdvance
<1>1. ASSUME IInv, [Next]_vars
      PROVE  \A c \in Call : call[c].pc # "idle" =>
                 call'[c] = call[c] \/ Distance(call'[c]) < Distance(call[c])
  BY <1>1, AheadStep DEF AllAhead, Ahead
<1> QED
  BY <1>1, InvAlways, PTL DEF Spec, CallsAdvance
=============================================================================
