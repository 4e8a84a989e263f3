-------------------------- MODULE HttpClientProofs --------------------------
(***************************************************************************)
(* What holds of an HttpClient for any number of requests, workers and     *)
(* slots, with and without streaming: proofs of its safety properties.     *)
(***************************************************************************)
EXTENDS HttpClient, CollectionLemmas

\* Workers are started in order, and nothing else happens before the last one
\* has reported.
StartInv ==
    /\ mpc \in {"start", "track", "await", "failed"} => ppc = "off"
    /\ mpc \in {"start", "track"} => \E k \in 0..(NumWorkers - 1) :
        /\ tracked = 1..k
        /\ spawned = IF mpc = "track" THEN {k + 1} ELSE {}
        /\ \A w \in Workers : w > k /\ w \notin spawned => wpc[w] = "none"

\* While the core is started or submits, the client is in service: no worker
\* is told to leave.
ServiceInv ==
    mpc \in {"start", "track", "await", "submit"} =>
        /\ killed = {} /\ open /\ ~stopWork /\ ~isShutdown
        /\ \A w \in Workers :
            /\ wpc[w] \in {"none", "init", "recv", "term"}
            /\ wpc[w] \in {"none", "init"} => report[w] = "none"
            /\ report[w] \in {"ok", "heard"} => wpc[w] = "recv"
            /\ \A i \in DOMAIN pipe[w] : pipe[w][i] # Stop
        /\ mpc = "submit" => ppc = "poll" /\ \A w \in Workers : wpc[w] = "recv"

\* Requests are submitted in order, before the core stops, and it stops
\* without outstanding ones.
SubmitInv ==
    /\ \E n \in 0..NumRequests : submitted = 1..n
    /\ ppc = "off" => submitted = {} /\ mpc \notin {"submit", "flush"}
    /\ stopWork => outstanding = {}
                   /\ mpc \notin {"start", "track", "await", "failed", "submit"}

\* A request in a pipe is outstanding, has no task yet and is in no other place.
PipeInv ==
    \A w \in Workers : \A i \in DOMAIN pipe[w] : pipe[w][i] # Stop =>
        /\ pipe[w][i] \in outstanding
        /\ task[pipe[w][i]].pc = "none"
        /\ \A v \in Workers : \A j \in DOMAIN pipe[v] :
            pipe[v][j] = pipe[w][i] => v = w /\ j = i

\* A task belongs to a worker, and its request has been submitted.
TaskInv ==
    \A r \in Requests : task[r].pc # "none" => task[r].worker \in Workers /\ r \in submitted

Follows(k1, k2) ==
    \/ k1 = "first" /\ k2 \in {"final", "error"}
    \/ k1 = "firstFinal" /\ k2 = "final"

\* The responses of a request are in the pipe of its worker, in the order of
\* the protocol, and the state of its task says what may still come.
MessageFits(w, i) ==
    LET r == resp[w][i].id
        kind == resp[w][i].kind
    IN  /\ task[r].worker = w /\ task[r].pc \in {"streaming", "last", "done"}
        /\ task[r].pc = "streaming" => kind = "first"
        /\ task[r].pc = "last" => kind = "firstFinal"
        /\ received[r] # <<>> =>
            \E k \in {"first", "firstFinal"} : received[r] = <<k>> /\ Follows(k, kind)
        /\ \A j \in DOMAIN resp[w] : i < j /\ resp[w][j].id = r =>
            Follows(kind, resp[w][j].kind)

RequestFits(r) ==
    /\ task[r].pc \in {"none", "queued", "posted"} => received[r] = <<>>
    /\ task[r].pc = "streaming" => received[r] \in {<<>>, <<"first">>}
    /\ task[r].pc = "last" => received[r] \in {<<>>, <<"firstFinal">>}

ResponseInv ==
    /\ \A w \in Workers : \A i \in DOMAIN resp[w] : MessageFits(w, i)
    /\ \A r \in Requests : RequestFits(r)

\* Each worker keeps its share of the slots.
ShareInv ==
    MaxConcurrency # -1 =>
        \A w \in Workers : Cardinality(SlotsTaken(w)) <= WorkerConcurrency

\* A worker that runs and has not been sent SIGTERM is on somebody's list.
Alive == {w \in Workers : wpc[w] \notin {"none", "gone"}} \ killed

ListInv ==
    /\ mpc # "track" => spawned = {}
    /\ mpc \notin {"terminate", "gone"} => Alive \subseteq tracked \cup spawned
    /\ mpc = "failed" => Workers \ todo.main \subseteq killed
    /\ mpc = "terminate" => Alive \subseteq todo.main
    /\ mpc = "gone" => Alive = {}
    /\ ppc = "signals" => todo.poll = Workers
    /\ ppc = "terminate" => Workers \ todo.poll \subseteq killed
    /\ ppc \in {"untrack", "close", "done"} => Workers \subseteq killed

\* The inductive invariant but for the lists, which need that no SIGTERM comes
\* between the start of a worker and its entry in the list.
IInv == /\ TypeOK /\ StartInv /\ ServiceInv /\ SubmitInv /\ PipeInv /\ TaskInv
        /\ ResponseInv /\ AnswersInProtocol

-----------------------------------------------------------------------------
USE DEF mainVars, pollVars, zmqVars, workerVars

\* The actions that are given in two parts.
USE DEF CleanUp, PollSignalsAnd, LeaveLoop, SendFirst

\* What the constants are.
LEMMA ConstantTypes ==
  /\ NumWorkers \in Nat \ {0} /\ NumRequests \in Nat /\ 1 \in Workers
  /\ Stop \in Requests \cup {Stop} /\ Stop \notin Requests
  /\ MaxErrors \in Nat
  BY HttpAssumption DEF Workers

\* The next worker in turn is a worker.
LEMMA TurnType == ASSUME turn \in Workers PROVE NextTurn \in Workers
  BY ConstantTypes DEF Workers, NextTurn

\* Requests and workers are numbered in the order in which they are used.
LEMMA NextNumber ==
  ASSUME NEW k \in Nat, NEW S, S = 1..k
  PROVE  Cardinality(S) + 1 = k + 1 /\ S \cup {Cardinality(S) + 1} = 1..(k + 1)
  <1>1. Cardinality(S) = k
    BY CardInterval
  <1>2. (1..k) \cup {k + 1} = 1..(k + 1)
    OBVIOUS
  <1> QED  BY <1>1, <1>2

\* A message given to a worker is the last one of its pipe.
LEMMA Pushed ==
  ASSUME NEW S, NEW q \in Seq(S), NEW e \in S
  PROVE  q \o <<e>> = Append(q, e)
  BY AppendIsConcat

\* The invariant holds initially.
LEMMA InitInv == Init => IInv
  <1> SUFFICES ASSUME Init PROVE IInv
    OBVIOUS
  <1> USE ConstantTypes DEF Init
  <1>1. TypeOK
    <2>1. /\ <<>> \in Seq(ResponseKinds) /\ <<>> \in Seq(Requests \cup {Stop})
          /\ <<>> \in Seq([id : Requests, kind : ResponseKinds])
      BY EmptySeqType
    <2>2. received \in [Requests -> Seq(ResponseKinds)]
      BY <2>1
    <2>3. /\ pipe \in [Workers -> Seq(Requests \cup {Stop})]
          /\ resp \in [Workers -> Seq([id : Requests, kind : ResponseKinds])]
      BY <2>1
    <2>4. task \in [Requests -> [worker : 0..NumWorkers,
                                 pc : {"none", "queued", "done"} \cup Active]]
      BY DEF NoTask
    <2>5. todo \in [{"main", "poll"} -> SUBSET Workers]
      OBVIOUS
    <2>6. /\ mpc \in MainPcs /\ ppc \in PollPcs /\ turn \in Workers /\ nerr \in 0..MaxErrors
          /\ wpc \in [Workers -> {"none", "init", "recv", "drain", "term", "gone"}]
          /\ report \in [Workers -> {"none", "ok", "bad", "heard"}]
      BY DEF MainPcs, PollPcs
    <2> QED  BY <2>2, <2>3, <2>4, <2>5, <2>6 DEF TypeOK
  <1>2. StartInv
    <2>1. tracked = 1..0 /\ 0 \in 0..(NumWorkers - 1)
      OBVIOUS
    <2> QED  BY <2>1 DEF StartInv
  <1>3. ServiceInv /\ PipeInv
    BY DEF ServiceInv, PipeInv
  <1>4. SubmitInv
    <2>1. submitted = 1..0 /\ 0 \in 0..NumRequests
      OBVIOUS
    <2> QED  BY <2>1 DEF SubmitInv
  <1>5. TaskInv /\ ResponseInv /\ AnswersInProtocol
    BY DEF TaskInv, ResponseInv, RequestFits, AnswersInProtocol, NoTask
  <1> QED  BY <1>1, <1>2, <1>3, <1>4, <1>5 DEF IInv

-----------------------------------------------------------------------------
\* The types and the order of the start-up.
LEMMA TypeMain ==
  TypeOK /\ StartInv /\ (Main \/ Sigterm) => TypeOK' /\ StartInv'
  <1> SUFFICES ASSUME TypeOK, StartInv, Main \/ Sigterm
               PROVE  TypeOK' /\ StartInv'
    OBVIOUS
  <1> USE ConstantTypes DEF TypeOK, StartInv, MainPcs
  <1>1. CASE StartWorker
    <2>1. PICK k \in 0..(NumWorkers - 1) :
            /\ tracked = 1..k /\ spawned = {}
            /\ \A w \in Workers : w > k => wpc[w] = "none"
      BY <1>1 DEF StartWorker
    <2>2. Cardinality(tracked) + 1 = k + 1
      BY <2>1, NextNumber
    <2>3. k + 1 \in Workers
      BY DEF Workers
    <2>4. wpc' = [wpc EXCEPT ![k + 1] = "init"] /\ spawned' = {k + 1} /\ tracked' = 1..k
          /\ mpc' = "track" /\ ppc' = "off"
      BY <1>1, <2>1, <2>2 DEF StartWorker
    <2>5. StartInv'
      BY <2>1, <2>3, <2>4
    <2>6. wpc' \in [Workers -> {"none", "init", "recv", "drain", "term", "gone"}]
      BY <2>3, <2>4
    <2>7. TypeOK'
      BY <1>1, <2>3, <2>4, <2>6, ZenonT(40) DEF StartWorker
    <2> QED  BY <2>5, <2>7
  <1>2. CASE TrackWorker
    <2>1. PICK k \in 0..(NumWorkers - 1) :
            /\ tracked = 1..k /\ spawned = {k + 1}
            /\ \A w \in Workers : w > k /\ w \notin spawned => wpc[w] = "none"
      BY <1>2 DEF TrackWorker
    <2>2. tracked' = 1..(k + 1) /\ spawned' = {}
      BY <1>2, <2>1 DEF TrackWorker
    <2>3. k + 1 \in Workers /\ (k + 1 = NumWorkers <=> 1..(k + 1) = Workers)
      BY DEF Workers
    <2>4. mpc' = IF k + 1 = NumWorkers THEN "await" ELSE "start"
      BY <1>2, <2>2, <2>3 DEF TrackWorker
    <2>5. StartInv'
      <3>1. CASE k + 1 = NumWorkers
        BY <1>2, <2>4, <3>1 DEF TrackWorker
      <3>2. CASE k + 1 # NumWorkers
        <4>1. k + 1 \in 0..(NumWorkers - 1) /\ mpc' = "start" /\ ppc' = "off" /\ wpc' = wpc
          BY <1>2, <2>4, <3>2 DEF TrackWorker
        <4>2. \A w \in Workers : w > k + 1 => wpc'[w] = "none"
          BY <2>1, <4>1 DEF Workers
        <4> QED  BY <2>2, <4>1, <4>2
      <3> QED  BY <3>1, <3>2
    <2>6. TypeOK'
      BY <1>2, <2>2, <2>3, <2>4 DEF TrackWorker, Workers
    <2> QED  BY <2>5, <2>6
  <1>3. ASSUME NEW w \in Workers, HearReady(w) PROVE TypeOK' /\ StartInv'
    <2>1. TypeOK'
      BY <1>3 DEF HearReady, PollPcs
    <2> QED  BY <1>3, <2>1 DEF HearReady
  <1>4. CASE StartFails  BY <1>4 DEF StartFails
  <1>5. ASSUME NEW r \in Requests, Submit(r) PROVE TypeOK' /\ StartInv'
    <2>1. pipe' \in [Workers -> Seq(Requests \cup {Stop})] /\ turn' \in Workers
      <3>1. CASE isShutdown
        BY <1>5, <3>1 DEF Submit
      <3>2. CASE ~isShutdown
        <4>1. pipe' = [pipe EXCEPT ![turn] = @ \o <<r>>] /\ turn' = NextTurn
          BY <1>5, <3>2 DEF Submit, PushTo
        <4>2. pipe[turn] \o <<r>> \in Seq(Requests \cup {Stop})
          BY Extended, Pushed
        <4> QED  BY <4>1, <4>2, TurnType
      <3> QED  BY <3>1, <3>2
    <2> QED  BY <1>5, <2>1 DEF Submit
  <1>6. CASE StopWork  BY <1>6 DEF StopWork
  <1>7. CASE FlushReturns \/ FlushHangs  BY <1>7 DEF FlushReturns, FlushHangs
  <1>8. CASE MainSignals
    <2>1. \A w \in Workers : Append(pipe[w], Stop) \in Seq(Requests \cup {Stop})
      BY Extended
    <2>2. pipe' \in [Workers -> Seq(Requests \cup {Stop})]
      BY <1>8, <2>1 DEF MainSignals, SendShutdownSignals
    <2> QED  BY <1>8, <2>2 DEF MainSignals
  <1>9. CASE MainCloses  BY <1>9 DEF MainCloses
  <1>10. ASSUME NEW w \in Workers, MainTerminates(w) PROVE TypeOK' /\ StartInv'
    BY <1>10 DEF MainTerminates, Terminate
  <1>11. CASE MainExits  BY <1>11 DEF MainExits, PollPcs
  <1>12. CASE StartRaises  BY <1>12 DEF StartRaises
  <1>13. CASE Sigterm  BY <1>13 DEF Sigterm
  <1> QED
    BY <1>1, <1>2, <1>3, <1>4, <1>5, <1>6, <1>7, <1>8, <1>9, <1>10, <1>11, <1>12, <1>13
    DEF Main

\* The steps of the client's poll thread keep the types.
LEMMA TypePoll == TypeOK /\ StartInv /\ PollThread => TypeOK' /\ StartInv'
  <1> SUFFICES ASSUME TypeOK, StartInv, PollThread
               PROVE  TypeOK' /\ StartInv'
    OBVIOUS
  <1>1. StartInv'
    BY DEF StartInv, PollThread, PollDies, PollBreaks, PollSignals, PollUntracks,
           PollCloses, Receive, PollTerminates
  <1> USE ConstantTypes DEF TypeOK, PollPcs
  <1>2. CASE PollDies  BY <1>1, <1>2 DEF PollDies
  <1>3. CASE PollBreaks  BY <1>1, <1>3 DEF PollBreaks
  <1>4. CASE PollSignals
    <2>1. \A w \in Workers : Append(pipe[w], Stop) \in Seq(Requests \cup {Stop})
      BY Extended
    <2>2. pipe' \in [Workers -> Seq(Requests \cup {Stop})]
      BY <1>4, <2>1 DEF PollSignals, SendShutdownSignals
    <2> QED  BY <1>1, <1>4, <2>2 DEF PollSignals
  <1>5. CASE PollUntracks  BY <1>1, <1>5 DEF PollUntracks
  <1>6. CASE PollCloses  BY <1>1, <1>6 DEF PollCloses
  <1>7. ASSUME NEW w \in Workers, Receive(w) PROVE TypeOK' /\ StartInv'
    <2>1. /\ Head(resp[w]) \in [id : Requests, kind : ResponseKinds]
          /\ Tail(resp[w]) \in Seq([id : Requests, kind : ResponseKinds])
      BY <1>7, HeadTail DEF Receive
    <2>2. Append(received[Head(resp[w]).id], Head(resp[w]).kind) \in Seq(ResponseKinds)
      BY <2>1, Extended
    <2>3. received' \in [Requests -> Seq(ResponseKinds)] /\ outstanding' \subseteq submitted
      BY <1>7, <2>1, <2>2 DEF Receive
    <2>4. resp' \in [Workers -> Seq([id : Requests, kind : ResponseKinds])]
      BY <1>7, <2>1 DEF Receive
    <2> QED  BY <1>1, <1>7, <2>3, <2>4 DEF Receive
  <1>8. ASSUME NEW w \in Workers, PollTerminates(w) PROVE TypeOK' /\ StartInv'
    BY <1>1, <1>8 DEF PollTerminates, Terminate
  <1> QED  BY <1>2, <1>3, <1>4, <1>5, <1>6, <1>7, <1>8 DEF PollThread

\* An answer of the worker of request r, in the state of its task.
LEMMA TypeRespond ==
  ASSUME TypeOK, NEW r \in Requests, Runs(task[r].worker), task[r].worker \in Workers,
         NEW kind \in ResponseKinds,
         NEW pc \in {"none", "queued", "done"} \cup Active, Respond(r, kind, pc),
         nerr' \in 0..MaxErrors
  PROVE  TypeOK'
  <1> USE DEF TypeOK, Respond
  <1>1. [id |-> r, kind |-> kind] \in [id : Requests, kind : ResponseKinds]
    OBVIOUS
  <1>2. Append(resp[task[r].worker], [id |-> r, kind |-> kind])
            \in Seq([id : Requests, kind : ResponseKinds])
    BY <1>1, Extended
  <1>3. resp' \in [Workers -> Seq([id : Requests, kind : ResponseKinds])]
    BY <1>2
  <1>4. task' \in [Requests -> [worker : 0..NumWorkers,
                                pc : {"none", "queued", "done"} \cup Active]]
    OBVIOUS
  <1> QED  BY <1>3, <1>4

\* The steps of the workers and their tasks keep the types.
LEMMA TypeWorkers ==
  TypeOK /\ StartInv /\ TaskInv
  /\ ((\E w \in Workers : Worker(w)) \/ (\E r \in Requests : Task(r)))
    => TypeOK' /\ StartInv'
  <1> SUFFICES ASSUME TypeOK, StartInv, TaskInv,
                      (\E w \in Workers : Worker(w)) \/ (\E r \in Requests : Task(r))
               PROVE  TypeOK' /\ StartInv'
    OBVIOUS
  <1>1. ASSUME NEW w \in Workers, Worker(w) PROVE TypeOK' /\ StartInv'
    <2> USE ConstantTypes DEF TypeOK
    <2>1. CASE InitWorker(w)
      BY <2>1 DEF InitWorker, StartInv
    <2>2. CASE TakeRequest(w)
      <3>1. /\ Head(pipe[w]) \in Requests
            /\ Tail(pipe[w]) \in Seq(Requests \cup {Stop})
        BY <2>2, HeadTail DEF TakeRequest
      <3>2. pipe' \in [Workers -> Seq(Requests \cup {Stop})]
        BY <2>2, <3>1 DEF TakeRequest
      <3>3. [worker |-> w, pc |-> "queued"]
                \in [worker : 0..NumWorkers, pc : {"none", "queued", "done"} \cup Active]
        BY DEF Workers
      <3>4. task' \in [Requests -> [worker : 0..NumWorkers,
                                    pc : {"none", "queued", "done"} \cup Active]]
        BY <2>2, <3>1, <3>3 DEF TakeRequest
      <3> QED  BY <2>2, <3>2, <3>4 DEF TakeRequest, StartInv
    <2>3. CASE TakeStop(w)
      <3>1. Tail(pipe[w]) \in Seq(Requests \cup {Stop})
        BY <2>3, HeadTail DEF TakeStop
      <3>2. pipe' \in [Workers -> Seq(Requests \cup {Stop})]
        BY <2>3, <3>1 DEF TakeStop
      <3> QED  BY <2>3, <3>2 DEF TakeStop, StartInv
    <2>4. CASE Drained(w)  BY <2>4 DEF Drained, StartInv
    <2>5. CASE Die(w)  BY <2>5 DEF Die, StartInv
    <2> QED  BY <1>1, <2>1, <2>2, <2>3, <2>4, <2>5 DEF Worker
  <1>2. ASSUME NEW r \in Requests, Task(r) PROVE TypeOK' /\ StartInv'
    <2>1. StartInv'
      BY <1>2, ZenonT(40) DEF StartInv, Task, Post, FirstChunk, LastResponse, RequestBreaks, Respond
    <2>2. CASE Post(r)
      BY <2>1, <2>2 DEF Post, TypeOK, Active
    <2>3. CASE FirstChunk(r)
      BY <2>1, <2>3, TypeRespond DEF FirstChunk, TypeOK, TaskInv, ResponseKinds, Active
    <2>4. CASE LastResponse(r)
      BY <2>1, <2>4, TypeRespond DEF LastResponse, TypeOK, TaskInv, ResponseKinds, Active
    <2>5. CASE RequestBreaks(r)
      <3>1. nerr' \in 0..MaxErrors
        BY <2>5, ConstantTypes DEF RequestBreaks, TypeOK
      <3> QED
        BY <2>1, <2>5, <3>1, TypeRespond DEF RequestBreaks, TaskInv, ResponseKinds, Active
    <2> QED  BY <1>2, <2>2, <2>3, <2>4, <2>5 DEF Task
  <1> QED  BY <1>1, <1>2

\* Every step keeps the types.
LEMMA TypeNext ==
  TypeOK /\ StartInv /\ TaskInv /\ [Next]_vars => TypeOK' /\ StartInv'
  <1> SUFFICES ASSUME TypeOK, StartInv, TaskInv, [Next]_vars PROVE TypeOK' /\ StartInv'
    OBVIOUS
  <1>1. CASE Finished \/ UNCHANGED vars
    BY <1>1 DEF Finished, vars, TypeOK, StartInv
  <1> QED  BY <1>1, TypeMain, TypePoll, TypeWorkers DEF Next

-----------------------------------------------------------------------------
\* What each actor leaves alone.
LEMMA PollFrame ==
  PollThread => UNCHANGED <<mainVars, turn, workerVars>>
                \/ (UNCHANGED <<mpc, spawned, submitted, stopWork, turn, workerVars>>
                    /\ tracked' \in SUBSET tracked)
  BY DEF PollThread, PollDies, PollBreaks, PollSignals, PollUntracks, PollCloses, Receive,
         PollTerminates

\* A worker changes nothing of the client nor of what is on its way to it.
LEMMA WorkerFrame ==
  ASSUME NEW w \in Workers, Worker(w)
  PROVE  UNCHANGED <<mainVars, pollVars, open, turn, resp, nerr, todo, killed>>
  BY DEF Worker, InitWorker, TakeRequest, TakeStop, Drained, Die

\* A task changes nothing of the client, of the workers and of the pipes to them.
LEMMA TaskFrame ==
  ASSUME NEW r \in Requests, Task(r)
  PROVE  UNCHANGED <<mainVars, pollVars, open, turn, pipe, wpc, report, todo, killed>>
  BY DEF Task, Post, FirstChunk, LastResponse, RequestBreaks, Respond

\* A task goes on only once it was started.
LEMMA TaskStep ==
  ASSUME NEW r \in Requests, Task(r)
  PROVE  /\ task[r].pc \in {"queued"} \cup Active
         /\ \E pc \in Active \cup {"done"} : task' = [task EXCEPT ![r].pc = pc]
  <1>1. CASE Post(r)  BY <1>1 DEF Post, Active
  <1>2. CASE FirstChunk(r)  BY <1>2 DEF FirstChunk, Respond, Active
  <1>3. CASE LastResponse(r)  BY <1>3 DEF LastResponse, Respond, Active
  <1>4. CASE RequestBreaks(r)  BY <1>4 DEF RequestBreaks, Respond, Active
  <1> QED  BY <1>1, <1>2, <1>3, <1>4 DEF Task

\* A system that is finished stays as it is.
LEMMA FinishedFrame == Finished => UNCHANGED vars
  BY DEF Finished

\* Until the core has stopped, nobody tells a worker to leave.
LEMMA ServiceNext == IInv /\ [Next]_vars => ServiceInv'
  <1> SUFFICES ASSUME IInv, [Next]_vars PROVE ServiceInv'
    OBVIOUS
  <1> DEFINE InService == mpc \in {"start", "track", "await", "submit"}
  <1> USE ConstantTypes DEF IInv, TypeOK, ServiceInv
  <1>1. CASE StartWorker
    <2>1. wpc' = [wpc EXCEPT ![Cardinality(tracked) + 1] = "init"] /\ mpc' = "track"
          /\ UNCHANGED <<killed, open, stopWork, isShutdown, report, pipe>>
          /\ Cardinality(tracked) + 1 \in Workers /\ wpc[Cardinality(tracked) + 1] = "none"
      <3>1. PICK k \in 0..(NumWorkers - 1) :
              /\ tracked = 1..k /\ spawned = {}
              /\ \A w \in Workers : w > k => wpc[w] = "none"
        BY <1>1 DEF StartWorker, StartInv
      <3>2. Cardinality(tracked) + 1 = k + 1 /\ k + 1 \in Workers
        BY <3>1, NextNumber DEF Workers
      <3> QED  BY <1>1, <3>1, <3>2 DEF StartWorker
    <2> QED  BY <1>1, <2>1 DEF StartWorker
  <1>2. CASE TrackWorker  BY <1>2 DEF TrackWorker
  <1>3. ASSUME NEW w \in Workers, HearReady(w) PROVE ServiceInv'
    BY <1>3 DEF HearReady, StartInv
  <1>4. CASE StartFails \/ StopWork \/ FlushReturns \/ FlushHangs \/ MainSignals \/ MainCloses
             \/ MainExits \/ StartRaises \/ Sigterm
    BY <1>4 DEF StartFails, StopWork, FlushReturns, FlushHangs, MainSignals, MainCloses, MainExits,
                StartRaises, Sigterm
  <1>5. ASSUME NEW r \in Requests, Submit(r) PROVE ServiceInv'
    <2>1. pipe' = [pipe EXCEPT ![turn] = Append(@, r)]
      BY <1>5, Pushed DEF Submit, PushTo
    <2>2. \A w \in Workers : \A i \in DOMAIN pipe'[w] : pipe'[w][i] # Stop
      BY <1>5, <2>1, Extended, SMTT(20) DEF Submit
    <2> QED  BY <1>5, <2>2 DEF Submit
  <1>6. ASSUME NEW w \in Workers, MainTerminates(w) PROVE ServiceInv'
    BY <1>6 DEF MainTerminates
  <1>7. CASE PollThread
    <2>1. mpc' = mpc /\ (InService => mpc = "submit" /\ ppc = "poll")
      BY <1>7, PollFrame DEF StartInv, PollThread, PollDies, PollBreaks, PollSignals, PollUntracks,
         PollCloses, Receive, PollTerminates
    <2>2. InService => \E w \in Workers : Receive(w)
      BY <1>7, <2>1 DEF PollThread, PollDies, PollBreaks, PollSignals, PollUntracks, PollCloses,
         PollTerminates
    <2>3. ASSUME NEW w \in Workers, Receive(w), InService PROVE ServiceInv'
      BY <2>3 DEF Receive
    <2> QED  BY <2>1, <2>2, <2>3
  <1>8. ASSUME NEW w \in Workers, Worker(w) PROVE ServiceInv'
    <2> SUFFICES ASSUME InService PROVE ServiceInv'
      BY <1>8, WorkerFrame
    <2>1. CASE InitWorker(w)  BY <2>1 DEF InitWorker
    <2>2. CASE TakeRequest(w)
      <3>1. \A i \in DOMAIN Tail(pipe[w]) : Tail(pipe[w])[i] # Stop
        BY <2>2, HeadTail DEF TakeRequest
      <3> QED  BY <2>2, <3>1 DEF TakeRequest
    <2>3. ~TakeStop(w)
      BY HeadTail DEF TakeStop
    <2>4. ~Drained(w) /\ ~Die(w)
      BY DEF Drained, Die
    <2> QED  BY <1>8, <2>1, <2>2, <2>3, <2>4 DEF Worker
  <1>9. ASSUME NEW r \in Requests, Task(r) PROVE ServiceInv'
    BY <1>9, TaskFrame
  <1>10. CASE Finished \/ UNCHANGED vars
    BY <1>10, FinishedFrame DEF vars
  <1> QED
    BY <1>1, <1>2, <1>3, <1>4, <1>5, <1>6, <1>7, <1>8, <1>9, <1>10 DEF Next, Main

\* The core stops once, with everything answered.
LEMMA SubmitNext == IInv /\ [Next]_vars => SubmitInv'
  <1> SUFFICES ASSUME IInv, [Next]_vars PROVE SubmitInv'
    OBVIOUS
  <1> USE ConstantTypes DEF IInv, SubmitInv
  <1>1. CASE StartWorker \/ TrackWorker \/ (\E w \in Workers : HearReady(w) \/ MainTerminates(w))
             \/ StartFails
    BY <1>1 DEF StartWorker, TrackWorker, HearReady, MainTerminates, StartFails, ServiceInv
  <1>2. ASSUME NEW r \in Requests, Submit(r) PROVE SubmitInv'
    <2>1. PICK n \in 0..NumRequests : submitted = 1..n
      OBVIOUS
    <2>2. r = n + 1 /\ submitted' = 1..(n + 1)
      BY <1>2, <2>1, NextNumber, SMTT(20) DEF Submit
    <2>3. n + 1 \in 0..NumRequests
      BY <2>2 DEF Requests
    <2> QED  BY <1>2, <2>2, <2>3 DEF Submit
  <1>3. CASE StopWork \/ FlushReturns \/ FlushHangs \/ MainSignals \/ MainCloses \/ MainExits \/ StartRaises
             \/ Sigterm
    BY <1>3 DEF StopWork, FlushReturns, FlushHangs, MainSignals, MainCloses, MainExits, StartRaises, Sigterm,
                ServiceInv
  <1>4. CASE PollThread
    BY <1>4 DEF PollThread, PollDies, PollBreaks, PollSignals, PollUntracks, PollCloses,
                Receive, PollTerminates
  <1>5. CASE (\E w \in Workers : Worker(w)) \/ (\E r \in Requests : Task(r))
    BY <1>5, WorkerFrame, TaskFrame
  <1>6. CASE Finished \/ UNCHANGED vars
    BY <1>6, FinishedFrame DEF vars
  <1> QED
    BY <1>1, <1>2, <1>3, <1>4, <1>5, <1>6 DEF Next, Main

\* Every step keeps TaskInv.
LEMMA TaskNext == IInv /\ [Next]_vars => TaskInv'
  <1> SUFFICES ASSUME IInv, [Next]_vars PROVE TaskInv'
    OBVIOUS
  <1> USE DEF IInv, TaskInv
  <1>1. CASE Main \/ Sigterm \/ PollThread \/ Finished \/ UNCHANGED vars
    <2>1. task' = task /\ submitted \subseteq submitted'
      BY <1>1, PollFrame, FinishedFrame DEF vars, Main, Sigterm, StartWorker, TrackWorker, HearReady,
         StartFails, Submit, StopWork, FlushReturns, FlushHangs, MainSignals, MainCloses, MainTerminates,
         MainExits, StartRaises
    <2> QED  BY <2>1
  <1>2. ASSUME NEW w \in Workers, Worker(w) PROVE TaskInv'
    <2>1. CASE TakeRequest(w)
      <3>1. Head(pipe[w]) \in outstanding
        BY <2>1, HeadTail DEF TakeRequest, PipeInv, TypeOK
      <3>2. Head(pipe[w]) \in submitted
        BY <3>1 DEF TypeOK
      <3> QED  BY <2>1, <3>2, WorkerFrame, <1>2 DEF TakeRequest, TypeOK
    <2> QED  BY <1>2, <2>1, WorkerFrame DEF Worker, InitWorker, TakeStop, Drained, Die
  <1>3. ASSUME NEW r \in Requests, Task(r) PROVE TaskInv'
    <2>1. PICK pc \in Active \cup {"done"} : task' = [task EXCEPT ![r].pc = pc]
      BY <1>3, TaskStep
    <2>2. task[r].pc # "none" /\ submitted' = submitted
      BY <1>3, TaskStep, TaskFrame DEF Active
    <2> QED  BY <2>1, <2>2 DEF TypeOK
  <1> QED  BY <1>1, <1>2, <1>3 DEF Next

-----------------------------------------------------------------------------
\* The pipes of the workers, under the three things that happen to them.
LEMMA PipeTaken ==
  ASSUME IInv, NEW w \in Workers, pipe[w] # <<>>, pipe' = [pipe EXCEPT ![w] = Tail(@)],
         outstanding' = outstanding,
         \A r \in Requests : task'[r].pc = "none" <=>
            task[r].pc = "none" /\ r # Head(pipe[w])
  PROVE  PipeInv'
  <1> USE DEF IInv, TypeOK
  <1>1. /\ Head(pipe[w]) = pipe[w][1] /\ 1 \in DOMAIN pipe[w]
        /\ \A i \in DOMAIN Tail(pipe[w]) :
                i + 1 \in DOMAIN pipe[w] /\ Tail(pipe[w])[i] = pipe[w][i + 1]
        /\ DOMAIN Tail(pipe[w]) \subseteq Nat \ {0}
    BY HeadTail
  <1> DEFINE old(v, i) == IF v = w THEN i + 1 ELSE i
  <1>2. ASSUME NEW v \in Workers, NEW i \in DOMAIN pipe'[v]
        PROVE  /\ old(v, i) \in DOMAIN pipe[v] /\ pipe'[v][i] = pipe[v][old(v, i)]
               /\ i \in Int /\ (v = w => old(v, i) # 1)
               /\ pipe[v][old(v, i)] \in Requests \cup {Stop}
    <2>1. CASE v = w  BY <1>1, <2>1
    <2>2. CASE v # w  BY <2>2
    <2> QED  BY <2>1, <2>2
  <1>3. ASSUME NEW v \in Workers, NEW i \in DOMAIN pipe'[v], pipe'[v][i] # Stop
        PROVE  /\ pipe'[v][i] \in outstanding' /\ task'[pipe'[v][i]].pc = "none"
               /\ \A u \in Workers : \A j \in DOMAIN pipe'[u] :
                    pipe'[u][j] = pipe'[v][i] => u = v /\ j = i
    <2>1. /\ pipe'[v][i] = pipe[v][old(v, i)] /\ pipe[v][old(v, i)] \in Requests
          /\ old(v, i) \in DOMAIN pipe[v] /\ i \in Int
      BY <1>2, <1>3
    <2>2. pipe[v][old(v, i)] # Head(pipe[w])
      <3>1. pipe[v][old(v, i)] = pipe[w][1] => w = v /\ 1 = old(v, i)
        BY <1>1, <1>3, <2>1 DEF PipeInv
      <3> QED  BY <1>1, <1>2, <3>1
    <2>3. ASSUME NEW u \in Workers, NEW j \in DOMAIN pipe'[u], pipe'[u][j] = pipe'[v][i]
          PROVE  u = v /\ old(u, j) = old(v, i) /\ j \in Int
      <3>1. /\ old(u, j) \in DOMAIN pipe[u] /\ pipe'[u][j] = pipe[u][old(u, j)]
            /\ j \in Int
        BY <1>2
      <3>2. pipe[u][old(u, j)] = pipe[v][old(v, i)] /\ pipe[v][old(v, i)] # Stop
        BY <1>3, <2>1, <2>3, <3>1
      <3>3. PipeInv
        OBVIOUS
      <3>4. ASSUME NEW a \in DOMAIN pipe[u], NEW b \in DOMAIN pipe[v],
                   pipe[u][a] = pipe[v][b], pipe[v][b] # Stop
            PROVE  u = v /\ a = b
        BY <3>3, <3>4 DEF PipeInv
      <3> HIDE DEF old
      <3> QED  BY <2>1, <3>1, <3>2, <3>4
    <2>4. \A u \in Workers : \A j \in DOMAIN pipe'[u] :
                    pipe'[u][j] = pipe'[v][i] => u = v /\ j = i
      BY <2>1, <2>3, SMTT(20)
    <2> QED  BY <1>3, <2>1, <2>2, <2>4 DEF PipeInv
  <1> QED  BY <1>3 DEF PipeInv

\* PipeInv, when the client sends the shutdown messages.
LEMMA PipeStopped ==
  ASSUME IInv, UNCHANGED <<outstanding, task>>, SendShutdownSignals
  PROVE  PipeInv'
  <1> USE ConstantTypes DEF IInv, TypeOK
  <1>1. CASE ~open
    BY <1>1 DEF SendShutdownSignals, PipeInv
  <1>2. CASE open
    <2>1. pipe' = [w \in Workers |-> Append(pipe[w], Stop)]
      BY <1>2 DEF SendShutdownSignals
    <2>2. ASSUME NEW w \in Workers, NEW i \in DOMAIN pipe'[w], pipe'[w][i] # Stop
          PROVE  i \in DOMAIN pipe[w] /\ pipe'[w][i] = pipe[w][i]
      <3>1. pipe'[w] = Append(pipe[w], Stop) /\ pipe[w] \in Seq(Requests \cup {Stop})
        BY <2>1
      <3>2. i \in DOMAIN Append(pipe[w], Stop) /\ Append(pipe[w], Stop)[i] # Stop
        BY <2>2, <3>1
      <3> HIDE DEF IInv, TypeOK
      <3>3. i \in DOMAIN pipe[w] /\ Append(pipe[w], Stop)[i] = pipe[w][i]
        BY <3>1, <3>2, Extended
      <3> QED  BY <3>1, <3>3
    <2> QED  BY <2>2 DEF PipeInv
  <1> QED  BY <1>1, <1>2

\* Every step keeps PipeInv.
LEMMA PipeNext == IInv /\ [Next]_vars => PipeInv'
  <1> SUFFICES ASSUME IInv, [Next]_vars PROVE PipeInv'
    OBVIOUS
  <1> USE ConstantTypes DEF IInv
  <1>1. ASSUME NEW r \in Requests, Submit(r) PROVE PipeInv'
    <2> USE DEF TypeOK
    <2>1. r \notin submitted
      <3>1. PICK n \in 0..NumRequests : submitted = 1..n
        BY DEF SubmitInv
      <3> QED  BY <1>1, <3>1, NextNumber DEF Submit
    <2>2. task[r].pc = "none" /\ r \notin outstanding /\ task' = task
      BY <1>1, <2>1 DEF TaskInv, Submit
    <2>3. pipe' = [pipe EXCEPT ![turn] = Append(@, r)] /\ outstanding' = outstanding \cup {r}
      BY <1>1, Pushed DEF Submit, PushTo, ServiceInv
    <2>4. \A w \in Workers : \A i \in DOMAIN pipe[w] : pipe[w][i] # r
      BY <2>2 DEF PipeInv
    <2>5. \A i \in DOMAIN Append(pipe[turn], r) :
            \/ i = Len(pipe[turn]) + 1 /\ Append(pipe[turn], r)[i] = r
            \/ i \in DOMAIN pipe[turn] /\ Append(pipe[turn], r)[i] = pipe[turn][i]
      <3>1. pipe[turn] \in Seq(Requests \cup {Stop}) /\ r \in Requests \cup {Stop}
        OBVIOUS
      <3> QED  BY <3>1
    <2>6. \A w \in Workers : \A i \in DOMAIN pipe'[w] :
            \/ w = turn /\ i = Len(pipe[turn]) + 1 /\ pipe'[w][i] = r
            \/ i \in DOMAIN pipe[w] /\ pipe'[w][i] = pipe[w][i]
      BY <2>3, <2>5
    <2> QED  BY <2>2, <2>3, <2>4, <2>6, SMTT(20) DEF PipeInv
  <1>2. CASE MainSignals  BY <1>2, PipeStopped DEF MainSignals
  <1>3. CASE StartWorker \/ TrackWorker \/ (\E w \in Workers : HearReady(w) \/ MainTerminates(w))
             \/ StartFails \/ StopWork \/ FlushReturns \/ FlushHangs \/ MainCloses \/ MainExits
             \/ StartRaises \/ Sigterm
    BY <1>3 DEF StartWorker, TrackWorker, HearReady, MainTerminates, StartFails, StopWork,
                FlushReturns, FlushHangs, MainCloses, MainExits, StartRaises, Sigterm, PipeInv
  <1>4. CASE PollSignals  BY <1>4, PipeStopped DEF PollSignals
  <1>5. ASSUME NEW w \in Workers, Receive(w) PROVE PipeInv'
    <2>1. Head(resp[w]) = resp[w][1] /\ 1 \in DOMAIN resp[w]
      BY <1>5, HeadTail DEF Receive, TypeOK
    <2>2. task[Head(resp[w]).id].pc # "none"
      BY <2>1 DEF ResponseInv, MessageFits
    <2>3. outstanding \ {Head(resp[w]).id} \subseteq outstanding'
          /\ pipe' = pipe /\ task' = task
      BY <1>5 DEF Receive
    <2> QED  BY <2>2, <2>3 DEF PipeInv
  <1>6. CASE PollDies \/ PollBreaks \/ PollUntracks \/ PollCloses
             \/ (\E w \in Workers : PollTerminates(w))
    BY <1>6 DEF PollDies, PollBreaks, PollUntracks, PollCloses, PollTerminates, PipeInv
  <1>7. ASSUME NEW w \in Workers, Worker(w) PROVE PipeInv'
    <2>1. CASE TakeRequest(w)
      <3>1. \A r \in Requests : task'[r].pc = "none" <=>
                task[r].pc = "none" /\ r # Head(pipe[w])
        BY <2>1 DEF TakeRequest, TypeOK
      <3> QED  BY <2>1, <3>1, PipeTaken DEF TakeRequest
    <2>2. CASE TakeStop(w)
      <3>1. \A r \in Requests : task'[r].pc = "none" <=>
                task[r].pc = "none" /\ r # Head(pipe[w])
        BY <2>2 DEF TakeStop
      <3> QED  BY <2>2, <3>1, PipeTaken DEF TakeStop
    <2>3. CASE InitWorker(w) \/ Drained(w) \/ Die(w)
      BY <2>3 DEF InitWorker, Drained, Die, PipeInv
    <2> QED  BY <1>7, <2>1, <2>2, <2>3 DEF Worker
  <1>8. ASSUME NEW r \in Requests, Task(r) PROVE PipeInv'
    <2>1. \A q \in Requests : task[q].pc = "none" => task'[q].pc = "none"
      BY <1>8, TaskStep DEF TypeOK, Active
    <2>2. UNCHANGED <<pipe, outstanding>>
      BY <1>8, TaskFrame
    <2> QED  BY <2>1, <2>2 DEF PipeInv, TypeOK
  <1>9. CASE Finished \/ UNCHANGED vars
    BY <1>9, FinishedFrame DEF vars, PipeInv
  <1> QED
    BY <1>1, <1>2, <1>3, <1>4, <1>5, <1>6, <1>7, <1>8, <1>9 DEF Next, Main, PollThread

-----------------------------------------------------------------------------
\* Each message under way fits what was received of its request before it.
LEMMA ResponsesFit ==
  ASSUME IInv
  PROVE  \A w \in Workers : \A i \in DOMAIN resp[w] :
            resp[w][i].id \in Requests /\ i \in Nat /\ MessageFits(w, i)
  <1> DEFINE Messages == [id : Requests, kind : ResponseKinds]
  <1>1. ASSUME NEW w \in Workers, NEW i \in DOMAIN resp[w]
        PROVE  resp[w][i] \in Messages /\ i \in Nat \ {0}
    <2>1. resp[w] \in Seq(Messages)
      BY DEF IInv, TypeOK
    <2> HIDE DEF Messages
    <2> QED  BY <2>1, ElementType
  <1> QED  BY <1>1 DEF IInv, ResponseInv

\* What a task may send, from one state of it to the next.
Sends(from, kind, to) ==
    \/ from = "posted" /\ kind = "first" /\ to = "streaming"
    \/ from = "posted" /\ kind = "firstFinal" /\ to = "last"
    \/ from \in {"posted", "streaming"} /\ kind \in {"final", "error"} /\ to = "done"
    \/ from = "last" /\ kind = "final" /\ to = "done"

\* ResponseInv, when a task sends a message that its state admits.
LEMMA ResponseSent ==
  ASSUME IInv, NEW r \in Requests, NEW kind, NEW pc, Respond(r, kind, pc),
         received' = received, Sends(task[r].pc, kind, pc)
  PROVE  ResponseInv'
  <1> DEFINE w == task[r].worker
             m == [id |-> r, kind |-> kind]
             Messages == [id : Requests, kind : ResponseKinds]
  <1>1. w \in Workers /\ m \in Messages /\ resp \in [Workers -> Seq(Messages)]
    BY DEF IInv, TypeOK, TaskInv, Sends, ResponseKinds
  <1>2. /\ \A q \in Requests \ {r} : task'[q] = task[q]
        /\ task'[r].pc = pc /\ task'[r].worker = w
    BY DEF IInv, TypeOK, Respond
  <1>3. resp' = [resp EXCEPT ![w] = Append(@, m)]
    BY DEF Respond
  <1>4. /\ \A i \in DOMAIN Append(resp[w], m) :
            \/ i = Len(resp[w]) + 1 /\ Append(resp[w], m)[i] = m
            \/ i \in DOMAIN resp[w] /\ Append(resp[w], m)[i] = resp[w][i]
        /\ \A i \in DOMAIN resp[w] : i < Len(resp[w]) + 1
        /\ Len(resp[w]) \in Nat
    <2>1. resp[w] \in Seq(Messages)
      BY <1>1
    <2> HIDE DEF w, m, Messages
    <2> QED  BY <1>1, <2>1
  <1>5. \A v \in Workers : \A i \in DOMAIN resp'[v] :
            \/ v = w /\ i = Len(resp[w]) + 1 /\ resp'[v][i] = m
            \/ i \in DOMAIN resp[v] /\ resp'[v][i] = resp[v][i]
    <2> HIDE DEF w, m, Messages
    <2> QED  BY <1>1, <1>3, <1>4
  <1>6. \A v \in Workers : \A i \in DOMAIN resp[v] :
            resp[v][i].id \in Requests /\ i \in Nat /\ MessageFits(v, i)
    BY ResponsesFit
  <1>7. \A q \in Requests : RequestFits(q)
    BY DEF IInv, ResponseInv
  <1>8. m.id = r /\ m.kind = kind
    OBVIOUS
  <1> HIDE DEF w, m, Messages
  <1>9. ASSUME NEW v \in Workers, NEW i \in DOMAIN resp[v], resp'[v][i] = resp[v][i]
        PROVE  MessageFits(v, i)'
    <2> DEFINE q == resp[v][i].id
               kq == resp[v][i].kind
    <2>1. /\ q \in Requests
          /\ task[q].worker = v /\ task[q].pc \in {"streaming", "last", "done"}
          /\ task[q].pc = "streaming" => kq = "first"
          /\ task[q].pc = "last" => kq = "firstFinal"
          /\ received[q] # <<>> =>
                \E k \in {"first", "firstFinal"} : received[q] = <<k>> /\ Follows(k, kq)
      BY <1>6 DEF MessageFits
    <2>2. ASSUME NEW j \in DOMAIN resp'[v], i < j, resp'[v][j].id = q
          PROVE  Follows(kq, resp'[v][j].kind)
      <3>1. CASE j \in DOMAIN resp[v] /\ resp'[v][j] = resp[v][j]
        BY <1>6, <2>2, <3>1 DEF MessageFits
      <3>2. CASE v = w /\ resp'[v][j] = m
        BY <1>8, <2>1, <2>2, <3>2 DEF Sends, Follows
      <3> QED  BY <1>5, <3>1, <3>2
    <2>3. /\ task'[q].worker = v /\ task'[q].pc \in {"streaming", "last", "done"}
          /\ task'[q].pc = "streaming" => kq = "first"
          /\ task'[q].pc = "last" => kq = "firstFinal"
      <3>1. CASE q = r
        <4>1. task[r].pc \in {"streaming", "last"} /\ pc = "done" /\ task[r].worker = v
          BY <2>1, <3>1 DEF Sends
        <4>2. task'[r].worker = v /\ task'[r].pc = "done"
          BY <1>2, <4>1 DEF w
        <4> QED  BY <3>1, <4>2
      <3>2. CASE q # r  BY <1>2, <2>1, <3>2
      <3> QED  BY <3>1, <3>2
    <2> HIDE DEF q, kq
    <2>4. resp'[v][i].id = q /\ resp'[v][i].kind = kq
      BY <1>9 DEF q, kq
    <2> QED  BY <2>1, <2>2, <2>3, <2>4 DEF MessageFits
  <1>10. ASSUME NEW v \in Workers, v = w,
                NEW i, i = Len(resp[w]) + 1, resp'[v][i] = m
         PROVE  MessageFits(v, i)'
    <2>1. \A j \in DOMAIN resp'[v] : ~(i < j)
      BY <1>1, <1>4, <1>5, <1>6, <1>10
    <2>2. received[r] # <<>> =>
            \E k \in {"first", "firstFinal"} : received[r] = <<k>> /\ Follows(k, kind)
      BY <1>7 DEF RequestFits, Sends, Follows
    <2>3. /\ task'[r].worker = v /\ task'[r].pc \in {"streaming", "last", "done"}
          /\ task'[r].pc = "streaming" => kind = "first"
          /\ task'[r].pc = "last" => kind = "firstFinal"
      BY <1>2, <1>10 DEF Sends
    <2> QED  BY <1>8, <1>10, <2>1, <2>2, <2>3 DEF MessageFits
  <1>11. \A v \in Workers : \A i \in DOMAIN resp'[v] : MessageFits(v, i)'
    BY <1>1, <1>5, <1>9, <1>10
  <1>12. \A q \in Requests : RequestFits(q)'
    BY <1>2, <1>7 DEF RequestFits, Sends
  <1> QED  BY <1>11, <1>12 DEF ResponseInv

\* The client receives only messages that are in protocol.
LEMMA ResponseReceived ==
  ASSUME IInv, NEW w \in Workers, Receive(w)
  PROVE  ResponseInv' /\ AnswersInProtocol'
  <1> DEFINE r == resp[w][1].id
             kind == resp[w][1].kind
             Messages == [id : Requests, kind : ResponseKinds]
  <1>1. /\ resp \in [Workers -> Seq(Messages)]
        /\ received \in [Requests -> Seq(ResponseKinds)]
    BY DEF IInv, TypeOK
  <1>2. /\ Head(resp[w]) = resp[w][1] /\ 1 \in DOMAIN resp[w] /\ resp[w][1] \in Messages
        /\ \A i \in DOMAIN Tail(resp[w]) :
                /\ i \in Nat \ {0} /\ i + 1 \in DOMAIN resp[w]
                /\ Tail(resp[w])[i] = resp[w][i + 1]
    <2>1. resp[w] \in Seq(Messages) /\ resp[w] # <<>>
      BY <1>1 DEF Receive
    <2> HIDE DEF Messages
    <2>2. Tail(resp[w]) \in Seq(Messages)
      BY <2>1, HeadTail
    <2> QED  BY <2>1, <2>2, HeadTail, ElementType
  <1>3. /\ received' = [received EXCEPT ![r] = Append(@, kind)]
        /\ resp' = [resp EXCEPT ![w] = Tail(@)] /\ task' = task
        /\ r \in Requests /\ kind \in ResponseKinds
    BY <1>2 DEF Receive
  <1>4. \A v \in Workers : \A i \in DOMAIN resp[v] :
            resp[v][i].id \in Requests /\ i \in Nat /\ MessageFits(v, i)
    BY ResponsesFit
  <1>5. \A q \in Requests : RequestFits(q)
    BY DEF IInv, ResponseInv
  <1>6. /\ task[r].worker = w /\ task[r].pc \in {"streaming", "last", "done"}
        /\ task[r].pc = "streaming" => kind = "first"
        /\ task[r].pc = "last" => kind = "firstFinal"
        /\ received[r] # <<>> =>
            \E k \in {"first", "firstFinal"} : received[r] = <<k>> /\ Follows(k, kind)
        /\ \A j \in DOMAIN resp[w] : 1 < j /\ resp[w][j].id = r =>
            Follows(kind, resp[w][j].kind)
    BY <1>2, <1>4 DEF MessageFits
  <1> HIDE DEF r, kind, Messages
  <1>7. \/ received[r] = <<>> /\ received'[r] = <<kind>>
        \/ \E k \in {"first", "firstFinal"} :
            received[r] = <<k>> /\ Follows(k, kind) /\ received'[r] = <<k, kind>>
    <2>1. received'[r] = Append(received[r], kind)
      BY <1>1, <1>3
    <2>2. CASE received[r] = <<>>
      <3>1. Append(<<>>, kind) = <<kind>>
        OBVIOUS
      <3> QED  BY <2>1, <2>2, <3>1
    <2>3. CASE received[r] # <<>>
      <3>1. PICK k \in {"first", "firstFinal"} : received[r] = <<k>> /\ Follows(k, kind)
        BY <1>6, <2>3
      <3>2. Append(<<k>>, kind) = <<k, kind>>
        BY AppendTwo
      <3> QED  BY <2>1, <3>1, <3>2
    <2> QED  BY <2>2, <2>3
  <1>8. AnswersInProtocol'
    <2>1. received'[r] \in
            {<<>>, <<"first">>, <<"firstFinal">>, <<"final">>, <<"error">>,
             <<"first", "final">>, <<"first", "error">>, <<"firstFinal", "final">>}
      BY <1>3, <1>7 DEF Follows, ResponseKinds
    <2> QED  BY <1>1, <1>3, <2>1 DEF IInv, AnswersInProtocol
  <1> DEFINE old(v, i) == IF v = w THEN i + 1 ELSE i
  <1>9. ASSUME NEW v \in Workers, NEW i \in DOMAIN resp'[v]
        PROVE  /\ old(v, i) \in DOMAIN resp[v] /\ resp'[v][i] = resp[v][old(v, i)]
               /\ i \in Nat /\ (v = w => 1 < old(v, i))
    <2>1. CASE v = w
      <3>1. resp'[v] = Tail(resp[w])
        BY <1>1, <1>3, <2>1
      <3> QED  BY <1>2, <2>1, <3>1
    <2>2. CASE v # w
      <3>1. resp'[v] = resp[v]
        BY <1>1, <1>3, <2>2
      <3> QED  BY <1>4, <2>2, <3>1
    <2> QED  BY <2>1, <2>2
  <1>10. ASSUME NEW v \in Workers, NEW i \in DOMAIN resp'[v]
         PROVE  MessageFits(v, i)'
    <2> DEFINE n == old(v, i)
               q == resp[v][n].id
               kq == resp[v][n].kind
    <2>1. /\ resp'[v][i].id = q /\ resp'[v][i].kind = kq
          /\ n \in DOMAIN resp[v] /\ (v = w => 1 < n)
      BY <1>9
    <2>2. /\ q \in Requests
          /\ task[q].worker = v /\ task[q].pc \in {"streaming", "last", "done"}
          /\ task[q].pc = "streaming" => kq = "first"
          /\ task[q].pc = "last" => kq = "firstFinal"
          /\ received[q] # <<>> =>
                \E k \in {"first", "firstFinal"} : received[q] = <<k>> /\ Follows(k, kq)
          /\ \A j \in DOMAIN resp[v] : n < j /\ resp[v][j].id = q =>
                Follows(kq, resp[v][j].kind)
      <3>1. MessageFits(v, n) /\ resp[v][n].id \in Requests
        BY <1>4, <2>1
      <3> HIDE DEF n
      <3> QED  BY <3>1 DEF MessageFits
    <2>3. ASSUME NEW j \in DOMAIN resp'[v], i < j, resp'[v][j].id = q
          PROVE  Follows(kq, resp'[v][j].kind)
      <3>1. /\ old(v, j) \in DOMAIN resp[v] /\ resp'[v][j] = resp[v][old(v, j)]
            /\ i \in Nat /\ j \in Nat
        BY <1>9
      <3>2. n < old(v, j)
        BY <2>3, <3>1
      <3> HIDE DEF n, old, q, kq
      <3> QED  BY <2>2, <2>3, <3>1, <3>2
    <2> HIDE DEF old, n, q
    <2>4. received'[q] # <<>> =>
            \E k \in {"first", "firstFinal"} : received'[q] = <<k>> /\ Follows(k, kq)
      <3>1. CASE q # r
        BY <1>1, <1>3, <2>2, <3>1
      <3>2. CASE q = r
        <4>1. v = w
          BY <1>6, <2>2, <3>2
        <4>2. Follows(kind, kq)
          BY <1>6, <2>1, <3>2, <4>1 DEF q
        <4>3. received[r] = <<>> /\ received'[r] = <<kind>>
          BY <1>7, <4>2 DEF Follows
        <4> QED  BY <3>2, <4>2, <4>3 DEF Follows
      <3> QED  BY <3>1, <3>2
    <2> HIDE DEF kq
    <2> QED  BY <1>3, <2>1, <2>2, <2>3, <2>4 DEF MessageFits
  <1>11. ASSUME NEW q \in Requests PROVE RequestFits(q)'
    <2>1. CASE q # r
      BY <1>1, <1>3, <1>5, <2>1 DEF RequestFits
    <2>2. CASE q = r
      BY <1>3, <1>6, <1>7, <2>2 DEF RequestFits, Follows
    <2> QED  BY <2>1, <2>2
  <1> QED  BY <1>8, <1>10, <1>11 DEF ResponseInv

\* Every step keeps ResponseInv, and what the client has received is in protocol.
LEMMA ResponseNext == IInv /\ [Next]_vars => ResponseInv' /\ AnswersInProtocol'
  <1> SUFFICES ASSUME IInv, [Next]_vars PROVE ResponseInv' /\ AnswersInProtocol'
    OBVIOUS
  <1>1. ASSUME UNCHANGED <<resp, received, task>>
        PROVE  ResponseInv' /\ AnswersInProtocol'
    BY <1>1 DEF IInv, ResponseInv, MessageFits, RequestFits, AnswersInProtocol
  <1>2. ASSUME received' = received PROVE AnswersInProtocol'
    BY <1>2 DEF IInv, AnswersInProtocol
  <1>3. CASE Main \/ Sigterm
    BY <1>1, <1>3 DEF Main, Sigterm, StartWorker, TrackWorker, HearReady, StartFails, Submit,
         StopWork, FlushReturns, FlushHangs, MainSignals, MainCloses, MainTerminates, MainExits, StartRaises
  <1>4. CASE PollThread
    <2>1. CASE \E w \in Workers : Receive(w)  BY <2>1, ResponseReceived
    <2>2. CASE PollDies \/ PollBreaks \/ PollSignals \/ PollUntracks \/ PollCloses
               \/ (\E w \in Workers : PollTerminates(w))
      BY <1>1, <2>2 DEF PollDies, PollBreaks, PollSignals, PollUntracks, PollCloses, PollTerminates
    <2> QED  BY <1>4, <2>1, <2>2 DEF PollThread
  <1>5. ASSUME NEW w \in Workers, Worker(w) PROVE ResponseInv' /\ AnswersInProtocol'
    <2>1. CASE TakeRequest(w)
      <3> DEFINE r == Head(pipe[w])
      <3>1. r \in Requests /\ task[r].pc = "none"
        BY <2>1, HeadTail DEF TakeRequest, IInv, TypeOK, PipeInv
      <3>2. /\ task' = [task EXCEPT ![r] = [worker |-> w, pc |-> "queued"]]
            /\ task \in [Requests -> [worker : 0..NumWorkers,
                                      pc : {"none", "queued", "done"} \cup Active]]
        BY <2>1 DEF TakeRequest, IInv, TypeOK
      <3>3. UNCHANGED <<resp, received>>
        BY <1>5, WorkerFrame
      <3>4. ASSUME NEW v \in Workers, NEW i \in DOMAIN resp[v] PROVE MessageFits(v, i)'
        <4>1. MessageFits(v, i)
          BY ResponsesFit
        <4>2. resp[v][i].id \in Requests
          BY ResponsesFit
        <4>3. resp[v][i].id # r
          BY <3>1, <4>1 DEF MessageFits
        <4>4. task'[resp[v][i].id] = task[resp[v][i].id]
          BY <3>2, <4>2, <4>3
        <4> QED  BY <3>3, <4>1, <4>4 DEF MessageFits
      <3>5. ASSUME NEW q \in Requests PROVE RequestFits(q)'
        <4>1. RequestFits(q)
          BY DEF IInv, ResponseInv
        <4> QED  BY <3>1, <3>2, <3>3, <4>1 DEF RequestFits
      <3> QED  BY <1>2, <3>3, <3>4, <3>5 DEF ResponseInv
    <2> QED  BY <1>1, <1>5, <2>1 DEF Worker, InitWorker, TakeStop, Drained, Die
  <1>6. ASSUME NEW r \in Requests, Task(r) PROVE ResponseInv' /\ AnswersInProtocol'
    <2>1. received' = received
      BY <1>6, TaskFrame
    <2>2. CASE Post(r)
      <3>1. /\ task[r].pc = "queued" /\ task' = [task EXCEPT ![r].pc = "posted"] /\ resp' = resp
            /\ task \in [Requests -> [worker : 0..NumWorkers,
                                      pc : {"none", "queued", "done"} \cup Active]]
        BY <2>2 DEF Post, IInv, TypeOK
      <3>2. ASSUME NEW v \in Workers, NEW i \in DOMAIN resp[v] PROVE MessageFits(v, i)'
        <4>1. MessageFits(v, i)
          BY ResponsesFit
        <4>2. resp[v][i].id \in Requests
          BY ResponsesFit
        <4>3. resp[v][i].id # r
          BY <3>1, <4>1 DEF MessageFits
        <4>4. task'[resp[v][i].id] = task[resp[v][i].id]
          BY <3>1, <4>2, <4>3
        <4> QED  BY <2>1, <3>1, <4>1, <4>4 DEF MessageFits
      <3>3. ASSUME NEW q \in Requests PROVE RequestFits(q)'
        <4>1. RequestFits(q)
          BY DEF IInv, ResponseInv
        <4> QED  BY <2>1, <3>1, <4>1 DEF RequestFits
      <3> QED  BY <1>2, <2>1, <3>1, <3>2, <3>3 DEF ResponseInv
    <2>3. CASE FirstChunk(r)
      <3>1. PICK final \in BOOLEAN : Respond(r, IF final THEN "firstFinal" ELSE "first",
                                      IF final THEN "last" ELSE "streaming")
        BY <2>3 DEF FirstChunk
      <3>2. task[r].pc = "posted"
        BY <2>3 DEF FirstChunk
      <3> QED  BY <1>2, <2>1, <3>1, <3>2, ResponseSent DEF Sends
    <2>4. CASE LastResponse(r)
      BY <1>2, <2>1, <2>4, ResponseSent DEF LastResponse, Sends, Active
    <2>5. CASE RequestBreaks(r)
      BY <1>2, <2>1, <2>5, ResponseSent DEF RequestBreaks, Sends
    <2> QED  BY <1>6, <2>2, <2>3, <2>4, <2>5 DEF Task
  <1>7. CASE Finished \/ UNCHANGED vars
    BY <1>1, <1>7, FinishedFrame DEF vars
  <1> QED  BY <1>3, <1>4, <1>5, <1>6, <1>7 DEF Next

\* Every step keeps the invariant.
LEMMA Inductive == IInv /\ [Next]_vars => IInv'
  BY TypeNext, ServiceNext, SubmitNext, PipeNext, TaskNext, ResponseNext DEF IInv

\* The invariant always holds.
LEMMA Invariance == Spec => []IInv
  BY InitInv, Inductive, PTL DEF Spec

-----------------------------------------------------------------------------
\* Every variable of the client keeps its type.
THEOREM TypeCorrect == Spec => []TypeOK
  <1>1. IInv => TypeOK
    BY DEF IInv
  <1> QED  BY <1>1, Invariance, PTL

\* The core hears at most one first chunk and one end of each request, in this
\* order, whatever the workers do to each other and whenever they die.
THEOREM AnswersCorrect == Spec => []AnswersInProtocol
  <1>1. IInv => AnswersInProtocol
    BY DEF IInv
  <1> QED  BY <1>1, Invariance, PTL

\* Without a signal no worker leaves or is terminated with a request of the core
\* in its pipe or in one of its tasks.
THEOREM NothingAbandoned == Spec => []NoRequestIsAbandoned
  <1>1. IInv => NoRequestIsAbandoned
    <2> SUFFICES ASSUME IInv, ~Interrupted, NEW w \in Workers,
                        wpc[w] \in {"drain", "term", "gone"} \/ w \in killed
                 PROVE  /\ \A i \in DOMAIN pipe[w] : pipe[w][i] = Stop
                        /\ \A r \in TasksOf(w) \cap outstanding : task[r].pc = "done"
      BY DEF NoRequestIsAbandoned
    <2>1. mpc # "submit"
      BY DEF IInv, ServiceInv
    <2>2. outstanding = {}
      BY <2>1 DEF IInv, TypeOK, SubmitInv, Interrupted
    <2> QED  BY <2>2 DEF IInv, PipeInv
  <1> QED  BY <1>1, Invariance, PTL

-----------------------------------------------------------------------------
\* Each semaphore is respected by the tasks of its worker.
LEMMA ShareInit == Init => ShareInv
  <1> SUFFICES ASSUME Init, MaxConcurrency # -1, NEW w \in Workers
               PROVE  Cardinality(SlotsTaken(w)) <= WorkerConcurrency
    BY DEF ShareInv
  <1>1. SlotsTaken(w) = {}
    BY DEF Init, NoTask, SlotsTaken, TasksOf, Active
  <1>2. WorkerConcurrency \in Nat
    BY HttpAssumption DEF WorkerConcurrency
  <1> QED  BY <1>1, <1>2, FS_EmptySet

\* Every step keeps each worker within its share of the limit.
LEMMA ShareNext == IInv /\ ShareInv /\ [Next]_vars => ShareInv'
  <1> SUFFICES ASSUME IInv, ShareInv, [Next]_vars, MaxConcurrency # -1, NEW w \in Workers
               PROVE  Cardinality(SlotsTaken(w)') <= WorkerConcurrency
    BY DEF ShareInv, WorkerConcurrency
  <1>1. WorkerConcurrency \in Nat /\ Cardinality(SlotsTaken(w)) <= WorkerConcurrency
    BY HttpAssumption DEF WorkerConcurrency, ShareInv
  <1>2. IsFiniteSet(SlotsTaken(w)) /\ Cardinality(SlotsTaken(w)) \in Nat
    <2>1. IsFiniteSet(Requests) /\ SlotsTaken(w) \in SUBSET Requests
      BY HttpAssumption, CardInterval DEF Requests, SlotsTaken, TasksOf
    <2> QED  BY <2>1, FS_Subset, FS_CardinalityType
  <1>3. ASSUME SlotsTaken(w)' \subseteq SlotsTaken(w)
        PROVE  Cardinality(SlotsTaken(w)') <= WorkerConcurrency
    <2>1. /\ Cardinality(SlotsTaken(w)') <= Cardinality(SlotsTaken(w))
          /\ Cardinality(SlotsTaken(w)') \in Nat
      BY <1>2, <1>3, FS_Subset, FS_CardinalityType
    <2> QED  BY <1>1, <1>2, <2>1
  <1>4. ASSUME task' = task PROVE SlotsTaken(w)' = SlotsTaken(w)
    BY <1>4 DEF SlotsTaken, TasksOf
  <1>5. CASE Main \/ Sigterm \/ PollThread \/ Finished \/ UNCHANGED vars
    <2>1. task' = task
      BY <1>5, PollFrame, FinishedFrame DEF vars, Main, Sigterm, StartWorker, TrackWorker,
         HearReady, StartFails, Submit, StopWork, FlushReturns, FlushHangs, MainSignals, MainCloses,
         MainTerminates, MainExits, StartRaises
    <2> QED  BY <1>3, <1>4, <2>1
  <1>6. ASSUME NEW v \in Workers, Worker(v)
        PROVE  Cardinality(SlotsTaken(w)') <= WorkerConcurrency
    <2>1. CASE TakeRequest(v)
      <3>1. task' = [task EXCEPT ![Head(pipe[v])] = [worker |-> v, pc |-> "queued"]]
        BY <2>1 DEF TakeRequest
      <3>2. SlotsTaken(w)' \subseteq SlotsTaken(w)
        BY <3>1 DEF IInv, TypeOK, SlotsTaken, TasksOf, Active
      <3> QED  BY <1>3, <3>2
    <2>2. CASE ~TakeRequest(v)
      <3>1. task' = task
        BY <1>6, <2>2 DEF Worker, InitWorker, TakeStop, Drained, Die
      <3> QED  BY <1>3, <1>4, <3>1
    <2> QED  BY <2>1, <2>2
  <1>7. ASSUME NEW r \in Requests, Task(r)
        PROVE  Cardinality(SlotsTaken(w)') <= WorkerConcurrency
    <2>1. PICK pc \in Active \cup {"done"} : task' = [task EXCEPT ![r].pc = pc]
      BY <1>7, TaskStep
    <2>2. task \in [Requests -> [worker : 0..NumWorkers,
                                 pc : {"none", "queued", "done"} \cup Active]]
      BY DEF IInv, TypeOK
    <2>3. CASE Post(r) /\ task[r].worker = w
      <3>1. Cardinality(SlotsTaken(w)) < WorkerConcurrency
        BY <2>3 DEF Post
      <3>2. SlotsTaken(w)' \subseteq SlotsTaken(w) \cup {r}
        BY <2>1, <2>2 DEF SlotsTaken, TasksOf
      <3>3. /\ Cardinality(SlotsTaken(w)') \in Nat
            /\ Cardinality(SlotsTaken(w)') <= Cardinality(SlotsTaken(w)) + 1
        BY <1>2, <3>2, GrowsByOne
      <3> QED  BY <1>1, <1>2, <3>1, <3>3
    <2>4. CASE Post(r) /\ task[r].worker # w
      <3>1. SlotsTaken(w)' \subseteq SlotsTaken(w)
        BY <2>1, <2>2, <2>4 DEF SlotsTaken, TasksOf
      <3> QED  BY <1>3, <3>1
    <2>5. CASE ~Post(r)
      <3>1. task[r].pc \in Active
        BY <1>7, <2>5 DEF Task, FirstChunk, LastResponse, RequestBreaks, Active
      <3>2. SlotsTaken(w)' \subseteq SlotsTaken(w)
        BY <2>1, <2>2, <3>1 DEF SlotsTaken, TasksOf
      <3> QED  BY <1>3, <3>2
    <2> QED  BY <2>3, <2>4, <2>5
  <1> QED  BY <1>5, <1>6, <1>7 DEF Next

\* The shares of the workers are no more than the whole, as the division rounds
\* down.
LEMMA SharesFit ==
  ASSUME MaxConcurrency # -1
  PROVE  WorkerConcurrency \in Nat /\ NumWorkers * WorkerConcurrency <= MaxConcurrency
  BY HttpAssumption DEF WorkerConcurrency

\* All workers together keep max_concurrency, though each knows only its share.
THEOREM ConcurrencyCorrect == Spec => []ConcurrencyRespected
  <1>1. IInv /\ ShareInv => ConcurrencyRespected
    <2> DEFINE active == {r \in Requests : task[r].pc \in Active}
               part == [w \in 1..NumWorkers |-> SlotsTaken(w)]
    <2> SUFFICES ASSUME IInv, ShareInv, MaxConcurrency # -1
                 PROVE  Cardinality(active) <= MaxConcurrency
      BY DEF ConcurrencyRespected
    <2>1. IsFiniteSet(active) /\ Cardinality(active) \in Nat
      <3>1. IsFiniteSet(Requests) /\ active \in SUBSET Requests
        BY HttpAssumption, CardInterval DEF Requests
      <3> QED  BY <3>1, FS_Subset, FS_CardinalityType
    <2>2. part \in [1..NumWorkers -> SUBSET active]
      BY DEF SlotsTaken, TasksOf
    <2>3. \A r \in active : \E w \in 1..NumWorkers : r \in part[w]
      BY DEF IInv, TaskInv, Active, Workers, SlotsTaken, TasksOf
    <2>4. \A w \in 1..NumWorkers : Cardinality(part[w]) <= WorkerConcurrency
      BY DEF ShareInv, Workers
    <2>5. Cardinality(active) <= NumWorkers * WorkerConcurrency
      <3> HIDE DEF active, part
      <3> QED  BY <2>1, <2>2, <2>3, <2>4, SharesFit, ConstantTypes, PartsUpper
    <2> HIDE DEF active
    <2> QED  BY <2>1, <2>5, SharesFit, HttpAssumption
  <1>2. Spec => [](IInv /\ ShareInv)
    <2>1. IInv /\ ShareInv /\ [Next]_vars => (IInv /\ ShareInv)'
      BY Inductive, ShareNext
    <2> QED  BY <2>1, InitInv, ShareInit, PTL DEF Spec
  <1> QED  BY <1>1, <1>2, PTL

-----------------------------------------------------------------------------
\* The lists of processes, unless SIGTERM comes between the start of a worker
\* and its entry in the list.
LEMMA ListInit == Init => ListInv
  BY DEF Init, ListInv, Alive

\* Every step keeps ListInv, if no signal comes between the start of a worker and its
\* entry in the list.
LEMMA ListNext ==
  ASSUME "track" \notin Interruptible
  PROVE  TypeOK /\ ListInv /\ [Next]_vars => ListInv'
  <1> SUFFICES ASSUME TypeOK, ListInv, [Next]_vars PROVE ListInv'
    OBVIOUS
  <1> USE DEF TypeOK, ListInv
  <1>1. CASE StartWorker
    <2>1. Alive' \subseteq Alive \cup spawned'
      BY <1>1 DEF StartWorker, Alive
    <2> QED  BY <1>1, <2>1 DEF StartWorker
  <1>2. ASSUME UNCHANGED <<wpc, killed>> PROVE Alive' = Alive
    BY <1>2 DEF Alive
  <1>3. CASE TrackWorker \/ (\E w \in Workers : HearReady(w)) \/ StartFails
             \/ (\E r \in Requests : Submit(r)) \/ StopWork \/ FlushReturns \/ FlushHangs \/ MainSignals
             \/ MainCloses
    BY <1>2, <1>3 DEF TrackWorker, HearReady, StartFails, Submit, StopWork, FlushReturns, FlushHangs,
                      MainSignals, MainCloses
  <1>4. ASSUME NEW w \in Workers, MainTerminates(w) PROVE ListInv'
    <2>1. /\ killed' = killed \cup {w} /\ todo'.main = todo.main \ {w} /\ todo'.poll = todo.poll
          /\ Alive' = Alive \ {w}
      BY <1>4 DEF MainTerminates, Terminate, Alive
    <2> QED  BY <1>4, <2>1 DEF MainTerminates
  <1>5. CASE MainExits \/ StartRaises
    <2>1. CASE MainExits  BY <1>2, <2>1 DEF MainExits
    <2>2. CASE StartRaises
      <3>1. Alive = {}
        BY <2>2 DEF StartRaises, Alive
      <3> QED  BY <1>2, <2>2, <3>1 DEF StartRaises
    <2> QED  BY <1>5, <2>1, <2>2
  <1>6. CASE Sigterm  BY <1>2, <1>6 DEF Sigterm
  <1>7. CASE PollDies \/ PollBreaks \/ PollSignals \/ PollCloses \/ (\E w \in Workers : Receive(w))
    BY <1>2, <1>7 DEF PollDies, PollBreaks, PollSignals, PollCloses, Receive
  <1>8. CASE PollUntracks
    <2>1. Alive = {}
      BY <1>8 DEF PollUntracks, Alive
    <2> QED  BY <1>2, <1>8, <2>1 DEF PollUntracks
  <1>9. ASSUME NEW w \in Workers, PollTerminates(w) PROVE ListInv'
    <2>1. /\ killed' = killed \cup {w} /\ todo'.poll = todo.poll \ {w} /\ todo'.main = todo.main
          /\ Alive' = Alive \ {w}
      BY <1>9 DEF PollTerminates, Terminate, Alive
    <2> QED  BY <1>9, <2>1 DEF PollTerminates
  <1>10. ASSUME NEW w \in Workers, Worker(w) PROVE ListInv'
    <2>1. Alive' \subseteq Alive
      BY <1>10 DEF Worker, InitWorker, TakeRequest, TakeStop, Drained, Die, Alive
    <2> QED  BY <1>10, <2>1, WorkerFrame
  <1>11. CASE (\E r \in Requests : Task(r)) \/ Finished \/ UNCHANGED vars
    BY <1>2, <1>11, TaskFrame, FinishedFrame DEF vars
  <1> QED
    BY <1>1, <1>3, <1>4, <1>5, <1>6, <1>7, <1>8, <1>9, <1>10, <1>11
    DEF Next, Main, PollThread

\* No process is left behind when the harness is gone, whichever of the two
\* clean-ups gets how far, and wherever SIGTERM comes but at the one place
\* between the start of a worker and its entry in the list (203-205).
THEOREM NoOrphansLeft ==
  ASSUME "track" \notin Interruptible
  PROVE  Spec => []NoOrphans
  <1>1. TypeOK /\ ListInv => NoOrphans
    BY DEF TypeOK, ListInv, NoOrphans, Alive
  <1>2. IInv => TypeOK
    BY DEF IInv
  <1>3. IInv /\ ListInv /\ [Next]_vars => (IInv /\ ListInv)'
    BY <1>2, Inductive, ListNext
  <1> QED  BY <1>1, <1>2, <1>3, InitInv, ListInit, PTL DEF Spec

=============================================================================
