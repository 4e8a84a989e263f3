----------------------------- MODULE HttpClient -----------------------------
(***************************************************************************)
(* AsyncHttpClient (src/code/llmlib/cores/http_async_client.py), its worker*)
(* processes and the WorkerProcessManager that starts and stops them       *)
(* (mp_worker_utils.py), as TrtllmEndpointCore uses them: the backend that *)
(* LLMCore takes as given, in detail.                                      *)
(*                                                                         *)
(* Actors: the main thread (start-up, submit_requests, the atexit and      *)
(* signal clean-up), the core's poll thread (get_responses, shutdown), the *)
(* worker processes with one asyncio task per request, and the endpoint    *)
(* that answers or breaks the HTTP requests (external).                    *)
(*                                                                         *)
(* The ZMQ sockets (external): PUSH deals messages round-robin over one    *)
(* FIFO pipe per worker; every worker has a FIFO pipe back. Their limits   *)
(* of two million messages are not reached.                                *)
(***************************************************************************)
EXTENDS Integers, Sequences, FiniteSets

CONSTANTS
    NumRequests,    \* requests the core submits
    NumWorkers,     \* workers_per_core
    MaxConcurrency, \* max_concurrency, -1 for no limit
    Streaming,      \* gen_config.streaming
    MaxErrors,      \* bound: HTTP requests that break
    Interruptible,  \* bound: where in the main thread SIGTERM may arrive
    Stop            \* the message b'__SHUTDOWN__'

Workers == 1..NumWorkers
Requests == 1..NumRequests    \* in the order they are submitted

ASSUME HttpAssumption ==
    /\ NumWorkers \in Nat \ {0} /\ NumRequests \in Nat
    /\ Streaming \in BOOLEAN /\ MaxErrors \in Nat
    /\ Stop \notin Requests
    \* the code admits less, and a worker then has no slot at all (347)
    /\ MaxConcurrency = -1 \/ MaxConcurrency \in {n \in Nat : n >= NumWorkers}

VARIABLES
    mpc,         \* the main thread
    spawned,     \* the process started but not yet in _active_worker_processes
    tracked,     \* _active_worker_processes
    submitted,   \* requests given to submit_requests
    stopWork,    \* stop_work of the core
    ppc,         \* the poll thread
    outstanding, \* pending_samples of the core
    received,    \* per request: the responses get_responses has returned
    isShutdown,  \* _is_shutdown
    open,        \* _zmq_resources_initialized
    turn,        \* the worker that PUSH serves next
    todo,        \* per thread: the workers it has still to terminate
    wpc,         \* per worker: none, init, recv, drain, term, gone
    report,      \* per worker: its message in the readiness queue
    killed,      \* workers sent SIGTERM
    pipe,        \* per worker: messages to it
    resp,        \* per worker: responses from it
    task,        \* per request: the task of its worker
    nerr         \* HTTP requests broken so far

mainVars == <<mpc, spawned, tracked, submitted, stopWork>>
pollVars == <<ppc, outstanding, received, isShutdown>>
zmqVars == <<open, turn, pipe, resp>>
workerVars == <<wpc, report, task, nerr>>
vars == <<mainVars, pollVars, zmqVars, workerVars, todo, killed>>

MainPcs == {"start", "track", "await", "failed", "submit", "flush",
            "hung", "signals", "close", "terminate", "gone"}
PollPcs == {"off", "poll", "signals", "terminate", "untrack", "close",
            "done", "dead"}
ResponseKinds == {"first", "firstFinal", "final", "error"}
NoTask == [worker |-> 0, pc |-> "none"]

Init ==
    /\ mpc = "start" /\ spawned = {} /\ tracked = {} /\ submitted = {}
    /\ stopWork = FALSE
    /\ ppc = "off" /\ outstanding = {} /\ isShutdown = FALSE
    /\ received = [r \in Requests |-> <<>>]
    /\ open = TRUE /\ turn = 1
    /\ pipe = [w \in Workers |-> <<>>] /\ resp = [w \in Workers |-> <<>>]
    /\ wpc = [w \in Workers |-> "none"] /\ report = [w \in Workers |-> "none"]
    /\ task = [r \in Requests |-> NoTask] /\ nerr = 0
    /\ todo = [main |-> {}, poll |-> {}] /\ killed = {}

-----------------------------------------------------------------------------
(***************************************************************************)
(* Start-up: start_worker_processes.                                       *)
(***************************************************************************)
StartWorker ==
    /\ mpc = "start"
    /\ LET w == Cardinality(tracked) + 1
       IN  /\ wpc' = [wpc EXCEPT ![w] = "init"]
           /\ spawned' = {w}
    /\ mpc' = "track"
    /\ UNCHANGED <<tracked, submitted, stopWork, pollVars, zmqVars, report, task,
                   nerr, todo, killed>>

TrackWorker ==
    /\ mpc = "track"
    /\ tracked' = tracked \cup spawned
    /\ spawned' = {}
    /\ mpc' = IF tracked' = Workers THEN "await" ELSE "start"
    /\ UNCHANGED <<submitted, stopWork, pollVars, zmqVars, workerVars, todo, killed>>

\* A worker builds its client and reports; failing, it goes straight to term().
InitWorker(w) ==
    /\ wpc[w] = "init"
    /\ \E ok \in BOOLEAN :
        /\ wpc' = [wpc EXCEPT ![w] = IF ok THEN "recv" ELSE "term"]
        /\ report' = [report EXCEPT ![w] = IF ok THEN "ok" ELSE "bad"]
    /\ UNCHANGED <<mainVars, pollVars, zmqVars, task, nerr, todo, killed>>

\* The last report starts the poll thread.
HearReady(w) ==
    /\ mpc = "await" /\ report[w] = "ok"
    /\ report' = [report EXCEPT ![w] = "heard"]
    /\ IF \A v \in Workers : report'[v] = "heard"
       THEN mpc' = "submit" /\ ppc' = "poll"
       ELSE UNCHANGED <<mpc, ppc>>
    /\ UNCHANGED <<spawned, tracked, submitted, stopWork, outstanding, received,
                   isShutdown, zmqVars, wpc, task, nerr, todo, killed>>

\* A failed worker, or 30 seconds without a report.
StartFails ==
    /\ mpc = "await"
    /\ \/ \E w \in Workers : report[w] = "bad"
       \/ \A w \in Workers : report[w] \in {"none", "heard"}
    /\ mpc' = "failed"
    /\ todo' = [todo EXCEPT !.main = Workers]
    /\ UNCHANGED <<spawned, tracked, submitted, stopWork, pollVars, zmqVars,
                   workerVars, killed>>

-----------------------------------------------------------------------------
(***************************************************************************)
(* The life of the client, under the core's protocol (LLMCore).            *)
(***************************************************************************)
PushTo(w, messages) == [pipe EXCEPT ![w] = @ \o messages]

NextTurn_Past == turn + 1

NextTurn == (turn % NumWorkers) + 1

\* enqueue(): after shutdown submit_requests returns without a word. The core
\* never comes that far: _enqueue_impl asserts ~stop_work first, which this
\* phase of the main thread implies, and only a stopped core shuts down.
Submit(r) ==
    /\ mpc = "submit" /\ r = Cardinality(submitted) + 1
    /\ submitted' = submitted \cup {r}
    /\ outstanding' = outstanding \cup {r}
    /\ IF isShutdown
       THEN UNCHANGED <<pipe, turn>>
       ELSE pipe' = PushTo(turn, <<r>>) /\ turn' = NextTurn
    /\ UNCHANGED <<mpc, spawned, tracked, stopWork, ppc, received, isShutdown, open,
                   resp, workerVars, todo, killed>>

\* The test is over when every sample is answered: server.stop_work.
StopWork ==
    /\ mpc = "submit" /\ submitted = Requests /\ outstanding = {}
    /\ stopWork' = TRUE
    /\ mpc' = "flush"
    /\ UNCHANGED <<spawned, tracked, submitted, pollVars, zmqVars, workerVars,
                   todo, killed>>

\* flush() comes back at once when the poll thread has set response_thread_exit,
\* else with any notification of a thread that has nothing pending; the
\* interpreter then exits, whatever that thread is doing.
FlushReturns ==
    /\ mpc = "flush"
    /\ mpc' = "signals"
    /\ UNCHANGED <<spawned, tracked, submitted, stopWork, pollVars, zmqVars,
                   workerVars, todo, killed>>

\* It has read response_thread_exit before it was set, and waits when the last
\* notification is over (base.py:214-217).
FlushHangs ==
    /\ mpc = "flush" /\ ppc = "done"
    /\ mpc' = "hung"
    /\ UNCHANGED <<spawned, tracked, submitted, stopWork, pollVars, zmqVars,
                   workerVars, todo, killed>>

\* get_responses, one response at a time; the core drops a tracked request at
\* its final response and keeps one that failed.
Receive(w) ==
    /\ ppc = "poll" /\ open /\ resp[w] # <<>>
    /\ LET r == Head(resp[w]).id
           kind == Head(resp[w]).kind
       IN /\ received' = [received EXCEPT ![r] = Append(@, kind)]
          /\ outstanding' = IF kind \in {"final", "firstFinal"}
                            THEN outstanding \ {r} ELSE outstanding
    /\ resp' = [resp EXCEPT ![w] = Tail(@)]
    /\ UNCHANGED <<mainVars, ppc, isShutdown, open, turn, pipe, workerVars, todo, killed>>

\* The sockets are closed under the thread's feet: get_responses may raise.
PollDies ==
    /\ ppc = "poll" /\ ~open
    /\ ppc' = "dead"
    /\ UNCHANGED <<mainVars, outstanding, received, isShutdown, zmqVars, workerVars,
                   todo, killed>>

\* _poll_responses leaves its loop and calls shutdown().
LeaveLoop(done) ==
    /\ ppc = "poll" /\ done
    /\ isShutdown' = TRUE
    /\ ppc' = "signals"
    /\ todo' = [todo EXCEPT !.poll = Workers]
    /\ UNCHANGED <<mainVars, outstanding, received, zmqVars, workerVars, killed>>

PollBreaks_Early == LeaveLoop(submitted # {})

PollBreaks == LeaveLoop(stopWork /\ outstanding = {})

-----------------------------------------------------------------------------
(***************************************************************************)
(* Shutting down, in the poll thread (shutdown) and in the main thread     *)
(* (atexit or SIGTERM: zmq_pre_cleanup, then _cleanup_worker_processes).   *)
(* They may do so at the same time.                                        *)
(***************************************************************************)
\* One shutdown message per worker, dealt like the requests.
SendShutdownSignals ==
    pipe' = IF open THEN [w \in Workers |-> Append(pipe[w], Stop)] ELSE pipe

PollSignalsAnd(stillTracked) ==
    /\ ppc = "signals"
    /\ SendShutdownSignals
    /\ tracked' = stillTracked
    /\ ppc' = "terminate"
    /\ UNCHANGED <<mpc, spawned, submitted, stopWork, outstanding, received, isShutdown, open, turn, resp,
                   workerVars, todo, killed>>

PollSignals_Untrack == PollSignalsAnd({})

PollSignals == PollSignalsAnd(tracked)

MainSignals ==
    /\ mpc = "signals"
    /\ SendShutdownSignals
    /\ mpc' = "close"
    /\ UNCHANGED <<spawned, tracked, submitted, stopWork, pollVars, open, turn, resp,
                   workerVars, todo, killed>>

\* _terminate_processes: join(timeout) returns whether the process died or not.
Terminate(thread, w) ==
    /\ w \in todo[thread]
    /\ killed' = killed \cup {w}
    /\ todo' = [todo EXCEPT ![thread] = @ \ {w}]

PollTerminates(w) ==
    /\ ppc = "terminate"
    /\ Terminate("poll", w)
    /\ ppc' = IF todo'.poll = {} THEN "untrack" ELSE ppc
    /\ UNCHANGED <<mainVars, outstanding, received, isShutdown, zmqVars, workerVars>>

PollUntracks ==
    /\ ppc = "untrack"
    /\ tracked' = tracked \ Workers
    /\ ppc' = "close"
    /\ UNCHANGED <<mpc, spawned, submitted, stopWork, outstanding, received,
                   isShutdown, zmqVars, workerVars, todo, killed>>

PollCloses ==
    /\ ppc = "close"
    /\ open' = FALSE
    /\ ppc' = "done"
    /\ UNCHANGED <<mainVars, outstanding, received, isShutdown, turn, pipe, resp,
                   workerVars, todo, killed>>

CleanUp(list) ==
    /\ mpc = "close"
    /\ open' = FALSE
    /\ todo' = [todo EXCEPT !.main = list]
    /\ mpc' = "terminate"
    /\ UNCHANGED <<spawned, tracked, submitted, stopWork, pollVars, turn, pipe, resp,
                   workerVars, killed>>

MainCloses_SignalsOnly == CleanUp({})

MainCloses == CleanUp(tracked)

\* In the clean-up, and after a failed start.
MainTerminates(w) ==
    /\ mpc \in {"terminate", "failed"}
    /\ Terminate("main", w)
    /\ UNCHANGED <<mainVars, pollVars, zmqVars, workerVars>>

\* The list is cleared and the process exits, its daemon thread with it.
MainExits ==
    /\ mpc = "terminate" /\ todo.main = {}
    /\ tracked' = {}
    /\ mpc' = "gone"
    /\ ppc' = IF ppc \in {"off", "done"} THEN ppc ELSE "dead"
    /\ UNCHANGED <<spawned, submitted, stopWork, outstanding, received, isShutdown,
                   zmqVars, workerVars, todo, killed>>

\* The exception of a failed start ends the program: atexit.
StartRaises ==
    /\ mpc = "failed" /\ todo.main = {}
    /\ tracked' = {}
    /\ mpc' = "signals"
    /\ UNCHANGED <<spawned, submitted, stopWork, pollVars, zmqVars, workerVars,
                   todo, killed>>

\* _global_signal_handler: the same clean-up on top of the main thread, which
\* then dies of the signal.
Sigterm ==
    /\ mpc \in Interruptible \ {"signals", "close", "terminate", "gone"}
    /\ mpc' = "signals"
    /\ UNCHANGED <<spawned, tracked, submitted, stopWork, pollVars, zmqVars,
                   workerVars, todo, killed>>

-----------------------------------------------------------------------------
(***************************************************************************)
(* The workers: _worker_loop and one task per request.                     *)
(***************************************************************************)
Runs(w) == wpc[w] \in {"recv", "drain"}
TasksOf(w) == {r \in Requests : task[r].worker = w}
Active == {"posted", "streaming", "last"}

TakeRequest(w) ==
    /\ wpc[w] = "recv" /\ pipe[w] # <<>> /\ Head(pipe[w]) # Stop
    /\ task' = [task EXCEPT ![Head(pipe[w])] = [worker |-> w, pc |-> "queued"]]
    /\ pipe' = [pipe EXCEPT ![w] = Tail(@)]
    /\ UNCHANGED <<mainVars, pollVars, open, turn, resp, wpc, report, nerr, todo, killed>>

TakeStop(w) ==
    /\ wpc[w] = "recv" /\ pipe[w] # <<>> /\ Head(pipe[w]) = Stop
    /\ wpc' = [wpc EXCEPT ![w] = "drain"]
    /\ pipe' = [pipe EXCEPT ![w] = Tail(@)]
    /\ UNCHANGED <<mainVars, pollVars, open, turn, resp, report, task, nerr, todo, killed>>

\* The worker's share of max_concurrency (342-347).
WorkerConcurrency_Undivided == MaxConcurrency

WorkerConcurrency == MaxConcurrency \div NumWorkers

SlotsTaken_Leak(w) == {r \in TasksOf(w) : task[r].pc # "queued"}

SlotsTaken(w) == {r \in TasksOf(w) : task[r].pc \in Active}

\* A slot of the semaphore, then the POST.
Post(r) ==
    /\ task[r].pc = "queued" /\ Runs(task[r].worker)
    /\ MaxConcurrency = -1 \/ Cardinality(SlotsTaken(task[r].worker)) < WorkerConcurrency
    /\ task' = [task EXCEPT ![r].pc = "posted"]
    /\ UNCHANGED <<mainVars, pollVars, zmqVars, wpc, report, nerr, todo, killed>>

Respond(r, kind, pc) ==
    /\ resp' = [resp EXCEPT ![task[r].worker] = Append(@, [id |-> r, kind |-> kind])]
    /\ task' = [task EXCEPT ![r].pc = pc]
    /\ UNCHANGED <<mainVars, pollVars, open, turn, pipe, wpc, report, todo, killed>>

\* The first chunk with content goes out at once; a final one ends the stream.
SendFirst(r, pc) ==
    /\ Streaming /\ task[r].pc = "posted" /\ Runs(task[r].worker)
    /\ \E final \in BOOLEAN : Respond(r, IF final THEN "firstFinal" ELSE "first",
                                      IF final THEN "last" ELSE pc)
    /\ UNCHANGED nerr

FirstChunk_Resend(r) == SendFirst(r, "posted")

FirstChunk(r) == SendFirst(r, "streaming")

\* The answer without streaming, or what is left of a stream, possibly nothing.
LastResponse(r) ==
    /\ task[r].pc \in Active /\ Runs(task[r].worker)
    /\ Respond(r, "final", "done")
    /\ UNCHANGED nerr

\* The connection breaks or the endpoint reports an error.
RequestBreaks(r) ==
    /\ task[r].pc \in {"posted", "streaming"} /\ Runs(task[r].worker)
    /\ nerr < MaxErrors
    /\ Respond(r, "error", "done")
    /\ nerr' = nerr + 1

\* Out of the loop the worker waits for its tasks ...
Drained(w) ==
    /\ wpc[w] = "drain"
    /\ \A r \in TasksOf(w) : task[r].pc = "done"
    /\ wpc' = [wpc EXCEPT ![w] = "term"]
    /\ UNCHANGED <<mainVars, pollVars, zmqVars, report, task, nerr, todo, killed>>

\* ... and in zmq_context.term(), which waits for sockets that nobody closes,
\* until SIGTERM, which ends it wherever it is.
Die(w) ==
    /\ w \in killed /\ wpc[w] \notin {"none", "gone"}
    /\ wpc' = [wpc EXCEPT ![w] = "gone"]
    /\ UNCHANGED <<mainVars, pollVars, zmqVars, report, task, nerr, todo, killed>>

Finished ==
    /\ mpc \in {"gone", "hung"} /\ \A w \in Workers : wpc[w] \in {"none", "gone"}
    /\ UNCHANGED vars

Main ==
    \/ StartWorker \/ TrackWorker \/ (\E w \in Workers : HearReady(w)) \/ StartFails
    \/ (\E r \in Requests : Submit(r)) \/ StopWork \/ FlushReturns \/ FlushHangs
    \/ MainSignals \/ MainCloses \/ (\E w \in Workers : MainTerminates(w))
    \/ MainExits \/ StartRaises

PollThread ==
    \/ PollDies \/ PollBreaks \/ PollSignals \/ PollUntracks \/ PollCloses
    \/ \E w \in Workers : Receive(w) \/ PollTerminates(w)

Worker(w) ==
    \/ InitWorker(w) \/ TakeRequest(w) \/ TakeStop(w) \/ Drained(w) \/ Die(w)

Task(r) == Post(r) \/ FirstChunk(r) \/ LastResponse(r) \/ RequestBreaks(r)

ParentAlive == mpc # "gone"

Next ==
    \/ Main \/ Sigterm \/ Finished
    \/ ParentAlive /\ PollThread
    \/ \E w \in Workers : Worker(w)
    \/ \E r \in Requests : Task(r)

Spec == Init /\ [][Next]_vars

\* Threads and processes are scheduled, and the endpoint answers every POST.
FairSpec ==
    /\ Spec
    /\ WF_vars(Main) /\ WF_vars(ParentAlive /\ PollThread)
    /\ \A w \in Workers : WF_vars(Worker(w))
    /\ \A r \in Requests : WF_vars(Task(r))

-----------------------------------------------------------------------------
(***************************************************************************)
(* Properties.                                                             *)
(***************************************************************************)
\* Every variable has a value of its type.
TypeOK ==
    /\ mpc \in MainPcs /\ spawned \subseteq Workers /\ tracked \subseteq Workers
    /\ submitted \subseteq Requests /\ stopWork \in BOOLEAN
    /\ ppc \in PollPcs /\ outstanding \subseteq submitted
    /\ received \in [Requests -> Seq(ResponseKinds)]
    /\ isShutdown \in BOOLEAN /\ open \in BOOLEAN /\ turn \in Workers
    /\ pipe \in [Workers -> Seq(Requests \cup {Stop})]
    /\ resp \in [Workers -> Seq([id : Requests, kind : ResponseKinds])]
    /\ wpc \in [Workers -> {"none", "init", "recv", "drain", "term", "gone"}]
    /\ report \in [Workers -> {"none", "ok", "bad", "heard"}]
    /\ task \in [Requests -> [worker : 0..NumWorkers,
                              pc : {"none", "queued", "done"} \cup Active]]
    /\ nerr \in 0..MaxErrors
    /\ todo \in [{"main", "poll"} -> SUBSET Workers] /\ killed \subseteq Workers

\* What the core hears of a request is what LLMCore assumes of a backend: at
\* most one first chunk, then one final response or one error, in this order
\* (_handle_streaming_from_chat_completions, _process_request_impl). Only a
\* first chunk that is final itself is followed by a second final response.
AnswersInProtocol ==
    \A r \in Requests :
        received[r] \in
            {<<>>, <<"first">>, <<"firstFinal">>, <<"final">>, <<"error">>,
             <<"first", "final">>, <<"first", "error">>, <<"firstFinal", "final">>}

\* The workers' semaphores together keep the limit of the whole client, which
\* is divided among them without their knowing of each other (342-347).
ConcurrencyRespected ==
    MaxConcurrency # -1 =>
        Cardinality({r \in Requests : task[r].pc \in Active}) <= MaxConcurrency

Interrupted == ppc # "off" /\ mpc # "submit" /\ ~stopWork

\* Without a signal, a worker that is told to leave or is terminated has
\* answered everything it was given: no request waits behind a shutdown message
\* or dies with the worker (base.py:250-260, shutdown).
NoRequestIsAbandoned ==
    ~Interrupted =>
        \A w \in Workers :
            wpc[w] \in {"drain", "term", "gone"} \/ w \in killed =>
                /\ \A i \in DOMAIN pipe[w] : pipe[w][i] = Stop
                /\ \A r \in TasksOf(w) \cap outstanding : task[r].pc = "done"

\* When the process is gone, no worker stays behind: each has ended or has been
\* sent SIGTERM, though two threads may be cleaning up at once and the exit
\* stops one of them anywhere.
NoOrphans ==
    mpc = "gone" => \A w \in Workers : wpc[w] \in {"none", "gone"} \/ w \in killed

\* Every submitted request is answered for good, unless one failed or the run
\* was interrupted.
AnswersEverything ==
    <>[](Interrupted \/ nerr > 0
         \/ \A r \in submitted : received[r] # <<>> /\ r \notin outstanding)

\* All workers end, and with them the program, unless a failed request keeps it
\* waiting for ever or its last flush() has missed the last notification: then
\* it hangs, but only when the poll thread has ended the workers.
Ends ==
    <>[](\/ nerr > 0
         \/ /\ mpc = "gone" \/ (mpc = "hung" /\ ppc = "done")
            /\ \A w \in Workers : wpc[w] \in {"none", "gone"})

=============================================================================
