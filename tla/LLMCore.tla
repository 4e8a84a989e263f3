------------------------------ MODULE LLMCore ------------------------------
(***************************************************************************)
(* One LLMCore of the Python harness (src/code/llmlib/cores/base.py): the  *)
(* backend-independent half of every LLM benchmark.                        *)
(*                                                                         *)
(* Three parties share it:                                                 *)
(*   - the driver: the harness thread that warms the core up, runs the     *)
(*     LoadGen test (issue_queries, flush_queries) and stops the core      *)
(*     (llmlib/__init__.py:152-190, warmup.py, server.py). Warm-up runs in *)
(*     a thread of its own while the main thread waits for it, so there is *)
(*     one driver at a time;                                               *)
(*   - the poll thread, running _poll_responses;                           *)
(*   - the SIGINT handler (server.py:34-53), which Python runs on top of   *)
(*     the main thread.                                                    *)
(* The backend behind _enqueue_impl and _poll_responses_impl is external:  *)
(* it answers a request with chunks of tokens, the last one marked final,  *)
(* or with an error.                                                       *)
(*                                                                         *)
(* Every backend makes a fresh id per request or reuses the request id; an *)
(* id is used once here, so pending_samples is the set of its keys.        *)
(***************************************************************************)
EXTENDS Naturals, Sequences, FiniteSets

CONSTANTS
    WarmupReqs,     \* ids of the warm-up queries (server.py:127-134)
    TestReqs,       \* ids of the samples LoadGen issues
    Streaming,      \* gen_config.streaming
    Dynamo,         \* MLPINF_USE_DYNAMO
    AssertsStop,    \* _enqueue_impl asserts that stop_work is not set
    Sigint,         \* the user may interrupt the run
    BackendIsChild, \* the backend runs in child processes, which SIGINT kills
    MaxResponses,   \* bound: responses the backend sends per request
    MaxErrors,      \* bound: error responses in a behaviour
    FirstSizes,     \* bound: numbers of tokens of a request's first chunk
    ChunkSizes      \* bound: numbers of tokens of the other chunks

Requests == WarmupReqs \cup TestReqs

ASSUME ReqsAssumption == WarmupReqs \cap TestReqs = {}

ASSUME FlagsAssumption ==
    /\ Streaming \in BOOLEAN /\ Dynamo \in BOOLEAN
    /\ AssertsStop \in BOOLEAN /\ Sigint \in BOOLEAN
    /\ BackendIsChild \in BOOLEAN

ASSUME BoundsAssumption ==
    /\ MaxResponses \in Nat /\ MaxErrors \in Nat
    /\ FirstSizes \subseteq Nat /\ ChunkSizes \subseteq Nat

VARIABLES
    \* The core (base.py:107-125)
    pending,        \* keys of pending_samples
    lock,           \* holder of pending_samples_lock, when held across steps
    inWarmup,       \* in_warmup_mode
    stopWork,       \* stop_work
    exited,         \* response_thread_exit
    \* The poll thread (base.py:241-418)
    pollPc,         \* where it is
    batch,          \* responses of this poll that are still to be handled
    cur,            \* the response being reported: id, first, final
    seen,           \* keys of stream_output_toks
    toks,           \* stream_output_toks, or the padded non-streaming answer
    firstLat,       \* keys of first_token_latencies
    \* The driver
    dpc,            \* where it is in the life of the core
    fpc,            \* where it is in flush(): check, enter, wait, or out
    enqueued,       \* the requests of the enqueue() under way
    sig,            \* the SIGINT handler: armed, log, kill, done
    \* The backend (external)
    bst,            \* per request: idle, run, end
    gen,            \* per request: the tokens generated so far
    nresp,          \* per request: the responses sent so far
    nerr,           \* error responses sent
    ready,          \* responses waiting for _poll_responses_impl
    alive,          \* the backend has not been killed
    \* LoadGen (external): what it issued and what it was told
    issued, firstTokens, completions, output

coreVars == <<pending, lock, inWarmup, stopWork, exited>>
pollVars == <<pollPc, batch, cur, seen, toks, firstLat>>
driverVars == <<dpc, fpc, enqueued>>
backendVars == <<bst, gen, nresp, nerr, ready, alive>>
loadgenVars == <<issued, firstTokens, completions, output>>
vars == <<coreVars, pollVars, driverVars, sig, backendVars, loadgenVars>>

Free == "free"
TokenKinds == {"tok", "BOS", "EOS"}
Response == [id : Requests, toks : Seq({"tok"}), final : BOOLEAN, error : BOOLEAN]
PollPcs == {"read", "notify", "checkStop", "poll", "handle", "track",
            "deliver", "exit", "setExit", "lastNotify", "done", "dead"}
WarmPcs == {"warmFlush", "warmSet", "warmEnqueue", "warmAdd", "warmDrain",
            "warmClear"}
TestPcs == {"issue", "add", "testFlush"}
DriverPcs == WarmPcs \cup TestPcs \cup
             {"await", "stop", "stopLog", "stopFlush", "over", "stuck"}

FlushPcs == {"out", "check", "enter", "wait", "return"}

n_toks(n) == [i \in 1..n |-> "tok"]

\* base.py:289-297 and 353-361: LoadGen wants at least two tokens.
PadWith(s, bos, eos) ==
    LET atLeastOne == IF s = <<>> THEN <<bos>> ELSE s
    IN  IF Len(atLeastOne) <= 1 THEN Append(atLeastOne, eos) ELSE atLeastOne

Padded_Unset(s) == PadWith(s, "BOS", "none")

Padded(s) == PadWith(s, "BOS", "EOS")

-----------------------------------------------------------------------------
Init ==
    /\ pending = {} /\ lock = Free
    /\ inWarmup = FALSE /\ stopWork = FALSE /\ exited = FALSE
    /\ pollPc = "read" /\ batch = <<>>
    /\ cur \in {[id |-> r, first |-> FALSE, final |-> FALSE] : r \in Requests}
    /\ seen = {} /\ toks = [r \in Requests |-> <<>>] /\ firstLat = {}
    \* WarmupManager.warmup returns at once without warm-up queries
    /\ dpc = IF WarmupReqs = {} THEN "issue" ELSE "warmFlush"
    /\ fpc = IF WarmupReqs = {} THEN "out" ELSE "check"
    /\ enqueued = {}
    /\ sig = IF Sigint THEN "armed" ELSE "done"
    /\ bst = [r \in Requests |-> "idle"]
    /\ gen = [r \in Requests |-> <<>>]
    /\ nresp = [r \in Requests |-> 0] /\ nerr = 0
    /\ ready = <<>> /\ alive = TRUE
    /\ issued = {}
    /\ firstTokens = [r \in Requests |-> 0]
    /\ completions = [r \in Requests |-> 0]
    /\ output = [r \in Requests |-> <<>>]

-----------------------------------------------------------------------------
(***************************************************************************)
(* The driver. It is held up while the SIGINT handler runs on its thread;  *)
(* the warm-up thread is not the main thread and goes on.                  *)
(***************************************************************************)
HandlerRunning == sig \in {"log", "kill"}
DriverRuns == HandlerRunning => dpc \in WarmPcs

Goto(pc, inFlush) ==
    /\ dpc' = pc
    /\ fpc' = IF inFlush THEN "check" ELSE "out"

\* flush(): the caller reads response_thread_exit ...
FlushCheck ==
    /\ DriverRuns /\ fpc = "check"
    /\ fpc' = IF exited THEN "return" ELSE "enter"
    /\ UNCHANGED <<coreVars, pollVars, dpc, enqueued, sig, backendVars, loadgenVars>>

\* ... then waits on flush_signal, without a predicate.
FlushWait ==
    /\ DriverRuns /\ fpc = "enter"
    /\ fpc' = "wait"
    /\ UNCHANGED <<coreVars, pollVars, dpc, enqueued, sig, backendVars, loadgenVars>>

\* What follows the four flushes of a core's life.
AfterFlush(pc) ==
    CASE pc = "warmFlush" -> "warmSet"
      [] pc = "warmDrain" -> "warmClear"
      [] pc = "testFlush" -> "await"
      [] pc = "stopFlush" -> "over"

FlushReturn ==
    /\ DriverRuns /\ fpc = "return"
    /\ Goto(AfterFlush(dpc), FALSE)
    /\ UNCHANGED <<coreVars, pollVars, enqueued, sig, backendVars, loadgenVars>>

EnterWarmup ==
    /\ dpc = "warmSet"
    /\ inWarmup' = TRUE
    /\ Goto("warmEnqueue", FALSE)
    /\ UNCHANGED <<pending, lock, stopWork, exited, pollVars, enqueued, sig,
                   backendVars, loadgenVars>>

\* enqueue(), up to the backend's acceptance of the requests: the lock is
\* taken and kept.
StartEnqueue(rs) ==
    /\ lock = Free
    /\ ~(AssertsStop /\ stopWork)
    /\ lock' = "driver"
    /\ enqueued' = rs
    /\ bst' = [r \in Requests |-> IF r \in rs THEN "run" ELSE bst[r]]
    /\ UNCHANGED <<pending, inWarmup, stopWork, exited, pollVars, sig,
                   gen, nresp, nerr, ready, alive>>

\* enqueue(), the rest: the requests are tracked and the lock released.
FinishEnqueue ==
    /\ pending' = pending \cup enqueued
    /\ lock' = Free
    /\ enqueued' = {}
    /\ UNCHANGED <<inWarmup, stopWork, exited, pollVars, sig, backendVars, loadgenVars>>

WarmEnqueue ==
    /\ dpc = "warmEnqueue"
    /\ StartEnqueue(WarmupReqs)
    /\ Goto("warmAdd", FALSE)
    /\ UNCHANGED loadgenVars

WarmAdd ==
    /\ dpc = "warmAdd"
    /\ FinishEnqueue
    /\ Goto("warmDrain", TRUE)

\* The assertion in _enqueue_impl fails; the finally clause of warmup_mode
\* still flushes.
WarmEnqueueFails ==
    /\ dpc = "warmEnqueue" /\ lock = Free
    /\ AssertsStop /\ stopWork
    /\ Goto("warmDrain", TRUE)
    /\ UNCHANGED <<coreVars, pollVars, enqueued, sig, backendVars, loadgenVars>>

\* After a failed enqueue the warm-up thread ends without counting its core,
\* and the main thread waits for ever (warmup.py:113-125).
LeaveWarmup ==
    /\ dpc = "warmClear"
    /\ inWarmup' = FALSE
    /\ Goto(IF \E r \in WarmupReqs : bst[r] = "idle" THEN "stuck" ELSE "issue", FALSE)
    /\ UNCHANGED <<pending, lock, stopWork, exited, pollVars, enqueued, sig,
                   backendVars, loadgenVars>>

\* LoadGen issues a sample: server.issue_queries enqueues them one by one.
Issue(r) ==
    /\ DriverRuns /\ dpc = "issue"
    /\ r \notin issued
    /\ StartEnqueue({r})
    /\ issued' = issued \cup {r}
    /\ Goto("add", FALSE)
    /\ UNCHANGED <<firstTokens, completions, output>>

IssueAdd ==
    /\ DriverRuns /\ dpc = "add"
    /\ FinishEnqueue
    /\ Goto("issue", FALSE)

\* The assertion in _enqueue_impl fails: the exception ends StartTest and
\* wrap_lg_test stops the server.
IssueFails(r) ==
    /\ DriverRuns /\ dpc = "issue"
    /\ r \notin issued
    /\ lock = Free
    /\ AssertsStop /\ stopWork
    /\ issued' = issued \cup {r}
    /\ Goto("stop", FALSE)
    /\ UNCHANGED <<coreVars, pollVars, enqueued, sig, backendVars, firstTokens,
                   completions, output>>

\* All samples are issued: LoadGen calls flush_queries.
LoadGenFlush ==
    /\ DriverRuns /\ dpc = "issue"
    /\ issued = TestReqs
    /\ Goto("testFlush", TRUE)
    /\ UNCHANGED <<coreVars, pollVars, enqueued, sig, backendVars, loadgenVars>>

\* StartTest returns when LoadGen has an answer to every sample.
TestEnds ==
    /\ DriverRuns /\ dpc = "await"
    /\ \A r \in issued : completions[r] > 0
    /\ Goto("stop", FALSE)
    /\ UNCHANGED <<coreVars, pollVars, enqueued, sig, backendVars, loadgenVars>>

\* server.stop_work: notify_stop (the flag, then the lock for a log line),
\* then flush.
NotifyStop ==
    /\ DriverRuns /\ dpc = "stop"
    /\ stopWork' = TRUE
    /\ Goto("stopLog", FALSE)
    /\ UNCHANGED <<pending, lock, inWarmup, exited, pollVars, enqueued, sig,
                   backendVars, loadgenVars>>

NotifyStopLog ==
    /\ DriverRuns /\ dpc = "stopLog"
    /\ lock = Free
    /\ Goto("stopFlush", TRUE)
    /\ UNCHANGED <<coreVars, pollVars, enqueued, sig, backendVars, loadgenVars>>

\* exit_fn calls core.notify_stop() in the middle of whatever the main thread
\* is doing in Python; it is not inside LoadGen (await) then.
SigintNotifyStop ==
    /\ sig = "armed" /\ dpc \notin {"await", "over"}
    /\ stopWork' = TRUE
    /\ sig' = "log"
    /\ UNCHANGED <<pending, lock, inWarmup, exited, pollVars, driverVars,
                   backendVars, loadgenVars>>

SigintLog ==
    /\ sig = "log" /\ lock = Free
    /\ sig' = "kill"
    /\ UNCHANGED <<coreVars, pollVars, driverVars, backendVars, loadgenVars>>

SigintKill ==
    /\ sig = "kill"
    /\ sig' = "done"
    /\ alive' = (alive /\ ~BackendIsChild)
    /\ UNCHANGED <<coreVars, pollVars, driverVars, bst, gen, nresp, nerr, ready,
                   loadgenVars>>

Driver ==
    \/ FlushCheck \/ FlushWait \/ FlushReturn
    \/ EnterWarmup \/ WarmEnqueue \/ WarmAdd \/ WarmEnqueueFails \/ LeaveWarmup
    \/ \E r \in TestReqs : Issue(r) \/ IssueFails(r)
    \/ IssueAdd \/ LoadGenFlush \/ TestEnds \/ NotifyStop \/ NotifyStopLog

Handler == SigintNotifyStop \/ SigintLog \/ SigintKill

-----------------------------------------------------------------------------
(***************************************************************************)
(* The poll thread.                                                        *)
(***************************************************************************)
\* notify_all on flush_signal.
WakeFlush == fpc' = IF fpc = "wait" THEN "return" ELSE fpc

PollRead ==
    /\ pollPc = "read" /\ lock = Free
    /\ pollPc' = IF pending = {} THEN "notify" ELSE "poll"
    /\ UNCHANGED <<coreVars, batch, cur, seen, toks, firstLat, driverVars, sig,
                   backendVars, loadgenVars>>

NotifyThen(pc) ==
    /\ pollPc' = pc
    /\ UNCHANGED <<coreVars, batch, cur, seen, toks, firstLat, dpc, enqueued, sig,
                   backendVars, loadgenVars>>

PollNotify_Silent ==
    pollPc = "notify" /\ fpc' = fpc /\ NotifyThen("checkStop")

PollNotify ==
    pollPc = "notify" /\ WakeFlush /\ NotifyThen("checkStop")

PollCheckStop ==
    /\ pollPc = "checkStop"
    /\ pollPc' = IF stopWork THEN "exit" ELSE "poll"
    /\ UNCHANGED <<coreVars, batch, cur, seen, toks, firstLat, driverVars, sig,
                   backendVars, loadgenVars>>

\* _poll_responses_impl: what is there within 5 ms, possibly nothing.
PollBackend ==
    /\ pollPc = "poll"
    /\ \E n \in 0..Len(ready) :
        /\ n = 0 => ready = <<>>
        /\ batch' = SubSeq(ready, 1, n)
        /\ ready' = SubSeq(ready, n + 1, Len(ready))
    /\ pollPc' = "handle"
    /\ UNCHANGED <<coreVars, cur, seen, toks, firstLat, driverVars, sig, bst, gen,
                   nresp, nerr, alive, loadgenVars>>

\* An error response is logged and forgotten; its request stays pending.
SkipError ==
    /\ pollPc = "handle" /\ batch # <<>>
    /\ Head(batch).error
    /\ batch' = Tail(batch)
    /\ UNCHANGED <<coreVars, pollPc, cur, seen, toks, firstLat, driverVars, sig,
                   backendVars, loadgenVars>>

\* A chunk of a stream, which makes the answer so far `all`; only the first
\* and the final chunk signal LoadGen.
StreamChunkTo(all) ==
    /\ pollPc = "handle" /\ batch # <<>>
    /\ Streaming /\ ~Head(batch).error
    /\ LET r == Head(batch)
           signals == r.id \notin seen \/ r.final
       IN /\ toks' = [toks EXCEPT ![r.id] = IF signals THEN Padded(all) ELSE all]
          /\ seen' = seen \cup {r.id}
          /\ cur' = [id |-> r.id, first |-> r.id \notin seen, final |-> r.final]
          /\ pollPc' = IF signals THEN "track" ELSE "handle"
    /\ batch' = Tail(batch)
    /\ UNCHANGED <<coreVars, firstLat, driverVars, sig, backendVars, loadgenVars>>

StreamChunk_Forget == StreamChunkTo(Head(batch).toks)

StreamChunk == StreamChunkTo(toks[Head(batch).id] \o Head(batch).toks)

\* Without streaming a response is the whole answer.
WholeAnswerIs(answer) ==
    /\ pollPc = "handle" /\ batch # <<>>
    /\ ~Streaming /\ ~Head(batch).error
    /\ toks' = [toks EXCEPT ![Head(batch).id] = answer]
    /\ cur' = [id |-> Head(batch).id, first |-> FALSE, final |-> TRUE]
    /\ batch' = Tail(batch)
    /\ pollPc' = "track"
    /\ UNCHANGED <<coreVars, seen, firstLat, driverVars, sig, backendVars, loadgenVars>>

WholeAnswer_Bare == WholeAnswerIs(Head(batch).toks)

WholeAnswer == WholeAnswerIs(Padded(Head(batch).toks))

HandledAll ==
    /\ pollPc = "handle" /\ batch = <<>>
    /\ pollPc' = "read"
    /\ UNCHANGED <<coreVars, batch, cur, seen, toks, firstLat, driverVars, sig,
                   backendVars, loadgenVars>>

\* Under the lock: a response of a request that is no longer tracked is stale;
\* a final one ends the tracking.
LookUp(isTracked, stillTracked) ==
    /\ pollPc = "track"
    /\ pollPc' = IF isTracked THEN "deliver" ELSE "handle"
    /\ pending' = stillTracked
    /\ UNCHANGED <<lock, inWarmup, stopWork, exited, batch, cur, seen, toks,
                   firstLat, driverVars, sig, backendVars, loadgenVars>>

Untracked == IF cur.final THEN pending \ {cur.id} ELSE pending

TrackResponse_NoLock == LookUp(cur.id \in pending, Untracked)
TrackResponse_Stale == lock = Free /\ LookUp(TRUE, Untracked)

TrackResponse == lock = Free /\ LookUp(cur.id \in pending, Untracked)

\* During warm-up LoadGen is not told.
DropWarmup ==
    /\ pollPc = "deliver" /\ inWarmup
    /\ pollPc' = "handle"
    /\ UNCHANGED <<coreVars, batch, cur, seen, toks, firstLat, driverVars, sig,
                   backendVars, loadgenVars>>

\* complete_loadgen_request, then the latency book-keeping: a KeyError on
\* first_token_latencies kills the poll thread.
CompleteCallback ==
    /\ firstTokens' = [firstTokens EXCEPT ![cur.id] =
                        @ + IF cur.first /\ (Dynamo \/ ~cur.final) THEN 1 ELSE 0]
    /\ completions' = [completions EXCEPT ![cur.id] = @ + IF cur.final THEN 1 ELSE 0]
    /\ output' = IF cur.final THEN [output EXCEPT ![cur.id] = toks[cur.id]] ELSE output

Deliver ==
    /\ pollPc = "deliver" /\ ~inWarmup
    /\ CompleteCallback
    /\ firstLat' = IF cur.first THEN firstLat \cup {cur.id} ELSE firstLat
    /\ pollPc' = IF Streaming /\ cur.final /\ cur.id \notin firstLat'
                 THEN "dead" ELSE "handle"
    /\ UNCHANGED <<coreVars, batch, cur, seen, toks, driverVars, sig, backendVars,
                   issued>>

\* After the loop: nothing may be pending, or the thread dies.
ExitLoop(drained) ==
    /\ pollPc = "exit" /\ lock = Free
    /\ pollPc' = IF drained THEN "setExit" ELSE "dead"
    /\ UNCHANGED <<coreVars, batch, cur, seen, toks, firstLat, driverVars, sig,
                   backendVars, loadgenVars>>

PollExit_NoAssert == ExitLoop(TRUE)

PollExit == ExitLoop(pending = {})

PollSetExit ==
    /\ pollPc = "setExit"
    /\ exited' = TRUE
    /\ pollPc' = "lastNotify"
    /\ UNCHANGED <<pending, lock, inWarmup, stopWork, batch, cur, seen, toks,
                   firstLat, driverVars, sig, backendVars, loadgenVars>>

PollLastNotify ==
    pollPc = "lastNotify" /\ WakeFlush /\ NotifyThen("done")

Poll ==
    \/ PollRead \/ PollNotify \/ PollCheckStop \/ PollBackend
    \/ SkipError \/ StreamChunk \/ WholeAnswer \/ HandledAll
    \/ TrackResponse \/ DropWarmup \/ Deliver
    \/ PollExit \/ PollSetExit \/ PollLastNotify

-----------------------------------------------------------------------------
(***************************************************************************)
(* The backend, external to the core: the executors and HTTP clients answer*)
(* the requests independently, so the responses of different requests come *)
(* in any order, those of one request in the order they were generated.    *)
(***************************************************************************)
Respond(r, ts, final) ==
    /\ ready' = Append(ready, [id |-> r, toks |-> ts, final |-> final, error |-> FALSE])
    /\ nresp' = [nresp EXCEPT ![r] = @ + 1]

\* Only streaming backends send chunks that are not final.
Generate(r) ==
    /\ alive /\ bst[r] = "run"
    /\ \E final \in BOOLEAN, n \in (IF nresp[r] = 0 THEN FirstSizes ELSE ChunkSizes) :
        /\ ~final => Streaming /\ nresp[r] + 1 < MaxResponses
        /\ Respond(r, n_toks(n), final)
        /\ gen' = [gen EXCEPT ![r] = @ \o n_toks(n)]
        /\ bst' = [bst EXCEPT ![r] = IF final THEN "end" ELSE "run"]
    /\ UNCHANGED <<nerr, alive, coreVars, pollVars, driverVars, sig, loadgenVars>>

\* http_async_client.py: a stream whose first chunk was marked final is
\* followed by its final response all the same.
RepeatFinal(r) ==
    /\ alive /\ Streaming /\ bst[r] = "end" /\ nresp[r] = 1
    /\ nresp[r] < MaxResponses
    /\ Respond(r, <<>>, TRUE)
    /\ UNCHANGED <<bst, gen, nerr, alive, coreVars, pollVars, driverVars, sig, loadgenVars>>

\* A failed request: the last thing its backend says.
Fail(r) ==
    /\ alive /\ bst[r] = "run" /\ nerr < MaxErrors
    /\ nresp[r] < MaxResponses
    /\ ready' = Append(ready, [id |-> r, toks |-> <<>>, final |-> TRUE, error |-> TRUE])
    /\ nresp' = [nresp EXCEPT ![r] = @ + 1]
    /\ nerr' = nerr + 1
    /\ bst' = [bst EXCEPT ![r] = "end"]
    /\ UNCHANGED <<gen, alive, coreVars, pollVars, driverVars, sig, loadgenVars>>

Backend == \E r \in Requests : Generate(r) \/ RepeatFinal(r) \/ Fail(r)

-----------------------------------------------------------------------------
\* The run is over when the driver is past stop_work and the poll thread ended.
Finished ==
    /\ dpc = "over" /\ pollPc \in {"done", "dead"}
    /\ UNCHANGED vars

Next == Driver \/ Handler \/ Poll \/ Backend \/ Finished

Spec == Init /\ [][Next]_vars

\* Threads are scheduled, a lock that is free again and again is obtained
\* (CPython hands the lock over), and a live backend answers.
Fairness ==
    /\ WF_vars(Poll) /\ SF_vars(PollRead) /\ SF_vars(TrackResponse)
    /\ WF_vars(Driver) /\ WF_vars(SigintLog \/ SigintKill)
    /\ \A r \in Requests : WF_vars(Generate(r))

FairSpec == Spec /\ Fairness

-----------------------------------------------------------------------------
(***************************************************************************)
(* Properties.                                                             *)
(***************************************************************************)
\* Every variable has a value of its type.
TypeOK ==
    /\ pending \subseteq Requests /\ lock \in {Free, "driver"}
    /\ inWarmup \in BOOLEAN /\ stopWork \in BOOLEAN /\ exited \in BOOLEAN
    /\ pollPc \in PollPcs /\ batch \in Seq(Response)
    /\ cur \in [id : Requests, first : BOOLEAN, final : BOOLEAN]
    /\ seen \subseteq Requests /\ firstLat \subseteq Requests
    /\ toks \in [Requests -> Seq(TokenKinds)]
    /\ dpc \in DriverPcs /\ fpc \in FlushPcs /\ enqueued \subseteq Requests
    /\ sig \in {"armed", "log", "kill", "done"}
    /\ bst \in [Requests -> {"idle", "run", "end"}]
    /\ gen \in [Requests -> Seq({"tok"})]
    /\ nresp \in [Requests -> Nat] /\ nerr \in Nat
    /\ ready \in Seq(Response) /\ alive \in BOOLEAN
    /\ issued \subseteq TestReqs
    /\ firstTokens \in [Requests -> Nat] /\ completions \in [Requests -> Nat]
    /\ output \in [Requests -> Seq(TokenKinds)]

\* LoadGen hears of the end of a request at most once, and only when the core
\* tracks it no more: stale and repeated final responses (base.py:301-307)
\* are filtered by pending_samples.
CompletedOnce ==
    \A r \in Requests : completions[r] <= 1 /\ (completions[r] = 1 => r \notin pending)

\* A final response of r that the poll thread has yet to look up.
FinalUnderWay(r) ==
    \/ \E i \in DOMAIN ready : ready[i].id = r /\ ready[i].final
    \/ \E i \in DOMAIN batch : batch[i].id = r /\ batch[i].final
    \/ pollPc = "track" /\ cur.id = r /\ cur.final

\* The end of a tracked request (or of one that enqueue() is about to track)
\* still lies ahead: its response is never thrown away as stale because it
\* overtook the book-keeping of enqueue(), which is why enqueue() keeps the
\* lock from the backend call to the update (base.py:173-179). Failed
\* requests are the exception (base.py:273-275); that a killed backend will
\* not send what it owes is not counted against the core.
PendingIsAnswerable ==
    nerr = 0 => \A r \in pending \cup enqueued : bst[r] = "run" \/ FinalUnderWay(r)

\* Once response_thread_exit is set the core tracks nothing, for ever: no
\* enqueue slips in between the last look at pending_samples and the exit
\* (base.py:259-260, 410-414), provided that _enqueue_impl asserts that the
\* core is not stopped.
ExitIsFinal ==
    AssertsStop /\ exited => pending = {} /\ enqueued = {}

\* What LoadGen gets is what the backend generated, padded when shorter than
\* two tokens: "for 0-len response, we use <BOS>", "for 1-len response, we use
\* RESP + <EOS>" (base.py:289-297, 353-361). It holds of whole answers; a
\* stream is padded when its first chunk is short, whatever follows.
OutputIsGenerated ==
    \A r \in Requests : completions[r] > 0 => output[r] = Padded(gen[r])

\* The generated tokens of an answer, without its padding.
Generated(s) == {i \in DOMAIN s : s[i] = "tok"}

\* However a stream is cut into chunks and wherever it is padded, every token
\* the backend generated is in the output that LoadGen gets, once, and LoadGen
\* gets two tokens at least (base.py:280-297).
NoTokenIsLost ==
    \A r \in Requests : completions[r] > 0 =>
        /\ Cardinality(Generated(output[r])) = Len(gen[r])
        /\ Len(output[r]) >= 2

\* base.py:227: "The response thread runs until notify_stop() is called." It
\* does without warm-up queries or without streaming; a stream whose first
\* chunk was handled in warm-up mode and whose final chunk after it kills it
\* (base.py:333).
PollRunsUntilStop == pollPc = "dead" => stopWork

\* base.py:131: warm-up mode "prevents completion callbacks from being sent to
\* LoadGen during warmup", and leaves only when flush() has blocked "until all
\* pending requests complete" (base.py:209): LoadGen never hears of a warm-up
\* query.
WarmupIsSilent ==
    \A r \in WarmupReqs : firstTokens[r] = 0 /\ completions[r] = 0

\* base.py:213: no flush is waiting when the core has exited.
NoFlushAfterExit == ~(fpc = "wait" /\ pollPc = "done")

\* LoadGen's flush_queries comes back, with an answer to every sample it
\* issued soon after.
TestTerminates == (dpc = "issue") ~> (dpc = "stop")

\* The core keeps LoadGen's contract.
Contract == INSTANCE LoadGenContract WITH Samples <- Requests

KeepsContract == Contract!Spec

=============================================================================
