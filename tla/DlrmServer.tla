----------------------------- MODULE DlrmServer -----------------------------
(***************************************************************************)
(* DLRMv2Server and DLRMv2Core                                             *)
(* (src/code/harness/harness_dlrm_v2/dlrm_v2_server.{h,cpp}): IssueQuery   *)
(* spreads samples over the batch makers, or puts them into one queue when *)
(* inputs start from the device; a worker per core (ProcessTasks,          *)
(* ProcessTasksFromDevice) takes batches and runs them on the core's       *)
(* bundles in turn; the core's handler threads answer LoadGen.             *)
(*                                                                         *)
(* A batch maker is a queue here that gives some of its first samples      *)
(* (BatchMaker.tla has the detail). CUDA streams (external) run what is    *)
(* queued on them in order, at any time. Condition variables are guards:   *)
(* every waiter has a predicate, under the mutex of its notifications.     *)
(***************************************************************************)
EXTENDS Naturals, Sequences, FiniteSets, SequencesExt

CONSTANTS
    NumDevices,     \* gpus.size()
    CoresPerDevice, \* numDLRMv2Cores
    NumBundles,     \* per core
    NumHandlers,    \* per core: numCompleteThreads
    Pairs,          \* per sample in the order of issue: its user-item pairs
    QuerySizes,     \* bound: numbers of samples of a query
    SplitThreshold, \* SPLIT_THRESHOLD
    Settings        \* the settings to choose from: startFromDevice,
                    \* issueThreads, batcherPerGpu, maxBatchSize

Devices == 1..NumDevices
Cores == Devices \X (1..CoresPerDevice)
Bundles == 1..NumBundles
Handlers == Cores \X (1..NumHandlers)
Samples == DOMAIN Pairs

ASSUME DlrmAssumption ==
    /\ {NumDevices, CoresPerDevice, NumBundles, NumHandlers, SplitThreshold} \subseteq Nat \ {0}
    /\ Pairs \in Seq(Nat \ {0}) /\ QuerySizes \subseteq Nat \ {0}
    \* with threads of its own for issuing, and starting from the device, the
    \* constructor's CHECK fails
    /\ Settings \subseteq {s \in [startFromDevice : BOOLEAN, issueThreads : BOOLEAN,
                                  batcherPerGpu : BOOLEAN, maxBatchSize : Nat] :
                            ~(s.startFromDevice /\ s.issueThreads)}

VARIABLES
    settings,
    issued,     \* samples LoadGen has issued
    prevMaker,  \* mPrevBatchMakerIdx
    tasks,      \* per batch maker: what it holds; mTasks is that of the first
    stopWork,   \* mStopWork of the server and its batch makers
    wpc,        \* per core: its worker
    bundle,     \* per core: the foreground bundle
    input,      \* per core and bundle: the samples in its input buffers, by pair
    compute,    \* per core: bundles on mComputeStream
    d2h,        \* per core: copies and host functions on mD2HStream
    devOut, hostOut, \* per core and bundle: the pairs its outputs are of
    resultQ,    \* per core: mResultQ
    result,     \* per handler: the result it answers
    hpc,        \* per handler
    answers,    \* per sample: the outputs LoadGen was given, in order
    aborted     \* a CHECK failed

queueVars == <<issued, prevMaker, tasks>>
workerVars == <<wpc, bundle, input>>
streamVars == <<compute, d2h>>
outVars == <<devOut, hostOut>>
handlerVars == <<resultQ, result, hpc>>
vars == <<settings, queueVars, stopWork, workerVars, streamVars, outVars, handlerVars,
          answers, aborted>>

\* mMaxBatchSize: the cores and GetBatch have an even one, the batch makers not.
MaxBatchSize_AsGiven == settings.maxBatchSize

MaxBatchSize == settings.maxBatchSize - (settings.maxBatchSize % 2)

NumMakers == IF settings.issueThreads \/ (settings.batcherPerGpu /\ ~settings.startFromDevice)
             THEN NumDevices ELSE 1

\* The maker a worker takes its batches from.
MakerOf_Threads(c) == IF settings.issueThreads THEN 1
                      ELSE IF settings.batcherPerGpu THEN c[1] ELSE 1

MakerOf(c) == IF settings.batcherPerGpu /\ ~settings.startFromDevice THEN c[1] ELSE 1

NoResult == [outputs |-> <<>>, tasks |-> <<>>, padded |-> FALSE]

PairsOf(batch) == FlattenSeq([i \in DOMAIN batch |-> [k \in 1..batch[i][2] |-> batch[i][1]]])

Init ==
    /\ settings \in Settings
    /\ issued = 0 /\ prevMaker = 0
    /\ tasks = [m \in Devices |-> <<>>] /\ stopWork = FALSE
    /\ wpc = [c \in Cores |-> "sync"] /\ bundle = [c \in Cores |-> 1]
    /\ input = [c \in Cores |-> [b \in Bundles |-> <<>>]]
    /\ compute = [c \in Cores |-> <<>>] /\ d2h = [c \in Cores |-> <<>>]
    /\ devOut = input /\ hostOut = input
    /\ resultQ = [c \in Cores |-> <<>>]
    /\ result = [h \in Handlers |-> NoResult] /\ hpc = [h \in Handlers |-> "wait"]
    /\ answers = [s \in Samples |-> <<>>] /\ aborted = FALSE

-----------------------------------------------------------------------------
(***************************************************************************)
(* IssueQuery: a small query goes to the next maker, or to that of the     *)
(* issuing thread, a large one is split over all of them.                  *)
(***************************************************************************)
Task(s) == <<s, Pairs[s]>>

Share(n, m) == (n \div NumMakers) + (IF m <= n % NumMakers THEN 1 ELSE 0)

Offset_Even(n, m) == (m - 1) * (n \div NumMakers)

Offset(n, m) == LET less == IF m - 1 < n % NumMakers THEN m - 1 ELSE n % NumMakers
                IN  (m - 1) * (n \div NumMakers) + less

Give(m, first, n) == tasks[m] \o [i \in 1..n |-> Task(first + i)]

IssueQuery(n) ==
    /\ ~stopWork /\ issued + n <= Len(Pairs)
    /\ IF n >= SplitThreshold /\ ~settings.issueThreads
       THEN /\ tasks' = [m \in Devices |->
                    IF m <= NumMakers THEN Give(m, issued + Offset(n, m), Share(n, m)) ELSE <<>>]
            /\ UNCHANGED prevMaker
       ELSE \E m \in IF settings.issueThreads THEN Devices ELSE {(prevMaker % NumMakers) + 1} :
            /\ tasks' = [tasks EXCEPT ![m] = Give(m, issued, n)]
            /\ prevMaker' = IF settings.issueThreads THEN prevMaker ELSE m
    /\ issued' = issued + n
    /\ UNCHANGED <<settings, stopWork, workerVars, streamVars, outVars, handlerVars,
                   answers, aborted>>

\* The destructor, after the test.
StopWork ==
    /\ ~stopWork /\ issued = Len(Pairs) /\ \A s \in Samples : answers[s] # <<>>
    /\ stopWork' = TRUE
    /\ UNCHANGED <<settings, queueVars, workerVars, streamVars, outVars, handlerVars,
                   answers, aborted>>

-----------------------------------------------------------------------------
(***************************************************************************)
(* A worker. syncD2H waits for the copy of the bundle's last batch, not    *)
(* for the host function behind it, which reads the copy.                  *)
(***************************************************************************)
CopyOf(b) == [copy |-> TRUE, bundle |-> b, tasks |-> <<>>, padded |-> FALSE]
HostFunction(b, batch, padded) ==
    [copy |-> FALSE, bundle |-> b, tasks |-> batch, padded |-> padded]

Synced_Always(c) == TRUE

Synced(c) == ~\E i \in DOMAIN d2h[c] : d2h[c][i] = CopyOf(bundle[c])

SyncBundle(c) ==
    /\ wpc[c] = "sync" /\ Synced(c)
    /\ wpc' = [wpc EXCEPT ![c] = "get"]
    /\ UNCHANGED <<settings, queueVars, stopWork, bundle, input, streamVars, outVars,
                   handlerVars, answers, aborted>>

PairsIn(batch) == Len(PairsOf(batch))

NextBundle_Past(b) == b + 1

NextBundle(b) == (b % NumBundles) + 1

\* infer and inferFromDevice, on the foreground bundle.
Infer(c, batch, padded) ==
    LET b == bundle[c]
    IN  /\ aborted' = (aborted \/ PairsIn(batch) > MaxBatchSize)
        /\ input' = [input EXCEPT ![c][b] = PairsOf(batch)]
        /\ compute' = [compute EXCEPT ![c] = Append(@, b)]
        /\ d2h' = [d2h EXCEPT ![c] = @ \o <<CopyOf(b), HostFunction(b, batch, padded)>>]
        /\ bundle' = [bundle EXCEPT ![c] = NextBundle(b)]

TakeAway(m, n) == tasks' = [tasks EXCEPT ![m] = SubSeq(@, n + 1, Len(@))]

\* A batch maker's batch: some samples, as many as there may be or less.
GetFromMaker(c) ==
    LET m == MakerOf(c)
    IN  /\ wpc[c] = "get" /\ ~settings.startFromDevice /\ ~stopWork
        /\ \E n \in 1..Len(tasks[m]) :
            LET batch == SubSeq(tasks[m], 1, n)
            IN  /\ PairsIn(batch) <= settings.maxBatchSize
                /\ Infer(c, batch, FALSE)
                /\ TakeAway(m, n)
        /\ wpc' = [wpc EXCEPT ![c] = "sync"]
        /\ UNCHANGED <<settings, issued, prevMaker, stopWork, outVars, handlerVars, answers>>

\* GetBatch takes all that fits. An odd batch is padded with one more pair of
\* its last sample.
Fitting(ts) == CHOOSE n \in 0..Len(ts) :
    /\ PairsIn(SubSeq(ts, 1, n)) <= MaxBatchSize
    /\ n = Len(ts) \/ PairsIn(SubSeq(ts, 1, n + 1)) > MaxBatchSize

GetFromDevice(c) ==
    LET n == Fitting(tasks[1])
        batch == SubSeq(tasks[1], 1, n)
        odd == PairsIn(batch) % 2 = 1
    IN  /\ wpc[c] = "get" /\ settings.startFromDevice /\ tasks[1] # <<>>
        /\ TakeAway(1, n)
        /\ IF n = 0
           THEN /\ wpc' = [wpc EXCEPT ![c] = "gone"]
                /\ UNCHANGED <<bundle, input, streamVars, aborted>>
           ELSE /\ wpc' = [wpc EXCEPT ![c] = "sync"]
                /\ Infer(c, IF odd THEN Append(batch, <<Last(batch)[1], 1>>) ELSE batch, odd)
        /\ UNCHANGED <<settings, issued, prevMaker, stopWork, outVars, handlerVars, answers>>

WorkerEnds(c) ==
    /\ wpc[c] = "get" /\ stopWork
    /\ settings.startFromDevice => tasks[1] = <<>>
    /\ wpc' = [wpc EXCEPT ![c] = "gone"]
    /\ UNCHANGED <<settings, queueVars, stopWork, bundle, input, streamVars, outVars,
                   handlerVars, answers, aborted>>

-----------------------------------------------------------------------------
(***************************************************************************)
(* The streams of a core (external).                                       *)
(***************************************************************************)
Compute(c) ==
    /\ compute[c] # <<>>
    /\ devOut' = [devOut EXCEPT ![c][Head(compute[c])] = input[c][Head(compute[c])]]
    /\ compute' = [compute EXCEPT ![c] = Tail(@)]
    /\ UNCHANGED <<settings, queueVars, stopWork, workerVars, d2h, hostOut, handlerVars,
                   answers, aborted>>

\* The copy awaits the bundle's inference.
CopyOut(c) ==
    /\ d2h[c] # <<>> /\ Head(d2h[c]).copy
    /\ LET b == Head(d2h[c]).bundle
       IN /\ ~Contains(compute[c], b)
          /\ hostOut' = [hostOut EXCEPT ![c][b] = devOut[c][b]]
    /\ d2h' = [d2h EXCEPT ![c] = Tail(@)]
    /\ UNCHANGED <<settings, queueVars, stopWork, workerVars, compute, devOut, handlerVars,
                   answers, aborted>>

\* The host function copies the outputs of its batch and queues the result.
Enqueue(c) ==
    /\ d2h[c] # <<>> /\ ~Head(d2h[c]).copy
    /\ LET f == Head(d2h[c])
       IN resultQ' = [resultQ EXCEPT ![c] = Append(@, [outputs |-> hostOut[c][f.bundle],
                                            tasks |-> f.tasks, padded |-> f.padded])]
    /\ d2h' = [d2h EXCEPT ![c] = Tail(@)]
    /\ UNCHANGED <<settings, queueVars, stopWork, workerVars, compute, outVars, result, hpc,
                   answers, aborted>>

-----------------------------------------------------------------------------
(***************************************************************************)
(* A handler: HandleResult. It ends with its core, after the workers.      *)
(***************************************************************************)
TakeResult(h) ==
    /\ hpc[h] = "wait" /\ resultQ[h[1]] # <<>>
    /\ result' = [result EXCEPT ![h] = Head(resultQ[h[1]])]
    /\ resultQ' = [resultQ EXCEPT ![h[1]] = Tail(@)]
    /\ hpc' = [hpc EXCEPT ![h] = "answer"]
    /\ UNCHANGED <<settings, queueVars, stopWork, workerVars, streamVars, outVars, answers,
                   aborted>>

\* The tasks answered: not the one a batch was padded with.
Answered_All(r) == r.tasks

Answered(r) == IF r.padded THEN Front(r.tasks) ELSE r.tasks

\* Each task has its pairs' outputs, in the order of the batch.
Response(r, i) ==
    LET before == PairsIn(SubSeq(r.tasks, 1, i - 1))
    IN  SubSeq(r.outputs, before + 1, before + r.tasks[i][2])

\* The k-th of a sample's tasks in a result.
OwnTask(r, s, k) ==
    CHOOSE i \in DOMAIN Answered(r) : /\ r.tasks[i][1] = s
                                     /\ Cardinality({j \in 1..i : r.tasks[j][1] = s}) = k

HandleResult(h) ==
    LET r == result[h]
        own(s) == {i \in DOMAIN Answered(r) : r.tasks[i][1] = s}
    IN  /\ hpc[h] = "answer"
        /\ answers' = [s \in Samples |-> answers[s] \o
                [k \in 1..Cardinality(own(s)) |-> Response(r, OwnTask(r, s, k))]]
        /\ result' = [result EXCEPT ![h] = NoResult]
        /\ hpc' = [hpc EXCEPT ![h] = "wait"]
        /\ UNCHANGED <<settings, queueVars, stopWork, workerVars, streamVars, outVars,
                       resultQ, aborted>>

HandlerEnds(h) ==
    /\ hpc[h] = "wait" /\ stopWork /\ \A c \in Cores : wpc[c] = "gone"
    /\ hpc' = [hpc EXCEPT ![h] = "gone"]
    /\ UNCHANGED <<settings, queueVars, stopWork, workerVars, streamVars, outVars, resultQ,
                   result, answers, aborted>>

Finished == (\A h \in Handlers : hpc[h] = "gone") /\ UNCHANGED vars

LoadGen == (\E n \in QuerySizes : IssueQuery(n)) \/ StopWork
Worker(c) == SyncBundle(c) \/ GetFromMaker(c) \/ GetFromDevice(c) \/ WorkerEnds(c)
Handler(h) == TakeResult(h) \/ HandleResult(h) \/ HandlerEnds(h)

Next ==
    \/ LoadGen \/ Finished
    \/ \E c \in Cores : Worker(c) \/ Compute(c) \/ CopyOut(c) \/ Enqueue(c)
    \/ \E h \in Handlers : Handler(h)

Spec == Init /\ [][Next]_vars

\* LoadGen issues its samples and stops, threads and streams get their turns.
FairSpec ==
    /\ Spec /\ WF_vars(LoadGen)
    /\ \A c \in Cores :
        WF_vars(Worker(c)) /\ WF_vars(Compute(c)) /\ WF_vars(CopyOut(c) \/ Enqueue(c))
    /\ \A h \in Handlers : WF_vars(Handler(h))

-----------------------------------------------------------------------------
(***************************************************************************)
(* Properties.                                                             *)
(***************************************************************************)
TaskType == Samples \X Nat
Outputs == Seq(Samples)
Results == [outputs : Outputs, tasks : Seq(TaskType), padded : BOOLEAN]
Launches == [copy : BOOLEAN, bundle : Bundles, tasks : Seq(TaskType), padded : BOOLEAN]

\* Every variable has a value of its type.
TypeOK ==
    /\ settings \in Settings /\ issued \in 0..Len(Pairs) /\ prevMaker \in 0..NumDevices
    /\ tasks \in [Devices -> Seq(TaskType)]
    /\ stopWork \in BOOLEAN /\ aborted \in BOOLEAN
    /\ wpc \in [Cores -> {"sync", "get", "gone"}] /\ bundle \in [Cores -> Bundles]
    /\ {input, devOut, hostOut} \subseteq [Cores -> [Bundles -> Outputs]]
    /\ compute \in [Cores -> Seq(Bundles)]
    /\ d2h \in [Cores -> Seq(Launches)]
    /\ resultQ \in [Cores -> Seq(Results)] /\ result \in [Handlers -> Results]
    /\ hpc \in [Handlers -> {"wait", "answer", "gone"}]
    /\ answers \in [Samples -> Seq(Outputs)]

\* A sample's answer is the outputs of its own pairs, all of them and once:
\* a bundle's buffers are not overwritten before the batch in them is read,
\* although the worker takes the bundle again before the host function has run,
\* and the pair that evens a batch is answered to nobody.
AnswerIsOwn ==
    \A s \in Samples : answers[s] \in {<<>>, <<[k \in 1..Pairs[s] |-> s]>>}

\* No CHECK fails: a batch, padded, fits into the cores' buffers
\* (dlrm_v2_server.cpp:162, 227), which have the size rounded down.
NoCheckFails == ~aborted

\* Every sample is answered: no maker is given samples that no worker takes, the
\* shares of a split query leave none out and no result stays in the queue.
AnswersEverything == <>[](\A s \in Samples : answers[s] # <<>>)

=============================================================================
