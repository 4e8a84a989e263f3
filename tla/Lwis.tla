-------------------------------- MODULE Lwis --------------------------------
(***************************************************************************)
(* The LWIS inference server of the vision benchmarks                      *)
(* (src/code/harness/lwis): IssueQuery puts samples into the work queue,   *)
(* batcher threads (ProcessSamples) cut batches and issue them on copy     *)
(* streams, directly or through a thread per device (ProcessBatches),      *)
(* completion threads wait for a batch's event, answer LoadGen and give    *)
(* the stream back; Done stops them all.                                   *)
(*                                                                         *)
(* A SyncQueue is a sequence; its locked operations are atomic. CUDA runs  *)
(* asynchronously (external): a launched batch finishes some time later.   *)
(* Devices have one engine and one infer stream, and answer from the host. *)
(***************************************************************************)
EXTENDS Naturals, Sequences, FiniteSets, SequencesExt

CONSTANTS
    NumDevices,
    NumStreams,     \* copy streams per device
    CompleteThreads,\* completion threads per device
    BatchSize,      \* per device: m_BatchSizes * m_BatchLoopCounts
    Index,          \* per sample in the order of issue: its place in memory
    QuerySizes,     \* bound: numbers of samples of a query
    Settings        \* the settings to choose from:
                    \* batcherPerDevice, cudaThread, dequeLimit

Devices == 1..NumDevices
Samples == DOMAIN Index
Streams == Devices \X (1..NumStreams)
Completers == Devices \X (1..CompleteThreads)
End == 0    \* the sample with the null id

ASSUME LwisAssumption ==
    /\ NumDevices \in Nat \ {0} /\ NumStreams \in Nat \ {0}
    /\ CompleteThreads \in Nat \ {0}
    /\ BatchSize \in [Devices -> Nat \ {0}]
    /\ Index \in Seq(Nat) /\ QuerySizes \subseteq Nat \ {0}
    /\ Settings \subseteq [batcherPerDevice : BOOLEAN, cudaThread : BOOLEAN,
                           dequeLimit : BOOLEAN]

VARIABLES
    settings,
    issued,     \* samples LoadGen has issued
    workQueue,  \* m_WorkQueue
    deviceNum,  \* m_DeviceNum: batchers that have not ended
    deviceIndex,\* m_DeviceIndex
    bpc,        \* per batcher: where it is
    bdev,       \* per batcher: its current device
    hand,       \* per batcher: acquired samples not yet in a batch
    bstream,    \* per batcher: the stream of its next batch, front() of the queue
    streamQueue,\* per device: m_StreamQueue
    issueQueue, \* per device: m_IssueQueue
    ipc, ibatch,\* per device: its ProcessBatches thread and the batch it has
    loaded,     \* per stream: the places its inputs were last copied from
    computed,   \* per stream: the outputs in its host buffer
    completionQueue, \* per device: m_CompletionQueue
    cpc, cbatch,\* per completion thread
    answers,    \* per sample: the outputs LoadGen was given, in order
    dpc         \* the main thread in Done

batcherVars == <<deviceNum, deviceIndex, bpc, bdev, hand, bstream>>
issueVars == <<issueQueue, ipc, ibatch>>
gpuVars == <<loaded, computed>>
completionVars == <<completionQueue, cpc, cbatch>>
vars == <<settings, issued, workQueue, batcherVars, streamQueue, issueVars, gpuVars,
          completionVars, answers, dpc>>

NoStream == <<0, 0>>
NoBatch == [samples |-> <<>>, stream |-> NoStream]
Batchers == IF settings.batcherPerDevice THEN Devices ELSE {1}

\* Setup is over and its threads have started (Warmup comes between).
Init ==
    /\ settings \in Settings
    /\ issued = 0 /\ workQueue = <<>>
    /\ deviceNum = Cardinality(Batchers) /\ deviceIndex = 1
    /\ bpc = [b \in Devices |-> IF b \in Batchers THEN "device" ELSE "gone"]
    /\ bdev = [b \in Devices |-> b] /\ hand = [b \in Devices |-> <<>>]
    /\ bstream = [b \in Devices |-> NoStream]
    /\ streamQueue = [d \in Devices |-> [i \in 1..NumStreams |-> <<d, i>>]]
    /\ issueQueue = [d \in Devices |-> <<>>]
    /\ ipc = [d \in Devices |-> IF settings.cudaThread THEN "wait" ELSE "gone"]
    /\ ibatch = [d \in Devices |-> NoBatch]
    /\ loaded = [s \in Streams |-> <<>>] /\ computed = [s \in Streams |-> <<>>]
    /\ completionQueue = [d \in Devices |-> <<>>]
    /\ cpc = [c \in Completers |-> "pop"] /\ cbatch = [c \in Completers |-> NoBatch]
    /\ answers = [i \in Samples |-> <<>>]
    /\ dpc = "test"

-----------------------------------------------------------------------------
\* LoadGen's next query.
IssueQuery ==
    /\ dpc = "test"
    /\ \E n \in QuerySizes :
        /\ issued + n <= Len(Index)
        /\ workQueue' = workQueue \o [i \in 1..n |-> issued + i]
        /\ issued' = issued + n
    /\ UNCHANGED <<settings, batcherVars, streamQueue, issueVars, gpuVars,
                   completionVars, answers, dpc>>

-----------------------------------------------------------------------------
(***************************************************************************)
(* The batchers: ProcessSamples.                                           *)
(***************************************************************************)
\* GetNextAvailableDevice spins until a device has a stream, its own device if
\* there is one batcher per device, the next one in turn otherwise.
Candidate_Any(b) == deviceIndex

Candidate(b) == IF settings.batcherPerDevice THEN b ELSE deviceIndex

NextIndex_Past == deviceIndex + 1

NextIndex == (deviceIndex % NumDevices) + 1

NextDevice(b) ==
    /\ bpc[b] = "device"
    /\ deviceIndex' = IF settings.batcherPerDevice THEN deviceIndex ELSE NextIndex
    /\ bdev' = [bdev EXCEPT ![b] = Candidate(b)]
    /\ streamQueue[Candidate(b)] # <<>> \/ deviceIndex' # deviceIndex
    /\ bpc' = [bpc EXCEPT ![b] =
                IF streamQueue[Candidate(b)] = <<>> THEN "device"
                ELSE IF hand[b] = <<>> THEN "acquire" ELSE "front"]
    /\ UNCHANGED <<settings, issued, workQueue, deviceNum, hand, bstream, streamQueue,
                   issueVars, gpuVars, completionVars, answers, dpc>>

Limited == settings.dequeLimit \/ settings.batcherPerDevice

\* m_WorkQueue.acquire returns with a full batch or, when its time is up, with
\* what there is; limited to a batch or without limit. A first sample without
\* an id ends the batcher.
AcquireIf(ready, b) ==
    /\ bpc[b] = "acquire" /\ workQueue # <<>> /\ ready
    /\ LET size == BatchSize[bdev[b]]
           n == IF Limited /\ Len(workQueue) > size THEN size ELSE Len(workQueue)
           ends == Head(workQueue) = End
       IN /\ workQueue' = SubSeq(workQueue, n + 1, Len(workQueue))
          /\ hand' = [hand EXCEPT ![b] = IF ends THEN <<>> ELSE SubSeq(workQueue, 1, n)]
          /\ deviceNum' = IF ends THEN deviceNum - 1 ELSE deviceNum
          /\ bpc' = [bpc EXCEPT ![b] = IF ends THEN "gone" ELSE "front"]
    /\ UNCHANGED <<settings, issued, deviceIndex, bdev, bstream, streamQueue, issueVars,
                   gpuVars, completionVars, answers, dpc>>

Acquire_Full(b) == AcquireIf(Len(workQueue) >= BatchSize[bdev[b]], b)

Acquire(b) == AcquireIf(TRUE, b)

\* m_StreamQueue.front(), and in another step pop_front().
FrontStream(b) ==
    /\ bpc[b] = "front" /\ streamQueue[bdev[b]] # <<>>
    /\ bstream' = [bstream EXCEPT ![b] = Head(streamQueue[bdev[b]])]
    /\ bpc' = [bpc EXCEPT ![b] = "pop"]
    /\ UNCHANGED <<settings, issued, workQueue, deviceNum, deviceIndex, bdev, hand,
                   streamQueue, issueVars, gpuVars, completionVars, answers, dpc>>

PopStream(b) ==
    /\ bpc[b] = "pop" /\ streamQueue[bdev[b]] # <<>>
    /\ streamQueue' = [streamQueue EXCEPT ![bdev[b]] = Tail(@)]
    /\ bpc' = [bpc EXCEPT ![b] = "issue"]
    /\ UNCHANGED <<settings, issued, workQueue, deviceNum, deviceIndex, bdev, hand,
                   bstream, issueVars, gpuVars, completionVars, answers, dpc>>

-----------------------------------------------------------------------------
(***************************************************************************)
(* IssueBatch and CopySamples.                                             *)
(***************************************************************************)
Places(samples) == [i \in DOMAIN samples |-> Index[samples[i]]]

\* One copy for the whole batch if every sample follows the one before it.
Contiguous_Ends(places) == Last(places) = Head(places) + Len(places) - 1

Contiguous(places) ==
    \A i \in 1..(Len(places) - 1) : places[i + 1] = places[i] + 1

CopySamples(samples) ==
    LET places == Places(samples)
    IN  IF Contiguous(places)
        THEN [i \in DOMAIN places |-> Head(places) + i - 1]
        ELSE places

\* Copy, compute and the event's recording are queued on the stream (the host
\* buffer has old outputs until they are done), then the batch is handed to the
\* completion threads.
IssueBatch(batch) ==
    LET d == batch.stream[1]
    IN  /\ loaded' = [loaded EXCEPT ![batch.stream] = CopySamples(batch.samples)]
        /\ completionQueue' = [completionQueue EXCEPT ![d] = Append(@, batch)]

\* The batcher cuts the next batch and issues it or hands it over.
NextBatch(b) ==
    /\ bpc[b] = "issue"
    /\ LET size == IF Len(hand[b]) < BatchSize[bdev[b]] THEN Len(hand[b])
                   ELSE BatchSize[bdev[b]]
           batch == [samples |-> SubSeq(hand[b], 1, size), stream |-> bstream[b]]
       IN /\ hand' = [hand EXCEPT ![b] = SubSeq(@, size + 1, Len(@))]
          /\ IF settings.cudaThread
             THEN /\ issueQueue' = [issueQueue EXCEPT ![bdev[b]] = Append(@, batch)]
                  /\ UNCHANGED <<loaded, completionQueue>>
             ELSE IssueBatch(batch) /\ UNCHANGED issueQueue
    /\ bstream' = [bstream EXCEPT ![b] = NoStream]
    /\ bpc' = [bpc EXCEPT ![b] = "device"]
    /\ UNCHANGED <<settings, issued, workQueue, deviceNum, deviceIndex, bdev, streamQueue,
                   ipc, ibatch, computed, cpc, cbatch, answers, dpc>>

\* ProcessBatches: front() and pop_front(), of its own queue.
TakeBatch(d) ==
    /\ ipc[d] = "wait" /\ issueQueue[d] # <<>>
    /\ ibatch' = [ibatch EXCEPT ![d] = Head(issueQueue[d])]
    /\ issueQueue' = [issueQueue EXCEPT ![d] = Tail(@)]
    /\ ipc' = [ipc EXCEPT ![d] = IF ibatch'[d] = NoBatch THEN "gone" ELSE "issue"]
    /\ UNCHANGED <<settings, issued, workQueue, batcherVars, streamQueue, gpuVars,
                   completionVars, answers, dpc>>

IssueTaken(d) ==
    /\ ipc[d] = "issue"
    /\ IssueBatch(ibatch[d])
    /\ ibatch' = [ibatch EXCEPT ![d] = NoBatch]
    /\ ipc' = [ipc EXCEPT ![d] = "wait"]
    /\ UNCHANGED <<settings, issued, workQueue, batcherVars, streamQueue, issueQueue,
                   computed, cpc, cbatch, answers, dpc>>

\* The device finishes what is queued on a stream (external).
Compute(s) ==
    /\ computed[s] # loaded[s]
    /\ computed' = [computed EXCEPT ![s] = loaded[s]]
    /\ UNCHANGED <<settings, issued, workQueue, batcherVars, streamQueue, issueVars, loaded,
                   completionVars, answers, dpc>>

-----------------------------------------------------------------------------
(***************************************************************************)
(* The completion threads.                                                 *)
(***************************************************************************)
CompletionStep(c, from, to) ==
    /\ cpc[c] = from
    /\ cpc' = [cpc EXCEPT ![c] = to]
    /\ UNCHANGED <<settings, issued, workQueue, batcherVars, issueVars, gpuVars, dpc>>

PopCompletion(c) ==
    LET queue == completionQueue[c[1]]
    IN  /\ queue # <<>>
        /\ CompletionStep(c, "pop", IF Head(queue) = NoBatch THEN "gone" ELSE "sync")
        /\ cbatch' = [cbatch EXCEPT ![c] = Head(queue)]
        /\ completionQueue' = [completionQueue EXCEPT ![c[1]] = Tail(queue)]
        /\ UNCHANGED <<streamQueue, answers>>

\* cudaEventSynchronize, then QuerySamplesComplete.
CompleteWhen(c, recorded) ==
    /\ CompletionStep(c, "sync", "return")
    /\ recorded
    /\ LET batch == cbatch[c]
           outputs == computed[batch.stream]
       IN answers' = [s \in Samples |->
            IF \E i \in DOMAIN batch.samples : batch.samples[i] = s
            THEN Append(answers[s], LET i == CHOOSE i \in DOMAIN batch.samples : batch.samples[i] = s
                                    IN IF i \in DOMAIN outputs THEN outputs[i] ELSE 0)
            ELSE answers[s]]
    /\ UNCHANGED <<completionQueue, cbatch, streamQueue>>

Complete_NoSync(c) == CompleteWhen(c, TRUE)

Recorded(s) == s \in Streams /\ computed[s] = loaded[s]

Complete(c) == CompleteWhen(c, Recorded(cbatch[c].stream))

ReturnStream(c) ==
    /\ CompletionStep(c, "return", "pop")
    /\ streamQueue' = [streamQueue EXCEPT ![c[1]] = Append(@, cbatch[c].stream)]
    /\ cbatch' = [cbatch EXCEPT ![c] = NoBatch]
    /\ UNCHANGED <<completionQueue, answers>>

-----------------------------------------------------------------------------
(***************************************************************************)
(* Done, after LoadGen has all its answers.                                *)
(***************************************************************************)
DoneStep(from, to) ==
    /\ dpc = from /\ dpc' = to
    /\ UNCHANGED <<settings, issued, batcherVars, streamQueue, ipc, ibatch, gpuVars,
                   cpc, cbatch, answers>>

\* A null batch for every completion thread.
NullBatches_One == <<NoBatch>>

NullBatches == [k \in 1..CompleteThreads |-> NoBatch]

EndCompletion ==
    /\ issued = Len(Index) /\ \A s \in Samples : answers[s] # <<>>
    /\ DoneStep("test", "joinCompletion")
    /\ completionQueue' = [d \in Devices |-> completionQueue[d] \o NullBatches]
    /\ UNCHANGED <<workQueue, issueQueue>>

JoinCompletion ==
    /\ \A c \in Completers : cpc[c] = "gone"
    /\ DoneStep("joinCompletion", "drain")
    /\ UNCHANGED <<workQueue, issueQueue, completionQueue>>

\* A null sample for the batchers, one after the other: the next one only when
\* the last one has ended a batcher; then a null batch for every issuing thread.
EndBatcher ==
    /\ dpc = "drain" /\ workQueue = <<>>
    /\ \/ /\ deviceNum > 0 /\ workQueue' = <<End>>
          /\ DoneStep("drain", "drain") /\ UNCHANGED issueQueue
       \/ /\ deviceNum = 0 /\ UNCHANGED workQueue
          /\ DoneStep("drain", "join")
          /\ issueQueue' = [d \in Devices |->
                IF settings.cudaThread THEN Append(issueQueue[d], NoBatch) ELSE issueQueue[d]]
    /\ UNCHANGED completionQueue

Join ==
    /\ \A b \in Devices : bpc[b] = "gone" /\ ipc[b] = "gone"
    /\ DoneStep("join", "over")
    /\ UNCHANGED <<workQueue, issueQueue, completionQueue>>

Finished == dpc = "over" /\ UNCHANGED vars

Batcher(b) ==
    \/ NextDevice(b) \/ Acquire(b) \/ FrontStream(b) \/ PopStream(b) \/ NextBatch(b)
Issuer(d) == TakeBatch(d) \/ IssueTaken(d)
Completer(c) == PopCompletion(c) \/ Complete(c) \/ ReturnStream(c)
Done == EndCompletion \/ JoinCompletion \/ EndBatcher \/ Join

Next ==
    \/ IssueQuery \/ Done \/ Finished
    \/ \E d \in Devices : Batcher(d) \/ Issuer(d)
    \/ \E s \in Streams : Compute(s)
    \/ \E c \in Completers : Completer(c)

Spec == Init /\ [][Next]_vars

\* LoadGen issues its samples, threads are scheduled and the device computes.
FairSpec ==
    /\ Spec
    /\ WF_vars(IssueQuery) /\ WF_vars(Done)
    /\ \A d \in Devices : WF_vars(Batcher(d)) /\ WF_vars(Issuer(d))
    /\ \A s \in Streams : WF_vars(Compute(s))
    /\ \A c \in Completers : WF_vars(Completer(c))

-----------------------------------------------------------------------------
(***************************************************************************)
(* Properties.                                                             *)
(***************************************************************************)
Batch == [samples : Seq(Samples), stream : Streams \cup {NoStream}]

\* Every variable has a value of its type.
TypeOK ==
    /\ settings \in Settings /\ issued \in 0..Len(Index)
    /\ workQueue \in Seq(Samples \cup {End})
    /\ deviceNum \in 0..NumDevices /\ deviceIndex \in Devices
    /\ bpc \in [Devices -> {"device", "acquire", "front", "pop", "issue", "gone"}]
    /\ bdev \in [Devices -> Devices] /\ hand \in [Devices -> Seq(Samples)]
    /\ bstream \in [Devices -> Streams \cup {NoStream}]
    /\ streamQueue \in [Devices -> Seq(Streams)]
    /\ issueQueue \in [Devices -> Seq(Batch)] /\ ibatch \in [Devices -> Batch]
    /\ ipc \in [Devices -> {"wait", "issue", "gone"}]
    /\ loaded \in [Streams -> Seq(Nat)] /\ computed \in [Streams -> Seq(Nat)]
    /\ completionQueue \in [Devices -> Seq(Batch)]
    /\ cpc \in [Completers -> {"pop", "sync", "return", "gone"}]
    /\ cbatch \in [Completers -> Batch]
    /\ answers \in [Samples -> Seq(Nat)]
    /\ dpc \in {"test", "joinCompletion", "drain", "join", "over"}

\* Every answer is the output for its own sample, given once: no batch is
\* answered before its event, no stream's buffers are reused under an answer
\* and a copy in one piece has the samples of the batch (CopySamples, 921-943).
AnswerIsOwn ==
    \A s \in Samples : answers[s] \in {<<>>, <<Index[s]>>}

Uses(batch, s) == IF batch.stream = s THEN 1 ELSE 0
UsesIn(queue, s) == Cardinality({i \in DOMAIN queue : queue[i].stream = s})

\* A copy stream is free, picked, or in one batch: front() and pop_front() are
\* two operations, which is safe because one thread takes streams of a device.
StreamInOnePlace ==
    \A s \in Streams :
        LET d == s[1]
            free == Cardinality({i \in DOMAIN streamQueue[d] : streamQueue[d][i] = s})
            picked == Cardinality({b \in Devices : bpc[b] = "issue" /\ bstream[b] = s})
            busy == Cardinality({c \in Completers : cbatch[c].stream = s})
        IN free + picked + UsesIn(issueQueue[d], s) + Uses(ibatch[d], s)
               + UsesIn(completionQueue[d], s) + busy = 1

\* LoadGen gets every answer, although FlushQueries does nothing: a batch that
\* never fills leaves when its time is up. Done then ends every thread: each null
\* sample and each null batch reaches a thread of its own.
DoneReturns == <>(dpc = "over")

=============================================================================
