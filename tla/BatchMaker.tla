----------------------------- MODULE BatchMaker -----------------------------
(***************************************************************************)
(* The BatchMaker of the DLRMv2 harness                                    *)
(* (src/code/harness/harness_dlrm_v2/batch_maker.{h,cpp}) with the threads *)
(* that use it: LoadGen's issuing thread (IssueQuery, FlushQueries), the   *)
(* staging threads (StageBatch), the consumers (DLRMv2Server::ProcessTasks)*)
(* and the CUDA host callback of each consumer's copy stream (NotifyH2D).  *)
(*                                                                         *)
(* mMutex is explicit, so that a critical section is a series of steps and *)
(* FlushQueries, which takes a local object that shadows mMutex and thus   *)
(* no lock at all (batch_maker.cpp:281), can run between them. With        *)
(* FlushExclusive the model is restricted to the executions in which it    *)
(* does not.                                                               *)
(***************************************************************************)
EXTENDS Naturals, Sequences, FiniteSets

CONSTANTS
    Samples,            \* the samples LoadGen issues
    Pairs,              \* user-item pairs of a sample (GetNumUserItemPairs)
    Threads,            \* staging threads
    Batches,            \* staging batches
    Consumers,          \* threads running ProcessTasks on this BatchMaker
    NumBundles,         \* bundles of a consumer: batches it has in flight
    MaxBatchSize,       \* mMaxBatchSize, in pairs
    MaxPairsPerThread,  \* mMaxPairsPerThread
    FlushExclusive,     \* FlushQueries meets no critical section
    Nobody, NoBatch, Junk

ASSUME SizesAssumption ==
    /\ MaxBatchSize \in Nat /\ MaxPairsPerThread \in Nat
    /\ NumBundles \in Nat /\ FlushExclusive \in BOOLEAN
    /\ IsFiniteSet(Batches) /\ IsFiniteSet(Consumers)

ASSUME PairsAssumption == Pairs \in [Samples -> Nat \ {0}]

ASSUME NamesAssumption ==
    /\ NoBatch \notin Batches /\ Junk \notin Samples
    /\ "issuer" \notin Threads \cup Consumers
    /\ Nobody \notin Threads \cup Consumers \cup {"issuer"}
    /\ Threads \cap Consumers = {}

\* Nothing in the code enforces that a sample fits into the share of one thread
\* (by default mMaxBatchSize / numStagingThreads, batch_maker.cpp:205): one that
\* does not is never staged, or has an empty batch closed, which a CHECK catches.
ASSUME FitsAssumption ==
    \A s \in Samples : Pairs[s] <= MaxPairsPerThread /\ Pairs[s] <= MaxBatchSize

VARIABLES
    mutex,          \* holder of mMutex
    tasksQ,         \* mTasksQ
    idle, ready, staging,   \* mIdleBatches, mReadyBatches, mStagingBatch
    flush, stopWork, waiting, issuedPairs, readiedPairs,
    \* per batch
    tasks, committed, completed, closing, buf,
    \* per staging thread: pc and the locals of StageBatch
    tpc, batchPtr, tasksOffset, pairsOffset, maxPairs, pairsToCopy,
    \* per consumer: pc, the batch of GetBatch, the batches in its streams,
    \* the batch of the host callback under way
    cpc, got, stream, resetBatch,
    \* LoadGen
    ipc, issued, flushBatch, delivered,
    aborted         \* a CHECK failed

queueVars == <<tasksQ, idle, ready, staging>>
flagVars == <<flush, stopWork, waiting>>
countVars == <<issuedPairs, readiedPairs>>
batchVars == <<tasks, committed, completed, closing, buf>>
localVars == <<batchPtr, tasksOffset, pairsOffset, maxPairs, pairsToCopy>>
threadVars == <<tpc, localVars>>
streamVars == <<got, stream, resetBatch>>
consumerVars == <<cpc, streamVars>>
issuerVars == <<ipc, issued, flushBatch>>
vars == <<mutex, queueVars, flagVars, countVars, batchVars, threadVars,
          consumerVars, issuerVars, delivered, aborted>>

Free(b) == MaxBatchSize - committed[b]

\* isComplete, of a batch with `done` copies completed.
IsCompleteWith_Open(b, done) == done = committed[b]
IsCompleteWith(b, done) == done = committed[b] /\ closing[b]

Smaller(m, n) == IF m < n THEN m ELSE n

\* The pair slots that ts fills, in order.
SlotsOf(ts) ==
    LET upTo[n \in 0..Len(ts)] ==
            IF n = 0 THEN <<>>
            ELSE upTo[n - 1] \o [i \in 1..Pairs[ts[n]] |-> ts[n]]
    IN  upTo[Len(ts)]

-----------------------------------------------------------------------------
\* notify_one on a condition variable whose waiters are the sleepers of pc.
WakeOne(pc) ==
    LET sleepers == {x \in DOMAIN pc : pc[x] = "sleep"}
    IN  IF sleepers = {} THEN {pc}
        ELSE {[pc EXCEPT ![x] = "woken"] : x \in sleepers}

WakeAll(pc) == [x \in DOMAIN pc |-> IF pc[x] = "sleep" THEN "woken" ELSE pc[x]]

Init ==
    /\ mutex = Nobody
    /\ tasksQ = <<>> /\ ready = <<>> /\ staging = NoBatch
    /\ idle \in [1..Cardinality(Batches) -> Batches]
    /\ \A b \in Batches : \E i \in DOMAIN idle : idle[i] = b
    /\ flush = FALSE /\ stopWork = FALSE /\ waiting = 0
    /\ issuedPairs = 0 /\ readiedPairs = 0
    /\ tasks = [b \in Batches |-> <<>>]
    /\ committed = [b \in Batches |-> 0] /\ completed = [b \in Batches |-> 0]
    /\ closing = [b \in Batches |-> FALSE]
    /\ buf = [b \in Batches |-> [i \in 1..MaxBatchSize |-> Junk]]
    /\ tpc = [t \in Threads |-> "woken"]
    /\ batchPtr = [t \in Threads |-> NoBatch]
    /\ tasksOffset = [t \in Threads |-> 0] /\ pairsOffset = [t \in Threads |-> 0]
    /\ maxPairs = [t \in Threads |-> 0] /\ pairsToCopy = [t \in Threads |-> 0]
    /\ cpc = [c \in Consumers |-> "get"]
    /\ got = [c \in Consumers |-> NoBatch]
    /\ stream = [c \in Consumers |-> <<>>]
    /\ resetBatch = [c \in Consumers |-> NoBatch]
    /\ ipc = "idle" /\ issued = {} /\ flushBatch = NoBatch
    /\ delivered = [s \in Samples |-> 0]
    /\ aborted = FALSE

\* HandleReadyBatch, given the consumers' pcs before its notify_one.
HandleReadyBatch(b, pcs) ==
    /\ ready' = Append(ready, b)
    /\ cpc' \in WakeOne(pcs)
    /\ aborted' = (completed[b] = 0)

\* CloseBatch, whole; `restaged` is the staging batch it leaves.
CloseBatchWhen(b, pcs, isReady, restaged) ==
    IF closing[b]
    THEN cpc' = pcs /\ UNCHANGED <<closing, ready, staging, aborted>>
    ELSE /\ closing' = [closing EXCEPT ![b] = TRUE]
         /\ staging' = restaged
         /\ IF isReady THEN HandleReadyBatch(b, pcs)
                       ELSE cpc' = pcs /\ UNCHANGED <<ready, aborted>>

CloseBatch_Keep(b, pcs) == CloseBatchWhen(b, pcs, completed[b] = committed[b], staging)
CloseBatch_AtOnce(b, pcs) == CloseBatchWhen(b, pcs, TRUE, NoBatch)

CloseBatch(b, pcs) == CloseBatchWhen(b, pcs, completed[b] = committed[b], NoBatch)

-----------------------------------------------------------------------------
(***************************************************************************)
(* LoadGen's issuing thread.                                               *)
(***************************************************************************)
\* IssueQuery clears the flag without the lock ...
StartQuery ==
    /\ ipc = "idle" /\ issued # Samples
    /\ flush' = FALSE
    /\ ipc' = "issuing"
    /\ UNCHANGED <<mutex, queueVars, stopWork, waiting, countVars, batchVars,
                   threadVars, consumerVars, issued, flushBatch, delivered, aborted>>

\* ... pushes one task per critical section ...
IssueTask(s) ==
    /\ ipc \in {"issuing", "more"} /\ s \notin issued
    /\ mutex = Nobody
    /\ tasksQ' = Append(tasksQ, s)
    /\ issuedPairs' = issuedPairs + Pairs[s]
    /\ issued' = issued \cup {s}
    /\ ipc' = "more"
    /\ UNCHANGED <<mutex, idle, ready, staging, flagVars, readiedPairs, batchVars,
                   threadVars, consumerVars, flushBatch, delivered, aborted>>

\* ... and wakes one staging thread for the whole query.
EndQuery ==
    /\ ipc = "more"
    /\ tpc' \in WakeOne(tpc)
    /\ ipc' = "idle"
    /\ UNCHANGED <<mutex, queueVars, flagVars, countVars, batchVars, localVars,
                   consumerVars, issued, flushBatch, delivered, aborted>>

\* FlushQueries: LoadGen calls it after its last query. Its steps are those of
\* CloseBatch, one by one.
FlushQueries ==
    /\ ipc = "idle" /\ issued = Samples
    /\ FlushExclusive => mutex = Nobody
    /\ mutex' = IF FlushExclusive THEN "issuer" ELSE mutex
    /\ IF tasksQ = <<>> /\ staging # NoBatch /\ committed[staging] > 0
       THEN ipc' = "mark" /\ flushBatch' = staging
       ELSE ipc' = "flag" /\ UNCHANGED flushBatch
    /\ UNCHANGED <<queueVars, flagVars, countVars, batchVars, threadVars,
                   consumerVars, issued, delivered, aborted>>

FlushMark ==
    /\ ipc = "mark"
    /\ closing' = [closing EXCEPT ![flushBatch] = TRUE]
    /\ ipc' = IF closing[flushBatch] THEN "flag" ELSE "ready"
    /\ UNCHANGED <<mutex, queueVars, flagVars, countVars, tasks, committed, completed,
                   buf, threadVars, consumerVars, issued, flushBatch, delivered, aborted>>

FlushReady ==
    /\ ipc = "ready"
    /\ IF IsCompleteWith(flushBatch, completed[flushBatch])
       THEN HandleReadyBatch(flushBatch, cpc)
       ELSE UNCHANGED <<ready, cpc, aborted>>
    /\ ipc' = "unstage"
    /\ UNCHANGED <<mutex, tasksQ, idle, staging, flagVars, countVars, batchVars,
                   threadVars, streamVars, issued, flushBatch, delivered>>

FlushUnstage ==
    /\ ipc = "unstage"
    /\ staging' = NoBatch
    /\ ipc' = "flag"
    /\ UNCHANGED <<mutex, tasksQ, idle, ready, flagVars, countVars, batchVars, threadVars,
                   consumerVars, issued, flushBatch, delivered, aborted>>

FlushFlag ==
    /\ ipc = "flag"
    /\ flush' = TRUE
    /\ ipc' = "flushed"
    /\ flushBatch' = NoBatch
    /\ mutex' = IF FlushExclusive THEN Nobody ELSE mutex
    /\ UNCHANGED <<queueVars, stopWork, waiting, countVars, batchVars, threadVars,
                   consumerVars, issued, delivered, aborted>>

\* The server is destroyed after the test, when LoadGen has every answer.
StopWork ==
    /\ ipc = "flushed" /\ mutex = Nobody
    /\ \A s \in Samples : delivered[s] > 0
    /\ stopWork' = TRUE
    /\ tpc' = WakeAll(tpc) /\ cpc' = WakeAll(cpc)
    /\ ipc' = "stopped"
    /\ UNCHANGED <<mutex, queueVars, flush, waiting, countVars, batchVars, localVars,
                   streamVars, issued, flushBatch, delivered, aborted>>

Issuer ==
    \/ StartQuery \/ (\E s \in Samples : IssueTask(s)) \/ EndQuery
    \/ FlushQueries \/ FlushMark \/ FlushReady \/ FlushUnstage \/ FlushFlag
    \/ StopWork

-----------------------------------------------------------------------------
(***************************************************************************)
(* A staging thread.                                                       *)
(***************************************************************************)
HasWork == (staging # NoBatch \/ idle # <<>>) /\ tasksQ # <<>>

\* Lock, and wait for tasks and room.
StageWait(t) ==
    /\ tpc[t] = "woken" /\ mutex = Nobody
    /\ ~HasWork
    /\ tpc' = [tpc EXCEPT ![t] = IF stopWork THEN "stopped" ELSE "sleep"]
    /\ UNCHANGED <<mutex, queueVars, flagVars, countVars, batchVars, localVars,
                   consumerVars, issuerVars, delivered, aborted>>

StageStop(t) ==
    /\ tpc[t] = "woken" /\ mutex = Nobody
    /\ HasWork /\ stopWork
    /\ tpc' = [tpc EXCEPT ![t] = "stopped"]
    /\ UNCHANGED <<mutex, queueVars, flagVars, countVars, batchVars, localVars,
                   consumerVars, issuerVars, delivered, aborted>>

\* Take the staging batch, the most recent idle one if there is none, and note
\* where this thread's share of it begins.
StageBeginAt(t, offset) ==
    /\ tpc[t] = "woken" /\ mutex = Nobody
    /\ HasWork /\ ~stopWork
    /\ mutex' = t
    /\ LET b == IF staging # NoBatch THEN staging ELSE idle[Len(idle)]
       IN /\ staging' = b
          /\ idle' = IF staging # NoBatch THEN idle ELSE SubSeq(idle, 1, Len(idle) - 1)
          /\ batchPtr' = [batchPtr EXCEPT ![t] = b]
          /\ tasksOffset' = [tasksOffset EXCEPT ![t] = Len(tasks[b])]
          /\ pairsOffset' = [pairsOffset EXCEPT ![t] = offset[b]]
          /\ maxPairs' = [maxPairs EXCEPT ![t] = Smaller(MaxPairsPerThread, Free(b))]
    /\ pairsToCopy' = [pairsToCopy EXCEPT ![t] = 0]
    /\ tpc' = [tpc EXCEPT ![t] = "commit"]
    /\ UNCHANGED <<tasksQ, ready, flagVars, countVars, batchVars, consumerVars,
                   issuerVars, delivered, aborted>>

StageBegin_Completed(t) == StageBeginAt(t, completed)

StageBegin(t) == StageBeginAt(t, committed)

NextFits_Share(t) == pairsToCopy[t] + Pairs[Head(tasksQ)] <= MaxPairsPerThread

NextFits(t) == pairsToCopy[t] + Pairs[Head(tasksQ)] <= maxPairs[t]

CommitTask(t) ==
    /\ tpc[t] = "commit" /\ tasksQ # <<>> /\ NextFits(t)
    /\ LET b == batchPtr[t]
           s == Head(tasksQ)
       IN /\ pairsToCopy' = [pairsToCopy EXCEPT ![t] = @ + Pairs[s]]
          /\ committed' = [committed EXCEPT ![b] = @ + Pairs[s]]
          /\ tasks' = [tasks EXCEPT ![b] = Append(@, s)]
    /\ tasksQ' = Tail(tasksQ)
    /\ UNCHANGED <<mutex, idle, ready, staging, flagVars, countVars, completed, closing,
                   buf, tpc, batchPtr, tasksOffset, pairsOffset, maxPairs,
                   consumerVars, issuerVars, delivered, aborted>>

\* The next task does not fit: the batch is closed if it is full.
CommitFull(t) ==
    /\ tpc[t] = "commit" /\ tasksQ # <<>> /\ ~NextFits(t)
    /\ IF Pairs[Head(tasksQ)] >= Free(batchPtr[t])
       THEN CloseBatch(batchPtr[t], cpc)
       ELSE UNCHANGED <<closing, ready, staging, cpc, aborted>>
    /\ tpc' = [tpc EXCEPT ![t] = "committed"]
    /\ UNCHANGED <<mutex, tasksQ, idle, flagVars, countVars, tasks, committed, completed,
                   buf, localVars, streamVars, issuerVars, delivered>>

CommitEmpty(t) ==
    /\ tpc[t] = "commit" /\ tasksQ = <<>>
    /\ tpc' = [tpc EXCEPT ![t] = "committed"]
    /\ UNCHANGED <<mutex, queueVars, flagVars, countVars, batchVars, localVars,
                   consumerVars, issuerVars, delivered, aborted>>

\* Nothing committed: start over.
StageNothing(t) ==
    /\ tpc[t] = "committed" /\ pairsToCopy[t] = 0
    /\ mutex' = Nobody
    /\ tpc' = [tpc EXCEPT ![t] = "woken"]
    /\ UNCHANGED <<queueVars, flagVars, countVars, batchVars, localVars, consumerVars,
                   issuerVars, delivered, aborted>>

\* Close the batch after the last task or when a consumer is waiting, pass the
\* turn on and unlock.
LastTask_Flush == tasksQ = <<>> /\ flush
LastTask == (tasksQ = <<>> /\ flush) \/ waiting > 0

StageCommitted(t) ==
    /\ tpc[t] = "committed" /\ pairsToCopy[t] > 0
    /\ IF LastTask THEN CloseBatch(batchPtr[t], cpc)
                   ELSE UNCHANGED <<closing, ready, staging, cpc, aborted>>
    /\ tpc' \in WakeOne([tpc EXCEPT ![t] = "copy"])
    /\ mutex' = Nobody
    /\ UNCHANGED <<tasksQ, idle, flagVars, countVars, tasks, committed, completed, buf,
                   localVars, streamVars, issuerVars, delivered>>

\* doCopy, without the lock: the tasks of this thread's share, one after the
\* other, into the slots from pairsOffset on.
Copy(t) ==
    /\ tpc[t] = "copy"
    /\ LET b == batchPtr[t]
           from == SlotsOf(SubSeq(tasks[b], tasksOffset[t] + 1, Len(tasks[b])))
       IN buf' = [buf EXCEPT ![b] = [i \in 1..MaxBatchSize |->
                    IF i \in pairsOffset[t] + 1 .. pairsOffset[t] + pairsToCopy[t]
                    THEN from[i - pairsOffset[t]] ELSE @[i]]]
    /\ tpc' = [tpc EXCEPT ![t] = "complete"]
    /\ UNCHANGED <<mutex, queueVars, flagVars, countVars, tasks, committed, completed,
                   closing, localVars, consumerVars, issuerVars, delivered, aborted>>

\* completeCopies and ReadyBatchIfComplete, under the lock.
CompleteCopies(t) ==
    /\ tpc[t] = "complete" /\ mutex = Nobody
    /\ LET b == batchPtr[t]
           done == completed[b] + pairsToCopy[t]
       IN /\ completed' = [completed EXCEPT ![b] = done]
          /\ IF IsCompleteWith(b, done)
             THEN /\ ready' = Append(ready, b)
                  /\ aborted' = (done = 0)
                  /\ \E woken \in WakeOne(cpc) : cpc' \in WakeOne(woken)
             ELSE cpc' \in WakeOne(cpc) /\ UNCHANGED <<ready, aborted>>
    /\ tpc' = [tpc EXCEPT ![t] = "woken"]
    /\ UNCHANGED <<mutex, tasksQ, idle, staging, flagVars, countVars, tasks, committed,
                   closing, buf, localVars, streamVars, issuerVars, delivered>>

Stage(t) ==
    \/ StageWait(t) \/ StageStop(t) \/ StageBegin(t) \/ CommitTask(t)
    \/ CommitFull(t) \/ CommitEmpty(t) \/ StageNothing(t) \/ StageCommitted(t)
    \/ Copy(t) \/ CompleteCopies(t)

-----------------------------------------------------------------------------
(***************************************************************************)
(* A consumer: ProcessTasks, with GetBatch, and its copy stream.           *)
(***************************************************************************)
\* GetBatch with a batch at hand.
GetReady(c) ==
    /\ cpc[c] = "get" /\ Len(stream[c]) < NumBundles
    /\ mutex = Nobody /\ ready # <<>>
    /\ mutex' = c
    /\ cpc' = [cpc EXCEPT ![c] = "take"]
    /\ UNCHANGED <<queueVars, flagVars, countVars, batchVars, threadVars, streamVars,
                   issuerVars, delivered, aborted>>

\* GetBatch without: close what is being staged, then wait.
GetNone(c) ==
    /\ cpc[c] = "get" /\ Len(stream[c]) < NumBundles
    /\ mutex = Nobody /\ ready = <<>>
    /\ mutex' = c
    /\ waiting' = waiting + 1
    /\ IF staging # NoBatch
       THEN CloseBatch(staging, [cpc EXCEPT ![c] = "check"])
       ELSE /\ cpc' = [cpc EXCEPT ![c] = "check"]
            /\ UNCHANGED <<closing, ready, staging, aborted>>
    /\ UNCHANGED <<tasksQ, idle, flush, stopWork, countVars, tasks, committed, completed,
                   buf, threadVars, streamVars, issuerVars, delivered>>

GetWoken(c) ==
    /\ cpc[c] = "woken" /\ mutex = Nobody
    /\ mutex' = c
    /\ cpc' = [cpc EXCEPT ![c] = "check"]
    /\ UNCHANGED <<queueVars, flagVars, countVars, batchVars, threadVars, streamVars,
                   issuerVars, delivered, aborted>>

\* The predicate of the wait.
GetSleep(c) ==
    /\ cpc[c] = "check" /\ ready = <<>> /\ ~stopWork
    /\ mutex' = Nobody
    /\ cpc' = [cpc EXCEPT ![c] = "sleep"]
    /\ UNCHANGED <<queueVars, flagVars, countVars, batchVars, threadVars, streamVars,
                   issuerVars, delivered, aborted>>

GetNotified(c) ==
    /\ cpc[c] = "check" /\ (ready # <<>> \/ stopWork)
    /\ waiting' = waiting - 1
    /\ cpc' = [cpc EXCEPT ![c] = "take"]
    /\ UNCHANGED <<mutex, queueVars, flush, stopWork, countVars, batchVars, threadVars,
                   streamVars, issuerVars, delivered, aborted>>

GetStopped(c) ==
    /\ cpc[c] = "take" /\ stopWork
    /\ mutex' = Nobody
    /\ cpc' = [cpc EXCEPT ![c] = "stopped"]
    /\ UNCHANGED <<queueVars, flagVars, countVars, batchVars, threadVars, streamVars,
                   issuerVars, delivered, aborted>>

GetBatch(c) ==
    /\ cpc[c] = "take" /\ ~stopWork
    /\ got' = [got EXCEPT ![c] = Head(ready)]
    /\ ready' = Tail(ready)
    /\ readiedPairs' = readiedPairs + completed[Head(ready)]
    /\ aborted' = (readiedPairs' > issuedPairs)
    /\ LET pcs == [cpc EXCEPT ![c] = "got"]
       IN  IF Tail(ready) = <<>> THEN cpc' = pcs ELSE cpc' \in WakeOne(pcs)
    /\ mutex' = Nobody
    /\ UNCHANGED <<tasksQ, idle, staging, flagVars, issuedPairs, batchVars, threadVars,
                   stream, resetBatch, issuerVars, delivered>>

\* infer: the batch's tasks are noted and its host-to-device copy queued.
Infer(c) ==
    /\ cpc[c] = "got"
    /\ stream' = [stream EXCEPT ![c] =
            Append(@, [batch |-> got[c], tasks |-> tasks[got[c]], data |-> <<>>])]
    /\ got' = [got EXCEPT ![c] = NoBatch]
    /\ cpc' = [cpc EXCEPT ![c] = "get"]
    /\ UNCHANGED <<mutex, queueVars, flagVars, countVars, batchVars, threadVars,
                   resetBatch, issuerVars, delivered, aborted>>

\* The copy stream works in order: the first batch that is still to be copied
\* gets to the device, then its host callback (NotifyH2D) runs: it resets the
\* batch without the lock ...
H2DDone(c) ==
    /\ resetBatch[c] = NoBatch
    /\ \E i \in DOMAIN stream[c] :
        LET b == stream[c][i].batch
        IN /\ b # NoBatch
           /\ \A j \in 1..(i - 1) : stream[c][j].batch = NoBatch
           /\ resetBatch' = [resetBatch EXCEPT ![c] = b]
           /\ stream' = [stream EXCEPT ![c][i] =
                [@ EXCEPT !.batch = NoBatch, !.data = SubSeq(buf[b], 1, committed[b])]]
    /\ UNCHANGED <<mutex, queueVars, flagVars, countVars, batchVars, threadVars, cpc, got,
                   issuerVars, delivered, aborted>>

ResetBatch(c) ==
    /\ resetBatch[c] # NoBatch /\ tasks[resetBatch[c]] # <<>>
    /\ LET b == resetBatch[c]
       IN /\ committed' = [committed EXCEPT ![b] = 0]
          /\ completed' = [completed EXCEPT ![b] = 0]
          /\ closing' = [closing EXCEPT ![b] = FALSE]
          /\ tasks' = [tasks EXCEPT ![b] = <<>>]
    /\ UNCHANGED <<mutex, queueVars, flagVars, countVars, buf, threadVars, consumerVars,
                   issuerVars, delivered, aborted>>

\* ... then gives it back.
NotifyH2D(c) ==
    /\ resetBatch[c] # NoBatch /\ tasks[resetBatch[c]] = <<>>
    /\ mutex = Nobody
    /\ idle' = Append(idle, resetBatch[c])
    /\ resetBatch' = [resetBatch EXCEPT ![c] = NoBatch]
    /\ tpc' \in WakeOne(tpc)
    /\ UNCHANGED <<mutex, tasksQ, ready, staging, flagVars, countVars, batchVars,
                   localVars, cpc, got, stream, issuerVars, delivered, aborted>>

\* The inference of the stream's first batch ends: its samples are answered.
Deliver(c) ==
    /\ stream[c] # <<>> /\ Head(stream[c]).batch = NoBatch
    /\ LET ts == Head(stream[c]).tasks
       IN delivered' = [s \in Samples |->
            delivered[s] + Cardinality({i \in DOMAIN ts : ts[i] = s})]
    /\ stream' = [stream EXCEPT ![c] = Tail(@)]
    /\ UNCHANGED <<mutex, queueVars, flagVars, countVars, batchVars, threadVars, cpc,
                   got, resetBatch, issuerVars, aborted>>

Fetch(c) ==
    \/ GetReady(c) \/ GetNone(c) \/ GetWoken(c) \/ GetSleep(c) \/ GetNotified(c)
    \/ GetStopped(c) \/ GetBatch(c) \/ Infer(c)

CopyStream(c) == H2DDone(c) \/ ResetBatch(c) \/ NotifyH2D(c)

-----------------------------------------------------------------------------
\* Every thread has left its loop.
Stopped ==
    /\ \A t \in Threads : tpc[t] = "stopped"
    /\ \A c \in Consumers : cpc[c] = "stopped"
    /\ UNCHANGED vars

Next ==
    \/ /\ ~aborted
       /\ \/ Issuer
          \/ \E t \in Threads : Stage(t)
          \/ \E c \in Consumers : Fetch(c) \/ CopyStream(c) \/ Deliver(c)
    \/ Stopped

Spec == Init /\ [][Next]_vars

\* std::mutex promises no order, but a thread that keeps asking while others
\* come and go is not starved; the CUDA streams make progress.
\* LoadGen may issue a query or flush at any time, or never; what it began it
\* ends.
Fairness ==
    /\ SF_vars(ipc # "idle" /\ Issuer)
    /\ \A t \in Threads : SF_vars(Stage(t))
    /\ \A c \in Consumers :
        SF_vars(Fetch(c)) /\ SF_vars(CopyStream(c)) /\ WF_vars(Deliver(c))

FairSpec == Spec /\ Fairness

-----------------------------------------------------------------------------
(***************************************************************************)
(* Properties.                                                             *)
(***************************************************************************)
\* Every variable has a value of its type; a batch is never filled beyond its
\* buffer (batch_maker.cpp:434, 444).
TypeOK ==
    /\ mutex \in Threads \cup Consumers \cup {"issuer", Nobody}
    /\ tasksQ \in Seq(Samples)
    /\ idle \in Seq(Batches) /\ ready \in Seq(Batches)
    /\ staging \in Batches \cup {NoBatch}
    /\ flush \in BOOLEAN /\ stopWork \in BOOLEAN /\ aborted \in BOOLEAN
    /\ waiting \in 0..Cardinality(Consumers)
    /\ issuedPairs \in Nat /\ readiedPairs \in Nat
    /\ tasks \in [Batches -> Seq(Samples)] /\ closing \in [Batches -> BOOLEAN]
    /\ committed \in [Batches -> 0..MaxBatchSize]
    /\ completed \in [Batches -> 0..MaxBatchSize]
    /\ buf \in [Batches -> [1..MaxBatchSize -> Samples \cup {Junk}]]
    /\ tpc \in [Threads -> {"woken", "sleep", "stopped", "commit", "committed",
                            "copy", "complete"}]
    /\ batchPtr \in [Threads -> Batches \cup {NoBatch}]
    /\ tasksOffset \in [Threads -> Nat] /\ pairsOffset \in [Threads -> 0..MaxBatchSize]
    /\ maxPairs \in [Threads -> 0..MaxBatchSize]
    /\ pairsToCopy \in [Threads -> 0..MaxBatchSize]
    /\ cpc \in [Consumers -> {"get", "check", "sleep", "woken", "take", "stopped", "got"}]
    /\ got \in [Consumers -> Batches \cup {NoBatch}]
    /\ resetBatch \in [Consumers -> Batches \cup {NoBatch}]
    /\ stream \in [Consumers -> Seq([batch : Batches \cup {NoBatch}, tasks : Seq(Samples),
                                    data : Seq(Samples \cup {Junk})])]
    /\ ipc \in {"idle", "issuing", "more", "mark", "ready", "unstage", "flag", "flushed", "stopped"}
    /\ issued \subseteq Samples /\ flushBatch \in Batches \cup {NoBatch}
    /\ delivered \in [Samples -> Nat]

\* The places where a pointer to b is kept.
Places(b) ==
    {<<"idle", i>> : i \in {j \in DOMAIN idle : idle[j] = b}}
    \cup {<<"ready", i>> : i \in {j \in DOMAIN ready : ready[j] = b}}
    \cup {<<"staging", x>> : x \in {staging} \cap {b}}
    \cup {<<"got", c>> : c \in {d \in Consumers : got[d] = b}}
    \cup {<<"callback", c>> : c \in {d \in Consumers : resetBatch[d] = b}}
    \cup UNION {{<<"stream", c, i>> :
                    i \in {j \in DOMAIN stream[c] : stream[c][j].batch = b}} : c \in Consumers}

\* Between critical sections a batch is in exactly one place - idle, staging,
\* ready, with a consumer, in a copy stream, or in its callback - and in none
\* while it is closed and its copies are under way: it is never lost, never
\* handed out twice, never staged while it is in use (batch_maker.h:283-297).
BatchInOnePlace ==
    mutex = Nobody => \A b \in Batches :
        Cardinality(Places(b)) = IF closing[b] /\ completed[b] < committed[b] THEN 0 ELSE 1

\* No CHECK of the batch maker fails: what is readied is not empty
\* (batch_maker.cpp:366), and no more is readied than was issued (347).
NoCheckFails == ~aborted

\* What reaches the device is what the tasks of the batch ask for: each thread
\* has filled its share of the buffer, after the batch was closed and before
\* it was handed over, and no one filled another's share.
DeviceDataIsTasks ==
    \A c \in Consumers : \A i \in DOMAIN stream[c] :
        stream[c][i].batch = NoBatch => stream[c][i].data = SlotsOf(stream[c][i].tasks)

\* From the moment it is ready until its copy is done no one adds to a batch or
\* writes to its buffer: StageBatch works without the lock on batchPtr, which
\* "may change once lock is released" (batch_maker.cpp:431, 489).
HandedOver(b) ==
    \/ \E i \in DOMAIN ready : ready[i] = b
    \/ \E c \in Consumers : got[c] = b \/ \E i \in DOMAIN stream[c] : stream[c][i].batch = b

HandedOverIsFrozen ==
    [][\A b \in Batches : HandedOver(b) =>
        UNCHANGED <<tasks[b], buf[b], committed[b], completed[b], closing[b]>>]_vars

\* LoadGen gets exactly one answer per sample, in batches.
Contract == INSTANCE LoadGenContract WITH
    firstTokens <- [s \in Samples |-> 0], completions <- delivered

AnswersEverything == Contract!FairSpec

=============================================================================
