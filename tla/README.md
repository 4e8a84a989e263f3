# Formal models of the VibeHPC inference harnesses

VibeHPC is an MLPerf Inference submission: harnesses that take samples from
LoadGen, run them on an inference backend and report the answers to LoadGen.
This directory holds TLA+ models of the concurrent parts of those harnesses,
the TLC configurations that check them and proofs for TLAPS.

`src/code` and `src/src` in the repository are the same tree; source references
are to `src/code`. The repository has no tests of the harnesses, so the
contracts come from their docstrings, comments and assertions.

## Inventory

What the parts of the system keep, do and share.

| Component | State | Operations | Interacts with | Hard behaviour |
|---|---|---|---|---|
| `LLMCore` (`llmlib/cores/base.py`) | `pending_samples` and its lock, `flush_signal`, the events `stop_work`, `in_warmup_mode`, `response_thread_exit`, per-request token lists in the poll thread | `enqueue`, `flush`, `warmup_mode`, `notify_stop`, `_poll_responses` | server threads, backend, LoadGen callback | poll thread against callers of `flush`/`enqueue`/`notify_stop`, stale answers, wait without predicate |
| HTTP client and worker processes (`http_async_client.py`, `mp_worker_utils.py`) | process list, ZMQ sockets, semaphore and tasks of each worker, shutdown flags | start, wait for readiness, submit, collect, shut down, clean up on signal or exit | `LLMCore`, endpoint servers | shutdown messages behind requests, concurrency limit per process, two threads cleaning up, signals during start-up |
| Other backends (`trtllm_*_core.py`, `triton_grpc_core.py`, `openai_client_utils.py`) | client processes, queues, sockets | submit, collect, stop | `LLMCore`, model servers | answers in any order, requests behind a sentinel |
| `LLMServer`, `WarmupManager`, factory (`llmlib/server.py`, `warmup.py`, `factory.py`, `__init__.py`) | list of cores, scheduler state, counters | health check, warm up, issue, flush, stop, SIGINT handler, choose a core | all cores, LoadGen | signal handler on the main thread, parallel warm-up threads, choice by stale queue lengths |
| `BatchMaker`, `Batch` (`harness_dlrm_v2/batch_maker.*`) | task queue, idle/staging/ready batches, counts, flags, one mutex and two condition variables, pinned buffers | `IssueQuery`, `FlushQueries`, `StageBatch`, `GetBatch`, `NotifyH2D`, `StopWork` | LoadGen thread, staging threads, consumers, CUDA callbacks | copies without the lock, four ways to close a batch, bounded pool, wake-ups |
| `DLRMv2Server`, `DLRMv2Core`, result pool (`dlrm_v2_server.*`) | batch makers, bundles of buffers and events, result queue | distribute queries, infer, return results, stop | batch makers, CUDA streams, LoadGen | bundles taken again before their outputs are read, padding, stop while results are queued |
| C++ LLM server and core (`harness_llm/*`) | request/response/reclaim queues, `CommBuffer`, `ItemTracker`, MPI communicators | issue, send, receive, complete, reclaim, terminate | MPI ranks, TensorRT-LLM executor | buffers reused across ranks, first tokens and responses on separate paths, termination messages, stop flag without lock |
| LWIS (`harness/lwis`) | work queue, per-device streams, issue and completion queues | issue, batch, copy, infer, complete, done | LoadGen, CUDA | batching window, streams shared by threads, contiguous copies, termination by null samples |
| Triton C++ frontends (`harness_triton`) | pool of request blocks, in-flight counters | issue, callback, release | Triton server | callbacks on foreign threads, pool exhaustion |
| Wan2.2 and Whisper harnesses | worker processes, queues | issue, collect, stop | LoadGen | worker loss |
| Operations, configuration, submission tools, plugins, scripts | files and objects | sequential | - | none that a model checker reaches |

What makes each part correct:

- **LLMCore**: every sample issued is completed once, first token before
  completion; a tracked request still has its answer ahead; a flush returns and a
  stop terminates; after its exit a core tracks nothing; the output is what the
  backend generated.
- **HTTP client**: each submitted request is answered or reported as failed, in the
  order LLMCore relies on; the concurrency limit is kept; no process is left over.
- **LLMServer**: the test begins with ready cores; load is spread; every core exits.
- **BatchMaker**: a batch is in one place at a time; it is readied once, after all
  its copies; nobody touches it once handed over; the device gets the data of
  the batch's tasks; every sample is answered with any number of batches.
- **DLRMv2 server**: each sample goes to a batch maker that has a consumer, and is
  answered with its own outputs; a batch fits the buffers.
- **C++ LLM server**: each buffer entry has one owner and is freed; counters tell
  the load; no completion overtakes its first token; all processes end.
- **LWIS**: each answer is the sample's own; a stream is in one place; `Done` returns.
- **Triton frontends**: each sample is in one batch, each block in one place, all blocks return.

`PROJECT.json` lists every component and, under `hazards`, the places where
these can go wrong.

## Modules

| Module | Models |
|---|---|
| `LoadGenContract` | What LoadGen is promised: an issued sample gets at most one first-token signal, then one completion. Abstract specification that `LLMCore`, `BatchMaker` and `MpiServer` are shown to implement. |
| `LLMCore` | One core with its driver, its poll thread, the SIGINT handler and an external backend. |
| `LLMCoreProofs` | Theorems about `LLMCore` and their proofs. |
| `LLMServer`, `LLMServerProofs` | The server over several cores: health checks, parallel warm-up, schedulers, flush and stop; its theorems. |
| `HttpClient`, `HttpClientProofs` | The backend of the endpoint core in detail: client, worker processes, their tasks, signals; its theorems. |
| `BatchMaker`, `BatchMakerProofs` | The DLRMv2 batch maker, its staging threads, consumers, copy-stream callbacks and issuing thread; its theorems. |
| `DlrmServer`, `DlrmServerProofs` | The server around the batch makers: distribution, cores, bundles and streams, results; its theorems. |
| `MpiServer`, `MpiServerProofs` | The C++ LLM harness over MPI: LoadGen process, leaders, their threads and messages; its theorems. |
| `Lwis`, `LwisProofs` | The LWIS server: batchers, issue threads, streams, completion threads, termination; its theorems. |
| `CollectionLemmas` | Lemmas about cardinalities, sequences and least elements that the proofs share. |
| `MC...` | Instances of each for TLC. |

How they compose: `LLMServer` keeps of a core what the server can tell apart, and
`LLMCore` models one core with everything else; `HttpClient` is what
`LLMCore` takes as its external backend (`AnswersInProtocol` is exactly the
protocol of chunks that `LLMCore!Generate`, `RepeatFinal` and `Fail` produce);
`DlrmServer` takes from a batch maker any prefix of its tasks that fits, which is
what `BatchMaker` guarantees with its own properties.

### LLMCore

State to code: `pending` is the key set of `pending_samples`, `lock` is
`pending_samples_lock`, `inWarmup`, `stopWork`, `exited` are the three events.
`pollPc` is the place of the poll thread in `_poll_responses`; `batch` is the
list returned by `_poll_responses_impl` that it iterates over; `seen`, `toks`
and `firstLat` are its dictionaries. `dpc` is the place of the
driver and `fpc` its place inside `flush()`, whose waiters are the drivers with
`fpc = "wait"`. The warm-up thread and the main thread are one driver because
the main thread waits for the warm-up threads; `DriverRuns` keeps the two
apart where it matters, under a signal handler.

Each action is one stretch of code between two points where another thread can
run with an effect: a lock, a wait, or a read of shared state. `enqueue()` holds
the lock across the backend call, so it is two actions
(`StartEnqueue`, `FinishEnqueue`) between which the backend may already answer.
`TrackResponse` is a critical section; `Deliver` comes after it, without the
lock, as in the code.

The backend is external: `Generate` sends the chunks of a request in order and
those of different requests in any order, `RepeatFinal` is what
`http_async_client.py` does with a stream whose first chunk was marked final,
`Fail` is an error response. Tokens are `"tok"`, `"BOS"` and `"EOS"`: the
properties tell the padding from generated text, never two tokens from each
other. Metrics, progress display and logging are left out. So is beam search: only
beam 0 is used. Ids are used once: the backends create fresh ones, or reuse
LoadGen's, which do not repeat in a run.

### LLMServer

A core is its `pending_samples`, `isl_sum` and flags, and the three steps of its
poll thread that matter to the server: a completion, the look at
`pending_samples`, the notification after it. Health checks and warm-up run in a
thread per core (`wpc`), the main thread is `mpc`; each of them may be inside
`flush()` of a core (`fpc`), whose wait has no predicate, as in the code.
`load_balancing` reads the cores' queue lengths one after the other
(`sizes`) while completions go on; `isl_load_balancing` reads sums that only grow.
The count of finished warm-ups is a read and a write under `completed_lock`.
`carried` remembers the warm-up requests still pending when the test begins, one pair for each core and
request: a flush that returned early leaves some, and `load_balancing` counts them.
`Failures` bounds the cores that stay unhealthy or whose warm-up raises.

### HttpClient

The main thread starts workers one by one and waits for their reports,
submits requests, and at the end or on SIGTERM runs the clean-up of
`AsyncHttpClient` and of `WorkerProcessManager`; the core's poll thread collects
responses until the core is stopped and then shuts the client down, perhaps at the
same time. `todo` holds the workers that a clean-up has still to terminate and join.
A worker receives from its pipe as long as its semaphore has a slot, runs a task
per request (`Active` is between acquiring and releasing the slot), and on the
shutdown message drains its tasks before it leaves.

A SIGTERM may arrive wherever `Interruptible` says. In `http_client` that is
anywhere but between `process.start()` and the entry of the process in the
list of active workers; `http_signal_window` shows what happens there. The model treats a worker that is
terminated as ending sooner or later; it does not model one that ignores SIGTERM.

The last `flush()` of the core comes back (`FlushReturns`) or hangs (`FlushHangs`):
it hangs when it has read `response_thread_exit` before the poll thread set it and waits
after that thread's last notification, the race of `core_flush_after_exit`. The poll
thread has then shut the client down, so that no worker is left, which is what
`Ends` says of this case. `Submit` keeps the code's silent return after a shutdown, but
the endpoint core asserts before it calls (`trtllm_endpoint_core.py:209`) that it is not
stopped, and only a stopped core shuts the client down: the branch is never taken
(`ServiceInv` in `HttpClientProofs`).

### BatchMaker

`mutex` is explicit. A critical section of `StageBatch` or `GetBatch` is a
series of steps by the holder; sections that touch nothing another
thread reads unlocked are one step. `FlushQueries` declares a local variable that
shadows the mutex (`batch_maker.cpp:281`) and so runs between any two
steps: its `CloseBatch` is split into `FlushMark`, `FlushReady` and
`FlushUnstage`. With `FlushExclusive` the model keeps to the executions in
which it meets no critical section; the properties are checked there, and
`batch_flush_race` shows what happens in the others.

A batch's buffer is a sequence of pair slots that hold the sample whose data
was copied there, `Junk` before the first copy; `reset()` leaves old data in
place, so stale data would be seen. `Copy` reads `mTasks` while others append
to it, as `IndividualH2H` does. Condition variables are the pcs `"sleep"`
and `"woken"`; `WakeOne` wakes any sleeper. A consumer's stream holds the
batches in flight: `H2DDone` is the end of the oldest pending copy,
`ResetBatch` and `NotifyH2D` the host callback, `Deliver` the end of inference
and the result callback.

`FitsAssumption` (a sample fits into one thread's share of a batch) is not
enforced by the code; the default share is `mMaxBatchSize /
numStagingThreads`.

### DlrmServer

A batch maker is a queue of tasks. A core has a worker thread, bundles used in
turn, a compute stream and a D2H stream (both FIFO, run by the environment at any
speed), a result queue and handler threads. `input`, `devOut` and `hostOut` are the
contents of a bundle's buffers: for each pair the sample it came from, so that an
overwritten buffer shows in an answer. The worker takes a bundle again as
soon as its D2H event has passed (`Synced`); the host function that reads the
outputs is queued behind that event, and only the order of the stream keeps it
from reading the next batch. A batch of odd size gets one more pair, whose
answer is dropped. `settings` chooses between inputs from host or device,
issuing threads and one batch maker per GPU.

### MpiServer

Every queue and communicator of the harness is a channel of `q`, every thread a set
of actions: `Forward` sends, `RecvRequest`, `RecvResponse` and `RecvFirstToken`
receive into a `CommBuffer` entry (and wait while there is none), `Drain` takes
what a queue holds, `Complete` and `ReportFirst` call LoadGen. `tracker` is
`mFirstTokTracker`, in which an entry becomes visible some time after it was
committed (`Age`); responses that come before it are put back (`deferred`). The
termination messages of LoadGen's main thread go through the same channels;
`exits` counts the receivers that have seen one. An id and its data are one
message, since one thread sends and one thread receives both.

`settings` chooses the number of groups, streaming and the traffic distribution
policy. `loadBalancing` reads the counters of the groups one by one (`ReadCounter`)
while `CountDown` lowers them; the code's `std::min_element` reads the smallest one
again for each comparison, which lets it choose an even older minimum and changes none
of the properties, since they do not depend on the choice. A query is issued in a fixed order of its samples, since
samples are alike.

`StopLosesWakeUps` lets a stop fall between the predicate and the wait of a thread:
`stopSUT` takes no mutex (`llm_server.cc:323-346`). The passing runs leave it out,
the instance `mpi_lost_stop` is about it.

### Lwis

`settings` chooses one batcher for all devices or one per device, direct issue or
an issue thread, and the deque limit. A sample's place in memory is `Index`; a
batch whose samples lie one after the other is copied in one piece, from the place
of the first (`Contiguous`), otherwise sample by sample. `loaded` and `computed`
are a stream's input and output buffers. A time-out of the batching window is an
alternative that may come at any time. `Done` is followed to the last join.

## Runs

| Run | Instance | Shows |
|---|---|---|
| `core_lifecycle` | 1 warm-up query, 2 samples, whole answers of 0 to 2 tokens, 1 error, SIGINT at any point, backend killed by it | `OutputIsGenerated`, `PendingIsAnswerable`, `ExitIsFinal` |
| `core_streaming` | 2 samples, first chunks of 0 to 2 tokens, later ones of 1, up to 3 responses with repeated final ones, Dynamo signalling, fair | `CompletedOnce`, `NoTokenIsLost`, `KeepsContract`, `TestTerminates` |
| `llm_server` | 2 cores, 1 warm-up query, samples of lengths 2, 1, 1, the 3 schedulers, 1 failing core, fair | `TestStartsReady`, `LoadIsSpread`, `EveryCoreExits`, `TestTerminates` |
| `http_client` | 3 streamed requests, 2 workers, 2 slots in all, 1 HTTP error, SIGTERM, a worker that fails to start, fair | `AnswersInProtocol`, `ConcurrencyRespected`, `NoRequestIsAbandoned`, `NoOrphans`, `AnswersEverything`, `Ends` |
| `batch_pipeline` | samples of 1, 2, 1 pairs, 2 threads, 2 batches of 3 pairs, 2 consumers with 2 bundles | `BatchInOnePlace`, `NoCheckFails`, `DeviceDataIsTasks`, `HandedOverIsFrozen`, no deadlock |
| `batch_answers` | the same samples, 2 threads, a single batch of 2 pairs, 1 consumer, fair | `AnswersEverything` (refines the fair contract), no deadlock |
| `dlrm_server` | 2 devices, 2 bundles, 1 handler each, samples of 1, 2, 1, 2 pairs, queries of 1 or 3, 4 settings, fair | `AnswerIsOwn`, `NoCheckFails`, `AnswersEverything`, no deadlock |
| `mpi_serving` | 2 samples, groups of 2 ranks, 1 buffer entry; 1 group that streams, or 2 that do not with each of the 3 policies; also 1 group with 2 entries; fair | `InFlightIsOutstanding`, `BuffersAreOwned`, `BuffersAreReclaimed`, `Terminates`, `AnswersEverything` (refines the fair contract), no deadlock |
| `lwis` | 2 devices, 2 streams and 2 completion threads each, batches of 3 and 2, 4 samples at places 2, 5, 4, 5, 3 settings, fair | `AnswerIsOwn`, `StreamInOnePlace`, `DoneReturns`, no deadlock |
| `core_flush_after_exit` | violation | `flush()` waits after the last notification (`base.py:213`) |
| `batch_flush_race` | violation | `CHECK_LE` at `batch_maker.cpp:347` fails after an unlocked `FlushQueries` |
| `mpi_reclaim` | violation | with one rank per group a served request keeps its buffer entry (`llm_core.cc:502`) |

Each passing run but `core_streaming` and `batch_answers` also checks its
module's `TypeOK` (the other run of the module does for these two). Deadlock is not checked in the core's runs:
after a lost notification, a self-deadlock in the handler or an error response the
system does stop. It is checked in all others that pass; where the system
legitimately stops for ever (a failed warm-up, a failed HTTP request, the end of
the program), the action `Finished` says so and in which states.

Further instances, each a `.cfg` of its own that TLC refutes: further disagreements
between the code and what it says of itself, which are not among the runs of
`PROJECT.json`. They run with the `MC` module of their component.

| Instance | Property | Shows |
|---|---|---|
| `core_padding` | `OutputIsGenerated` | a first chunk of one token is padded although the stream goes on (`base.py:294`) |
| `core_warmup_latency` | `PollRunsUntilStop` | a warm-up stream on both sides of leaving warm-up mode kills the poll thread (`base.py:333`) |
| `core_early_flush` | `WarmupIsSilent` | a flush takes an older notification for its own; LoadGen hears of a warm-up query (`base.py:140`) |
| `http_signal_window` | `NoOrphans` | SIGTERM between `process.start()` and the entry in the list orphans a worker (`mp_worker_utils.py:203`) |
| `mpi_missing_index` | `NoIndexIsMissing` | the reclaim thread leaves an entry in its queue when it stops (`llm_server.cc:722`, `llm_utils.hpp:194`) |
| `mpi_lost_stop` | `Terminates` | a stop between a thread's predicate and its wait is lost (`llm_server.cc:326`) |

Restrictions of the passing runs. `core_streaming` has no warm-up, no SIGINT and no errors
because each of them lets the test hang or the poll thread die; it does not check
`OutputIsGenerated`, which a short first chunk breaks, but that no token is lost whatever
the chunks are, and it is where a repeated final response could complete a sample twice. `llm_server` excuses cores that fail; `http_client` excuses answers
and termination after a failed request, answers after a signal, and a main thread that hangs in its last
flush when all workers have ended; it has no signal in the window of `http_signal_window`. `mpi_serving` has
`StopLosesWakeUps = FALSE` and more than one rank per group. `dlrm_server`
has an even maximal batch from the host, and no issuing threads without a batch maker
per GPU. What lies outside is listed under Disagreements.

Bounds. Two requests are enough for every race of a core: its
properties speak of one request, and a second one provides the interference
(a notification, a stale answer, a batch of two responses). Two responses make a
first and a final chunk, a third the repeated final one. Two cores can fail
separately and three samples cannot be shared evenly, so the schedulers have to
choose. Three requests give one of two HTTP workers two and its single slot is
contended. In the batch maker two threads share a batch and overtake each other's
copies, two consumers compete for a ready batch, three samples fill one batch,
close it and begin another, and the samples' sizes make a sample not fit the rest;
one batch makes everyone wait for the host callback. In the DLRMv2 server two
bundles are taken twice each, a query of three is split unevenly over two batch
makers, and samples of one pair make odd batches. One buffer entry for two MPI
samples makes each receiver wait for a free one, two entries let two responses be counted down
at once; a group that streams has all
eleven threads, two groups share LoadGen's pool of response entries, its exit
count and its distribution policy (streaming with two groups has two million states
and was checked for its invariants only, outside the runs). The four LWIS places contain a
gap, a step backwards, a neighbour and a repeat; a batch of three may have its ends
two apart without being contiguous. Symmetry (threads, batches and consumers are
interchangeable) is used only without liveness.

Fairness. Threads and processes are scheduled (weak fairness). A poll thread that
waits for a lock that is free again and again gets it, and so do the batch maker's
threads (strong fairness on the steps that take a mutex): without it no property
about progress could hold of any code with a mutex. A live backend or endpoint
answers; CUDA streams make progress; time passes (a batching window ends, a
committed tracker entry becomes visible). LoadGen issues all its samples in `lwis`
and `dlrm_server`, because LWIS and the result pool of DLRMv2 are only stopped
after that; nothing is assumed of it in `batch_answers`, where it may never
issue another query nor flush.

## Disagreements

With a run or a further instance (above):

- `core_flush_after_exit`: the main thread waits in `flush()` for ever after the poll
  thread has ended. `HttpClient` has this outcome as `FlushHangs`.
- `core_padding`: the padding applies to each signalling chunk; a first chunk of
  one token leaves an EOS in the middle of the answer. The comment at `base.py:294`, "for
  1-len response, we use RESP + <EOS>", speaks of responses of one token.
- `core_warmup_latency`: a warm-up stream whose first chunk came in warm-up mode and whose
  final one did not makes the poll thread raise a KeyError (`base.py:333`). "The response
  thread runs until notify_stop() is called" (`base.py:227`).
- `core_early_flush`: a flush may be released by a notification that belongs to an earlier
  look at `pending_samples`; the flush that ends warm-up mode may so return early and
  late warm-up answers go to LoadGen. Warm-up mode "prevents completion callbacks from
  being sent to LoadGen during warmup" (`base.py:131`), and `flush` is to "block until all pending
  requests complete" (209).
- `http_signal_window`: a signal between `process.start()` and the entry in the list
  leaves the new worker running; the class is to "shutdown worker processes gracefully (on
  signal or exit)" (`mp_worker_utils.py:53`).
- `batch_flush_race`: `FlushQueries` locks nothing.
- `mpi_reclaim`: with one rank per group no request's entry is ever freed.
- `mpi_missing_index`: the response of a request is queued before its entry is handed over
  (`llm_core.cc:494-511`); when LoadGen ends the test on it, the reclaim thread may
  stop with the entry in its queue (`llm_server.cc:722-726`), and the destructor's CHECK,
  "CommBuffer management is defective; missing indices" (`llm_utils.hpp:194`), aborts the
  leader's process. LoadGen has its answers by then.
- `mpi_lost_stop`: `stopSUT` changes the flag and notifies outside the mutexes; a
  thread between predicate and wait sleeps on and is never joined. The comment at
  `llm_server.cc:719` has it wait "until the response queue is not empty, or the stop signal".

Met while modelling, and left out of the passing runs as said above. None of them
is excused by a property that speaks of the executions it covers.

- `base.py:412`: with SIGINT, a request may be enqueued between the poll thread's look at
  `pending_samples` and its look at `stop_work`; the assertion fails and
  `response_thread_exit` is never set.
- `server.py:43`: the handler takes `pending_samples_lock` (`base.py:204`) on the main
  thread, which may hold it inside `enqueue()`: neither returns.
- `http_async_client.py:347`: a limit below the number of workers gives each worker no slot.
- `batch_maker.cpp:40`: "external contiguity: whether task at `tasksOffset` is contiguous
  with that at tasksOffset-1"; the code compares with the first task of the batch
  only. Shares at places 0, 5 and 2 (one pair each) end with the batch pointing at
  places 0, 1, 2 of the sample library. One share 0, 5, 2 passes too, as only its ends
  are compared.
- `dlrm_v2_server.cpp:691`: with `server_num_issue_query_threads` and without
  `use_batcher_thread_per_device`, samples go to batch makers that no worker takes from
  (451-453); the flag's help (`main_dlrm_v2.cpp:92-93`) does not exclude it.
- `dlrm_v2_server.cpp:402`: from the host, batch makers are built with the size that was
  not rounded (465): with an odd one a full batch fails the core's CHECK.

## Proofs

The theorems hold for every value of the constants that the assumptions admit.
Each module of proofs strengthens its invariants to an `IInv` that `Init`
implies and every step keeps; `IInv` was checked with TLC on the instances
above before it was proved. None of the invariants is inductive alone: they
speak of what can be seen at one place, and what makes them true is somewhere
else, in what other threads hold and in where each message has been.

### LLMCoreProofs

- `TypeCorrect`: `Spec => []TypeOK`;
- `CompletesOnce`: `Spec => []CompletedOnce`;
- `NoAnswerIsLost`: `Spec => []PendingIsAnswerable`;
- `ExitsForGood`: `Spec => []ExitIsFinal`;
- `ImplementsContract`: without warm-up queries every behaviour of the core is one
  of `LoadGenContract` (`WarmupReqs = {} => (Spec => KeepsContract)`);
- `RunsUntilStop`: without streaming or without warm-up queries,
  `Spec => []PollRunsUntilStop`;
- `ReportsWhatWasGenerated`: `LongFirstChunks => (Spec => []OutputIsGenerated)`, where
  `LongFirstChunks` says that the first chunk of a stream has two tokens or more. It
  says nothing of answers without streaming and does not exclude failures, warm-up or an
  interrupt; with a shorter first chunk the property is false (`core_padding`);
- `KeepsEveryToken`: `Spec => []NoTokenIsLost`, without any hypothesis on the chunks.

Assumptions: warm-up and test requests are disjoint (`ReqsAssumption`), flags
are Booleans (`FlagsAssumption`), bounds are numbers (`BoundsAssumption`).

`LockInv`: the lock is held exactly between the two halves of `enqueue()`.
`FlushInv`: where `flush()` may be called. `KnownInv`: who has been told of a
request; an idle one is neither pending nor completed and has no response under
way. `OnceInv`: a request being delivered as final is no longer pending and not
yet completed; the step from `del pending_samples[...]` to the callback is what
makes completion unique. `BatchInv`: what the poll thread holds came from the
backend. `ExitInv`: from the look at `pending_samples` at the end until the exit
flag nothing can be added, by the assertion on `stop_work`. For the refinement
`FirstInv` adds that the first-token signal comes with the first sight of a
stream.

The poll thread can die in two places, the assertion after its loop and the look
at `first_token_latencies` (`base.py:333`). The first comes after `stop_work`
(`ExitInv`). For the second, `LatencyInv`: a request whose first chunk was looked up
while it was tracked has its key there, unless that first chunk is being
reported. The step that could break it is the enqueue of a request whose chunks have
been seen; `AnsweredInv` excludes it. Warm-up would break it, because a
first chunk handled in warm-up mode leaves no key; hence `NoWarmupInv` and the hypothesis.

What LoadGen gets is `toks[r]` when the final chunk has been joined, and what it should
be is `gen[r]`, with the chunks between the two spread over `batch` and
`ready`. `StreamedInv` follows them: there are numbers `n[i]`, the tokens of `r` generated
before the i-th response under way, that start with the length of `toks[r]`, grow by
each response of `r`, and end with the length of `gen[r]`; after a final
response they are at the end. That such numbers exist is preserved by dropping the first
response (`AccountsDrop`) and by appending one (`AccountsAdd`, `AccountsStart`), which
takes the place of a recursive sum. `Silent` covers the requests that were
not answered or that failed with their first response, whose repeated final response is
padded to two tokens. `WholeInv` is for answers without streaming, `EndedInv` for what is
being or has been reported.

`KeepsEveryToken` cannot follow the texts, since padding may come to stand among the tokens. It
follows the numbers: `Kept(s)` is how many places of `s` hold a generated token, joining a chunk
adds its length (`KeptJoin`), padding adds nothing (`KeptPadded`), and `TalliedInv` ties the
number kept of a request to the number generated through the responses under way, as
`StreamedInv` does for texts (`TallyDrop`, `TallyAdd`).

### HttpClientProofs

- `TypeCorrect`, `AnswersCorrect`, `NothingAbandoned` and `ConcurrencyCorrect`: `[]TypeOK`,
  `[]AnswersInProtocol`, `[]NoRequestIsAbandoned` and `[]ConcurrencyRespected`;
- `NoOrphansLeft`: `[]NoOrphans`, if no signal comes at `"track"`, the place between
  `process.start()` and the entry in the list (the run shows the same case, and
  Disagreements says what happens without it).

Assumptions (`HttpAssumption`): at least one worker, and no limit or at least one slot
per worker.

`StartInv`: workers are started in order. `ServiceInv`: no worker is told to leave while
the core is started or submits. `SubmitInv` and `PipeInv`: a request in a pipe has no
task and is in no other. `TaskInv` and `ResponseInv`: the responses of a
request lie in one pipe in the order of the protocol, and the state of its task says
which may follow; the core hears them in that order because of this and not
because it checks. `ShareInv` is for the concurrency limit: each worker keeps its
share, and the shares add up to no more than the limit, a sum over any number of workers
(`CollectionLemmas!PartsUpper`). `ListInv` is for the orphans: a worker that
runs and has not been sent SIGTERM is on a list of someone who will send it.

### MpiServerProofs

- `TypeCorrect`, `InFlightCorrect`, `OwnershipCorrect`: `[]TypeOK`, `[]InFlightIsOutstanding`,
  `[]BuffersAreOwned`;
- `ReclaimCorrect`: `[]BuffersAreReclaimed`, if a session has more than one rank
  (the run `mpi_reclaim` shows that it is false with one). It says of a leader's buffer what holds
  until its reclaim thread ends (what holds afterwards is not enough for the destructor:
  `mpi_missing_index`), and of LoadGen's buffers and tracker that they are empty in the end,
  which needs that its last receiver ends after everything was completed (`EndedCompleted`);
- `ImplementsContract`: `Spec => Contract!Spec`, the safety part of what
  `mpi_serving` checks with fairness.

Assumptions (`ConstantsAssumption`): positive sizes, finitely many samples, settings of
the kinds the code has. `StopLosesWakeUps` may be either.

`PlaceInv`: of the queues, communicators and thread-local lists that a request and its
response pass, a sample is in one at most, at one position, in its own group; the
same for its first token and for its spent buffer. `StageInv`: the place says
what the core and LoadGen know of the sample. `ReportInv`: the tracker
knows a sample exactly between its two reports. `OwnInv`, `EntryInv` and `FreedInv`
tie the entries of the `CommBuffer`s to these places. `CountInv`: `inFlight` of a group is the
number of its outstanding samples plus the batch about to be subtracted, by
cardinalities. `EndInv` says when threads may end. `TermInv`: only the channels through
MPI carry the termination key.

### LLMServerProofs

- `TypeCorrect`: `[]TypeOK`;
- `ReadyAtStart`: `[]TestStartsReady`;
- `LoadSpread`: `[]LoadIsSpread`, for each of the three schedulers and any number of cores.

Assumptions (`ServerAssumption`): at least one core, finitely many requests, those of the warm-up not
used by the test.

`PhaseInv` is the order of health checks, warm-up and test. `CountInv`: the count of
finished warm-ups is exact, thanks to `completed_lock`. `DealtInv` is what makes
`load_balancing` right although the lengths it compares are read one after the other
while they shrink: there is a set of pairs (core, request) that says what each core was ever given,
and what was read of a core lies between what it holds now and what it was given. The
smallest of the lengths read is then at most the average of what was given
(`CollectionLemmas!PartsLower`), however old they are. `TurnInv` counts the rounds of
`round_robin`; `SumInv` says that the sums that `isl_load_balancing` reads do not
change while it reads. `QueuesSpread`, `TurnsSpread` and `TokensSpread` are
`LoadIsSpread`, a scheduler at a time.

### BatchMakerProofs

Each theorem assumes `FlushExclusive`, that `FlushQueries` meets no critical
section. The lock that would make it so is the one that the local variable at
`batch_maker.cpp:281` shadows; that it is missing is the only thing the
theorems leave out, and `batch_flush_race` shows the failure without it.

- `TypeCorrect`, `OnePlace`, `NoFailedCheck` and `DeviceData`: `[]TypeOK`, `[]BatchInOnePlace`,
  `[]NoCheckFails` and `[]DeviceDataIsTasks`;
- `Frozen`: `HandedOverIsFrozen`, an action property;
- `ImplementsContract`: `Spec => Contract!Spec`, the safety part of what `batch_answers`
  checks with fairness: only issued samples are answered, and none twice.

Assumptions: finitely many batches and consumers (`SizesAssumption`: the
constructor makes both from configured counts), each sample has at least one pair
(`PairsAssumption`) and fits into a batch and into a thread's share
(`FitsAssumption`, which the code does not enforce; see BatchMaker above).

`PlaceInv` and `OnceInv`: every batch is in one place, once, and its counts fit the
place: empty while idle, closed and complete from `mReadyBatches` on. `MutexInv` says who is in a critical
section, `WaitInv` that `mWaitingBatches` counts the waiting consumers and that a
consumer about to take a batch finds one, `FlushInv` what the staging batch is like
while `FlushQueries` closes it. `ThreadInv`: a thread's pointer, taken under
the lock and used without it, is to a batch that nobody has received yet.
`ShareInv`: the shares of two threads never overlap, and what no thread has still to
copy is what `completed` counts, by cardinality; so the thread that raises
`completed` to `committed` is the last one, and only it readies the batch. `SlotInv`: a
thread's offset in the buffer is where its tasks begin. `BufInv` and `StreamInv` follow the data
from there to the device. `CountInv` is for the CHECK on `readiedPairs`: there
is an assignment of the issued samples to batches, or to those already readied, whose
pairs add up to the counters; it changes with each commit and each `GetBatch`.

For the contract, `AnswerInv` follows each sample on its way: not issued, in
`mTasksQ`, in a batch, in an entry of a consumer's streams, or answered. A batch's
own list counts only until `infer` notes it (`Live`): from then on the batch
goes back and is filled again while the noted list waits for its answer. Only
`IssueQuery`, a commit, `infer` and `Deliver` move a sample (`IssueTraced` to
`DeliverTraced`); the other steps leave all of them where they are
(`LeavesTraced`).

### LwisProofs

- `TypeCorrect`, `OwnAnswers` and `StreamOnePlace`: `[]TypeOK`, `[]AnswerIsOwn` and
  `[]StreamInOnePlace`.

Assumptions (`LwisAssumption`): at least one device, stream and completion thread, positive
batch sizes and query sizes, settings of the kinds the code has. Several samples may lie at one place in memory.

`BatcherInv`: a batcher has samples in hand exactly between acquiring them and issuing the last;
the stream it saw at the front of its device's queue is still there when it pops it, since
others only add at the end. `WorkInv`: the null sample is alone in the work queue, so that no
batch contains it. `HomeInv`: batches and streams stay with their device. `PlaceInv`
and `OnceInv`: a stream is in one of six places, once; from there `LoadInv`: what was
copied to a stream is what its batch asked for until that batch is answered. The copy itself is a
lemma (`CopiesAreOwn`): samples each behind the one before it are those that a single copy
from the place of the first one brings. `OwnerInv`: there is an assignment
of the samples to who has them (nobody yet, the work queue, a batcher, the batch on a
stream, LoadGen) that agrees with every list of samples; hence a sample is in one list,
once, and is answered once.

### DlrmServerProofs

- `TypeCorrect` and `OwnAnswers`: `[]TypeOK` and `[]AnswerIsOwn`;
- `NoFailedCheck`: `[]NoCheckFails`, if no setting has an odd maximal batch size with inputs from
  the host (`EvenBatches`). With an odd one the CHECK does fail: see Disagreements,
  `dlrm_v2_server.cpp:402`.

Assumptions (`DlrmAssumption`): at least one device, core, bundle and handler, each sample
has at least one pair, no setting that the constructor's CHECK refuses.

`StreamInv`: the D2H stream is a row of copies, each with the host function of its own batch
behind it, and a bundle has at most one copy there; a bundle that is still to be computed
has one. A worker that gets a batch has a bundle without a copy (`Synced`), but
possibly with a host function. `DataInv` follows the data: the pairs of a batch are
in the bundle's input until it is computed, then in its output on the device until the copy,
and then on the host while the host function is the head of the stream. So the host
function reads its own batch although the bundle has been taken again: the
next copy into that buffer lies behind it. `ResultInv`: a result has the outputs of
its tasks. `OwnerInv`, as for LWIS: there is an assignment of the samples to who
has them that agrees with every list of tasks, so that a sample is answered once. Lemmas
about the operators: the shares of a split query do not overlap and lie within it
(`ShareFacts`), the pairs of the tasks before a task are the offset of its outputs
(`PairsFound`), and there is a greatest batch that fits (`FittingFits`).

### Only model-checked

- Liveness (`TestTerminates`, `EveryCoreExits`, `AnswersEverything`, `Ends`,
  `Terminates`, `DoneReturns`), which needs ENABLED and fairness, both out of the
  prover's reach. Of the contract's refinement by `LLMCore`, `MpiServer` and
  `BatchMaker` the safety part is proved; that `Lwis` and `DlrmServer` answer a sample once
  is in `AnswerIsOwn`.

## Not modelled

- **Pipeline-parallel groups of the C++ harness**: the responder is then another rank than the
  leader, and reclaims the leader's buffers by message (`handleReclaimBuffer`,
  `llm_server.cc:265`, sends no elements, its receiver at 693 checks for one). Also
  left out of `MpiServer`: `LLMServerLeader` in a single process without MPI; the
  termination message on first-token communicators without streaming, which nobody receives;
  the limit of MPI's own buffers; several issuing threads (`mUseMultiIssueThreads`); token padding and stop words. The unlocked read of the
  tracker (`llm_utils.hpp:354`) is taken as atomic.
- **HTTP client**: the DYNAMO variant, that submits without waiting, socket high-water marks
  (two million messages) and the contents of HTTP requests.
- **`Batch::ContiguityAwareH2H`** and NUMA binding: the former decides from end points read without
  a lock; it needs addresses of samples in `BatchMaker`'s buffers.
- **LWIS**: `Setup`, `Warmup`, CUDA graphs, DLA engines and `EnableResponse = false`.
- **DLRMv2**: engine set-up, CUDA graphs and warm-up of the cores.
- **Triton** (`triton_grpc_core.py`, `harness_triton`, `harness_triton_llm`), **Wan2.2** and **Whisper**: harnesses
  around servers and processes with a protocol like those modelled; in the plan.
- **Launcher, configuration, builder, quantisation, metrics, operations, submission tools,
  scripts**: sequential code and I/O. They make up most of the implementation's
  lines. **Plugins and kernels**: numerical code.

## Plan

Done, in this order: `LoadGenContract`, `LLMCore`, `LLMCoreProofs`, `BatchMaker`,
`MpiServer`, `HttpClient`, `LLMServer`, `Lwis`, `DlrmServer`, `HttpClientProofs`, `MpiServerProofs`,
`LLMServerProofs`, `BatchMakerProofs`, `LwisProofs`, `DlrmServerProofs`. Next:

1. `ContiguityAwareH2H` as an operator against a reference (is the memory really
   contiguous).
2. The Triton core's stop and the Triton frontends' request pool.
3. Pipeline-parallel groups in `MpiServer`.
