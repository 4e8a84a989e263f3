------------------------------ MODULE LLMServer ------------------------------
(***************************************************************************)
(* LLMServer over several cores: health checks and parallel warm-up        *)
(* (src/code/llmlib/warmup.py), the schedulers (factory.py:180-204),       *)
(* issue_queries, flush_queries and stop_work (server.py), driven by       *)
(* wrap_lg_test (__init__.py:152-190).                                     *)
(*                                                                         *)
(* LLMCore models one core in full. A core here is its book-keeping and    *)
(* the three steps of its poll thread that the server can tell apart: a    *)
(* completion, the look at pending_samples and the notification after it.  *)
(***************************************************************************)
EXTENDS Naturals, FiniteSets

CONSTANTS
    NumCores,       \* len(cores)
    WarmupReqs,     \* ids of the warm-up queries, the same for every core
    TestReqs,       \* ids of LoadGen's samples
    InputLen,       \* per sample: len(input_tokens)
    WarmupLen,      \* the input tokens of all warm-up queries
    Policies,       \* traffic_distribution_policy: the ones to choose from
    MaxFailures     \* bound: cores that stay unhealthy or whose warm-up raises

Cores == 1..NumCores
Requests == WarmupReqs \cup TestReqs

ASSUME ServerAssumption ==
    /\ NumCores \in Nat \ {0}
    /\ WarmupReqs \cap TestReqs = {}
    /\ IsFiniteSet(WarmupReqs) /\ IsFiniteSet(TestReqs)
    /\ InputLen \in [TestReqs -> Nat] /\ WarmupLen \in Nat
    /\ Policies \subseteq {"round_robin", "load_balancing", "isl_load_balancing"}
    /\ MaxFailures \in Nat

VARIABLES
    \* per core
    pending,    \* keys of pending_samples
    islSum,     \* isl_sum
    inWarmup,   \* in_warmup_mode
    stopWork,   \* stop_work
    exited,     \* response_thread_exit
    idle,       \* the poll thread found nothing pending and is to notify
    health,     \* its health-check thread: check, ok, failed
    wpc,        \* its warm-up thread
    seen,       \* completed_count as that thread read it
    \* the server
    mpc,        \* the main thread
    fpc,        \* per thread: where it is in flush()
    flushing,   \* the core whose turn it is in flush_queries
    policy, turn, \* the scheduler and round_robin_index
    sizes,      \* queue_sizes or isl_sums: the cores read so far
    completed,  \* completed_count
    warmLock,   \* completed_lock
    issued, answered, \* samples LoadGen issued and got an answer to
    carried     \* core and warm-up request still pending when the test began

coreVars == <<pending, islSum, inWarmup, stopWork, exited, idle>>
warmVars == <<wpc, seen, completed, warmLock>>
loadgenVars == <<issued, answered, carried>>
schedVars == <<policy, turn, sizes>>
vars == <<coreVars, health, warmVars, mpc, fpc, flushing, schedVars, loadgenVars>>

Main == 0
Threads == {Main} \cup Cores  \* the warm-up thread of a core has its number
Free == 0
MainPcs == {"health", "warm", "issue", "flush", "await", "stop", "stopFlush",
            "over", "raised"}
WarmPcs == {"off", "flushIn", "set", "enqueue", "flushOut", "clear", "lock",
            "count", "done", "raised"}
FlushPcs == {"out", "check", "enter", "wait", "back"}

Init ==
    /\ pending = [c \in Cores |-> {}] /\ islSum = [c \in Cores |-> 0]
    /\ inWarmup = [c \in Cores |-> FALSE] /\ stopWork = [c \in Cores |-> FALSE]
    /\ exited = [c \in Cores |-> FALSE] /\ idle = [c \in Cores |-> FALSE]
    /\ fpc = [t \in Threads |-> "out"]
    /\ health = [c \in Cores |-> "check"]
    /\ wpc = [c \in Cores |-> "off"] /\ seen = [c \in Cores |-> 0]
    /\ mpc = "health" /\ flushing = 1
    /\ policy \in Policies /\ turn = 0 /\ sizes = << >>
    /\ completed = 0 /\ warmLock = Free
    /\ issued = {} /\ answered = {} /\ carried = {}

Failures == Cardinality({c \in Cores : health[c] = "failed" \/ wpc[c] = "raised"})

-----------------------------------------------------------------------------
(***************************************************************************)
(* The cores (base.py).                                                    *)
(***************************************************************************)
\* enqueue(): under pending_samples_lock, which is atomic here.
Enqueue(c, rs, tokens) ==
    /\ pending' = [pending EXCEPT ![c] = @ \cup rs]
    /\ islSum' = [islSum EXCEPT ![c] = @ + tokens]

\* A final response; outside warm-up LoadGen hears of it.
Complete(c, r) ==
    /\ r \in pending[c]
    /\ pending' = [pending EXCEPT ![c] = @ \ {r}]
    /\ answered' = IF inWarmup[c] THEN answered ELSE answered \cup {r}
    /\ UNCHANGED <<islSum, inWarmup, stopWork, exited, idle, health, warmVars, mpc, fpc,
                   flushing, schedVars, issued, carried>>

PollSees(c) ==
    /\ ~exited[c] /\ ~idle[c] /\ pending[c] = {}
    /\ idle' = [idle EXCEPT ![c] = TRUE]
    /\ UNCHANGED <<pending, islSum, inWarmup, stopWork, exited, health, warmVars, mpc,
                   fpc, flushing, schedVars, loadgenVars>>

\* notify_all, then the exit if the core is stopped.
PollNotifies(c) ==
    /\ idle[c]
    /\ fpc' = [t \in Threads |->
                IF fpc[t] = "wait" /\ c = (IF t = Main THEN flushing ELSE t)
                THEN "back" ELSE fpc[t]]
    /\ exited' = [exited EXCEPT ![c] = stopWork[c]]
    /\ idle' = [idle EXCEPT ![c] = FALSE]
    /\ UNCHANGED <<pending, islSum, inWarmup, stopWork, health, warmVars, mpc,
                   flushing, schedVars, loadgenVars>>

\* flush(): the look at response_thread_exit, then the wait.
FlushCheck(t) ==
    /\ fpc[t] = "check"
    /\ fpc' = [fpc EXCEPT ![t] =
                IF exited[IF t = Main THEN flushing ELSE t] THEN "back" ELSE "enter"]
    /\ UNCHANGED <<coreVars, health, warmVars, mpc, flushing, schedVars, loadgenVars>>

FlushWait(t) ==
    /\ fpc[t] = "enter"
    /\ fpc' = [fpc EXCEPT ![t] = "wait"]
    /\ UNCHANGED <<coreVars, health, warmVars, mpc, flushing, schedVars, loadgenVars>>

-----------------------------------------------------------------------------
(***************************************************************************)
(* run_health_checks_with_retry and warmup.                                *)
(***************************************************************************)
\* One thread per core tries until the core is healthy or its time is up.
CheckCore(c) ==
    /\ mpc = "health" /\ health[c] = "check"
    /\ \E h \in {"ok", "failed"} :
        /\ h = "failed" => Failures < MaxFailures
        /\ health' = [health EXCEPT ![c] = h]
    /\ UNCHANGED <<coreVars, warmVars, mpc, fpc, flushing, schedVars, loadgenVars>>

\* All threads are joined; an exception of any of them ends the harness, and
\* wrap_lg_test has no server to stop. Otherwise the warm-up threads start.
JoinChecks(healthy) ==
    /\ mpc = "health" /\ \A c \in Cores : health[c] # "check"
    /\ mpc' = IF ~healthy THEN "raised"
              ELSE IF WarmupReqs = {} THEN "issue" ELSE "warm"
    /\ IF mpc' = "warm"
       THEN /\ wpc' = [c \in Cores |-> "flushIn"]
            /\ fpc' = [t \in Threads |-> IF t = Main THEN "out" ELSE "check"]
       ELSE UNCHANGED <<wpc, fpc>>
    /\ UNCHANGED <<coreVars, health, seen, completed, warmLock, flushing, schedVars,
                   loadgenVars>>

HealthJoined_Some == JoinChecks(\E c \in Cores : health[c] = "ok")

HealthJoined == JoinChecks(\A c \in Cores : health[c] = "ok")

\* A step of a warm-up thread, which is in flush() at the places inFlush.
inFlush == {"flushIn", "flushOut"}

WarmStep(c, from, to) ==
    /\ wpc[c] = from
    /\ from \in inFlush => fpc[c] = "back"
    /\ wpc' = [wpc EXCEPT ![c] = to]
    /\ fpc' = [fpc EXCEPT ![c] = IF to \in inFlush THEN "check" ELSE "out"]
    /\ UNCHANGED <<health, mpc, flushing, schedVars, loadgenVars, stopWork, exited, idle>>

WarmFlushed(c) ==
    /\ WarmStep(c, "flushIn", "set") \/ WarmStep(c, "flushOut", "clear")
    /\ UNCHANGED <<pending, islSum, inWarmup, seen, completed, warmLock>>

EnterWarmup(c) ==
    /\ WarmStep(c, "set", "enqueue")
    /\ inWarmup' = [inWarmup EXCEPT ![c] = TRUE]
    /\ UNCHANGED <<pending, islSum, seen, completed, warmLock>>

WarmEnqueue(c) ==
    /\ WarmStep(c, "enqueue", "flushOut")
    /\ Enqueue(c, WarmupReqs, WarmupLen)
    /\ UNCHANGED <<inWarmup, seen, completed, warmLock>>

\* enqueue() raises, and after the flush of warmup_mode the thread is gone: it
\* never counts its core and the main thread waits for it for ever.
WarmRaises(c) ==
    /\ Failures < MaxFailures
    /\ WarmStep(c, "enqueue", "raised")
    /\ inWarmup' = [inWarmup EXCEPT ![c] = FALSE]
    /\ UNCHANGED <<pending, islSum, seen, completed, warmLock>>

LeaveMode(c, stillInWarmup) ==
    /\ WarmStep(c, "clear", "lock")
    /\ inWarmup' = [inWarmup EXCEPT ![c] = stillInWarmup]
    /\ UNCHANGED <<pending, islSum, seen, completed, warmLock>>

LeaveWarmup_Forget(c) == LeaveMode(c, TRUE)

LeaveWarmup(c) == LeaveMode(c, FALSE)

\* completed_count += 1, under completed_lock.
ReadCount(c, holder) ==
    /\ warmLock = Free
    /\ WarmStep(c, "lock", "count")
    /\ warmLock' = holder
    /\ seen' = [seen EXCEPT ![c] = completed]
    /\ UNCHANGED <<pending, islSum, inWarmup, completed>>

LockCount_Racy(c) == ReadCount(c, Free)

LockCount(c) == ReadCount(c, c)

WriteCount(c) ==
    /\ WarmStep(c, "count", "done")
    /\ completed' = seen[c] + 1
    /\ warmLock' = Free
    /\ UNCHANGED <<pending, islSum, inWarmup, seen>>

\* all_completed_event.wait(), then join.
WarmupDone ==
    /\ mpc = "warm" /\ completed = NumCores
    /\ \A c \in Cores : wpc[c] = "done"
    /\ mpc' = "issue"
    /\ carried' = {x \in Cores \X WarmupReqs : x[2] \in pending[x[1]]}
    /\ UNCHANGED <<coreVars, health, warmVars, fpc, flushing, schedVars, issued, answered>>

-----------------------------------------------------------------------------
(***************************************************************************)
(* issue_queries: a core for every sample.                                 *)
(***************************************************************************)
Send(c, r) ==
    /\ Enqueue(c, {r}, InputLen[r])
    /\ issued' = issued \cup {r}
    /\ sizes' = << >>
    /\ UNCHANGED <<inWarmup, stopWork, exited, idle, health, warmVars, mpc, fpc,
                   flushing, policy, answered, carried>>

NextTurn_Past == turn + 1

NextTurn == (turn % NumCores) + 1

RoundRobin(r) ==
    /\ mpc = "issue" /\ policy = "round_robin" /\ r \in TestReqs \ issued
    /\ turn' = NextTurn
    /\ Send(turn', r)

\* The balancing policies look at one core after the other, without a lock ...
LoadOf_Queue(c) == Cardinality(pending[c])

LoadOf(c) ==
    IF policy = "isl_load_balancing" THEN islSum[c] ELSE Cardinality(pending[c])

ReadLoad ==
    /\ mpc = "issue" /\ policy # "round_robin" /\ issued # TestReqs
    /\ Cardinality(DOMAIN sizes) < NumCores
    /\ LET c == Cardinality(DOMAIN sizes) + 1
       IN  sizes' = [d \in 1..c |-> IF d = c THEN LoadOf(c) ELSE sizes[d]]
    /\ UNCHANGED <<coreVars, health, warmVars, mpc, fpc, flushing, policy, turn,
                   loadgenVars>>

\* ... and take the first of the least loaded ones.
LeastLoaded_Most ==
    CHOOSE c \in Cores : \A d \in Cores : sizes[c] >= sizes[d]

LeastLoaded ==
    CHOOSE c \in Cores : \A d \in Cores : sizes[c] <= sizes[d] /\ (d < c => sizes[c] < sizes[d])

Balance(r) ==
    /\ mpc = "issue" /\ policy # "round_robin" /\ r \in TestReqs \ issued
    /\ DOMAIN sizes = Cores
    /\ Send(LeastLoaded, r)
    /\ UNCHANGED turn

-----------------------------------------------------------------------------
(***************************************************************************)
(* flush_queries and stop_work.                                            *)
(***************************************************************************)
FlushAll(pc, phase) ==
    /\ mpc' = pc
    /\ flushing' = 1
    /\ fpc' = [fpc EXCEPT ![Main] = phase]

\* LoadGen has issued its samples and flushes.
BeginFlush ==
    /\ mpc = "issue" /\ issued = TestReqs
    /\ FlushAll("flush", "check")
    /\ UNCHANGED <<coreVars, health, warmVars, schedVars, loadgenVars>>

\* flush() of one core is back: on to the next.
Flushed ==
    /\ fpc[Main] = "back"
    /\ IF flushing < NumCores
       THEN flushing' = flushing + 1 /\ fpc' = [fpc EXCEPT ![Main] = "check"] /\ UNCHANGED mpc
       ELSE FlushAll(IF mpc = "flush" THEN "await" ELSE "over", "out")
    /\ UNCHANGED <<coreVars, health, warmVars, schedVars, loadgenVars>>

\* StartTest returns with an answer to every sample.
TestEnds ==
    /\ mpc = "await" /\ issued \subseteq answered
    /\ mpc' = "stop"
    /\ UNCHANGED <<coreVars, health, warmVars, fpc, flushing, schedVars, loadgenVars>>

\* stop_work notifies every core before it flushes the first one: a flush that
\* hangs keeps no core from leaving.
NotifyCores(notified) ==
    /\ mpc = "stop"
    /\ stopWork' = [c \in Cores |-> stopWork[c] \/ c \in notified]
    /\ FlushAll("stopFlush", "check")
    /\ UNCHANGED <<pending, islSum, inWarmup, exited, idle, health, warmVars, schedVars,
                   loadgenVars>>

NotifyStop_First == NotifyCores({1})

NotifyStop == NotifyCores(Cores)

\* The harness is over, raised, or waits for a failed warm-up or for a
\* notification that came too early (LLMCore).
Finished ==
    /\ \/ mpc \in {"over", "raised"}
       \/ mpc = "warm" /\ \E c \in Cores : wpc[c] = "raised"
       \/ mpc = "stopFlush" /\ fpc[Main] = "wait"
    /\ UNCHANGED vars

Poll(c) == PollSees(c) \/ PollNotifies(c)
Flush == \E t \in Threads : FlushCheck(t) \/ FlushWait(t)
Warm(c) ==
    \/ CheckCore(c) \/ WarmFlushed(c) \/ EnterWarmup(c) \/ WarmEnqueue(c)
    \/ WarmRaises(c) \/ LeaveWarmup(c) \/ LockCount(c) \/ WriteCount(c)
Server ==
    \/ HealthJoined \/ WarmupDone \/ ReadLoad
    \/ \E r \in TestReqs : RoundRobin(r) \/ Balance(r)
    \/ BeginFlush \/ Flushed \/ TestEnds \/ NotifyStop

Next ==
    \/ Flush \/ Server \/ Finished
    \/ \E c \in Cores : Warm(c) \/ Poll(c) \/ \E r \in Requests : Complete(c, r)

Spec == Init /\ [][Next]_vars

\* Threads are scheduled, and the backends answer.
FairSpec ==
    /\ Spec
    /\ WF_vars(Server) /\ WF_vars(Flush)
    /\ \A c \in Cores : WF_vars(Warm(c)) /\ WF_vars(Poll(c))
                      /\ WF_vars(\E r \in Requests : Complete(c, r))

-----------------------------------------------------------------------------
(***************************************************************************)
(* Properties.                                                             *)
(***************************************************************************)
\* Every variable has a value of its type.
TypeOK ==
    /\ pending \in [Cores -> SUBSET Requests] /\ islSum \in [Cores -> Nat]
    /\ \A flag \in {inWarmup, stopWork, exited, idle} : flag \in [Cores -> BOOLEAN]
    /\ health \in [Cores -> {"check", "ok", "failed"}]
    /\ wpc \in [Cores -> WarmPcs] /\ seen \in [Cores -> 0..NumCores]
    /\ completed \in 0..NumCores /\ warmLock \in Threads
    /\ mpc \in MainPcs /\ fpc \in [Threads -> FlushPcs] /\ flushing \in Cores
    /\ policy \in Policies /\ turn \in Threads
    /\ DOMAIN sizes \subseteq Cores /\ \A c \in DOMAIN sizes : sizes[c] \in Nat
    /\ issued \subseteq TestReqs /\ answered \subseteq Requests
    /\ carried \subseteq Cores \X WarmupReqs

\* LoadGen's samples meet healthy cores that have left warm-up mode, or their
\* answers would be swallowed (warmup.py:73-77, 113-128).
TestStartsReady ==
    mpc = "issue" => \A c \in Cores : health[c] = "ok" /\ ~inWarmup[c]

EvenShare(n, total) == NumCores * n < total + NumCores

\* A core that was given samples never holds more than its even share of what
\* there was to do, though load_balancing compares queue lengths that are out of
\* date by the time it picks one (factory.py:188-191): they only shrink
\* meanwhile, and warm-up requests still pending count. isl_load_balancing keeps
\* the input tokens given to any two cores within one sample of each other
\* (factory.py:193-196).
LoadIsSpread ==
    mpc \notin {"health", "warm"} => \A c \in Cores :
        /\ policy = "load_balancing" =>
              \/ pending[c] \subseteq WarmupReqs
              \/ EvenShare(Cardinality(pending[c]), Cardinality(issued) + Cardinality(carried))
        /\ policy = "round_robin" =>
              EvenShare(Cardinality(pending[c] \ WarmupReqs), Cardinality(issued))
        /\ policy = "isl_load_balancing" => \A d \in Cores :
              \/ islSum[c] <= islSum[d]
              \/ \E r \in issued : islSum[c] <= islSum[d] + InputLen[r]

\* Once the harness stops the server every core's poll thread exits, even if
\* flush() of another core hangs (server.py:169-178, LLMCore!NoFlushAfterExit).
EveryCoreExits == mpc = "stop" ~> \A c \in Cores : exited[c]

\* Unless a core fails its warm-up, warm-up in parallel threads returns, as no
\* thread's count is lost (warmup.py:116-119), and the test comes to its end
\* over all cores, whatever the scheduler.
TestTerminates == mpc = "warm" ~> mpc = "stop" \/ Failures > 0

=============================================================================
