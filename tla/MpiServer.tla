----------------------------- MODULE MpiServer -----------------------------
(***************************************************************************)
(* The C++ LLM harness over MPI (src/code/harness/harness_llm): a LoadGen  *)
(* process (LLMServerLoadGen) that distributes samples over inference      *)
(* groups, and per group a leader process (LLMServerLeader with one        *)
(* LLMCore) that receives requests and sends first tokens and responses    *)
(* back. Every arrow is a thread and every name a queue or communicator:   *)
(*                                                                         *)
(*   IssueQuery -> request -send-> reqComm -recvReq-> work -core-> ...     *)
(*     ... result -wSend-> respComm -recvResp-> response -complete-> LoadGen*)
(*     ... token -wFirst-> firstComm -recvFirst-> first -report-> LoadGen  *)
(*     ... spent -reclaim-> the leader's request buffers                   *)
(*                                                                         *)
(* An id and its data are two MPI messages that one thread sends and one   *)
(* thread receives back to back: they are one message here. The group has  *)
(* no pipeline parallelism: its leader is its responder.                   *)
(***************************************************************************)
EXTENDS Integers, Sequences, FiniteSets

CONSTANTS
    Samples,
    Term,           \* kTERMINATION_KEY
    SessionSize,    \* ranks in the session of a group (TP)
    MaxGroups,      \* the most inference groups of a setting
    Settings,       \* the settings to choose from:
                    \* groups: inference groups, LoadGen's mNumWorkerThreads
                    \* numTrx: num_transactions_in_flight, entries of a commBuffer
                    \* streaming: mIsStreaming, which is also mReportFirstToken
                    \* policy: mTrafficDistributionPolicy
    StopLosesWakeUps \* a stop may fall between a predicate and its wait

ASSUME ConstantsAssumption ==
    /\ MaxGroups \in Nat \ {0} /\ SessionSize \in Nat \ {0}
    /\ IsFiniteSet(Samples) /\ Term \notin Samples /\ StopLosesWakeUps \in BOOLEAN
    /\ Settings \subseteq [groups : 1..MaxGroups, numTrx : Nat \ {0}, streaming : BOOLEAN,
                            policy : {"roundRobin", "staticChop", "loadBalancing"}]

LoadGenThreads == {"send", "recvResp", "complete", "recvFirst", "report"}
WorkerThreads == {"recvReq", "wSend", "reclaim", "waitTerm", "wFirst"}
AllThreads == LoadGenThreads \cup WorkerThreads

\* The queue a thread sleeps on with a condition variable.
SleepsOn == [send |-> "request", complete |-> "response", report |-> "first",
             wSend |-> "result", wFirst |-> "token", reclaim |-> "spent"]
Sleepers == DOMAIN SleepsOn

Channels == {"request", "reqComm", "work", "result", "respComm", "response",
             "token", "firstComm", "first", "spent", "respBack"}

VARIABLES
    settings,
    q,          \* [Channels -> [Groups -> Seq]]: queues and communicators
    local,      \* [Sleepers -> [Groups -> Seq]]: what a thread drained
    deferred,   \* [Groups -> Seq]: deferedResps of the complete threads
    ended,      \* threads that left their loop: pairs of thread and group
    missed,     \* threads that slept through the stop's notification
    reqBuf, respBuf, firstBuf,  \* ids held by the commBuffers
    core,       \* [Samples -> a request's state in its LLMCore]
    tracker,    \* [Samples -> state in mFirstTokTracker: out, young, due]
    inFlight,   \* [Groups -> Int]: mNumInFlightTransactions
    handled,    \* [Groups -> Nat]: numHandledResps of the batch at hand
    route,      \* [Samples -> Groups]: the queue a sample was pushed to
    lastUsed,   \* mLastUsedQueueIdx
    scan,       \* the counters getLeastBusyIdx has read so far
    main,       \* LoadGen's main thread: test, or the messages it has to send
    exits,      \* mExitCounter
    stopLoadGen, stopWorker,    \* mServerStopWork of LoadGen, of each group
    issued, firstTokens, completions    \* LoadGen

threadVars == <<local, deferred, ended, missed, handled>>
bufferVars == <<reqBuf, respBuf, firstBuf>>
routeVars == <<settings, inFlight, route, lastUsed, scan>>
stopVars == <<main, exits, stopLoadGen, stopWorker>>
loadgenVars == <<issued, firstTokens, completions>>
vars == <<q, threadVars, bufferVars, core, tracker, routeVars, stopVars, loadgenVars>>

Groups == 0..(settings.groups - 1)
Threads == AllThreads \ IF settings.streaming THEN {} ELSE {"recvFirst", "report", "wFirst"}

Elements(s) == {s[i] : i \in DOMAIN s}
Push(Q, c, g, m) == [Q EXCEPT ![c][g] = Append(@, m)]
Pop(Q, c, g) == [Q EXCEPT ![c][g] = Tail(@)]
IsNext(c, g) == q[c][g] # <<>> /\ Head(q[c][g]) # Term
EndsNext(c, g) == q[c][g] # <<>> /\ Head(q[c][g]) = Term

Init ==
    /\ settings \in Settings
    /\ q = [c \in Channels |-> [g \in Groups |-> <<>>]]
    /\ local = [t \in Sleepers |-> [g \in Groups |-> <<>>]]
    /\ deferred = [g \in Groups |-> <<>>]
    /\ ended = {} /\ missed = {}
    /\ reqBuf = [g \in Groups |-> {}] /\ respBuf = {} /\ firstBuf = {}
    /\ core = [s \in Samples |-> "none"]
    /\ tracker = [s \in Samples |-> "out"]
    /\ inFlight = [g \in Groups |-> 0] /\ handled = [g \in Groups |-> 0]
    /\ route = [s \in Samples |-> 0] /\ lastUsed = 0 /\ scan = <<>>
    /\ main = <<"test">> /\ exits = 0
    /\ stopLoadGen = FALSE /\ stopWorker = [g \in Groups |-> FALSE]
    /\ issued = {}
    /\ firstTokens = [s \in Samples |-> 0]
    /\ completions = [s \in Samples |-> 0]

-----------------------------------------------------------------------------
(***************************************************************************)
(* LoadGen's side: distribution.                                           *)
(***************************************************************************)
\* Equal contiguous shares of a query of n samples, the rest dealt out.
StaticChop(i, n) ==
    LET share == n \div settings.groups
    IN  IF i < share * settings.groups THEN i \div share
        ELSE (i - share * settings.groups) % settings.groups

\* getLeastBusyIdx reads one counter after the other, while completions may
\* lower them, and takes the first of the least.
ReadCounter ==
    /\ main = <<"test">> /\ issued # Samples
    /\ settings.policy = "loadBalancing" /\ Len(scan) < settings.groups
    /\ scan' = Append(scan, inFlight[Len(scan)])
    /\ UNCHANGED <<q, threadVars, bufferVars, core, tracker, settings, inFlight, route,
                   lastUsed, stopVars, loadgenVars>>

LeastBusy ==
    CHOOSE g \in Groups : \A h \in Groups :
        scan[g + 1] <= scan[h + 1] /\ (h < g => scan[g + 1] # scan[h + 1])

NextQueueIdx ==
    CASE settings.policy = "roundRobin" -> (lastUsed + 1) % settings.groups
      [] settings.policy = "staticChop" -> StaticChop(Cardinality(issued), Cardinality(Samples))
      [] settings.policy = "loadBalancing" -> LeastBusy

Counted_Never(g) == inFlight

\* mNumInFlightTransactions with one more for g
Counted(g) == [inFlight EXCEPT ![g] = @ + 1]

\* One iteration of IssueQuery over a query of all samples, in a fixed order
\* (samples are alike). The counter goes up before the queue's mutex is released.
Issue(s) ==
    /\ main = <<"test">> /\ issued # Samples
    /\ s = CHOOSE r \in Samples : r \notin issued
    /\ settings.policy = "loadBalancing" => Len(scan) = settings.groups
    /\ LET g == NextQueueIdx IN
        /\ q' = Push(q, "request", g, s)
        /\ inFlight' = Counted(g)
        /\ route' = [route EXCEPT ![s] = g]
        /\ lastUsed' = g
    /\ scan' = <<>>
    /\ issued' = issued \cup {s}
    /\ UNCHANGED <<threadVars, bufferVars, core, tracker, settings, stopVars,
                   firstTokens, completions>>

-----------------------------------------------------------------------------
(***************************************************************************)
(* Threads that sleep on a queue: they drain it, then handle what they     *)
(* took one by one, and look at the stop flag before they drain again.     *)
(***************************************************************************)
Stopped(t, g) == IF t \in LoadGenThreads THEN stopLoadGen ELSE stopWorker[g]
\* responseCompleteThread counts its batch down before it loops.
AtLoop(t, g) ==
    /\ <<t, g>> \notin ended /\ local[t][g] = <<>>
    /\ t = "complete" => handled[g] = 0
Waiting(t, g) == IF t = "complete" THEN q[SleepsOn[t]][g] \o deferred[g]
                 ELSE q[SleepsOn[t]][g]

Drain(t, g) ==
    /\ AtLoop(t, g) /\ ~Stopped(t, g) /\ Waiting(t, g) # <<>>
    /\ local' = [local EXCEPT ![t][g] = Waiting(t, g)]
    /\ q' = [q EXCEPT ![SleepsOn[t]][g] = <<>>]
    /\ deferred' = IF t = "complete" THEN [deferred EXCEPT ![g] = <<>>] ELSE deferred
    /\ UNCHANGED <<ended, missed, handled, bufferVars, core, tracker, routeVars,
                   stopVars, loadgenVars>>

Quit(t, g) ==
    /\ AtLoop(t, g) /\ Stopped(t, g)
    /\ <<t, g>> \notin missed \/ Waiting(t, g) # <<>>
    /\ ended' = ended \cup {<<t, g>>}
    /\ UNCHANGED <<q, local, deferred, missed, handled, bufferVars, core, tracker,
                   routeVars, stopVars, loadgenVars>>

\* A drained item goes on to channel c, or is dropped from the thread.
Done(t, g) == local' = [local EXCEPT ![t][g] = Tail(@)]
HasItem(t, g) == local[t][g] # <<>>

\* sendQueryMPI, sendQueryCompleteMPI, sendFirstTokCompleteMPI
Forward(t, c, g) ==
    /\ HasItem(t, g)
    /\ q' = Push(q, c, g, Head(local[t][g]))
    /\ Done(t, g)
    /\ UNCHANGED <<deferred, ended, missed, handled, bufferVars, core, tracker,
                   routeVars, stopVars, loadgenVars>>

-----------------------------------------------------------------------------
(***************************************************************************)
(* Threads that block in an MPI receive, then wait for a buffer entry.     *)
(***************************************************************************)
Accept(c, to, g) ==
    /\ IsNext(c, g)
    /\ q' = Push(Pop(q, c, g), to, g, Head(q[c][g]))
    /\ UNCHANGED <<threadVars, core, tracker, routeVars, stopVars, loadgenVars>>

RecvRequest(g) ==
    /\ Accept("reqComm", "work", g)
    /\ Cardinality(reqBuf[g]) < settings.numTrx
    /\ reqBuf' = [reqBuf EXCEPT ![g] = @ \cup {Head(q["reqComm"][g])}]
    /\ UNCHANGED <<respBuf, firstBuf>>

\* The responses of all groups share one commBuffer.
RecvResponse(g) ==
    /\ Accept("respComm", "response", g)
    /\ Cardinality(respBuf) < settings.numTrx
    /\ respBuf' = respBuf \cup {Head(q["respComm"][g])}
    /\ UNCHANGED <<reqBuf, firstBuf>>

RecvFirstToken(g) ==
    /\ Accept("firstComm", "first", g)
    /\ Cardinality(firstBuf) < settings.numTrx
    /\ firstBuf' = firstBuf \cup {Head(q["firstComm"][g])}
    /\ UNCHANGED <<reqBuf, respBuf>>

-----------------------------------------------------------------------------
(***************************************************************************)
(* LoadGen's side: reports.                                                *)
(***************************************************************************)
CleanBuffer_Never(buffer, s) == buffer

\* cleanBuffer of a commBuffer
CleanBuffer(buffer, s) == buffer \ {s}

\* firstTokCompleteThread
ReportFirst(g) ==
    LET s == Head(local["report"][g])
    IN  /\ HasItem("report", g) /\ Done("report", g)
        /\ firstTokens' = [firstTokens EXCEPT ![s] = @ + 1]
        /\ tracker' = [tracker EXCEPT ![s] = "young"]
        /\ firstBuf' = CleanBuffer(firstBuf, s)
        /\ UNCHANGED <<q, deferred, ended, missed, handled, reqBuf, respBuf, core,
                       routeVars, stopVars, issued, completions>>

\* mPostponeDuration has passed since the first token.
Age(s) ==
    /\ tracker[s] = "young"
    /\ tracker' = [tracker EXCEPT ![s] = "due"]
    /\ UNCHANGED <<q, threadVars, bufferVars, core, routeVars, stopVars, loadgenVars>>

\* responseCompleteThread, one response: report it, or put it off until its
\* first token has been reported for long enough. After the last one of the
\* batch the counter comes down.
MayComplete_Untracked(s) == TRUE
MayComplete(s) == settings.streaming => tracker[s] = "due"

Complete(g) ==
    LET s == Head(local["complete"][g])
    IN  /\ HasItem("complete", g) /\ Done("complete", g)
        /\ IF MayComplete(s)
           THEN /\ completions' = [completions EXCEPT ![s] = @ + 1]
                /\ tracker' = [tracker EXCEPT ![s] = "out"]
                /\ respBuf' = CleanBuffer(respBuf, s)
                /\ handled' = [handled EXCEPT ![g] = @ + 1]
                /\ UNCHANGED deferred
           ELSE /\ deferred' = [deferred EXCEPT ![g] = Append(@, s)]
                /\ UNCHANGED <<completions, tracker, respBuf, handled>>
        /\ UNCHANGED <<q, ended, missed, reqBuf, firstBuf, core, routeVars,
                       stopVars, issued, firstTokens>>

CountDownBy(g, n) ==
    /\ ~HasItem("complete", g) /\ handled[g] > 0
    /\ inFlight' = [inFlight EXCEPT ![g] = @ - n]
    /\ handled' = [handled EXCEPT ![g] = 0]
    /\ UNCHANGED <<q, local, deferred, ended, missed, bufferVars, core, tracker, route,
                   lastUsed, scan, settings, stopVars, loadgenVars>>

CountDown_One(g) == CountDownBy(g, 1)

CountDown(g) == CountDownBy(g, handled[g])

-----------------------------------------------------------------------------
(***************************************************************************)
(* The worker's side. GptManager (external) takes requests when it has     *)
(* room and calls sendResponse from one thread.                            *)
(***************************************************************************)
CoreStep(s, from, to, c) ==
    /\ core[s] = from
    /\ core' = [core EXCEPT ![s] = to]
    /\ q' = IF c = "none" THEN q ELSE Push(q, c, route[s], s)
    /\ UNCHANGED <<threadVars, bufferVars, tracker, routeVars, stopVars, loadgenVars>>

\* No other sendResponse call of the same core is under way.
NotSending(s) == \A r \in Samples \ {s} : route[r] = route[s] => core[r] # "answered"

\* getInferenceRequest: up to maxNbRequests at once, one by one here.
GetInferenceRequest(g) ==
    LET s == Head(q["work"][g])
    IN  /\ q["work"][g] # <<>>
        /\ core' = [core EXCEPT ![s] = "run"]
        /\ q' = Pop(q, "work", g)
        /\ UNCHANGED <<threadVars, bufferVars, tracker, routeVars, stopVars, loadgenVars>>

\* sendResponse with the first token of s
SendFirst(s) == settings.streaming /\ NotSending(s) /\ CoreStep(s, "run", "streamed", "token")

\* ... and with the final response: the result, then the buffer's release.
SendFinal(s) ==
    NotSending(s) /\ CoreStep(s, IF settings.streaming THEN "streamed" ELSE "run", "answered", "result")

SendReclaim_Never(s) == CoreStep(s, "answered", "gone", "none")

SendReclaim(s) ==
    CoreStep(s, "answered", "gone", IF SessionSize > 1 THEN "spent" ELSE "none")

\* reclaimResources
Reclaim(g) ==
    /\ HasItem("reclaim", g) /\ Done("reclaim", g)
    /\ reqBuf' = [reqBuf EXCEPT ![g] = CleanBuffer(@, Head(local["reclaim"][g]))]
    /\ UNCHANGED <<q, deferred, ended, missed, handled, respBuf, firstBuf, core, tracker,
                   routeVars, stopVars, loadgenVars>>

-----------------------------------------------------------------------------
(***************************************************************************)
(* Termination.                                                            *)
(***************************************************************************)
Comms == <<"reqComm", "respBack">>

\* StartTest returns when every sample is answered; triggerTermination.
TestEnds ==
    /\ main = <<"test">> /\ \A s \in Samples : completions[s] > 0
    /\ main' = [i \in 1..(2 * settings.groups) |->
                    <<Comms[1 + (i - 1) \div settings.groups], (i - 1) % settings.groups>>]
    /\ UNCHANGED <<q, threadVars, bufferVars, core, tracker, routeVars, exits,
                   stopLoadGen, stopWorker, loadgenVars>>

SendTerminate ==
    /\ main # <<"test">> /\ main # <<>>
    /\ q' = Push(q, Head(main)[1], Head(main)[2], Term)
    /\ main' = Tail(main)
    /\ UNCHANGED <<threadVars, bufferVars, core, tracker, routeVars, exits,
                   stopLoadGen, stopWorker, loadgenVars>>

Ends(t, c, g) ==
    /\ EndsNext(c, g)
    /\ q' = Pop(q, c, g)
    /\ ended' = ended \cup {<<t, g>>}
    /\ UNCHANGED <<local, deferred, handled, bufferVars, core, tracker, routeVars,
                   main, loadgenVars>>

\* stopSUT sets the flag and notifies without the queues' mutexes: a thread
\* that has just found its queue empty is not asleep yet.
Notify(ts) ==
    \E ms \in SUBSET {p \in ts : p[1] \in Sleepers \cap Threads /\ AtLoop(p[1], p[2])
                                 /\ Waiting(p[1], p[2]) = <<>>} :
        /\ ~StopLosesWakeUps => ms = {}
        /\ missed' = missed \cup ms

\* The leader's receiver leaves; its responder has yet to be stopped.
RecvRequestEnds(g) ==
    /\ Ends("recvReq", "reqComm", g)
    /\ UNCHANGED <<missed, exits, stopLoadGen, stopWorker>>

\* waitForTermination answers on every communicator towards LoadGen, then
\* stops the worker's threads.
WaitForTermination(g) ==
    /\ EndsNext("respBack", g)
    /\ q' = LET answered == Push(Pop(q, "respBack", g), "respComm", g, Term)
            IN  IF settings.streaming THEN Push(answered, "firstComm", g, Term) ELSE answered
    /\ ended' = ended \cup {<<"waitTerm", g>>}
    /\ stopWorker' = [stopWorker EXCEPT ![g] = TRUE]
    /\ Notify(WorkerThreads \X {g})
    /\ UNCHANGED <<local, deferred, handled, bufferVars, core, tracker, routeVars,
                   main, exits, stopLoadGen, loadgenVars>>

\* LoadGen's stopSUT counts its receivers down: mRequiredExitCount.
RequiredExits_Threads == Cardinality(LoadGenThreads) * settings.groups

RequiredExits == IF settings.streaming THEN 2 * settings.groups ELSE settings.groups

LoadGenReceiverEnds(t, c, g) ==
    /\ Ends(t, c, g)
    /\ exits' = exits + 1
    /\ IF exits + 1 >= RequiredExits
       THEN stopLoadGen' = TRUE /\ Notify(LoadGenThreads \X Groups)
       ELSE UNCHANGED <<stopLoadGen, missed>>
    /\ UNCHANGED stopWorker

-----------------------------------------------------------------------------
ThreadStep(t, g) ==
    \/ t \in Sleepers /\ (Drain(t, g) \/ Quit(t, g))
    \/ t = "send" /\ Forward(t, "reqComm", g)
    \/ t = "wSend" /\ Forward(t, "respComm", g)
    \/ t = "wFirst" /\ Forward(t, "firstComm", g)
    \/ t = "recvReq" /\ (RecvRequest(g) \/ RecvRequestEnds(g))
    \/ t = "recvResp" /\ (RecvResponse(g) \/ LoadGenReceiverEnds(t, "respComm", g))
    \/ t = "recvFirst" /\ (RecvFirstToken(g) \/ LoadGenReceiverEnds(t, "firstComm", g))
    \/ t = "complete" /\ (Complete(g) \/ CountDown(g))
    \/ t = "report" /\ ReportFirst(g)
    \/ t = "reclaim" /\ Reclaim(g)
    \/ t = "waitTerm" /\ WaitForTermination(g)

Core(s) == SendFirst(s) \/ SendFinal(s) \/ SendReclaim(s)

Main == ReadCounter \/ TestEnds \/ SendTerminate \/ \E s \in Samples : Issue(s)

AllEnded == main = <<>> /\ ended = Threads \X Groups

Finished == AllEnded /\ UNCHANGED vars

Next ==
    \/ Main \/ Finished
    \/ \E g \in Groups : GetInferenceRequest(g) \/ \E t \in Threads : ThreadStep(t, g)
    \/ \E s \in Samples : Core(s) \/ Age(s)

Spec == Init /\ [][Next]_vars

\* Threads are scheduled, GptManager serves what it took, time passes.
Fairness ==
    /\ WF_vars(Main)
    /\ \A g \in 0..(MaxGroups - 1) :
        /\ WF_vars(g \in Groups /\ GetInferenceRequest(g))
        /\ \A t \in AllThreads : WF_vars(g \in Groups /\ t \in Threads /\ ThreadStep(t, g))
    /\ \A s \in Samples : WF_vars(Core(s)) /\ WF_vars(Age(s))

FairSpec == Spec /\ Fairness

-----------------------------------------------------------------------------
(***************************************************************************)
(* Properties.                                                             *)
(***************************************************************************)
\* Every variable has a value of its type: a sample goes to a queue that
\* exists, and no counter runs below zero (they are unsigned in the code).
TypeOK ==
    /\ q \in [Channels -> [Groups -> Seq(Samples \cup {Term})]]
    /\ local \in [Sleepers -> [Groups -> Seq(Samples)]]
    /\ deferred \in [Groups -> Seq(Samples)]
    /\ ended \subseteq Threads \X Groups /\ missed \subseteq Threads \X Groups
    /\ reqBuf \in [Groups -> SUBSET Samples]
    /\ respBuf \subseteq Samples /\ firstBuf \subseteq Samples
    /\ core \in [Samples -> {"none", "run", "streamed", "answered", "gone"}]
    /\ tracker \in [Samples -> {"out", "young", "due"}]
    /\ inFlight \in [Groups -> Nat] /\ handled \in [Groups -> Nat]
    /\ route \in [Samples -> Groups] /\ lastUsed \in Groups
    /\ scan \in Seq(Nat) /\ Len(scan) <= settings.groups
    /\ settings \in Settings /\ exits \in Nat
    /\ stopLoadGen \in BOOLEAN /\ stopWorker \in [Groups -> BOOLEAN]
    /\ issued \subseteq Samples
    /\ firstTokens \in [Samples -> Nat] /\ completions \in [Samples -> Nat]

\* The counters loadBalancing works with are the samples that are out, and
\* those of the batch that responseCompleteThread has yet to subtract; when
\* the threads are gone they are zero (llm_server.cc:1448-1451).
InFlightIsOutstanding ==
    /\ \A g \in Groups :
        inFlight[g] = handled[g] +
            Cardinality({s \in issued : route[s] = g /\ completions[s] = 0})
    /\ AllEnded => \A g \in Groups : inFlight[g] = 0

\* A response that is queued, drained or deferred points into a buffer entry
\* that is not reused under it (resp.data), and no entry is held for nothing;
\* the same for first tokens. A request that the core has yet to read still has
\* its entry.
BuffersAreOwned ==
    /\ respBuf = UNION {Elements(q["response"][g]) \cup Elements(local["complete"][g])
                            \cup Elements(deferred[g]) : g \in Groups}
    /\ firstBuf = UNION {Elements(q["first"][g]) \cup Elements(local["report"][g])
                             : g \in Groups}
    /\ \A g \in Groups : Elements(q["work"][g]) \subseteq reqBuf[g]

\* llm_core.cc:502: "CommBuffer should be reclaimed if MPI is used": until the
\* leader's reclaim thread has ended, an entry whose request has been answered
\* is free or handed to that thread. LoadGen's process ends with all entries of
\* its own buffers free and an empty tracker, as their destructors CHECK
\* (llm_utils.hpp:194 and 321).
BuffersAreReclaimed ==
    /\ \A g \in Groups, s \in Samples :
        core[s] = "gone" /\ s \in reqBuf[g] /\ <<"reclaim", g>> \notin ended =>
            s \in Elements(q["spent"][g]) \cup Elements(local["reclaim"][g])
    /\ AllEnded => /\ respBuf = {} /\ firstBuf = {}
                   /\ \A s \in Samples : tracker[s] = "out"

\* llm_utils.hpp:194: no index is missing when the buffer of a leader's
\* requests is destructed, after its threads have ended. reclaimResources leaves
\* its queue behind when it sees the stop (llm_server.cc:722-726).
NoIndexIsMissing == AllEnded => \A g \in Groups : reqBuf[g] = {}

\* Every thread of every process ends: the exit count of LoadGen is reached
\* only after the last receiver, and nobody waits for ever for a buffer entry.
\* llm_server.cc:719: the sleepers wait until their queue "is not empty, or the
\* stop signal".
Terminates == <>AllEnded

\* LoadGen's contract, with its promise that every sample is answered: no
\* completion overtakes its first token although they travel separately, and
\* the buffers' flow control never wedges.
Contract == INSTANCE LoadGenContract

AnswersEverything == Contract!FairSpec

=============================================================================
