--------------------------- MODULE LLMCoreProofs ---------------------------
(***************************************************************************)
(* What holds of an LLMCore for every set of requests, every backend and   *)
(* every bound: proofs of the safety properties of LLMCore.                *)
(***************************************************************************)
EXTENDS LLMCore, CollectionLemmas

\* The lock is held over a step by enqueue() only, and nothing is half
\* enqueued when it is free.
LockInv ==
    /\ lock = "driver" <=> dpc \in {"warmAdd", "add"}
    /\ lock = Free => enqueued = {}

\* flush() is called from four places.
FlushInv ==
    fpc # "out" => dpc \in {"warmFlush", "warmDrain", "testFlush", "stopFlush"}

\* The backend knows a request exactly from the call of _enqueue_impl on.
KnownInv ==
    /\ dpc \in {"warmFlush", "warmSet", "warmEnqueue"} =>
            \A r \in WarmupReqs : bst[r] = "idle"
    /\ \A r \in TestReqs : bst[r] # "idle" => r \in issued
    /\ \A r \in Requests : bst[r] = "idle" =>
            r \notin pending \cup enqueued /\ completions[r] = 0
    /\ pollPc = "deliver" => bst[cur.id] # "idle"

\* A request has an end once: while it is tracked nobody has reported it, or
\* is about to.
OnceInv ==
    /\ \A r \in Requests : completions[r] <= 1
    /\ \A r \in pending \cup enqueued :
        completions[r] = 0 /\ ~(pollPc = "deliver" /\ cur.id = r /\ cur.final)
    /\ pollPc = "deliver" /\ cur.final => completions[cur.id] = 0

\* Responses of the current poll exist only while they are being handled, and
\* an error response only if the backend failed.
BatchInv ==
    /\ pollPc \notin {"handle", "track", "deliver", "dead"} => batch = <<>>
    /\ nerr = 0 => /\ \A i \in DOMAIN ready : ~ready[i].error
                   /\ \A i \in DOMAIN batch : ~batch[i].error

\* The way out of the loop is one-way and needs stop_work.
ExitInv ==
    /\ pollPc \in {"exit", "setExit", "lastNotify", "done"} => stopWork
    /\ exited => pollPc \in {"lastNotify", "done"}
    /\ AssertsStop /\ pollPc \in {"setExit", "lastNotify", "done"} =>
            pending = {} /\ enqueued = {} /\ lock = Free

IInv == /\ TypeOK /\ LockInv /\ FlushInv /\ KnownInv /\ OnceInv
        /\ BatchInv /\ ExitInv /\ PendingIsAnswerable

-----------------------------------------------------------------------------
\* A chunk of n tokens is a sequence of n tokens.
LEMMA ChunkType == \A n \in Nat : n_toks(n) \in Seq({"tok"}) /\ Len(n_toks(n)) = n
  <1> SUFFICES ASSUME NEW n \in Nat
               PROVE  n_toks(n) \in Seq({"tok"}) /\ Len(n_toks(n)) = n
    OBVIOUS
  <1>1. n_toks(n) \in [1..n -> {"tok"}]
    BY DEF n_toks
  <1> QED  BY <1>1

\* Padding yields tokens.
LEMMA PaddedType == \A s \in Seq(TokenKinds) : Padded(s) \in Seq(TokenKinds)
  <1> SUFFICES ASSUME NEW s \in Seq(TokenKinds)
               PROVE  Padded(s) \in Seq(TokenKinds)
    OBVIOUS
  <1> DEFINE atLeastOne == IF s = <<>> THEN <<"BOS">> ELSE s
  <1>1. "BOS" \in TokenKinds /\ "EOS" \in TokenKinds
    BY DEF TokenKinds
  <1>2. <<"BOS">> \in Seq(TokenKinds)
    BY <1>1
  <1>3. atLeastOne \in Seq(TokenKinds)
    BY <1>2
  <1>4. Append(atLeastOne, "EOS") \in Seq(TokenKinds)
    BY <1>1, <1>3
  <1> QED  BY <1>3, <1>4 DEF Padded, PadWith

\* The parts of a response.
LEMMA ResponseFields ==
  \A r \in Response : /\ r.id \in Requests /\ r.toks \in Seq({"tok"})
                      /\ r.toks \in Seq(TokenKinds)
                      /\ r.final \in BOOLEAN /\ r.error \in BOOLEAN
  <1>1. \A s \in Seq({"tok"}) : s \in Seq(TokenKinds)
    BY DEF TokenKinds
  <1> QED  BY <1>1 DEF Response

\* A response is made of its parts.
LEMMA ResponseType ==
  \A r \in Requests, ts \in Seq({"tok"}), final \in BOOLEAN, error \in BOOLEAN :
    [id |-> r, toks |-> ts, final |-> final, error |-> error] \in Response
  BY DEF Response

-----------------------------------------------------------------------------
USE DEF coreVars, pollVars, driverVars, backendVars, loadgenVars

\* The actions that are given in two parts.
USE DEF NotifyThen, StreamChunkTo, WholeAnswerIs, LookUp, Untracked, ExitLoop

\* Both sets of requests are requests.
LEMMA ReqsInRequests == WarmupReqs \subseteq Requests /\ TestReqs \subseteq Requests
  BY DEF Requests

\* The types hold at the start.
LEMMA TypeInit == Init => TypeOK /\ FlushInv
  <1> SUFFICES ASSUME Init PROVE TypeOK /\ FlushInv
    OBVIOUS
  <1> USE DEF Init
  <1>1. <<>> \in Seq(Response) /\ <<>> \in Seq(TokenKinds) /\ <<>> \in Seq({"tok"})
    BY EmptySeqType
  <1>2. pending \subseteq Requests /\ lock \in {Free, "driver"}
        /\ inWarmup \in BOOLEAN /\ stopWork \in BOOLEAN /\ exited \in BOOLEAN
        /\ pollPc \in PollPcs /\ batch \in Seq(Response)
    BY <1>1 DEF PollPcs
  <1>3. cur \in [id : Requests, first : BOOLEAN, final : BOOLEAN]
    <2>1. PICK r \in Requests : cur = [id |-> r, first |-> FALSE, final |-> FALSE]
      OBVIOUS
    <2> QED  BY <2>1
  <1>4. seen \subseteq Requests /\ firstLat \subseteq Requests
        /\ toks \in [Requests -> Seq(TokenKinds)]
    BY <1>1
  <1>5. dpc \in DriverPcs /\ fpc \in FlushPcs /\ enqueued \subseteq Requests
        /\ sig \in {"armed", "log", "kill", "done"} /\ FlushInv
    BY DEF DriverPcs, WarmPcs, TestPcs, FlushPcs, FlushInv
  <1>6. bst \in [Requests -> {"idle", "run", "end"}]
        /\ gen \in [Requests -> Seq({"tok"})]
        /\ nresp \in [Requests -> Nat] /\ nerr \in Nat
        /\ ready \in Seq(Response) /\ alive \in BOOLEAN
    BY <1>1
  <1>7. issued \subseteq TestReqs
        /\ firstTokens \in [Requests -> Nat] /\ completions \in [Requests -> Nat]
        /\ output \in [Requests -> Seq(TokenKinds)]
    BY <1>1
  <1> QED  BY <1>2, <1>3, <1>4, <1>5, <1>6, <1>7 DEF TypeOK

\* The driver and the SIGINT handler keep the types.
LEMMA TypeDriver ==
  TypeOK /\ FlushInv /\ (Driver \/ Handler) => TypeOK' /\ FlushInv'
  <1> SUFFICES ASSUME TypeOK, FlushInv, Driver \/ Handler
               PROVE  TypeOK' /\ FlushInv'
    OBVIOUS
  <1> USE ReqsInRequests DEF TypeOK, FlushInv, Goto, DriverPcs, WarmPcs, TestPcs, FlushPcs
  <1>1. CASE FlushCheck  BY <1>1 DEF FlushCheck
  <1>2. CASE FlushWait  BY <1>2 DEF FlushWait
  <1>3. CASE FlushReturn  BY <1>3 DEF FlushReturn, AfterFlush
  <1>4. CASE EnterWarmup  BY <1>4 DEF EnterWarmup
  <1>5. CASE WarmEnqueue  BY <1>5 DEF WarmEnqueue, StartEnqueue
  <1>6. CASE WarmAdd  BY <1>6 DEF WarmAdd, FinishEnqueue
  <1>7. CASE WarmEnqueueFails  BY <1>7 DEF WarmEnqueueFails
  <1>8. CASE LeaveWarmup  BY <1>8 DEF LeaveWarmup
  <1>9. ASSUME NEW r \in TestReqs, Issue(r) PROVE TypeOK' /\ FlushInv'
    BY <1>9, SMTT(20) DEF Issue, StartEnqueue
  <1>10. ASSUME NEW r \in TestReqs, IssueFails(r) PROVE TypeOK' /\ FlushInv'
    BY <1>10 DEF IssueFails
  <1>11. CASE IssueAdd  BY <1>11 DEF IssueAdd, FinishEnqueue
  <1>12. CASE LoadGenFlush  BY <1>12 DEF LoadGenFlush
  <1>13. CASE TestEnds  BY <1>13 DEF TestEnds
  <1>14. CASE NotifyStop  BY <1>14 DEF NotifyStop
  <1>15. CASE NotifyStopLog  BY <1>15 DEF NotifyStopLog
  <1>16. CASE SigintNotifyStop  BY <1>16 DEF SigintNotifyStop
  <1>17. CASE SigintLog  BY <1>17 DEF SigintLog
  <1>18. CASE SigintKill  BY <1>18 DEF SigintKill
  <1> QED
    BY <1>1, <1>2, <1>3, <1>4, <1>5, <1>6, <1>7, <1>8, <1>9, <1>10, <1>11, <1>12,
       <1>13, <1>14, <1>15, <1>16, <1>17, <1>18 DEF Driver, Handler

\* The poll thread keeps them.
LEMMA TypePoll == TypeOK /\ FlushInv /\ Poll => TypeOK' /\ FlushInv'
  <1> SUFFICES ASSUME TypeOK, FlushInv, Poll
               PROVE  TypeOK' /\ FlushInv'
    OBVIOUS
  <1> USE DEF TypeOK, FlushInv, PollPcs, FlushPcs
  <1>1. CASE PollRead  BY <1>1, SMTT(20) DEF PollRead
  <1>2. CASE PollNotify  BY <1>2 DEF PollNotify, WakeFlush
  <1>3. CASE PollCheckStop  BY <1>3 DEF PollCheckStop
  <1>4. CASE PollBackend  BY <1>4, SplitSeq DEF PollBackend
  <1>5. CASE SkipError  BY <1>5, HeadTail DEF SkipError
  <1>6. CASE StreamChunk
    <2>1. batch # <<>> /\ Head(batch) \in Response /\ Tail(batch) \in Seq(Response)
      BY <1>6, HeadTail DEF StreamChunk
    <2> Head(batch).id \in Requests /\ Head(batch).final \in BOOLEAN
      BY <2>1, ResponseFields
    <2>2. toks[Head(batch).id] \o Head(batch).toks \in Seq(TokenKinds)
      <3>1. Head(batch).toks \in Seq(TokenKinds)
        BY <2>1, ResponseFields
      <3>2. toks[Head(batch).id] \in Seq(TokenKinds)
        BY <2>1
      <3> QED  BY <3>1, <3>2
    <2>3. Padded(toks[Head(batch).id] \o Head(batch).toks) \in Seq(TokenKinds)
      BY <2>2, PaddedType
    <2>4. toks' \in [Requests -> Seq(TokenKinds)]
      BY <1>6, <2>2, <2>3 DEF StreamChunk
    <2>5. cur' \in [id : Requests, first : BOOLEAN, final : BOOLEAN]
      BY <1>6 DEF StreamChunk
    <2>6. seen' \subseteq Requests /\ batch' \in Seq(Response) /\ pollPc' \in PollPcs
      BY <1>6, <2>1 DEF StreamChunk
    <2> QED  BY <1>6, <2>4, <2>5, <2>6, ZenonT(40) DEF StreamChunk
  <1>7. CASE WholeAnswer
    <2>1. Head(batch) \in Response /\ Tail(batch) \in Seq(Response)
      BY <1>7, HeadTail DEF WholeAnswer
    <2>2. Head(batch).toks \in Seq(TokenKinds) /\ Head(batch).id \in Requests
      BY <2>1, ResponseFields
    <2>3. Padded(Head(batch).toks) \in Seq(TokenKinds)
      BY <2>2, PaddedType
    <2> QED  BY <1>7, <2>1, <2>2, <2>3, ZenonT(40) DEF WholeAnswer
  <1>8. CASE HandledAll  BY <1>8 DEF HandledAll
  <1>9. CASE TrackResponse  BY <1>9 DEF TrackResponse
  <1>10. CASE DropWarmup  BY <1>10 DEF DropWarmup
  <1>11. CASE Deliver  BY <1>11 DEF Deliver, CompleteCallback
  <1>12. CASE PollExit  BY <1>12, SMTT(20) DEF PollExit
  <1>13. CASE PollSetExit  BY <1>13 DEF PollSetExit
  <1>14. CASE PollLastNotify  BY <1>14 DEF PollLastNotify, WakeFlush
  <1> QED
    BY <1>1, <1>2, <1>3, <1>4, <1>5, <1>6, <1>7, <1>8, <1>9, <1>10, <1>11, <1>12,
       <1>13, <1>14 DEF Poll

\* The backend keeps them.
LEMMA TypeBackend == TypeOK /\ FlushInv /\ Backend => TypeOK' /\ FlushInv'
  <1> SUFFICES ASSUME TypeOK, FlushInv, NEW r \in Requests,
                      Generate(r) \/ RepeatFinal(r) \/ Fail(r)
               PROVE  TypeOK' /\ FlushInv'
    BY DEF Backend
  <1> USE DEF TypeOK, FlushInv
  <1>1. <<>> \in Seq({"tok"})
    BY EmptySeqType
  <1>2. ASSUME NEW ts \in Seq({"tok"}), NEW final \in BOOLEAN, NEW error \in BOOLEAN,
               ready' = Append(ready, [id |-> r, toks |-> ts,
                                       final |-> final, error |-> error])
        PROVE  ready' \in Seq(Response)
    BY <1>2, ResponseType, Extended
  <1>3. CASE Generate(r)
    <2>1. PICK final \in BOOLEAN,
               n \in (IF nresp[r] = 0 THEN FirstSizes ELSE ChunkSizes) :
              /\ Respond(r, n_toks(n), final)
              /\ gen' = [gen EXCEPT ![r] = @ \o n_toks(n)]
              /\ bst' = [bst EXCEPT ![r] = IF final THEN "end" ELSE "run"]
      BY <1>3 DEF Generate
    <2>2. n_toks(n) \in Seq({"tok"})
      BY ChunkType, BoundsAssumption
    <2>3. gen' \in [Requests -> Seq({"tok"})]
      BY <2>1, <2>2
    <2>4. ready' \in Seq(Response)
      BY <1>2, <2>1, <2>2 DEF Respond
    <2>5. nresp' \in [Requests -> Nat]
      BY <2>1, SMTT(20) DEF Respond
    <2>6. bst' \in [Requests -> {"idle", "run", "end"}]
      BY <2>1
    <2> QED  BY <1>3, <2>3, <2>4, <2>5, <2>6 DEF Generate
  <1>4. CASE RepeatFinal(r)
    <2>1. ready' \in Seq(Response)
      BY <1>1, <1>2, <1>4 DEF RepeatFinal, Respond
    <2> QED  BY <1>4, <2>1, SMTT(20) DEF RepeatFinal, Respond
  <1>5. CASE Fail(r)
    <2>1. ready' \in Seq(Response)
      BY <1>1, <1>2, <1>5 DEF Fail
    <2>2. nresp' \in [Requests -> Nat] /\ nerr' \in Nat
      BY <1>5, SMTT(20) DEF Fail
    <2>3. bst' \in [Requests -> {"idle", "run", "end"}]
      BY <1>5 DEF Fail
    <2> QED  BY <1>5, <2>1, <2>2, <2>3 DEF Fail
  <1> QED  BY <1>3, <1>4, <1>5

\* Every step keeps them.
LEMMA TypeNext == TypeOK /\ FlushInv /\ [Next]_vars => TypeOK' /\ FlushInv'
  <1> SUFFICES ASSUME TypeOK, FlushInv, [Next]_vars PROVE TypeOK' /\ FlushInv'
    OBVIOUS
  <1>1. CASE Finished \/ UNCHANGED vars
    BY <1>1 DEF Finished, vars, TypeOK, FlushInv
  <1> QED  BY <1>1, TypeDriver, TypePoll, TypeBackend DEF Next

\* Every variable of a core keeps its type, whatever the requests, the backend
\* and the bounds.
THEOREM TypeCorrect == Spec => []TypeOK
  <1>1. Spec => [](TypeOK /\ FlushInv)
    BY TypeInit, TypeNext, PTL DEF Spec
  <1> QED  BY <1>1, PTL

-----------------------------------------------------------------------------
\* What each party leaves alone.
LEMMA DriverFrame ==
  Driver \/ Handler =>
    UNCHANGED <<exited, pollVars, gen, nresp, nerr, ready, firstTokens, completions, output>>
  BY DEF Driver, Handler, FlushCheck, FlushWait, FlushReturn, EnterWarmup, WarmEnqueue,
         WarmAdd, WarmEnqueueFails, LeaveWarmup, Issue, IssueFails, IssueAdd,
         LoadGenFlush, TestEnds, NotifyStop, NotifyStopLog, SigintNotifyStop, SigintLog,
         SigintKill, StartEnqueue, FinishEnqueue

\* The poll thread does not touch what the driver and the backend own.
LEMMA PollFrame ==
  Poll => UNCHANGED <<lock, inWarmup, stopWork, dpc, enqueued, sig, bst, gen, nresp,
                      nerr, alive, issued>>
  BY DEF Poll, PollRead, PollNotify, PollCheckStop, PollBackend, SkipError, StreamChunk,
         WholeAnswer, HandledAll, TrackResponse, DropWarmup, Deliver, PollExit,
         PollSetExit, PollLastNotify, CompleteCallback

\* The backend touches nothing of the core.
LEMMA BackendFrame ==
  Backend => UNCHANGED <<coreVars, pollVars, driverVars, sig, loadgenVars, alive>>
  BY DEF Backend, Generate, RepeatFinal, Fail

\* The backend forgets no request and starts none by itself.
LEMMA BackendKnows ==
  TypeOK /\ Backend => \A r \in Requests : bst'[r] = "idle" <=> bst[r] = "idle"
  <1> SUFFICES ASSUME TypeOK, NEW q \in Requests,
                      Generate(q) \/ RepeatFinal(q) \/ Fail(q)
               PROVE  \A r \in Requests : bst'[r] = "idle" <=> bst[r] = "idle"
    BY DEF Backend
  <1>1. CASE Generate(q)
    <2>1. bst[q] = "run"
          /\ \E final \in BOOLEAN :
                bst' = [bst EXCEPT ![q] = IF final THEN "end" ELSE "run"]
      BY <1>1 DEF Generate
    <2> QED  BY <2>1 DEF TypeOK
  <1>2. CASE RepeatFinal(q)  BY <1>2 DEF RepeatFinal
  <1>3. CASE Fail(q)
    <2>1. bst[q] = "run" /\ bst' = [bst EXCEPT ![q] = "end"]
      BY <1>3 DEF Fail
    <2> QED  BY <2>1 DEF TypeOK
  <1> QED  BY <1>1, <1>2, <1>3

\* A finished run stands still.
LEMMA FinishedFrame == Finished => UNCHANGED vars
  BY DEF Finished

\* What a driver step does to the requests it is about: most change only where
\* the driver is, enqueue() has two halves, the rest set one flag.
LEMMA LockNext == TypeOK /\ FlushInv /\ LockInv /\ [Next]_vars => LockInv'
  <1> SUFFICES ASSUME TypeOK, FlushInv, LockInv, [Next]_vars PROVE LockInv'
    OBVIOUS
  <1> USE DEF LockInv, FlushInv, Goto, Free
  <1>1. CASE FlushCheck \/ FlushWait  BY <1>1 DEF FlushCheck, FlushWait
  <1>2. CASE FlushReturn  BY <1>2 DEF FlushReturn, AfterFlush
  <1>3. CASE EnterWarmup \/ LeaveWarmup \/ WarmEnqueueFails
    BY <1>3 DEF EnterWarmup, LeaveWarmup, WarmEnqueueFails
  <1>4. CASE WarmEnqueue \/ (\E r \in TestReqs : Issue(r))
    BY <1>4 DEF WarmEnqueue, Issue, StartEnqueue
  <1>5. CASE WarmAdd \/ IssueAdd  BY <1>5 DEF WarmAdd, IssueAdd, FinishEnqueue
  <1>6. CASE (\E r \in TestReqs : IssueFails(r)) \/ LoadGenFlush \/ TestEnds
    BY <1>6 DEF IssueFails, LoadGenFlush, TestEnds
  <1>7. CASE NotifyStop \/ NotifyStopLog  BY <1>7 DEF NotifyStop, NotifyStopLog
  <1>8. CASE Handler
    BY <1>8 DEF Handler, SigintNotifyStop, SigintLog, SigintKill
  <1>9. CASE Poll  BY <1>9, PollFrame
  <1>10. CASE Backend  BY <1>10, BackendFrame
  <1>11. CASE Finished \/ UNCHANGED vars  BY <1>11, FinishedFrame DEF vars
  <1> QED
    BY <1>1, <1>2, <1>3, <1>4, <1>5, <1>6, <1>7, <1>8, <1>9, <1>10, <1>11
    DEF Next, Driver

\* The backend learns of a request in StartEnqueue, and each request goes there
\* once: the warm-up queries in one call, a sample when LoadGen issues it.
LEMMA KnownNext == IInv /\ [Next]_vars => KnownInv'
  <1> SUFFICES ASSUME IInv, [Next]_vars PROVE KnownInv'
    OBVIOUS
  <1> USE ReqsInRequests DEF IInv, TypeOK, KnownInv, Goto
  <1>1. CASE FlushCheck \/ FlushWait  BY <1>1 DEF FlushCheck, FlushWait
  <1>2. CASE FlushReturn  BY <1>2 DEF FlushReturn, AfterFlush, FlushInv
  <1>3. CASE EnterWarmup \/ LeaveWarmup \/ WarmEnqueueFails
    BY <1>3 DEF EnterWarmup, LeaveWarmup, WarmEnqueueFails
  <1>4. CASE WarmEnqueue
    BY <1>4, ReqsAssumption DEF WarmEnqueue, StartEnqueue
  <1>5. ASSUME NEW r \in TestReqs, Issue(r) PROVE KnownInv'
    BY <1>5 DEF Issue, StartEnqueue
  <1>6. CASE WarmAdd \/ IssueAdd
    BY <1>6 DEF WarmAdd, IssueAdd, FinishEnqueue
  <1>7. CASE (\E r \in TestReqs : IssueFails(r)) \/ LoadGenFlush \/ TestEnds
    BY <1>7 DEF IssueFails, LoadGenFlush, TestEnds
  <1>8. CASE NotifyStop \/ NotifyStopLog  BY <1>8 DEF NotifyStop, NotifyStopLog
  <1>9. CASE Handler
    BY <1>9 DEF Handler, SigintNotifyStop, SigintLog, SigintKill
  <1>10. CASE TrackResponse  BY <1>10 DEF TrackResponse
  <1>11. CASE Deliver  BY <1>11 DEF Deliver, CompleteCallback
  <1>12. CASE Finished \/ UNCHANGED vars  BY <1>12, FinishedFrame DEF vars
  <1>13. CASE Backend
    <2>1. UNCHANGED <<pending, enqueued, completions, issued, pollPc, cur, dpc>>
      BY <1>13, BackendFrame
    <2>2. \A r \in Requests : bst'[r] = "idle" <=> bst[r] = "idle"
      BY <1>13, BackendKnows
    <2> QED  BY <2>1, <2>2
  <1>14. CASE Poll /\ ~TrackResponse /\ ~Deliver
    BY <1>14, PollFrame
    DEF Poll, PollRead, PollNotify, PollCheckStop, PollBackend, SkipError, StreamChunk,
        WholeAnswer, HandledAll, DropWarmup, PollExit, PollSetExit, PollLastNotify
  <1> QED
    BY <1>1, <1>2, <1>3, <1>4, <1>5, <1>6, <1>7, <1>8, <1>9, <1>10, <1>11, <1>12,
       <1>13, <1>14 DEF Next, Driver

\* A request that is tracked has not been reported; TrackResponse removes it
\* before Deliver reports it.
LEMMA OnceNext == IInv /\ [Next]_vars => OnceInv'
  <1> SUFFICES ASSUME IInv, [Next]_vars PROVE OnceInv'
    OBVIOUS
  <1> USE DEF IInv, OnceInv
  <1>1. CASE WarmEnqueue
    <2>1. \A r \in WarmupReqs : r \in Requests /\ bst[r] = "idle"
      BY <1>1, ReqsInRequests DEF WarmEnqueue, KnownInv
    <2> QED  BY <1>1, <2>1, DriverFrame
             DEF WarmEnqueue, StartEnqueue, KnownInv, TypeOK, Driver
  <1>2. ASSUME NEW r \in TestReqs, Issue(r) PROVE OnceInv'
    <2>1. r \in Requests /\ bst[r] = "idle"
      BY <1>2, ReqsInRequests DEF Issue, KnownInv
    <2> QED  BY <1>2, <2>1 DEF Issue, StartEnqueue, KnownInv, TypeOK
  <1>3. CASE WarmAdd \/ IssueAdd
    BY <1>3 DEF WarmAdd, IssueAdd, FinishEnqueue
  <1>4. CASE FlushCheck \/ FlushWait \/ FlushReturn \/ EnterWarmup \/ WarmEnqueueFails
             \/ LeaveWarmup
    BY <1>4 DEF FlushCheck, FlushWait, FlushReturn, EnterWarmup, WarmEnqueueFails,
                LeaveWarmup
  <1>5. CASE (\E r \in TestReqs : IssueFails(r)) \/ LoadGenFlush \/ TestEnds
             \/ NotifyStop \/ NotifyStopLog
    BY <1>5 DEF IssueFails, LoadGenFlush, TestEnds, NotifyStop, NotifyStopLog
  <1>6. CASE Handler
    BY <1>6 DEF Handler, SigintNotifyStop, SigintLog, SigintKill
  <1>7. CASE TrackResponse
    BY <1>7 DEF TrackResponse, LockInv, Free, TypeOK
  <1>8. CASE Deliver
    <2>1. completions' = [completions EXCEPT ![cur.id] = @ + IF cur.final THEN 1 ELSE 0]
          /\ pollPc' # "deliver" /\ UNCHANGED <<pending, enqueued, cur>>
      BY <1>8 DEF Deliver, CompleteCallback
    <2>2. cur.id \in Requests /\ cur.final \in BOOLEAN
      BY DEF TypeOK
    <2>3. \A r \in Requests : completions[r] \in Nat
      BY DEF TypeOK
    <2>4. \A r \in Requests : completions'[r] <= 1
      BY <1>8, <2>1, <2>2, <2>3 DEF Deliver
    <2>5. \A r \in pending \cup enqueued : completions'[r] = 0
      BY <1>8, <2>1, <2>2, <2>3 DEF Deliver, TypeOK
    <2> QED  BY <2>1, <2>4, <2>5
  <1>9. CASE Backend  BY <1>9, BackendFrame
  <1>10. CASE Finished \/ UNCHANGED vars  BY <1>10, FinishedFrame DEF vars
  <1>11. CASE Poll /\ ~TrackResponse /\ ~Deliver
    BY <1>11, PollFrame
    DEF Poll, PollRead, PollNotify, PollCheckStop, PollBackend, SkipError, StreamChunk,
        WholeAnswer, HandledAll, DropWarmup, PollExit, PollSetExit, PollLastNotify
  <1> QED
    BY <1>1, <1>2, <1>3, <1>4, <1>5, <1>6, <1>7, <1>8, <1>9, <1>10, <1>11
    DEF Next, Driver

\* Error responses are only there after a failure, and the batch is empty
\* between polls.
LEMMA BatchNext == IInv /\ [Next]_vars => BatchInv'
  <1> SUFFICES ASSUME IInv, [Next]_vars PROVE BatchInv'
    OBVIOUS
  <1> USE DEF IInv, BatchInv
  <1>1. CASE Driver \/ Handler  BY <1>1, DriverFrame
  <1>2. CASE PollBackend
    <2>1. PICK n \in 0..Len(ready) :
              /\ batch' = SubSeq(ready, 1, n)
              /\ ready' = SubSeq(ready, n + 1, Len(ready))
      BY <1>2 DEF PollBackend
    <2>2. /\ Len(batch') = n /\ Len(ready') = Len(ready) - n
          /\ batch' \in Seq(Response) /\ ready' \in Seq(Response)
          /\ \A i \in 1..n : batch'[i] = ready[i]
          /\ \A i \in 1..(Len(ready) - n) : ready'[i] = ready[n + i]
      BY <2>1, SplitSeq DEF TypeOK
    <2> ready \in Seq(Response)
      BY DEF TypeOK
    <2> HIDE DEF IInv, BatchInv
    <2>3. /\ \A i \in DOMAIN batch' : i \in DOMAIN ready /\ batch'[i] = ready[i]
          /\ \A i \in DOMAIN ready' : n + i \in DOMAIN ready /\ ready'[i] = ready[n + i]
      <3>1. DOMAIN batch' = 1..n /\ DOMAIN ready' = 1..(Len(ready) - n)
            /\ DOMAIN ready = 1..Len(ready)
        BY <2>2
      <3> QED  BY <2>2, <3>1
    <2> USE DEF IInv, BatchInv
    <2> QED  BY <1>2, <2>3 DEF PollBackend
  <1>3. CASE SkipError \/ StreamChunk \/ WholeAnswer
    <2>1. batch # <<>> /\ batch' = Tail(batch) /\ pollPc = "handle"
          /\ UNCHANGED <<ready, nerr>> /\ pollPc' \in {"handle", "track"}
      BY <1>3 DEF SkipError, StreamChunk, WholeAnswer
    <2>2. \A i \in DOMAIN batch' : i + 1 \in DOMAIN batch /\ batch'[i] = batch[i + 1]
      BY <2>1, HeadTail DEF TypeOK
    <2> QED  BY <2>1, <2>2
  <1>4. CASE Poll /\ ~PollBackend /\ ~SkipError /\ ~StreamChunk /\ ~WholeAnswer
    BY <1>4 DEF Poll, PollRead, PollNotify, PollCheckStop, HandledAll, TrackResponse,
                DropWarmup, Deliver, PollExit, PollSetExit, PollLastNotify
  <1>5. ASSUME NEW r \in Requests, Generate(r) \/ RepeatFinal(r) PROVE BatchInv'
    <2>1. \E ts \in Seq({"tok"}), final \in BOOLEAN :
            ready' = Append(ready, [id |-> r, toks |-> ts, final |-> final,
                                    error |-> FALSE])
      BY <1>5, ChunkType, EmptySeqType, BoundsAssumption DEF Generate, RepeatFinal, Respond
    <2>2. PICK e \in Response : ready' = Append(ready, e) /\ e.error = FALSE
      BY <2>1, ResponseType
    <2>3. \A i \in DOMAIN ready' : ready'[i] = e \/ (i \in DOMAIN ready /\ ready'[i] = ready[i])
      <3>1. ready \in Seq(Response)
        BY DEF TypeOK
      <3> QED  BY <2>2, <3>1, Extended
    <2>4. UNCHANGED <<nerr, pollPc, batch>>
      BY <1>5 DEF Generate, RepeatFinal
    <2> QED  BY <2>2, <2>3, <2>4
  <1>6. ASSUME NEW r \in Requests, Fail(r) PROVE BatchInv'
    <2>1. nerr' # 0 /\ UNCHANGED <<pollPc, batch>>
      BY <1>6 DEF Fail, TypeOK
    <2> QED  BY <2>1
  <1>7. CASE Finished \/ UNCHANGED vars  BY <1>7, FinishedFrame DEF vars
  <1> QED
    BY <1>1, <1>2, <1>3, <1>4, <1>5, <1>6, <1>7 DEF Next, Backend

\* The way out: stop_work stays set, so nobody can enqueue once the poll thread
\* saw an empty pending_samples after its loop.
LEMMA ExitNext == IInv /\ [Next]_vars => ExitInv'
  <1> SUFFICES ASSUME IInv, [Next]_vars PROVE ExitInv'
    OBVIOUS
  <1> AssertsStop \in BOOLEAN /\ stopWork \in BOOLEAN /\ exited \in BOOLEAN
    BY FlagsAssumption DEF IInv, TypeOK
  <1> ExitInv /\ LockInv
    BY DEF IInv
  <1> USE DEF ExitInv, Goto
  <1>1. CASE WarmEnqueue \/ (\E r \in TestReqs : Issue(r))
    BY <1>1 DEF WarmEnqueue, Issue, StartEnqueue
  <1>2. CASE WarmAdd \/ IssueAdd
    BY <1>2 DEF WarmAdd, IssueAdd, FinishEnqueue, LockInv, Free
  <1>3. CASE FlushCheck \/ FlushWait \/ FlushReturn \/ EnterWarmup \/ WarmEnqueueFails
             \/ LeaveWarmup
    BY <1>3 DEF FlushCheck, FlushWait, FlushReturn, EnterWarmup, WarmEnqueueFails,
                LeaveWarmup
  <1>4. CASE (\E r \in TestReqs : IssueFails(r)) \/ LoadGenFlush \/ TestEnds
             \/ NotifyStop \/ NotifyStopLog
    BY <1>4 DEF IssueFails, LoadGenFlush, TestEnds, NotifyStop, NotifyStopLog
  <1>5. CASE Handler
    BY <1>5 DEF Handler, SigintNotifyStop, SigintLog, SigintKill
  <1>6. CASE PollRead \/ PollNotify \/ PollCheckStop \/ PollBackend \/ HandledAll
    BY <1>6 DEF PollRead, PollNotify, PollCheckStop, PollBackend, HandledAll
  <1>7. CASE SkipError \/ StreamChunk \/ WholeAnswer \/ TrackResponse \/ DropWarmup
             \/ Deliver
    BY <1>7 DEF SkipError, StreamChunk, WholeAnswer, TrackResponse, DropWarmup, Deliver
  <1>8. CASE PollExit
    BY <1>8 DEF PollExit, LockInv, Free
  <1>9. CASE PollSetExit \/ PollLastNotify
    BY <1>9 DEF PollSetExit, PollLastNotify
  <1>10. CASE Backend  BY <1>10, BackendFrame DEF coreVars
  <1>11. CASE Finished \/ UNCHANGED vars  BY <1>11, FinishedFrame DEF vars
  <1> QED
    BY <1>1, <1>2, <1>3, <1>4, <1>5, <1>6, <1>7, <1>8, <1>9, <1>10, <1>11
    DEF Next, Driver, Poll

\* A final response moves from the backend's queue to the poll's batch to the
\* response being looked up, and is lost on none of these moves.
LEMMA AnswerableNext == IInv /\ [Next]_vars => PendingIsAnswerable'
  <1> SUFFICES ASSUME IInv, [Next]_vars, nerr' = 0,
                      NEW r \in pending' \cup enqueued'
               PROVE  bst'[r] = "run" \/ FinalUnderWay(r)'
    BY DEF PendingIsAnswerable
  <1>a. batch \in Seq(Response) /\ ready \in Seq(Response)
    BY DEF IInv, TypeOK
  <1>b. r \in Requests /\ nerr = 0
    <2>1. pending' \subseteq Requests /\ enqueued' \subseteq Requests
      BY TypeNext DEF IInv, TypeOK
    <2>2. nerr = 0
      <3>1. nerr' = nerr \/ nerr' = nerr + 1
        BY DriverFrame, PollFrame, FinishedFrame
        DEF Next, Backend, Generate, RepeatFinal, Fail, vars
      <3> QED  BY <3>1 DEF IInv, TypeOK
    <2> QED  BY <2>1, <2>2
  <1>c. r \in pending \cup enqueued => bst[r] = "run" \/ FinalUnderWay(r)
    BY <1>b DEF IInv, PendingIsAnswerable
  <1>1. CASE Driver \/ Handler
    <2>1. UNCHANGED <<ready, batch, cur, pollPc>>
      BY <1>1, DriverFrame
    <2>2. \/ UNCHANGED bst /\ pending' \cup enqueued' \subseteq pending \cup enqueued
          \/ \E rs \in SUBSET Requests :
                /\ pending' = pending /\ enqueued' = rs
                /\ bst' = [q \in Requests |-> IF q \in rs THEN "run" ELSE bst[q]]
      BY <1>1, ReqsInRequests, ZenonT(40) DEF Driver, Handler, FlushCheck, FlushWait, FlushReturn,
         EnterWarmup, WarmEnqueue, WarmAdd, WarmEnqueueFails, LeaveWarmup, Issue,
         IssueFails, IssueAdd, LoadGenFlush, TestEnds, NotifyStop, NotifyStopLog,
         SigintNotifyStop, SigintLog, SigintKill, StartEnqueue, FinishEnqueue
    <2>3. r \in pending \cup enqueued \/ bst'[r] = "run"
      BY <2>2, <1>b
    <2>4. bst[r] = "run" => bst'[r] = "run"
      BY <2>2, <1>b
    <2> QED  BY <1>c, <2>1, <2>3, <2>4 DEF FinalUnderWay
  <1>2. CASE PollBackend
    <2>1. PICK n \in 0..Len(ready) :
              /\ batch' = SubSeq(ready, 1, n)
              /\ ready' = SubSeq(ready, n + 1, Len(ready))
      BY <1>2 DEF PollBackend
    <2>2. \A i \in DOMAIN ready :
                \/ i \in DOMAIN batch' /\ batch'[i] = ready[i]
                \/ i - n \in DOMAIN ready' /\ ready'[i - n] = ready[i]
      BY <1>a, <2>1, SplitSeq
    <2>3. batch = <<>> /\ UNCHANGED <<pending, enqueued, bst>> /\ pollPc = "poll"
      BY <1>2, PollFrame DEF PollBackend, IInv, BatchInv, Poll
    <2>4. (\E i \in DOMAIN ready : ready[i].id = r /\ ready[i].final)
            => FinalUnderWay(r)'
      BY <2>2 DEF FinalUnderWay
    <2> QED  BY <1>c, <2>3, <2>4 DEF FinalUnderWay
  <1>3. CASE SkipError \/ StreamChunk \/ WholeAnswer
    <2>1. batch # <<>> /\ batch' = Tail(batch) /\ pollPc = "handle"
          /\ UNCHANGED <<ready, pending, enqueued, bst>>
      BY <1>3 DEF SkipError, StreamChunk, WholeAnswer
    <2>2. /\ Head(batch) = batch[1] /\ 1 \in DOMAIN batch
          /\ \A i \in DOMAIN batch \ {1} :
                i - 1 \in DOMAIN batch' /\ batch'[i - 1] = batch[i]
      BY <1>a, <2>1, HeadTail
    <2>3. ~Head(batch).error
      BY <1>b, <2>2 DEF IInv, BatchInv
    <2>4. Head(batch).final => pollPc' = "track" /\ cur'.id = Head(batch).id /\ cur'.final
      BY <1>3, <2>3 DEF SkipError, StreamChunk, WholeAnswer
    <2>5. (\E i \in DOMAIN batch : batch[i].id = r /\ batch[i].final)
            => FinalUnderWay(r)'
      BY <2>2, <2>4 DEF FinalUnderWay
    <2> QED  BY <1>c, <2>1, <2>5 DEF FinalUnderWay
  <1>4. CASE TrackResponse
    <2>1. enqueued' = {} /\ pending' = (IF cur.final THEN pending \ {cur.id} ELSE pending)
          /\ UNCHANGED <<ready, batch, bst>>
      BY <1>4 DEF TrackResponse, IInv, LockInv
    <2> QED  BY <1>c, <2>1 DEF FinalUnderWay
  <1>5. CASE Poll /\ ~PollBackend /\ ~SkipError /\ ~StreamChunk /\ ~WholeAnswer
             /\ ~TrackResponse
    <2>1. UNCHANGED <<pending, enqueued, bst, ready, batch>> /\ pollPc # "track"
      BY <1>5 DEF Poll, PollRead, PollNotify, PollCheckStop, HandledAll, DropWarmup,
                  Deliver, PollExit, PollSetExit, PollLastNotify
    <2> QED  BY <1>c, <2>1 DEF FinalUnderWay
  <1>6. ASSUME NEW q \in Requests, Generate(q) \/ RepeatFinal(q)
        PROVE  bst'[r] = "run" \/ FinalUnderWay(r)'
    <2>1. UNCHANGED <<pending, enqueued, pollPc, batch, cur>>
      BY <1>6 DEF Generate, RepeatFinal
    <2>2. \E ts \in Seq({"tok"}), final \in BOOLEAN :
            /\ ready' = Append(ready, [id |-> q, toks |-> ts, final |-> final,
                                       error |-> FALSE])
            /\ bst' = bst \/ bst' = [bst EXCEPT ![q] = IF final THEN "end" ELSE "run"]
      BY <1>6, ChunkType, EmptySeqType, BoundsAssumption DEF Generate, RepeatFinal, Respond
    <2>3. PICK e \in Response : /\ ready' = Append(ready, e) /\ e.id = q
                                /\ bst' = bst \/ bst' = [bst EXCEPT ![q] =
                                        IF e.final THEN "end" ELSE "run"]
      BY <2>2, ResponseType
    <2>4. /\ \A i \in DOMAIN ready : i \in DOMAIN ready' /\ ready'[i] = ready[i]
          /\ \E i \in DOMAIN ready' : ready'[i] = e
      <3>1. PICK S : S = Response
        OBVIOUS
      <3>2. ready \in Seq(S) /\ e \in S
        BY <1>a, <3>1
      <3> QED  BY <2>3, <3>2, Extended
    <2>5. bst'[r] = bst[r] \/ (r = q /\ e.final) \/ bst'[r] = "run"
      BY <1>b, <2>3 DEF IInv, TypeOK
    <2>6. r = q /\ e.final => FinalUnderWay(r)'
      BY <2>3, <2>4 DEF FinalUnderWay
    <2>7. FinalUnderWay(r) => FinalUnderWay(r)'
      BY <2>1, <2>4 DEF FinalUnderWay
    <2> QED  BY <1>c, <2>1, <2>5, <2>6, <2>7
  <1>7. ASSUME NEW q \in Requests, Fail(q) PROVE FALSE
    BY <1>7, <1>b DEF Fail
  <1>8. CASE Finished \/ UNCHANGED vars
    BY <1>8, <1>c, FinishedFrame DEF vars, FinalUnderWay
  <1> QED  BY <1>1, <1>2, <1>3, <1>4, <1>5, <1>6, <1>7, <1>8 DEF Next, Backend

\* The inductive invariant holds at the start ...
LEMMA IInvInit == Init => IInv
  <1> SUFFICES ASSUME Init PROVE IInv
    OBVIOUS
  <1>1. TypeOK /\ FlushInv
    BY TypeInit
  <1>2. LockInv
    BY DEF Init, LockInv, Free
  <1>3. KnownInv
    BY ReqsInRequests DEF Init, KnownInv
  <1>4. OnceInv
    BY DEF Init, OnceInv
  <1>5. BatchInv /\ PendingIsAnswerable
    BY DEF Init, BatchInv, PendingIsAnswerable
  <1>6. ExitInv
    BY DEF Init, ExitInv
  <1> QED  BY <1>1, <1>2, <1>3, <1>4, <1>5, <1>6 DEF IInv

\* ... every step keeps it ...
LEMMA IInvNext == IInv /\ [Next]_vars => IInv'
  BY TypeNext, LockNext, KnownNext, OnceNext, BatchNext, ExitNext, AnswerableNext
  DEF IInv

\* ... so it always holds.
LEMMA IInvAlways == Spec => []IInv
  BY IInvInit, IInvNext, PTL DEF Spec

\* LoadGen hears of the end of a request at most once, and never while the core
\* still tracks it: for any requests, any chunking, failures, repeated final
\* responses and an interrupt at any point.
THEOREM CompletesOnce == Spec => []CompletedOnce
  <1>1. IInv => CompletedOnce
    BY DEF IInv, OnceInv, CompletedOnce, TypeOK
  <1> QED  BY <1>1, IInvAlways, PTL

\* As long as no request failed, the response that ends a tracked request is
\* still to be looked up: the lock of enqueue() loses none to the stale check.
THEOREM NoAnswerIsLost == Spec => []PendingIsAnswerable
  <1>1. IInv => PendingIsAnswerable
    BY DEF IInv
  <1> QED  BY <1>1, IInvAlways, PTL

\* A core that exited tracks nothing from then on, if its backend refuses work
\* after stop_work.
THEOREM ExitsForGood == Spec => []ExitIsFinal
  <1>1. IInv => ExitIsFinal
    BY DEF IInv, ExitInv, ExitIsFinal
  <1> QED  BY <1>1, IInvAlways, PTL

-----------------------------------------------------------------------------
\* The first token of a request: its key enters stream_output_toks with the
\* first chunk, and what is reported as a first token precedes every other
\* report about the request.
FirstInv ==
    /\ \A r \in Requests \ seen : firstTokens[r] = 0 /\ (Streaming => completions[r] = 0)
    /\ ~Streaming => ~cur.first
    /\ pollPc \in {"track", "deliver"} /\ cur.first =>
            firstTokens[cur.id] = 0 /\ completions[cur.id] = 0
    /\ pollPc \in {"track", "deliver"} /\ Streaming => cur.id \in seen

\* At the start no chunk has been seen.
LEMMA FirstInit == Init => FirstInv
  <1> SUFFICES ASSUME Init PROVE FirstInv
    OBVIOUS
  <1>1. PICK r \in Requests : cur = [id |-> r, first |-> FALSE, final |-> FALSE]
    BY DEF Init
  <1> QED  BY <1>1 DEF Init, FirstInv

\* A key enters stream_output_toks before anything is reported of its request, and
\* stays.
LEMMA FirstNext == IInv /\ FirstInv /\ [Next]_vars => FirstInv'
  <1> SUFFICES ASSUME IInv, FirstInv, [Next]_vars PROVE FirstInv'
    OBVIOUS
  <1> Streaming \in BOOLEAN /\ cur.first \in BOOLEAN
    BY FlagsAssumption DEF IInv, TypeOK
  <1> USE DEF FirstInv
  <1>1. CASE Driver \/ Handler  BY <1>1, DriverFrame
  <1>2. CASE Backend  BY <1>2, BackendFrame
  <1>3. CASE Finished \/ UNCHANGED vars  BY <1>3, FinishedFrame DEF vars
  <1>4. CASE StreamChunk
    <2>1. Head(batch).id \in Requests
      BY <1>4, HeadTail, ResponseFields DEF StreamChunk, IInv, TypeOK
    <2>2. /\ cur' = [id |-> Head(batch).id, first |-> Head(batch).id \notin seen,
                     final |-> Head(batch).final]
          /\ seen' = seen \cup {Head(batch).id}
          /\ UNCHANGED <<firstTokens, completions>> /\ Streaming
      BY <1>4 DEF StreamChunk
    <2> QED  BY <2>1, <2>2
  <1>5. CASE WholeAnswer  BY <1>5 DEF WholeAnswer
  <1>6. CASE Deliver
    <2>1. /\ firstTokens' = [firstTokens EXCEPT ![cur.id] =
                                @ + IF cur.first /\ (Dynamo \/ ~cur.final) THEN 1 ELSE 0]
          /\ completions' = [completions EXCEPT ![cur.id] = @ + IF cur.final THEN 1 ELSE 0]
          /\ UNCHANGED <<cur, seen>>
          /\ pollPc = "deliver" /\ pollPc' \in {"handle", "dead"}
      BY <1>6 DEF Deliver, CompleteCallback
    <2>2. cur.id \in Requests /\ firstTokens \in [Requests -> Nat]
          /\ completions \in [Requests -> Nat]
      BY DEF IInv, TypeOK
    <2>3. CASE Streaming
      BY <2>1, <2>2, <2>3
    <2>4. CASE ~Streaming
      <3>1. firstTokens' = firstTokens
        BY <2>1, <2>2, <2>4
      <3> QED  BY <2>1, <2>4, <3>1
    <2> QED  BY <2>3, <2>4
  <1>7. CASE Poll /\ ~StreamChunk /\ ~WholeAnswer /\ ~Deliver
    BY <1>7 DEF Poll, PollRead, PollNotify, PollCheckStop, PollBackend, SkipError,
       HandledAll, TrackResponse, DropWarmup, PollExit, PollSetExit, PollLastNotify
  <1> QED  BY <1>1, <1>2, <1>3, <1>4, <1>5, <1>6, <1>7 DEF Next

\* Every step of the core is a step of the contract or leaves its variables alone.
LEMMA ContractStep ==
  ASSUME WarmupReqs = {}
  PROVE  IInv /\ FirstInv /\ [Next]_vars => [Contract!Next]_(Contract!vars)
  <1> SUFFICES ASSUME IInv, FirstInv, [Next]_vars
               PROVE  [Contract!Next]_(Contract!vars)
    OBVIOUS
  <1>0. TestReqs = Requests
    BY DEF Requests
  <1>1. ASSUME NEW r \in TestReqs, Issue(r) \/ IssueFails(r)
        PROVE  [Contract!Next]_(Contract!vars)
    <2>1. Contract!Issue(r)
      BY <1>1 DEF Issue, IssueFails, StartEnqueue, Contract!Issue
    <2> QED  BY <1>0, <2>1 DEF Contract!Next
  <1>2. CASE Deliver
    <2>1. cur.id \in Requests /\ cur.final \in BOOLEAN /\ cur.first \in BOOLEAN
          /\ firstTokens \in [Requests -> Nat] /\ completions \in [Requests -> Nat]
      BY DEF IInv, TypeOK
    <2>2. cur.id \in issued
      BY <1>0, <1>2 DEF Deliver, IInv, KnownInv, TypeOK
    <2>3. cur.final => completions[cur.id] = 0
      BY <1>2 DEF Deliver, IInv, OnceInv
    <2>4. cur.first => firstTokens[cur.id] = 0 /\ completions[cur.id] = 0
      BY <1>2 DEF Deliver, FirstInv
    <2>5. /\ firstTokens' = [firstTokens EXCEPT ![cur.id] =
                                @ + IF cur.first /\ (Dynamo \/ ~cur.final) THEN 1 ELSE 0]
          /\ completions' = [completions EXCEPT ![cur.id] = @ + IF cur.final THEN 1 ELSE 0]
          /\ UNCHANGED issued
      BY <1>2 DEF Deliver, CompleteCallback
    <2> DEFINE firsts == IF cur.first /\ (Dynamo \/ ~cur.final) THEN 1 ELSE 0
               ends == IF cur.final THEN 1 ELSE 0
    <2>a. firsts = 1 /\ firstTokens[cur.id] = 0 =>
            firstTokens' = [firstTokens EXCEPT ![cur.id] = 1]
      <3>1. firstTokens' = [firstTokens EXCEPT ![cur.id] = @ + firsts]
        BY <2>5
      <3> HIDE DEF firsts
      <3> QED  BY <3>1, <2>1
    <2>b. ends = 1 => completions' = [completions EXCEPT ![cur.id] = 1]
      <3>1. completions' = [completions EXCEPT ![cur.id] = @ + ends]
        BY <2>5
      <3>2. ends = 1 => completions[cur.id] + ends = 1
        BY <2>3
      <3>3. completions' = [completions EXCEPT ![cur.id] = completions[cur.id] + ends]
        BY <3>1
      <3> HIDE DEF ends
      <3> QED  BY <3>2, <3>3
    <2>c. firsts = 0 => firstTokens' = firstTokens
      <3>1. firsts = 0 => firstTokens' = [firstTokens EXCEPT ![cur.id] = @ + 0]
        BY <2>5
      <3>2. [firstTokens EXCEPT ![cur.id] = @ + 0] = firstTokens
        BY <2>1
      <3> QED  BY <3>1, <3>2
    <2>d. ends = 0 => completions' = completions
      <3>1. ends = 0 => completions' = [completions EXCEPT ![cur.id] = @ + 0]
        BY <2>5
      <3>2. [completions EXCEPT ![cur.id] = @ + 0] = completions
        BY <2>1
      <3> QED  BY <3>1, <3>2
    <2>6. CASE cur.first /\ cur.final /\ Dynamo
      <3>1. firstTokens' = [firstTokens EXCEPT ![cur.id] = 1]
            /\ completions' = [completions EXCEPT ![cur.id] = 1]
        BY <2>a, <2>b, <2>4, <2>6
      <3>2. Contract!FirstTokenAndComplete(cur.id)
        BY <2>2, <2>4, <2>5, <2>6, <3>1 DEF Contract!FirstTokenAndComplete
      <3> QED  BY <2>1, <3>2 DEF Contract!Next
    <2>7. CASE cur.first /\ ~cur.final
      <3>1. firstTokens' = [firstTokens EXCEPT ![cur.id] = 1] /\ completions' = completions
        BY <2>a, <2>d, <2>4, <2>7
      <3>2. Contract!FirstToken(cur.id)
        BY <2>2, <2>4, <2>5, <2>7, <3>1 DEF Contract!FirstToken
      <3> QED  BY <2>1, <3>2 DEF Contract!Next
    <2>8. CASE cur.final /\ ~(cur.first /\ Dynamo)
      <3>1. firstTokens' = firstTokens /\ completions' = [completions EXCEPT ![cur.id] = 1]
        BY <2>b, <2>c, <2>8
      <3>2. Contract!Complete(cur.id)
        BY <2>2, <2>3, <2>5, <2>8, <3>1 DEF Contract!Complete
      <3> QED  BY <2>1, <3>2 DEF Contract!Next
    <2>9. CASE ~cur.first /\ ~cur.final
      <3>1. firstTokens' = firstTokens /\ completions' = completions
        BY <2>c, <2>d, <2>9
      <3> QED  BY <2>5, <3>1 DEF Contract!vars
    <2> QED  BY <2>1, <2>6, <2>7, <2>8, <2>9
  <1>3. CASE Driver /\ ~\E r \in TestReqs : Issue(r) \/ IssueFails(r)
    <2>1. UNCHANGED <<issued, firstTokens, completions>>
      BY <1>3 DEF Driver, FlushCheck, FlushWait, FlushReturn, EnterWarmup, WarmEnqueue,
         WarmAdd, WarmEnqueueFails, LeaveWarmup, IssueAdd, LoadGenFlush, TestEnds,
         NotifyStop, NotifyStopLog, FinishEnqueue
    <2> QED  BY <2>1 DEF Contract!vars
  <1>4. CASE Handler
    <2>1. UNCHANGED <<issued, firstTokens, completions>>
      BY <1>4 DEF Handler, SigintNotifyStop, SigintLog, SigintKill
    <2> QED  BY <2>1 DEF Contract!vars
  <1>5. CASE Poll /\ ~Deliver
    <2>1. UNCHANGED <<issued, firstTokens, completions>>
      BY <1>5 DEF Poll, PollRead, PollNotify, PollCheckStop, PollBackend, SkipError,
         StreamChunk, WholeAnswer, HandledAll, TrackResponse, DropWarmup, PollExit,
         PollSetExit, PollLastNotify
    <2> QED  BY <2>1 DEF Contract!vars
  <1>6. CASE Backend  BY <1>6, BackendFrame DEF Contract!vars
  <1>7. CASE Finished \/ UNCHANGED vars  BY <1>7, FinishedFrame DEF vars, Contract!vars
  <1> QED  BY <1>1, <1>2, <1>3, <1>4, <1>5, <1>6, <1>7 DEF Next

\* Run without warm-up queries, a core keeps LoadGen's contract: it reports
\* only what LoadGen issued, a first token at most once and first, an end at
\* most once; whatever the backend sends, whatever fails, interrupted or not.
THEOREM ImplementsContract == (WarmupReqs = {}) => (Spec => KeepsContract)
  <1> SUFFICES ASSUME WarmupReqs = {} PROVE Spec => KeepsContract
    OBVIOUS
  <1>1. Init => Contract!Init
    BY DEF Init, Contract!Init
  <1>2. Spec => []FirstInv
    BY FirstInit, FirstNext, IInvAlways, PTL DEF Spec
  <1>3. IInv /\ FirstInv /\ [Next]_vars => [Contract!Next]_(Contract!vars)
    BY ContractStep
  <1> QED  BY <1>1, <1>2, <1>3, IInvAlways, PTL DEF Spec, KeepsContract, Contract!Spec

-----------------------------------------------------------------------------
\* Nothing is said about a request the backend does not know.
AnsweredInv ==
    /\ \A i \in DOMAIN ready : bst[ready[i].id] # "idle"
    /\ \A i \in DOMAIN batch : bst[batch[i].id] # "idle"
    /\ \A r \in seen : bst[r] # "idle"
    /\ pollPc = "track" => bst[cur.id] # "idle"

\* The requests the backend knows stay known.
LEMMA StaysKnown ==
  IInv /\ [Next]_vars => \A r \in Requests : bst[r] # "idle" => bst'[r] # "idle"
  <1> SUFFICES ASSUME IInv, [Next]_vars, NEW r \in Requests, bst[r] # "idle"
               PROVE  bst'[r] # "idle"
    OBVIOUS
  <1>1. CASE Driver \/ Handler
    <2>1. \/ UNCHANGED bst
          \/ \E rs \in SUBSET Requests :
                bst' = [q \in Requests |-> IF q \in rs THEN "run" ELSE bst[q]]
      BY <1>1, ReqsInRequests, ZenonT(40) DEF Driver, Handler, FlushCheck, FlushWait,
         FlushReturn, EnterWarmup, WarmEnqueue, WarmAdd, WarmEnqueueFails, LeaveWarmup,
         Issue, IssueFails, IssueAdd, LoadGenFlush, TestEnds, NotifyStop, NotifyStopLog,
         SigintNotifyStop, SigintLog, SigintKill, StartEnqueue, FinishEnqueue
    <2> QED  BY <2>1
  <1>2. CASE Poll  BY <1>2, PollFrame
  <1>3. CASE Backend  BY <1>3, BackendKnows DEF IInv
  <1>4. CASE Finished \/ UNCHANGED vars  BY <1>4, FinishedFrame DEF vars
  <1> QED  BY <1>1, <1>2, <1>3, <1>4 DEF Next

\* The backend answers only requests that it runs or has just ended.
LEMMA BackendAnswers ==
  ASSUME IInv, NEW q \in Requests, Generate(q) \/ RepeatFinal(q) \/ Fail(q)
  PROVE  /\ bst[q] # "idle"
         /\ \E e \in Response : ready' = Append(ready, e) /\ e.id = q
         /\ UNCHANGED <<coreVars, pollVars, driverVars, loadgenVars>>
  <1>1. bst[q] # "idle" /\ UNCHANGED <<coreVars, pollVars, driverVars, loadgenVars>>
    BY DEF Generate, RepeatFinal, Fail
  <1>2. \E ts \in Seq({"tok"}), final \in BOOLEAN, error \in BOOLEAN :
            ready' = Append(ready, [id |-> q, toks |-> ts, final |-> final,
                                    error |-> error])
    BY ChunkType, EmptySeqType, BoundsAssumption DEF Generate, RepeatFinal, Fail, Respond
  <1>3. \E e \in Response : ready' = Append(ready, e) /\ e.id = q
    BY <1>2, ResponseType
  <1> QED  BY <1>1, <1>3

\* No party speaks of a request before enqueue() handed it to the backend.
LEMMA AnsweredNext == IInv /\ AnsweredInv /\ [Next]_vars => AnsweredInv'
  <1> SUFFICES ASSUME IInv, AnsweredInv, [Next]_vars PROVE AnsweredInv'
    OBVIOUS
  <1>a. /\ batch \in Seq(Response) /\ ready \in Seq(Response)
        /\ seen \subseteq Requests /\ cur.id \in Requests
    BY DEF IInv, TypeOK
  <1>b. \A r \in Requests : bst[r] # "idle" => bst'[r] # "idle"
    BY StaysKnown
  <1>c. /\ \A i \in DOMAIN ready : ready[i].id \in Requests
        /\ \A i \in DOMAIN batch : batch[i].id \in Requests
    BY <1>a, ElementType, ResponseFields
  <1> USE DEF AnsweredInv
  <1>1. CASE Driver \/ Handler
    BY <1>1, <1>a, <1>b, <1>c, DriverFrame
  <1>2. CASE PollBackend
    <2>1. PICK n \in 0..Len(ready) :
              /\ batch' = SubSeq(ready, 1, n)
              /\ ready' = SubSeq(ready, n + 1, Len(ready))
      BY <1>2 DEF PollBackend
    <2>2. /\ \A i \in DOMAIN batch' : i \in DOMAIN ready /\ batch'[i] = ready[i]
          /\ \A i \in DOMAIN ready' : n + i \in DOMAIN ready /\ ready'[i] = ready[n + i]
      <3>1. /\ batch' \in Seq(Response) /\ ready' \in Seq(Response)
            /\ Len(batch') = n /\ Len(ready') = Len(ready) - n
            /\ \A i \in 1..n : batch'[i] = ready[i]
            /\ \A i \in 1..(Len(ready) - n) : ready'[i] = ready[n + i]
        BY <1>a, <2>1, SplitSeq
      <3>2. DOMAIN batch' = 1..n /\ DOMAIN ready' = 1..(Len(ready) - n)
            /\ DOMAIN ready = 1..Len(ready)
        BY <1>a, <3>1
      <3> QED  BY <3>1, <3>2
    <2>3. UNCHANGED <<bst, seen>> /\ pollPc' = "handle"
      BY <1>2 DEF PollBackend
    <2> QED  BY <2>2, <2>3
  <1>3. CASE SkipError \/ StreamChunk \/ WholeAnswer
    <2>1. /\ batch # <<>> /\ batch' = Tail(batch) /\ pollPc = "handle"
          /\ UNCHANGED <<ready, bst>> /\ seen' \subseteq seen \cup {Head(batch).id}
          /\ pollPc' = "track" => cur'.id = Head(batch).id
      BY <1>3 DEF SkipError, StreamChunk, WholeAnswer
    <2>2. /\ Head(batch) = batch[1] /\ 1 \in DOMAIN batch
          /\ \A i \in DOMAIN batch' : i + 1 \in DOMAIN batch /\ batch'[i] = batch[i + 1]
      BY <1>a, <2>1, HeadTail
    <2> QED  BY <2>1, <2>2
  <1>4. CASE Poll /\ ~PollBackend /\ ~SkipError /\ ~StreamChunk /\ ~WholeAnswer
    <2>1. UNCHANGED <<ready, batch, bst, seen, cur>> /\ pollPc' # "track"
      BY <1>4 DEF Poll, PollRead, PollNotify, PollCheckStop, HandledAll, TrackResponse,
                  DropWarmup, Deliver, PollExit, PollSetExit, PollLastNotify
    <2> QED  BY <2>1
  <1>5. ASSUME NEW q \in Requests, Generate(q) \/ RepeatFinal(q) \/ Fail(q)
        PROVE  AnsweredInv'
    <2>1. bst[q] # "idle" /\ UNCHANGED <<batch, seen, cur, pollPc>>
      BY <1>5, BackendAnswers
    <2>2. PICK e \in Response : ready' = Append(ready, e) /\ e.id = q
      BY <1>5, BackendAnswers
    <2>3. \A i \in DOMAIN ready' : ready'[i] = e \/ (i \in DOMAIN ready /\ ready'[i] = ready[i])
      BY <1>a, <2>2, Extended
    <2> QED  BY <1>a, <1>b, <1>c, <2>1, <2>2, <2>3
  <1>6. CASE Finished \/ UNCHANGED vars  BY <1>6, FinishedFrame DEF vars
  <1> QED  BY <1>1, <1>2, <1>3, <1>4, <1>5, <1>6 DEF Next, Backend

\* At the start nothing has been said.
LEMMA AnsweredInit == Init => AnsweredInv
  BY DEF Init, AnsweredInv

-----------------------------------------------------------------------------
\* Without warm-up queries the core is never in warm-up mode ...
NoWarmupInv == dpc \notin WarmPcs /\ ~inWarmup

\* ... and then a request whose first chunk was looked up while it was tracked
\* has its key in first_token_latencies when its end is reported.
Tracked(r) == r \in pending \cup enqueued \/ (pollPc = "deliver" /\ cur.id = r)

FirstUnderWay(r) == pollPc \in {"track", "deliver"} /\ cur.id = r /\ cur.first

LatencyInv ==
    \A r \in seen : Tracked(r) /\ ~FirstUnderWay(r) => r \in firstLat

\* Without warm-up queries the driver never enters the warm-up.
LEMMA NoWarmupNext ==
  ASSUME WarmupReqs = {}
  PROVE  /\ Init => NoWarmupInv
         /\ FlushInv /\ NoWarmupInv /\ [Next]_vars => NoWarmupInv'
  <1> USE DEF NoWarmupInv, WarmPcs, Goto
  <1>1. Init => NoWarmupInv
    BY DEF Init
  <1>2. ASSUME FlushInv, NoWarmupInv, [Next]_vars PROVE NoWarmupInv'
    <2>1. CASE FlushReturn
      BY <1>2, <2>1 DEF FlushReturn, AfterFlush, FlushInv
    <2>2. CASE Driver /\ ~FlushReturn
      BY <1>2, <2>2 DEF Driver, FlushCheck, FlushWait, EnterWarmup, WarmEnqueue, WarmAdd,
         WarmEnqueueFails, LeaveWarmup, Issue, IssueFails, IssueAdd, LoadGenFlush,
         TestEnds, NotifyStop, NotifyStopLog, StartEnqueue, FinishEnqueue
    <2>3. CASE Handler
      BY <1>2, <2>3 DEF Handler, SigintNotifyStop, SigintLog, SigintKill
    <2>4. CASE Poll  BY <1>2, <2>4, PollFrame
    <2>5. CASE Backend  BY <1>2, <2>5, BackendFrame
    <2>6. CASE Finished \/ UNCHANGED vars  BY <1>2, <2>6, FinishedFrame DEF vars
    <2> QED  BY <1>2, <2>1, <2>2, <2>3, <2>4, <2>5, <2>6 DEF Next
  <1> QED  BY <1>1, <1>2

\* The first report puts the key into first_token_latencies; a request that is
\* not tracked any more is never tracked again.
LEMMA LatencyNext ==
  IInv /\ AnsweredInv /\ NoWarmupInv /\ LatencyInv /\ [Next]_vars => LatencyInv'
  <1> SUFFICES ASSUME IInv, AnsweredInv, NoWarmupInv, LatencyInv, [Next]_vars,
                      NEW r \in seen', Tracked(r)', ~FirstUnderWay(r)'
               PROVE  r \in firstLat'
    BY DEF LatencyInv
  <1>a. r \in seen /\ Tracked(r) /\ ~FirstUnderWay(r) => r \in firstLat
    BY DEF LatencyInv
  <1>b. cur.final \in BOOLEAN /\ cur.first \in BOOLEAN
    BY DEF IInv, TypeOK
  <1>1. CASE Driver \/ Handler
    <2>1. UNCHANGED <<seen, firstLat, cur, pollPc>>
      BY <1>1, DriverFrame
    <2>2. r \in Requests /\ bst[r] # "idle"
      BY <2>1 DEF AnsweredInv, IInv, TypeOK
    <2>3. \/ pending' \cup enqueued' \subseteq pending \cup enqueued
          \/ pending' = pending /\ enqueued' = WarmupReqs /\ dpc = "warmEnqueue"
          \/ \E q \in TestReqs : pending' = pending /\ enqueued' = {q} /\ q \notin issued
      BY <1>1, ZenonT(40) DEF Driver, Handler, FlushCheck, FlushWait, FlushReturn,
         EnterWarmup, WarmEnqueue, WarmAdd, WarmEnqueueFails, LeaveWarmup, Issue,
         IssueFails, IssueAdd, LoadGenFlush, TestEnds, NotifyStop, NotifyStopLog,
         SigintNotifyStop, SigintLog, SigintKill, StartEnqueue, FinishEnqueue
    <2>4. dpc # "warmEnqueue"
      BY DEF NoWarmupInv, WarmPcs
    <2>5. \A q \in TestReqs : q \notin issued => bst[q] = "idle"
      BY DEF IInv, KnownInv
    <2>6. r \in pending' \cup enqueued' => r \in pending \cup enqueued
      BY <2>2, <2>3, <2>4, <2>5
    <2> QED  BY <1>a, <2>1, <2>6 DEF Tracked, FirstUnderWay
  <1>2. CASE StreamChunk
    <2>1. /\ pollPc = "handle" /\ UNCHANGED <<pending, enqueued, firstLat>>
          /\ seen' = seen \cup {Head(batch).id} /\ pollPc' \in {"track", "handle"}
          /\ cur'.id = Head(batch).id /\ cur'.first = (Head(batch).id \notin seen)
          /\ Head(batch).id \notin seen => pollPc' = "track"
      BY <1>2 DEF StreamChunk
    <2> QED  BY <1>a, <2>1 DEF Tracked, FirstUnderWay
  <1>3. CASE TrackResponse
    <2>1. /\ pollPc = "track" /\ UNCHANGED <<seen, firstLat, cur, enqueued>>
          /\ pollPc' = IF cur.id \in pending THEN "deliver" ELSE "handle"
          /\ pending' = IF cur.final THEN pending \ {cur.id} ELSE pending
          /\ lock = Free
      BY <1>3 DEF TrackResponse
    <2>2. enqueued = {}
      BY <2>1 DEF IInv, LockInv
    <2> QED  BY <1>a, <2>1, <2>2 DEF Tracked, FirstUnderWay
  <1>4. CASE Deliver
    <2>1. /\ pollPc = "deliver" /\ UNCHANGED <<seen, cur, pending, enqueued>>
          /\ firstLat' = IF cur.first THEN firstLat \cup {cur.id} ELSE firstLat
          /\ pollPc' \in {"dead", "handle"}
      BY <1>4 DEF Deliver
    <2> QED  BY <1>a, <2>1 DEF Tracked, FirstUnderWay
  <1>5. CASE DropWarmup
    BY <1>5 DEF DropWarmup, NoWarmupInv
  <1>6. CASE Poll /\ ~StreamChunk /\ ~TrackResponse /\ ~Deliver /\ ~DropWarmup
    <2>1. UNCHANGED <<seen, pending, enqueued, firstLat>>
          /\ pollPc \notin {"track", "deliver"} /\ pollPc' # "deliver"
      BY <1>6 DEF Poll, PollRead, PollNotify, PollCheckStop, PollBackend, SkipError,
                  WholeAnswer, HandledAll, PollExit, PollSetExit, PollLastNotify
    <2> QED  BY <1>a, <2>1 DEF Tracked, FirstUnderWay
  <1>7. CASE Backend
    BY <1>a, <1>7, BackendFrame DEF Tracked, FirstUnderWay
  <1>8. CASE Finished \/ UNCHANGED vars
    BY <1>a, <1>8, FinishedFrame DEF vars, Tracked, FirstUnderWay
  <1> QED  BY <1>1, <1>2, <1>3, <1>4, <1>5, <1>6, <1>7, <1>8 DEF Next

\* At the start no request has been seen.
LEMMA LatencyInit == Init => LatencyInv
  BY DEF Init, LatencyInv

\* The poll thread dies only in its final assertion, which comes after
\* stop_work: no KeyError on first_token_latencies kills it earlier.
LEMMA RunsNext ==
  IInv /\ FirstInv /\ (Streaming => NoWarmupInv /\ LatencyInv)
  /\ PollRunsUntilStop /\ [Next]_vars => PollRunsUntilStop'
  <1> SUFFICES ASSUME IInv, FirstInv, Streaming => NoWarmupInv /\ LatencyInv,
                      PollRunsUntilStop, [Next]_vars
               PROVE  PollRunsUntilStop'
    OBVIOUS
  <1> USE DEF PollRunsUntilStop
  <1>1. CASE Driver \/ Handler
    <2>1. pollPc' = pollPc
      BY <1>1, DriverFrame
    <2>2. stopWork => stopWork'
      BY <1>1, ZenonT(40) DEF Driver, Handler, FlushCheck, FlushWait, FlushReturn,
         EnterWarmup, WarmEnqueue, WarmAdd, WarmEnqueueFails, LeaveWarmup, Issue,
         IssueFails, IssueAdd, LoadGenFlush, TestEnds, NotifyStop, NotifyStopLog,
         SigintNotifyStop, SigintLog, SigintKill, StartEnqueue, FinishEnqueue
    <2> QED  BY <2>1, <2>2
  <1>2. CASE Deliver
    <2>1. /\ pollPc = "deliver" /\ cur.id \in Requests
          /\ pollPc' = IF Streaming /\ cur.final /\ cur.id \notin
                            (IF cur.first THEN firstLat \cup {cur.id} ELSE firstLat)
                       THEN "dead" ELSE "handle"
      BY <1>2 DEF Deliver, IInv, TypeOK
    <2>2. Streaming => cur.id \in seen
      BY <2>1 DEF FirstInv
    <2>3. Streaming /\ ~cur.first => cur.id \in firstLat
      BY <2>1, <2>2 DEF LatencyInv, Tracked, FirstUnderWay
    <2>4. pollPc' = "handle"
      BY <2>1, <2>3
    <2> QED  BY <2>4
  <1>3. CASE PollExit
    BY <1>3 DEF PollExit, IInv, ExitInv
  <1>4. CASE Poll /\ ~Deliver /\ ~PollExit
    BY <1>4, SMTT(30) DEF Poll, PollRead, PollNotify, PollCheckStop, PollBackend, SkipError,
       StreamChunk, WholeAnswer, HandledAll, TrackResponse, DropWarmup, PollSetExit,
       PollLastNotify
  <1>5. CASE Backend  BY <1>5, BackendFrame
  <1>6. CASE Finished \/ UNCHANGED vars  BY <1>6, FinishedFrame DEF vars
  <1> QED  BY <1>1, <1>2, <1>3, <1>4, <1>5, <1>6 DEF Next

\* The poll thread starts alive.
LEMMA RunsInit == Init => PollRunsUntilStop
  BY DEF Init, PollRunsUntilStop

\* Run without warm-up queries, or without streaming, the poll thread lives
\* until notify_stop(): whatever the backend sends and whatever fails, the
\* book-keeping of the latencies never kills it.
THEOREM RunsUntilStop ==
  (~Streaming \/ WarmupReqs = {}) => (Spec => []PollRunsUntilStop)
  <1>1. Spec => []FirstInv
    BY FirstInit, FirstNext, IInvAlways, PTL DEF Spec
  <1>2. ASSUME ~Streaming PROVE Spec => []PollRunsUntilStop
    <2>1. IInv /\ FirstInv /\ PollRunsUntilStop /\ [Next]_vars => PollRunsUntilStop'
      BY <1>2, RunsNext
    <2> QED  BY <1>1, <2>1, RunsInit, IInvAlways, PTL DEF Spec
  <1>3. ASSUME WarmupReqs = {} PROVE Spec => []PollRunsUntilStop
    <2>1. Spec => []NoWarmupInv
      <3>1. Init => NoWarmupInv
        BY <1>3, NoWarmupNext
      <3>2. IInv /\ NoWarmupInv /\ [Next]_vars => NoWarmupInv'
        BY <1>3, NoWarmupNext DEF IInv
      <3> QED  BY <3>1, <3>2, IInvAlways, PTL DEF Spec
    <2>2. Spec => []AnsweredInv
      BY AnsweredInit, AnsweredNext, IInvAlways, PTL DEF Spec
    <2>3. Spec => []LatencyInv
      BY <2>1, <2>2, LatencyInit, LatencyNext, IInvAlways, PTL DEF Spec
    <2>4. NoWarmupInv /\ LatencyInv /\ IInv /\ FirstInv /\ PollRunsUntilStop
          /\ [Next]_vars => PollRunsUntilStop'
      BY RunsNext
    <2> QED  BY <1>1, <2>1, <2>3, <2>4, RunsInit, IInvAlways, PTL DEF Spec
  <1> QED  BY <1>2, <1>3

-----------------------------------------------------------------------------
\* What LoadGen is given for a stream is put together chunk by chunk, so the
\* proof follows the chunks on their way: n[i] tokens of request r have been
\* generated before the i-th response in Q, all of them when the last one has
\* been handled, and `told' is what stream_output_toks holds before the first.
\* The backend generated `all' and is in state st.
Accounts(r, Q, told, all, st, n) ==
    /\ n[1] = Len(told) /\ n[Len(Q) + 1] = Len(all) /\ Len(all) >= 2
    /\ \A i \in 1..(Len(Q) + 1) : n[i] = 0 \/ n[i] >= 2
    /\ \A i \in 1..Len(Q) : Q[i].id # r => n[i + 1] = n[i]
    /\ \A i \in 1..Len(Q) : Q[i].id = r =>
        /\ n[i + 1] = n[i] + Len(Q[i].toks)
        /\ n[i] = 0 => Len(Q[i].toks) >= 2
        /\ Q[i].error => Q[i].toks = <<>>
        /\ Q[i].final => st = "end" /\ n[i + 1] = Len(all)

Accounted(r, Q, told, all, st) ==
    /\ told \in Seq({"tok"})
    /\ \E n \in [1..(Len(Q) + 1) -> Nat] : Accounts(r, Q, told, all, st, n)

\* A request that failed with its first response generated nothing; one that
\* was not answered yet has nothing on its way.
Silent(r, Q, told, all, st, k) ==
    /\ all = <<>>
    /\ \/ /\ st = "end" /\ told \in {<<>>, <<"BOS", "EOS">>}
          /\ \A i \in 1..Len(Q) : Q[i].id = r => Q[i].toks = <<>>
       \/ /\ k = 0 /\ told = <<>>
          /\ \A i \in 1..Len(Q) : Q[i].id # r

\* Without streaming one response carries everything.
Whole(r, Q, all, st) ==
    /\ st # "end" => all = <<>>
    /\ \A i \in 1..Len(Q) : Q[i].id = r /\ ~Q[i].error => st = "end" /\ Q[i].toks = all

\* Generated tokens differ in number only.
LEMMA SameTokens ==
  ASSUME NEW s \in Seq({"tok"}), NEW t \in Seq({"tok"}), Len(s) = Len(t)
  PROVE  s = t
  OBVIOUS

\* Tokens joined to tokens are tokens.
LEMMA JoinTokens ==
  ASSUME NEW s \in Seq({"tok"}), NEW t \in Seq({"tok"})
  PROVE  s \o t \in Seq({"tok"}) /\ Len(s \o t) = Len(s) + Len(t)
  OBVIOUS

\* A concatenation is as long as its parts.
LEMMA JoinLength ==
  ASSUME NEW S, NEW f \in Seq(S), NEW b \in Seq(S)
  PROVE  f \o b \in Seq(S) /\ Len(f \o b) = Len(f) + Len(b)
  OBVIOUS

\* Padding adds nothing to two tokens or more, and two tokens to none.
LEMMA PaddedLong ==
  ASSUME NEW s, s # <<>>, Len(s) \in Nat, Len(s) >= 2
  PROVE  Padded(s) = s
  BY DEF Padded, PadWith

\* Padding an empty answer gives two tokens, and padding them again changes
\* nothing.
LEMMA PaddedNone ==
  /\ Padded(<<>>) = <<"BOS", "EOS">>
  /\ Padded(<<"BOS", "EOS">>) = <<"BOS", "EOS">>
  /\ <<"BOS", "EOS">> \o <<>> = <<"BOS", "EOS">>
  /\ <<>> \o <<>> = <<>>
  <1>1. Append(<<"BOS">>, "EOS") = <<"BOS", "EOS">>
    BY AppendTwo
  <1>2. Len(<<"BOS">>) = 1 /\ Len(<<"BOS", "EOS">>) = 2 /\ <<"BOS", "EOS">> # <<>>
    OBVIOUS
  <1>3. Padded(<<>>) = <<"BOS", "EOS">>
    BY <1>1, <1>2 DEF Padded, PadWith
  <1>4. Padded(<<"BOS", "EOS">>) = <<"BOS", "EOS">>
    BY <1>2, PaddedLong
  <1>5. <<"BOS", "EOS">> \in Seq({"BOS", "EOS"}) /\ <<>> \in Seq({"BOS", "EOS"})
    OBVIOUS
  <1>6. \A s \in Seq({"BOS", "EOS"}) : s \o <<>> = s
    OBVIOUS
  <1> QED  BY <1>3, <1>4, <1>5, <1>6

\* Two sequences that agree with the two parts of q are q when joined.
LEMMA JoinSplit ==
  ASSUME NEW S, NEW q \in Seq(S), NEW n \in 0..Len(q), NEW f \in Seq(S), NEW b \in Seq(S),
         Len(f) = n, Len(b) = Len(q) - n,
         \A i \in 1..n : f[i] = q[i], \A i \in 1..(Len(q) - n) : b[i] = q[n + i]
  PROVE  f \o b = q
  <1>1. Len(q) \in Nat /\ n \in Nat /\ n <= Len(q)
    OBVIOUS
  <1>a. f \o b \in Seq(S)
    OBVIOUS
  <1>2. Len(f \o b) = Len(q)
    <2>1. Len(f \o b) = Len(f) + Len(b)
      BY JoinLength
    <2> QED  BY <1>1, <2>1
  <1>3. \A i \in 1..Len(q) : (f \o b)[i] = q[i]
    <2> SUFFICES ASSUME NEW i \in 1..Len(q) PROVE (f \o b)[i] = q[i]
      OBVIOUS
    <2>1. CASE i <= n
      <3>1. (f \o b)[i] = f[i]
        BY <1>1, <2>1
      <3> QED  BY <1>1, <2>1, <3>1
    <2>2. CASE i > n
      <3>1. PICK j \in 1..(Len(q) - n) : i = n + j
        <4>1. i - n \in 1..(Len(q) - n) /\ i = n + (i - n)
          BY <1>1, <2>2
        <4> QED  BY <4>1
      <3>2. (f \o b)[i] = b[j]
        BY <1>1, <3>1
      <3> QED  BY <3>1, <3>2
    <2> QED  BY <1>1, <2>1, <2>2
  <1>4. PICK g : g = f \o b
    OBVIOUS
  <1>5. g \in Seq(S) /\ Len(g) = Len(q) /\ \A i \in 1..Len(q) : g[i] = q[i]
    BY <1>a, <1>2, <1>3, <1>4
  <1>6. g = q
    BY <1>5
  <1> QED  BY <1>4, <1>6

\* The responses under way: those of this poll, then those to come.
LEMMA QueueSplit ==
  ASSUME NEW S, NEW q \in Seq(S), NEW n \in 0..Len(q)
  PROVE  SubSeq(q, 1, n) \o SubSeq(q, n + 1, Len(q)) = <<>> \o q
  <1>1. PICK f, b : f = SubSeq(q, 1, n) /\ b = SubSeq(q, n + 1, Len(q))
    OBVIOUS
  <1>2. /\ f \in Seq(S) /\ b \in Seq(S)
        /\ Len(f) = n /\ Len(b) = Len(q) - n
        /\ \A i \in 1..n : f[i] = q[i]
        /\ \A i \in 1..(Len(q) - n) : b[i] = q[n + i]
    BY <1>1, SplitSeq
  <1>3. f \o b = q
    BY <1>2, JoinSplit
  <1>4. <<>> \o q = q
    OBVIOUS
  <1> QED  BY <1>1, <1>3, <1>4

\* Taking the first response shifts the others.
LEMMA QueueDrop ==
  ASSUME NEW S, NEW b \in Seq(S), NEW q \in Seq(S), b # <<>>
  PROVE  /\ b \o q \in Seq(S) /\ Tail(b) \o q \in Seq(S)
         /\ Len(b \o q) = Len(Tail(b) \o q) + 1 /\ (b \o q)[1] = Head(b)
         /\ \A i \in 1..Len(Tail(b) \o q) : (Tail(b) \o q)[i] = (b \o q)[i + 1]
  OBVIOUS

\* A response that joins the queue comes last.
LEMMA QueueAppend ==
  ASSUME NEW S, NEW b \in Seq(S), NEW q \in Seq(S), NEW e \in S
  PROVE  /\ b \o q \in Seq(S) /\ b \o Append(q, e) \in Seq(S)
         /\ Len(b \o Append(q, e)) = Len(b \o q) + 1
         /\ (b \o Append(q, e))[Len(b \o q) + 1] = e
         /\ \A i \in 1..Len(b \o q) : (b \o Append(q, e))[i] = (b \o q)[i]
  OBVIOUS

\* What is true when the first response in Q is of r and its tokens are joined.
Joined(r, Q, Q2, told, all, st, told2) ==
    /\ told2 = told \o Q[1].toks
    /\ Accounted(r, Q2, told2, all, st)
    /\ Len(told2) >= 2
    /\ Q[1].error => told2 = told
    /\ Q[1].final => st = "end" /\ told2 = all

\* A response e of r leaves the backend in state st2, and adds nothing if the
\* backend was done.
Follows(e, st, st2) ==
    /\ st = "end" => st2 = "end" /\ e.toks = <<>>
    /\ e.error => e.toks = <<>>
    /\ e.final => st2 = "end"

\* The first response in Q is handled.
LEMMA AccountsDrop ==
  ASSUME NEW r, NEW Q \in Seq(Response), NEW Q2 \in Seq(Response), Len(Q) = Len(Q2) + 1,
         \A i \in 1..Len(Q2) : Q2[i] = Q[i + 1],
         NEW told, NEW all \in Seq({"tok"}), NEW st,
         Accounted(r, Q, told, all, st)
  PROVE  /\ Q[1].id # r => Accounted(r, Q2, told, all, st)
         /\ Q[1].id = r => Joined(r, Q, Q2, told, all, st, told \o Q[1].toks)
  <1>1. PICK n \in [1..(Len(Q) + 1) -> Nat] : Accounts(r, Q, told, all, st, n)
    BY DEF Accounted
  <1>2. told \in Seq({"tok"}) /\ Len(told) = n[1] /\ Len(told) \in Nat
    BY <1>1 DEF Accounted, Accounts
  <1>3. Len(Q) \in Nat /\ Len(Q2) \in Nat /\ 1 \in 1..Len(Q)
    OBVIOUS
  <1>4. Q[1].toks \in Seq({"tok"})
    <2>1. Q[1] \in Response
      BY <1>3
    <2> QED  BY <2>1, ResponseFields
  <1> DEFINE m == [i \in 1..(Len(Q2) + 1) |-> n[i + 1]]
             told2 == IF Q[1].id = r THEN told \o Q[1].toks ELSE told
  <1>5. m \in [1..(Len(Q2) + 1) -> Nat] /\ \A i \in 1..(Len(Q2) + 1) : m[i] = n[i + 1]
    BY <1>3
  <1>a. /\ Q[1].id # r => n[2] = n[1]
        /\ Q[1].id = r => /\ n[2] = n[1] + Len(Q[1].toks)
                          /\ n[1] = 0 => Len(Q[1].toks) >= 2
                          /\ Q[1].error => Q[1].toks = <<>>
                          /\ Q[1].final => st = "end" /\ n[2] = Len(all)
    <2>1. PICK i \in 1..Len(Q), j \in Nat : i = 1 /\ j = i + 1
      BY <1>3
    <2>2. /\ Q[i].id # r => n[j] = n[i]
          /\ Q[i].id = r => /\ n[j] = n[i] + Len(Q[i].toks)
                            /\ n[i] = 0 => Len(Q[i].toks) >= 2
                            /\ Q[i].error => Q[i].toks = <<>>
                            /\ Q[i].final => st = "end" /\ n[j] = Len(all)
      BY <1>1, <2>1 DEF Accounts
    <2>3. i = 1 /\ j = 2
      BY <2>1
    <2> QED  BY <2>2, <2>3
  <1>6. told2 \in Seq({"tok"}) /\ Len(told2) = n[2]
    <2>1. CASE Q[1].id = r
      <3>1. PICK t \in Seq({"tok"}) : t = Q[1].toks
        BY <1>4
      <3>a. told \o t \in Seq({"tok"}) /\ Len(told \o t) = Len(told) + Len(t)
        BY <1>2, JoinTokens
      <3>b. told2 = told \o t
        BY <2>1, <3>1
      <3>2. told2 \in Seq({"tok"}) /\ Len(told2) = Len(told) + Len(Q[1].toks)
        BY <3>1, <3>a, <3>b
      <3>3. n[2] = n[1] + Len(Q[1].toks)
        BY <1>a, <2>1
      <3> QED  BY <1>2, <3>2, <3>3
    <2>2. CASE Q[1].id # r
      <3>1. told2 = told
        BY <2>2
      <3>2. n[2] = n[1]
        BY <1>a, <2>2
      <3> QED  BY <1>2, <3>1, <3>2
    <2> QED  BY <2>1, <2>2
  <1> HIDE DEF m, told2
  <1>7. Accounts(r, Q2, told2, all, st, m)
    <2>a. /\ n[Len(Q) + 1] = Len(all) /\ Len(all) >= 2
          /\ \A i \in 1..(Len(Q) + 1) : n[i] = 0 \/ n[i] >= 2
      BY <1>1 DEF Accounts
    <2>b. m[1] = n[2] /\ m[Len(Q2) + 1] = n[Len(Q) + 1]
      <3>1. 1 \in 1..(Len(Q2) + 1) /\ Len(Q2) + 1 \in 1..(Len(Q2) + 1)
        BY <1>3
      <3>2. m[1] = n[1 + 1] /\ m[Len(Q2) + 1] = n[(Len(Q2) + 1) + 1]
        BY <1>5, <3>1
      <3>3. 1 + 1 = 2 /\ (Len(Q2) + 1) + 1 = Len(Q) + 1
        BY <1>3
      <3> QED  BY <3>2, <3>3
    <2>1. m[1] = Len(told2) /\ m[Len(Q2) + 1] = Len(all) /\ Len(all) >= 2
      BY <1>6, <2>a, <2>b
    <2>2. \A i \in 1..(Len(Q2) + 1) : m[i] = 0 \/ m[i] >= 2
      <3>1. \A i \in 1..(Len(Q2) + 1) : i + 1 \in 1..(Len(Q) + 1) /\ m[i] = n[i + 1]
        BY <1>3, <1>5
      <3> QED  BY <2>a, <3>1
    <2>3. ASSUME NEW i \in 1..Len(Q2)
          PROVE  /\ Q2[i] = Q[i + 1] /\ m[i] = n[i + 1] /\ m[i + 1] = n[(i + 1) + 1]
                 /\ i + 1 \in 1..Len(Q)
      <3>1. i \in 1..(Len(Q2) + 1) /\ i + 1 \in 1..(Len(Q2) + 1) /\ i + 1 \in 1..Len(Q)
        BY <1>3
      <3>2. m[i] = n[i + 1] /\ m[i + 1] = n[(i + 1) + 1]
        BY <1>5, <3>1
      <3> QED  BY <3>1, <3>2
    <2>4. \A i \in 1..Len(Q2) : Q2[i].id # r => m[i + 1] = m[i]
      BY <1>1, <2>3 DEF Accounts
    <2>5. ASSUME NEW i \in 1..Len(Q2), Q2[i].id = r
          PROVE  /\ m[i + 1] = m[i] + Len(Q2[i].toks)
                 /\ m[i] = 0 => Len(Q2[i].toks) >= 2
                 /\ Q2[i].error => Q2[i].toks = <<>>
                 /\ Q2[i].final => st = "end" /\ m[i + 1] = Len(all)
      <3>1. PICK j \in 1..Len(Q) : Q2[i] = Q[j] /\ m[i] = n[j] /\ m[i + 1] = n[j + 1]
        BY <2>3
      <3> QED  BY <1>1, <2>5, <3>1 DEF Accounts
    <2> QED  BY <2>1, <2>2, <2>4, <2>5 DEF Accounts
  <1>8. Accounted(r, Q2, told2, all, st)
    BY <1>5, <1>6, <1>7 DEF Accounted
  <1>9. ASSUME Q[1].id = r
        PROVE  /\ Len(told2) >= 2
               /\ Q[1].error => told2 = told
               /\ Q[1].final => st = "end" /\ told2 = all
    <2>1. /\ n[2] = n[1] + Len(Q[1].toks)
          /\ n[1] = 0 => Len(Q[1].toks) >= 2
          /\ Q[1].error => Q[1].toks = <<>>
          /\ Q[1].final => st = "end" /\ n[2] = Len(all)
      BY <1>9, <1>a
    <2>2. n[1] = 0 \/ n[1] >= 2
      BY <1>1, <1>3 DEF Accounts
    <2>3. n[1] \in Nat /\ n[2] \in Nat /\ Len(Q[1].toks) \in Nat
      <3>1. 1 \in 1..(Len(Q) + 1) /\ 2 \in 1..(Len(Q) + 1)
        BY <1>3
      <3> QED  BY <1>4, <3>1
    <2>4. Len(told2) >= 2
      BY <1>6, <2>1, <2>2, <2>3
    <2>5. Q[1].error => told2 = told
      <3>1. told \o <<>> = told
        BY <1>2
      <3> QED  BY <1>9, <2>1, <3>1 DEF told2
    <2>6. Q[1].final => told2 = all
      BY <1>6, <2>1, SameTokens
    <2> QED  BY <2>1, <2>4, <2>5, <2>6
  <1>10. Q[1].id = r => Joined(r, Q, Q2, told, all, st, told2)
    <2>1. Q[1].id = r => told2 = told \o Q[1].toks
      BY DEF told2
    <2> QED  BY <1>8, <1>9, <2>1 DEF Joined
  <1>11. Q[1].id = r => told2 = told \o Q[1].toks
    BY DEF told2
  <1>12. Q[1].id # r => told2 = told
    BY DEF told2
  <1> QED  BY <1>8, <1>10, <1>11, <1>12

\* e joins the end of Q.
Joins(Q, Q2, e) ==
    /\ Q \in Seq(Response) /\ Q2 \in Seq(Response) /\ e \in Response
    /\ Len(Q2) = Len(Q) + 1 /\ Q2[Len(Q) + 1] = e
    /\ \A i \in 1..Len(Q) : Q2[i] = Q[i]

\* A response joins the end of Q.
LEMMA AccountsAdd ==
  ASSUME NEW r, NEW Q, NEW Q2, NEW e, Joins(Q, Q2, e),
         NEW told, NEW all \in Seq({"tok"}), NEW st, NEW st2,
         Accounted(r, Q, told, all, st),
         IF e.id = r THEN Follows(e, st, st2) ELSE st2 = st
  PROVE  Accounted(r, Q2, told, IF e.id = r THEN all \o e.toks ELSE all, st2)
  <1> /\ Q \in Seq(Response) /\ Q2 \in Seq(Response) /\ e \in Response
      /\ Len(Q2) = Len(Q) + 1 /\ Q2[Len(Q) + 1] = e
      /\ \A i \in 1..Len(Q) : Q2[i] = Q[i]
    BY DEF Joins
  <1>1. PICK n \in [1..(Len(Q) + 1) -> Nat] : Accounts(r, Q, told, all, st, n)
    BY DEF Accounted
  <1>2. Len(Q) \in Nat /\ e.toks \in Seq({"tok"}) /\ Len(all) \in Nat
    BY ResponseFields
  <1> DEFINE all2 == IF e.id = r THEN all \o e.toks ELSE all
             m == [i \in 1..(Len(Q2) + 1) |-> IF i <= Len(Q) + 1 THEN n[i] ELSE Len(all2)]
  <1>3. /\ all2 \in Seq({"tok"}) /\ Len(all2) \in Nat
        /\ Len(all2) = Len(all) + (IF e.id = r THEN Len(e.toks) ELSE 0)
        /\ Len(e.toks) \in Nat
    BY <1>2, JoinTokens
  <1>a. e.id = r => /\ st = "end" => st2 = "end" /\ e.toks = <<>>
                    /\ e.error => e.toks = <<>>
                    /\ e.final => st2 = "end"
    BY DEF Follows
  <1> HIDE DEF all2
  <1>4. /\ m \in [1..(Len(Q2) + 1) -> Nat]
        /\ \A i \in 1..(Len(Q) + 1) : m[i] = n[i]
        /\ m[Len(Q) + 2] = Len(all2) /\ m[Len(Q2) + 1] = Len(all2)
    BY <1>2, <1>3
  <1> HIDE DEF m
  <1>5. n[1] = Len(told) /\ n[Len(Q) + 1] = Len(all) /\ Len(all) >= 2
    BY <1>1 DEF Accounts
  <1>6. m[1] = Len(told) /\ m[Len(Q2) + 1] = Len(all2) /\ Len(all2) >= 2
        /\ m[Len(Q) + 1] = Len(all)
    <2>1. 1 \in 1..(Len(Q) + 1) /\ Len(Q) + 1 \in 1..(Len(Q) + 1)
      BY <1>2
    <2>2. m[1] = Len(told) /\ m[Len(Q) + 1] = Len(all)
      BY <1>4, <1>5, <2>1
    <2>3. Len(all2) >= 2
      BY <1>2, <1>3, <1>5
    <2> QED  BY <1>4, <2>2, <2>3
  <1>7. \A i \in 1..(Len(Q2) + 1) : m[i] = 0 \/ m[i] >= 2
    <2>1. \A i \in 1..(Len(Q) + 1) : m[i] = 0 \/ m[i] >= 2
      BY <1>1, <1>4 DEF Accounts
    <2>2. \A i \in 1..(Len(Q2) + 1) : i \in 1..(Len(Q) + 1) \/ i = Len(Q2) + 1
      BY <1>2
    <2> QED  BY <1>6, <2>1, <2>2
  <1>8. \A i \in 1..Len(Q2) : i \in 1..Len(Q) \/ i = Len(Q) + 1
    BY <1>2
  <1>9. ASSUME NEW i \in 1..Len(Q)
        PROVE  /\ Q2[i] = Q[i] /\ m[i] = n[i] /\ m[i + 1] = n[i + 1]
    BY <1>2, <1>4
  <1>10. \A i \in 1..Len(Q2) : Q2[i].id # r => m[i + 1] = m[i]
    <2>1. \A i \in 1..Len(Q) : Q2[i].id # r => m[i + 1] = m[i]
      BY <1>1, <1>9 DEF Accounts
    <2>2. e.id # r => m[Len(Q) + 2] = m[Len(Q) + 1]
      BY <1>3, <1>4, <1>6, <1>2
    <2>3. (Len(Q) + 1) + 1 = Len(Q) + 2
      BY <1>2
    <2> QED  BY <1>8, <2>1, <2>2, <2>3
  <1>11. ASSUME NEW i \in 1..Len(Q2), Q2[i].id = r
         PROVE  /\ m[i + 1] = m[i] + Len(Q2[i].toks)
                /\ m[i] = 0 => Len(Q2[i].toks) >= 2
                /\ Q2[i].error => Q2[i].toks = <<>>
                /\ Q2[i].final => st2 = "end" /\ m[i + 1] = Len(all2)
    <2>1. CASE i \in 1..Len(Q)
      <3>1. /\ n[i + 1] = n[i] + Len(Q[i].toks)
            /\ n[i] = 0 => Len(Q[i].toks) >= 2
            /\ Q[i].error => Q[i].toks = <<>>
            /\ Q[i].final => st = "end" /\ n[i + 1] = Len(all)
        BY <1>1, <1>9, <1>11, <2>1 DEF Accounts
      <3>2. st = "end" => st2 = "end" /\ Len(all2) = Len(all)
        BY <1>2, <1>3, <1>a
      <3> QED  BY <1>9, <2>1, <3>1, <3>2
    <2>2. CASE i = Len(Q) + 1
      <3>1. Q2[i] = e /\ m[i] = Len(all) /\ m[i + 1] = Len(all2) /\ e.id = r
        BY <1>2, <1>4, <1>6, <1>11, <2>2
      <3>2. Len(all2) = Len(all) + Len(e.toks) /\ Len(all) >= 2
        BY <1>3, <1>5, <3>1
      <3> QED  BY <1>2, <1>a, <3>1, <3>2
    <2> QED  BY <1>8, <2>1, <2>2
  <1>12. Accounts(r, Q2, told, all2, st2, m)
    BY <1>6, <1>7, <1>10, <1>11 DEF Accounts
  <1>13. Accounted(r, Q2, told, all2, st2)
    BY <1>4, <1>12 DEF Accounted
  <1> QED  BY <1>13 DEF all2

\* The first response of a request joins the end of Q.
LEMMA AccountsStart ==
  ASSUME NEW r, NEW Q \in Seq(Response), NEW Q2 \in Seq(Response), NEW e \in Response,
         Len(Q2) = Len(Q) + 1, Q2[Len(Q) + 1] = e,
         \A i \in 1..Len(Q) : Q2[i] = Q[i],
         \A i \in 1..Len(Q) : Q[i].id # r,
         NEW st, e.id = r, ~e.error, Len(e.toks) >= 2, e.final => st = "end"
  PROVE  Accounted(r, Q2, <<>>, e.toks, st)
  <1>1. /\ Len(Q) \in Nat /\ e.toks \in Seq({"tok"}) /\ Len(e.toks) \in Nat
        /\ <<>> \in Seq({"tok"}) /\ Len(<<>>) = 0
    BY ResponseFields
  <1> DEFINE m == [i \in 1..(Len(Q2) + 1) |-> IF i <= Len(Q) + 1 THEN 0 ELSE Len(e.toks)]
  <1>2. /\ m \in [1..(Len(Q2) + 1) -> Nat]
        /\ \A i \in 1..(Len(Q) + 1) : m[i] = 0
        /\ m[Len(Q) + 2] = Len(e.toks)
    BY <1>1
  <1> HIDE DEF m
  <1>3. m[1] = Len(<<>>) /\ m[Len(Q2) + 1] = Len(e.toks)
    BY <1>1, <1>2
  <1>4. \A i \in 1..(Len(Q2) + 1) : i \in 1..(Len(Q) + 1) \/ i = Len(Q) + 2
    BY <1>1
  <1>5. \A i \in 1..(Len(Q2) + 1) : m[i] = 0 \/ m[i] >= 2
    BY <1>2, <1>4
  <1>6. \A i \in 1..Len(Q2) : (i \in 1..Len(Q) /\ Q2[i].id # r) \/ i = Len(Q) + 1
    BY <1>1
  <1>7. \A i \in 1..Len(Q2) : Q2[i].id # r => m[i + 1] = m[i]
    <2>1. \A i \in 1..Len(Q) : m[i + 1] = 0 /\ m[i] = 0
      BY <1>1, <1>2
    <2> QED  BY <1>6, <2>1
  <1>8. ASSUME NEW i \in 1..Len(Q2), Q2[i].id = r
        PROVE  /\ m[i + 1] = m[i] + Len(Q2[i].toks)
               /\ m[i] = 0 => Len(Q2[i].toks) >= 2
               /\ Q2[i].error => Q2[i].toks = <<>>
               /\ Q2[i].final => st = "end" /\ m[i + 1] = Len(e.toks)
    <2>1. i = Len(Q) + 1 /\ Q2[i] = e
      BY <1>6, <1>8
    <2>2. m[i] = 0 /\ m[i + 1] = Len(e.toks)
      BY <1>1, <1>2, <2>1
    <2> QED  BY <1>1, <2>1, <2>2
  <1>9. Accounts(r, Q2, <<>>, e.toks, st, m)
    BY <1>3, <1>5, <1>7, <1>8 DEF Accounts
  <1> QED  BY <1>1, <1>2, <1>9 DEF Accounted

\* More may be known of the backend's state than before.
LEMMA AccountsEnd ==
  ASSUME NEW r, NEW Q, NEW told, NEW all, NEW st, NEW st2, NEW k,
         st = "end" => st2 = "end"
  PROVE  /\ Accounted(r, Q, told, all, st) => Accounted(r, Q, told, all, st2)
         /\ Silent(r, Q, told, all, st, k) => Silent(r, Q, told, all, st2, k)
         /\ Whole(r, Q, all, st) => Whole(r, Q, all, st2)
  <1>1. ASSUME NEW n, Accounts(r, Q, told, all, st, n) PROVE Accounts(r, Q, told, all, st2, n)
    BY <1>1 DEF Accounts
  <1>2. Accounted(r, Q, told, all, st) => Accounted(r, Q, told, all, st2)
    BY <1>1 DEF Accounted
  <1>3. Silent(r, Q, told, all, st, k) => Silent(r, Q, told, all, st2, k)
    BY DEF Silent
  <1>4. Whole(r, Q, all, st) => Whole(r, Q, all, st2)
    BY DEF Whole
  <1> QED  BY <1>2, <1>3, <1>4

\* What is true of r when its chunk was the first in Q, and told2 is what
\* stream_output_toks has become.
Chunked(r, Q, Q2, told, all, st, k, told2) ==
    /\ Silent(r, Q2, told2, all, st, k) \/ Accounted(r, Q2, told2, all, st)
    /\ Q[1].final /\ told2 = Padded(told \o Q[1].toks) =>
            st = "end" /\ told2 = Padded(all)

\* A chunk of r is joined to what stream_output_toks holds, padded or not.
LEMMA ChunkJoins ==
  ASSUME NEW r, NEW Q \in Seq(Response), NEW Q2 \in Seq(Response), Len(Q) = Len(Q2) + 1,
         \A i \in 1..Len(Q2) : Q2[i] = Q[i + 1],
         NEW told, NEW all \in Seq({"tok"}), NEW st, NEW k,
         Silent(r, Q, told, all, st, k) \/ Accounted(r, Q, told, all, st),
         Q[1].id = r,
         NEW told2, told2 \in {told \o Q[1].toks, Padded(told \o Q[1].toks)}
  PROVE  Chunked(r, Q, Q2, told, all, st, k, told2)
  <1>1. Len(Q) \in Nat /\ Len(Q2) \in Nat /\ 1 \in 1..Len(Q)
    OBVIOUS
  <1>2. CASE Silent(r, Q, told, all, st, k)
    <2>1. /\ all = <<>> /\ st = "end" /\ told \in {<<>>, <<"BOS", "EOS">>}
          /\ Q[1].toks = <<>>
          /\ \A i \in 1..Len(Q) : Q[i].id = r => Q[i].toks = <<>>
      BY <1>1, <1>2 DEF Silent
    <2>2. told \o Q[1].toks = told
      BY <2>1, PaddedNone
    <2>3. Padded(told) = <<"BOS", "EOS">>
      BY <2>1, PaddedNone
    <2>4. told2 \in {<<>>, <<"BOS", "EOS">>}
      BY <2>1, <2>2, <2>3
    <2>5. \A i \in 1..Len(Q2) : Q2[i].id = r => Q2[i].toks = <<>>
      <3>1. \A i \in 1..Len(Q2) : i + 1 \in 1..Len(Q) /\ Q2[i] = Q[i + 1]
        BY <1>1
      <3> QED  BY <2>1, <3>1
    <2>6. Silent(r, Q2, told2, all, st, k)
      BY <2>1, <2>4, <2>5 DEF Silent
    <2>7. Padded(all) = <<"BOS", "EOS">>
      BY <2>1, PaddedNone
    <2> QED  BY <2>1, <2>2, <2>3, <2>6, <2>7 DEF Chunked
  <1>3. CASE Accounted(r, Q, told, all, st)
    <2>1. PICK joined : joined = told \o Q[1].toks
      OBVIOUS
    <2>a. Joined(r, Q, Q2, told, all, st, joined)
      BY <1>3, <2>1, AccountsDrop
    <2>2. /\ Accounted(r, Q2, joined, all, st) /\ Len(joined) >= 2
          /\ Q[1].final => st = "end" /\ joined = all
      BY <2>a DEF Joined
    <2>3. joined \in Seq({"tok"})
      BY <2>2 DEF Accounted
    <2>4. Padded(joined) = joined
      <3>1. Len(joined) \in Nat /\ joined # <<>>
        BY <2>2, <2>3
      <3> QED  BY <2>2, <3>1, PaddedLong
    <2>5. told2 = joined
      BY <2>1, <2>4
    <2> QED  BY <2>1, <2>2, <2>4, <2>5 DEF Chunked
  <1> QED  BY <1>2, <1>3

\* A response of another request, or an error, leaves the account of r as it is.
LEMMA OtherDrops ==
  ASSUME NEW r, NEW Q \in Seq(Response), NEW Q2 \in Seq(Response), Len(Q) = Len(Q2) + 1,
         \A i \in 1..Len(Q2) : Q2[i] = Q[i + 1],
         NEW told, NEW all \in Seq({"tok"}), NEW st, NEW k,
         Silent(r, Q, told, all, st, k) \/ Accounted(r, Q, told, all, st),
         Q[1].id = r => Q[1].error
  PROVE  Silent(r, Q2, told, all, st, k) \/ Accounted(r, Q2, told, all, st)
  <1>1. \A i \in 1..Len(Q2) : i + 1 \in 1..Len(Q) /\ Q2[i] = Q[i + 1]
    OBVIOUS
  <1>2. CASE Silent(r, Q, told, all, st, k)
    BY <1>1, <1>2 DEF Silent
  <1>3. CASE Accounted(r, Q, told, all, st)
    <2>1. CASE Q[1].id = r
      <3>1. PICK t : t = told \o Q[1].toks
        OBVIOUS
      <3>2. Joined(r, Q, Q2, told, all, st, t)
        BY <1>3, <2>1, <3>1, AccountsDrop
      <3>3. Q[1].error
        BY <2>1
      <3>4. Accounted(r, Q2, t, all, st) /\ t = told
        BY <3>2, <3>3 DEF Joined
      <3> QED  BY <3>4
    <2>2. CASE Q[1].id # r
      BY <1>3, <2>2, AccountsDrop
    <2> QED  BY <2>1, <2>2
  <1> QED  BY <1>2, <1>3

-----------------------------------------------------------------------------
Queue == batch \o ready

StreamedInv ==
    Streaming => \A r \in Requests :
        \/ Silent(r, Queue, toks[r], gen[r], bst[r], nresp[r])
        \/ Accounted(r, Queue, toks[r], gen[r], bst[r])

WholeInv == ~Streaming => \A r \in Requests : Whole(r, Queue, gen[r], bst[r])

\* What is reported as the whole output is the whole output, and nothing is
\* generated after it.
EndedInv ==
    /\ pollPc \in {"track", "deliver"} /\ cur.final =>
            toks[cur.id] = Padded(gen[cur.id]) /\ bst[cur.id] = "end"
    /\ \A r \in Requests : completions[r] > 0 =>
            output[r] = Padded(gen[r]) /\ bst[r] = "end"

OutputInv == StreamedInv /\ WholeInv /\ EndedInv

\* Every request's first chunk is long enough, or there are no chunks.
LongFirstChunks == Streaming => \A n \in FirstSizes : n >= 2

\* What is under way are responses.
LEMMA QueueType == TypeOK => Queue \in Seq(Response)
  BY JoinLength DEF TypeOK, Queue

\* No step of the driver touches a request that the backend is done with.
LEMMA DriverEnds ==
  IInv /\ (Driver \/ Handler) => \A r \in Requests : bst[r] = "end" => bst'[r] = "end"
  <1> SUFFICES ASSUME IInv, Driver \/ Handler, NEW r \in Requests, bst[r] = "end"
               PROVE  bst'[r] = "end"
    OBVIOUS
  <1>1. \/ UNCHANGED bst
        \/ \E rs \in SUBSET Requests :
              /\ bst' = [q \in Requests |-> IF q \in rs THEN "run" ELSE bst[q]]
              /\ rs = WarmupReqs /\ dpc = "warmEnqueue"
        \/ \E q \in TestReqs :
              /\ bst' = [p \in Requests |-> IF p \in {q} THEN "run" ELSE bst[p]]
              /\ q \notin issued
    BY ReqsInRequests, ZenonT(40) DEF Driver, Handler, FlushCheck, FlushWait,
       FlushReturn, EnterWarmup, WarmEnqueue, WarmAdd, WarmEnqueueFails, LeaveWarmup,
       Issue, IssueFails, IssueAdd, LoadGenFlush, TestEnds, NotifyStop, NotifyStopLog,
       SigintNotifyStop, SigintLog, SigintKill, StartEnqueue, FinishEnqueue
  <1>2. /\ dpc = "warmEnqueue" => \A q \in WarmupReqs : bst[q] = "idle"
        /\ \A q \in TestReqs : bst[q] # "idle" => q \in issued
    BY DEF IInv, KnownInv
  <1> QED  BY <1>1, <1>2

\* What the backend sends: one response, to a request it runs, or again to one
\* whose stream ended with its first chunk.
Sends(q, e) ==
    /\ e \in Response /\ e.id = q /\ ready' = Append(ready, e)
    /\ gen'[q] = gen[q] \o e.toks /\ nresp'[q] = nresp[q] + 1
    /\ bst'[q] = IF e.final THEN "end" ELSE "run"
    /\ \A r \in Requests \ {q} : gen'[r] = gen[r] /\ bst'[r] = bst[r] /\ nresp'[r] = nresp[r]
    /\ bst[q] # "end" => bst[q] = "run"
    /\ bst[q] = "end" => /\ Streaming /\ e.toks = <<>> /\ e.final /\ ~e.error
                         /\ nresp[q] = 1
    /\ e.error => e.toks = <<>> /\ e.final
    /\ ~Streaming => e.final

\* The chunk e that starts the stream of q is long enough.
StartsLong(q, e) == Streaming /\ nresp[q] = 0 /\ ~e.error => Len(e.toks) >= 2

\* Each of the backend's steps sends one response.
LEMMA BackendSends ==
  ASSUME TypeOK, NEW q \in Requests, Generate(q) \/ RepeatFinal(q) \/ Fail(q)
  PROVE  /\ \E e : Sends(q, e) /\ (LongFirstChunks => StartsLong(q, e))
         /\ UNCHANGED <<coreVars, pollVars, driverVars, loadgenVars>>
  <1>1. UNCHANGED <<coreVars, pollVars, driverVars, loadgenVars>>
    BY DEF Generate, RepeatFinal, Fail
  <1>2. /\ gen \in [Requests -> Seq({"tok"})] /\ bst \in [Requests -> {"idle", "run", "end"}]
        /\ nresp \in [Requests -> Nat]
    BY DEF TypeOK
  <1>3. <<>> \in Seq({"tok"}) /\ gen[q] \o <<>> = gen[q]
    <2>1. gen[q] \in Seq({"tok"})
      BY <1>2
    <2> QED  BY <2>1
  <1>4. CASE Generate(q)
    <2>1. PICK final \in BOOLEAN,
               n \in (IF nresp[q] = 0 THEN FirstSizes ELSE ChunkSizes) :
              /\ ~final => Streaming
              /\ Respond(q, n_toks(n), final)
              /\ gen' = [gen EXCEPT ![q] = @ \o n_toks(n)]
              /\ bst' = [bst EXCEPT ![q] = IF final THEN "end" ELSE "run"]
      BY <1>4 DEF Generate
    <2>2. bst[q] = "run"
      BY <1>4 DEF Generate
    <2>3. n \in Nat /\ (LongFirstChunks /\ Streaming /\ nresp[q] = 0 => n >= 2)
      BY BoundsAssumption DEF LongFirstChunks
    <2>4. n_toks(n) \in Seq({"tok"}) /\ Len(n_toks(n)) = n
      BY <2>3, ChunkType
    <2>5. PICK e : e = [id |-> q, toks |-> n_toks(n), final |-> final, error |-> FALSE]
      OBVIOUS
    <2>6. e \in Response /\ e.id = q /\ e.toks = n_toks(n) /\ e.final = final /\ ~e.error
      BY <2>4, <2>5, ResponseType
    <2>7. ready' = Append(ready, e) /\ nresp' = [nresp EXCEPT ![q] = @ + 1]
      BY <2>1, <2>5 DEF Respond
    <2>8. gen'[q] = gen[q] \o e.toks /\ nresp'[q] = nresp[q] + 1
      BY <1>2, <2>1, <2>6, <2>7
    <2>9. bst'[q] = IF e.final THEN "end" ELSE "run"
      BY <1>2, <2>1, <2>6
    <2>10. \A r \in Requests \ {q} :
                gen'[r] = gen[r] /\ bst'[r] = bst[r] /\ nresp'[r] = nresp[r]
      BY <1>2, <2>1, <2>7
    <2>11. (LongFirstChunks => StartsLong(q, e)) /\ (~Streaming => e.final)
      BY <2>1, <2>3, <2>4, <2>6 DEF StartsLong
    <2>12. Sends(q, e)
      BY <2>2, <2>6, <2>7, <2>8, <2>9, <2>10, <2>11 DEF Sends
    <2> QED  BY <1>1, <2>11, <2>12
  <1>5. CASE RepeatFinal(q) \/ Fail(q)
    <2>1. PICK error \in BOOLEAN :
            /\ ready' = Append(ready, [id |-> q, toks |-> <<>>, final |-> TRUE,
                                       error |-> error])
            /\ bst' = [bst EXCEPT ![q] = "end"] /\ UNCHANGED gen
            /\ nresp' = [nresp EXCEPT ![q] = @ + 1]
            /\ error => bst[q] = "run"
            /\ ~error => Streaming /\ bst[q] = "end" /\ nresp[q] = 1
      <3>1. CASE RepeatFinal(q)
        <4>1. [bst EXCEPT ![q] = "end"] = bst
          BY <1>2, <3>1 DEF RepeatFinal
        <4> QED  BY <3>1, <4>1 DEF RepeatFinal, Respond
      <3>2. CASE Fail(q)  BY <3>2 DEF Fail
      <3> QED  BY <1>5, <3>1, <3>2
    <2>2. PICK e : e = [id |-> q, toks |-> <<>>, final |-> TRUE, error |-> error]
      OBVIOUS
    <2>3. e \in Response /\ e.id = q /\ e.toks = <<>> /\ e.final /\ e.error = error
      BY <1>3, <2>2, ResponseType
    <2>4. ready' = Append(ready, e)
      BY <2>1, <2>2
    <2>5. /\ gen'[q] = gen[q] \o e.toks /\ nresp'[q] = nresp[q] + 1 /\ bst'[q] = "end"
          /\ \A r \in Requests \ {q} :
                gen'[r] = gen[r] /\ bst'[r] = bst[r] /\ nresp'[r] = nresp[r]
      BY <1>2, <1>3, <2>1, <2>3
    <2>6. nresp[q] = 0 => e.error
      BY <2>1, <2>3
    <2>7. Sends(q, e)
      BY <2>1, <2>3, <2>4, <2>5 DEF Sends
    <2>8. StartsLong(q, e)
      BY <2>6 DEF StartsLong
    <2> QED  BY <1>1, <2>7, <2>8
  <1> QED  BY <1>4, <1>5

\* What the backend sends joins the end of the queue.
LEMMA SendsJoins ==
  ASSUME TypeOK, NEW q \in Requests, NEW e, Sends(q, e), batch' = batch
  PROVE  Joins(Queue, Queue', e)
  <1>a. e \in Response /\ ready' = Append(ready, e)
    BY DEF Sends
  <1>c. batch' = batch
    OBVIOUS
  <1>1. PICK Q, Q2 : Q = Queue /\ Q2 = Queue'
    OBVIOUS
  <1>2. /\ Q \in Seq(Response) /\ Q2 \in Seq(Response)
        /\ Len(Q2) = Len(Q) + 1 /\ Q2[Len(Q) + 1] = e
        /\ \A i \in 1..Len(Q) : Q2[i] = Q[i]
    <2>1. batch \in Seq(Response) /\ ready \in Seq(Response)
      BY DEF TypeOK
    <2>2. Q = batch \o ready /\ Q2 = batch \o Append(ready, e)
      BY <1>1, <1>a, <1>c DEF Queue
    <2>3. PICK S : S = Response
      OBVIOUS
    <2>4. batch \in Seq(S) /\ ready \in Seq(S) /\ e \in S
      BY <1>a, <2>1, <2>3
    <2>5. /\ Q \in Seq(S) /\ Q2 \in Seq(S)
          /\ Len(Q2) = Len(Q) + 1 /\ Q2[Len(Q) + 1] = e
          /\ \A i \in 1..Len(Q) : Q2[i] = Q[i]
      BY <2>2, <2>4, QueueAppend
    <2> QED  BY <2>3, <2>5
  <1> QED  BY <1>a, <1>1, <1>2 DEF Joins

\* Once the backend is done with a request, it generates nothing more for it.
LEMMA EndStays ==
  ASSUME TypeOK, NEW q \in Requests, NEW e, Sends(q, e), NEW r \in Requests, bst[r] = "end"
  PROVE  gen'[r] = gen[r] /\ bst'[r] = "end"
  <1>1. CASE r = q
    <2>1. gen'[q] = gen[q] \o <<>> /\ bst'[q] = "end"
      BY <1>1 DEF Sends
    <2>2. gen[q] \o <<>> = gen[q]
      <3>1. gen[q] \in Seq({"tok"})
        BY DEF TypeOK
      <3> QED  BY <3>1
    <2> QED  BY <1>1, <2>1, <2>2
  <1>2. CASE r # q
    BY <1>2 DEF Sends
  <1> QED  BY <1>1, <1>2

\* Without streaming: what is sent is the whole answer.
LEMMA WholeSends ==
  ASSUME TypeOK, WholeInv, NEW q \in Requests, NEW e, Sends(q, e), batch' = batch
  PROVE  WholeInv'
  <1>a. e \in Response /\ e.id = q /\ e.toks \in Seq({"tok"})
    BY ResponseFields DEF Sends
  <1>b. PICK Q, Q2 : Q = Queue /\ Q2 = Queue'
    OBVIOUS
  <1>c. Joins(Q, Q2, e)
    BY <1>b, SendsJoins
  <1>d. /\ Q2[Len(Q) + 1] = e
        /\ \A i \in 1..Len(Q) : Q2[i] = Q[i]
        /\ \A i \in 1..Len(Q2) : i \in 1..Len(Q) \/ (i = Len(Q) + 1 /\ Q2[i] = e)
    BY <1>c DEF Joins
  <1> SUFFICES ASSUME ~Streaming, NEW r \in Requests
               PROVE  Whole(r, Q2, gen'[r], bst'[r])
    BY <1>b DEF WholeInv
  <1>1. Whole(r, Q, gen[r], bst[r])
    BY <1>b DEF WholeInv
  <1>2. CASE r # q
    <2>1. gen'[r] = gen[r] /\ bst'[r] = bst[r]
      BY <1>2 DEF Sends
    <2>2. Whole(r, Q2, gen[r], bst[r])
      BY <1>a, <1>d, <1>1, <1>2 DEF Whole
    <2> QED  BY <2>1, <2>2
  <1>3. CASE r = q
    <2>1. bst[q] # "end" /\ bst'[q] = "end" /\ gen'[q] = gen[q] \o e.toks
      BY DEF Sends
    <2>2. gen[q] = <<>> /\ \A i \in 1..Len(Q) : Q[i].id = q => Q[i].error
      BY <1>1, <1>3, <2>1 DEF Whole
    <2>3. gen'[q] = e.toks
      <3>1. <<>> \o e.toks = e.toks
        BY <1>a
      <3> QED  BY <2>1, <2>2, <3>1
    <2>4. \A i \in 1..Len(Q2) : Q2[i].id = q /\ ~Q2[i].error => Q2[i].toks = gen'[q]
      BY <1>d, <2>2, <2>3
    <2>5. Whole(q, Q2, gen'[q], bst'[q])
      BY <2>1, <2>4 DEF Whole
    <2> QED  BY <1>3, <2>5
  <1> QED  BY <1>2, <1>3

\* A step of the backend keeps the accounts of every request.
LEMMA SendsKeeps ==
  ASSUME TypeOK, OutputInv, NEW q \in Requests, NEW e, Sends(q, e), StartsLong(q, e),
         UNCHANGED <<coreVars, pollVars, driverVars, loadgenVars>>
  PROVE  OutputInv'
  <1>a. e \in Response /\ e.id = q /\ ready' = Append(ready, e)
    BY DEF Sends
  <1>b. /\ \A r \in Requests : gen[r] \in Seq({"tok"}) /\ toks[r] \in Seq(TokenKinds)
        /\ \A r \in Requests : nresp[r] \in Nat
        /\ cur.id \in Requests /\ cur.final \in BOOLEAN /\ Streaming \in BOOLEAN
        /\ e.toks \in Seq({"tok"})
    BY <1>a, FlagsAssumption, ResponseFields DEF TypeOK
  <1>c. UNCHANGED <<batch, toks, cur, pollPc, completions, output>>
    OBVIOUS
  <1>1. PICK Q, Q2 : Q = Queue /\ Q2 = Queue'
    OBVIOUS
  <1>2. /\ Q \in Seq(Response) /\ Q2 \in Seq(Response)
        /\ Len(Q2) = Len(Q) + 1 /\ Q2[Len(Q) + 1] = e
        /\ \A i \in 1..Len(Q) : Q2[i] = Q[i]
    BY <1>1, <1>c, SendsJoins DEF Joins
  <1>3. Len(Q) \in Nat /\ \A i \in 1..Len(Q2) : i \in 1..Len(Q) \/ (i = Len(Q) + 1 /\ Q2[i] = e)
    BY <1>2
  <1>4. \A r \in Requests : gen'[r] \in Seq({"tok"}) /\ (r # q => gen'[r] = gen[r])
    <2>1. gen'[q] \in Seq({"tok"})
      BY <1>b, JoinTokens DEF Sends
    <2> QED  BY <1>b, <2>1 DEF Sends
  <1>5. ASSUME NEW r \in Requests, bst[r] = "end" PROVE gen'[r] = gen[r] /\ bst'[r] = "end"
    BY <1>5, EndStays
  <1>6. EndedInv'
    <2>1. pollPc \in {"track", "deliver"} /\ cur.final =>
                toks[cur.id] = Padded(gen'[cur.id]) /\ bst'[cur.id] = "end"
      BY <1>b, <1>5 DEF OutputInv, EndedInv
    <2>2. \A r \in Requests : completions[r] > 0 =>
                output[r] = Padded(gen'[r]) /\ bst'[r] = "end"
      BY <1>5 DEF OutputInv, EndedInv
    <2> QED  BY <1>c, <2>1, <2>2 DEF EndedInv
  <1>7. WholeInv'
    BY WholeSends DEF OutputInv
  <1>8. StreamedInv'
    <2> SUFFICES ASSUME Streaming, NEW r \in Requests
                 PROVE  \/ Silent(r, Q2, toks[r], gen'[r], bst'[r], nresp'[r])
                        \/ Accounted(r, Q2, toks[r], gen'[r], bst'[r])
      BY <1>1, <1>c DEF StreamedInv
    <2>1. \/ Silent(r, Q, toks[r], gen[r], bst[r], nresp[r])
          \/ Accounted(r, Q, toks[r], gen[r], bst[r])
      BY <1>1 DEF OutputInv, StreamedInv
    <2>2. CASE r # q
      <3>1. gen'[r] = gen[r] /\ bst'[r] = bst[r] /\ nresp'[r] = nresp[r] /\ e.id # r
        BY <1>a, <2>2 DEF Sends
      <3>2. CASE Silent(r, Q, toks[r], gen[r], bst[r], nresp[r])
        <4>1. Silent(r, Q2, toks[r], gen[r], bst[r], nresp[r])
          BY <1>2, <1>3, <3>1, <3>2 DEF Silent
        <4> QED  BY <3>1, <4>1
      <3>3. CASE Accounted(r, Q, toks[r], gen[r], bst[r])
        <4>1. PICK t, g, s : t = toks[r] /\ g = gen[r] /\ s = bst[r]
          OBVIOUS
        <4>2. g \in Seq({"tok"}) /\ Accounted(r, Q, t, g, s)
          BY <1>b, <3>3, <4>1
        <4>a. Joins(Q, Q2, e)
          BY <1>a, <1>2 DEF Joins
        <4>3. Accounted(r, Q2, t, IF e.id = r THEN g \o e.toks ELSE g, s)
          BY <3>1, <4>2, <4>a, AccountsAdd
        <4>4. Accounted(r, Q2, t, g, s)
          BY <3>1, <4>3
        <4> QED  BY <3>1, <4>1, <4>4
      <3> QED  BY <2>1, <3>2, <3>3
    <2>3. CASE r = q
      <3>1. /\ gen'[q] = gen[q] \o e.toks /\ nresp'[q] = nresp[q] + 1
            /\ bst'[q] = IF e.final THEN "end" ELSE "run"
            /\ bst[q] = "end" => e.toks = <<>> /\ e.final /\ ~e.error /\ nresp[q] = 1
            /\ e.error => e.toks = <<>> /\ e.final
            /\ nresp[q] = 0 /\ ~e.error => Len(e.toks) >= 2
        BY <2>3 DEF Sends, StartsLong
      <3>2. gen[q] \o <<>> = gen[q] /\ <<>> \o e.toks = e.toks
        <4>1. gen[q] \in Seq({"tok"}) /\ e.toks \in Seq({"tok"})
          BY <1>b
        <4> QED  BY <4>1
      <3>3. CASE Accounted(q, Q, toks[q], gen[q], bst[q])
        <4>1. PICK t, g, s, s2 : t = toks[q] /\ g = gen[q] /\ s = bst[q] /\ s2 = bst'[q]
          OBVIOUS
        <4>2. /\ g \in Seq({"tok"}) /\ Accounted(q, Q, t, g, s)
              /\ s = "end" => s2 = "end" /\ e.toks = <<>>
              /\ e.error => e.toks = <<>>
              /\ e.final => s2 = "end"
          BY <1>b, <3>1, <3>3, <4>1
        <4>a. IF e.id = q THEN Follows(e, s, s2) ELSE s2 = s
          BY <1>a, <4>2 DEF Follows
        <4>b. Joins(Q, Q2, e)
          BY <1>a, <1>2 DEF Joins
        <4>3. Accounted(q, Q2, t, IF e.id = q THEN g \o e.toks ELSE g, s2)
          BY <4>2, <4>a, <4>b, AccountsAdd
        <4>4. Accounted(q, Q2, t, g \o e.toks, s2)
          BY <1>a, <4>3
        <4> QED  BY <2>3, <3>1, <4>1, <4>4
      <3>4. CASE Silent(q, Q, toks[q], gen[q], bst[q], nresp[q])
        <4>1. gen[q] = <<>>
          BY <3>4 DEF Silent
        <4>2. CASE bst[q] = "end"
          <5>1. /\ toks[q] \in {<<>>, <<"BOS", "EOS">>}
                /\ \A i \in 1..Len(Q) : Q[i].id = q => Q[i].toks = <<>>
            BY <3>1, <3>4, <4>2 DEF Silent
          <5>2. gen'[q] = <<>> /\ bst'[q] = "end" /\ e.toks = <<>>
            BY <3>1, <3>2, <4>1, <4>2
          <5>3. \A i \in 1..Len(Q2) : Q2[i].id = q => Q2[i].toks = <<>>
            BY <1>2, <1>3, <5>1, <5>2
          <5> QED  BY <2>3, <5>1, <5>2, <5>3 DEF Silent
        <4>3. CASE bst[q] # "end"
          <5>1. /\ nresp[q] = 0 /\ toks[q] = <<>>
                /\ \A i \in 1..Len(Q) : Q[i].id # q
            BY <3>4, <4>3 DEF Silent
          <5>2. CASE e.error
            <6>1. gen'[q] = <<>> /\ bst'[q] = "end" /\ e.toks = <<>>
              BY <3>1, <3>2, <4>1, <5>2
            <6>2. \A i \in 1..Len(Q2) : Q2[i].id = q => Q2[i].toks = <<>>
              BY <1>2, <1>3, <5>1, <6>1
            <6> QED  BY <2>3, <5>1, <6>1, <6>2 DEF Silent
          <5>3. CASE ~e.error
            <6>1. PICK s2 : s2 = bst'[q]
              OBVIOUS
            <6>2. Len(e.toks) >= 2 /\ (e.final => s2 = "end")
              BY <3>1, <5>1, <5>3, <6>1
            <6>3. Accounted(q, Q2, <<>>, e.toks, s2)
              BY <1>a, <1>2, <5>1, <5>3, <6>2, AccountsStart
            <6>4. gen'[q] = e.toks
              BY <3>1, <3>2, <4>1
            <6> QED  BY <2>3, <5>1, <6>1, <6>3, <6>4
          <5> QED  BY <5>2, <5>3
        <4> QED  BY <4>2, <4>3
      <3> QED  BY <2>1, <2>3, <3>3, <3>4
    <2> QED  BY <2>2, <2>3
  <1> QED  BY <1>6, <1>7, <1>8 DEF OutputInv

\* Responses are taken off the queue one by one.
LEMMA TakesFirst ==
  ASSUME TypeOK, batch # <<>>, batch' = Tail(batch), ready' = ready
  PROVE  /\ Queue \in Seq(Response) /\ Queue' \in Seq(Response)
         /\ Len(Queue) = Len(Queue') + 1 /\ Queue[1] = Head(batch)
         /\ \A i \in 1..Len(Queue') : Queue'[i] = Queue[i + 1]
  <1>1. PICK S : S = Response
    OBVIOUS
  <1>2. batch \in Seq(S) /\ ready \in Seq(S)
    BY <1>1 DEF TypeOK
  <1>3. PICK b, q : b = batch /\ q = ready
    OBVIOUS
  <1>4. b \in Seq(S) /\ q \in Seq(S) /\ b # <<>>
    BY <1>2, <1>3
  <1>5. /\ b \o q \in Seq(S) /\ Tail(b) \o q \in Seq(S)
        /\ Len(b \o q) = Len(Tail(b) \o q) + 1 /\ (b \o q)[1] = Head(b)
        /\ \A i \in 1..Len(Tail(b) \o q) : (Tail(b) \o q)[i] = (b \o q)[i + 1]
    BY <1>4, QueueDrop
  <1>6. Queue = b \o q /\ Queue' = Tail(b) \o q
    BY <1>3 DEF Queue
  <1> QED  BY <1>1, <1>3, <1>5, <1>6

\* A poll moves responses from the backend's queue to the empty batch.
LEMMA PollKeepsQueue == IInv /\ PollBackend => Queue' = Queue
  <1> SUFFICES ASSUME IInv, PollBackend PROVE Queue' = Queue
    OBVIOUS
  <1>1. batch = <<>> /\ ready \in Seq(Response)
    BY DEF PollBackend, IInv, BatchInv, TypeOK
  <1>2. PICK n \in 0..Len(ready) :
            batch' = SubSeq(ready, 1, n) /\ ready' = SubSeq(ready, n + 1, Len(ready))
    BY DEF PollBackend
  <1>3. PICK q : q = ready
    OBVIOUS
  <1>4. SubSeq(q, 1, n) \o SubSeq(q, n + 1, Len(q)) = <<>> \o q
    BY <1>1, <1>3, QueueSplit
  <1> QED  BY <1>1, <1>2, <1>3, <1>4 DEF Queue

\* Steps that move no response and report no end.
LEMMA QuietKeeps ==
  ASSUME IInv, OutputInv, Queue' = Queue, UNCHANGED <<toks, gen, nresp>>,
         \A r \in Requests : bst[r] = "end" => bst'[r] = "end"
  PROVE  StreamedInv' /\ WholeInv'
  <1>1. StreamedInv'
    <2> SUFFICES ASSUME Streaming, NEW r \in Requests
                 PROVE  \/ Silent(r, Queue, toks[r], gen[r], bst'[r], nresp[r])
                        \/ Accounted(r, Queue, toks[r], gen[r], bst'[r])
      BY DEF StreamedInv
    <2>1. \/ Silent(r, Queue, toks[r], gen[r], bst[r], nresp[r])
          \/ Accounted(r, Queue, toks[r], gen[r], bst[r])
      BY DEF OutputInv, StreamedInv
    <2>2. bst[r] = "end" => bst'[r] = "end"
      OBVIOUS
    <2> QED  BY <2>1, <2>2, AccountsEnd
  <1>2. WholeInv'
    <2> SUFFICES ASSUME ~Streaming, NEW r \in Requests
                 PROVE  Whole(r, Queue, gen[r], bst'[r])
      BY DEF WholeInv
    <2>1. Whole(r, Queue, gen[r], bst[r])
      BY DEF OutputInv, WholeInv
    <2>2. bst[r] = "end" => bst'[r] = "end"
      OBVIOUS
    <2> QED  BY <2>1, <2>2, AccountsEnd
  <1> QED  BY <1>1, <1>2

\* A chunk is joined, an answer stored, an error skipped.
LEMMA HandleKeeps ==
  ASSUME IInv, OutputInv, SkipError \/ StreamChunk \/ WholeAnswer
  PROVE  OutputInv'
  <1>1. /\ batch # <<>> /\ batch' = Tail(batch) /\ ready' = ready /\ pollPc = "handle"
        /\ UNCHANGED <<gen, nresp, bst, completions, output>>
    BY DEF SkipError, StreamChunk, WholeAnswer
  <1>2. PICK Q, Q2, c : Q = Queue /\ Q2 = Queue' /\ c = Head(batch)
    OBVIOUS
  <1>3. /\ Q \in Seq(Response) /\ Q2 \in Seq(Response) /\ Len(Q) = Len(Q2) + 1
        /\ \A i \in 1..Len(Q2) : Q2[i] = Q[i + 1]
        /\ Q[1] = c
    <2>1. TypeOK
      BY DEF IInv
    <2> QED  BY <1>1, <1>2, <2>1, TakesFirst
  <1>4. /\ c \in Response /\ c.id \in Requests /\ c.final \in BOOLEAN
        /\ 1 \in 1..Len(Q) /\ Len(Q) \in Nat /\ Len(Q2) \in Nat
    <2>1. 1 \in 1..Len(Q) /\ Len(Q) \in Nat /\ Len(Q2) \in Nat
      BY <1>3
    <2>2. c \in Response
      BY <1>3, <2>1
    <2> QED  BY <2>1, <2>2, ResponseFields
  <1>5. /\ \A r \in Requests : gen[r] \in Seq({"tok"})
        /\ toks \in [Requests -> Seq(TokenKinds)] /\ cur.id \in Requests
    BY DEF IInv, TypeOK
  <1>a. Streaming => \A r \in Requests :
            \/ Silent(r, Q, toks[r], gen[r], bst[r], nresp[r])
            \/ Accounted(r, Q, toks[r], gen[r], bst[r])
    BY <1>2 DEF OutputInv, StreamedInv
  <1>b. ~Streaming => \A r \in Requests : Whole(r, Q, gen[r], bst[r])
    BY <1>2 DEF OutputInv, WholeInv
  <1>6. ASSUME Streaming, NEW r \in Requests, toks'[r] = toks[r], c.id = r => c.error
        PROVE  \/ Silent(r, Q2, toks'[r], gen[r], bst[r], nresp[r])
               \/ Accounted(r, Q2, toks'[r], gen[r], bst[r])
    <2>1. PICK t, g, s, k : t = toks[r] /\ g = gen[r] /\ s = bst[r] /\ k = nresp[r]
      OBVIOUS
    <2>2. Silent(r, Q, t, g, s, k) \/ Accounted(r, Q, t, g, s)
      BY <1>6, <1>a, <2>1
    <2>3. g \in Seq({"tok"}) /\ (Q[1].id = r => Q[1].error)
      BY <1>3, <1>5, <1>6, <2>1
    <2>4. Silent(r, Q2, t, g, s, k) \/ Accounted(r, Q2, t, g, s)
      BY <1>3, <2>2, <2>3, OtherDrops
    <2> QED  BY <1>6, <2>1, <2>4
  <1>7. WholeInv'
    <2> SUFFICES ASSUME ~Streaming, NEW r \in Requests
                 PROVE  Whole(r, Q2, gen[r], bst[r])
      BY <1>1, <1>2 DEF WholeInv
    <2>1. Whole(r, Q, gen[r], bst[r])
      BY <1>b
    <2>2. \A i \in 1..Len(Q2) : i + 1 \in 1..Len(Q) /\ Q2[i] = Q[i + 1]
      BY <1>3, <1>4
    <2> QED  BY <2>1, <2>2 DEF Whole
  <1>8. \A r \in Requests : completions'[r] > 0 =>
            output'[r] = Padded(gen'[r]) /\ bst'[r] = "end"
    BY <1>1 DEF OutputInv, EndedInv
  <1>9. CASE SkipError
    <2>1. c.error /\ toks' = toks /\ pollPc' = "handle"
      BY <1>2, <1>9, <1>1 DEF SkipError
    <2>2. StreamedInv'
      BY <1>1, <1>2, <1>6, <2>1 DEF StreamedInv
    <2>3. EndedInv'
      BY <1>8, <2>1 DEF EndedInv
    <2> QED  BY <1>7, <2>2, <2>3 DEF OutputInv
  <1>10. CASE StreamChunk
    <2>1. PICK joined : joined = toks[c.id] \o c.toks
      OBVIOUS
    <2>2. /\ Streaming /\ ~c.error
          /\ toks' = [toks EXCEPT ![c.id] =
                        IF c.id \notin seen \/ c.final THEN Padded(joined) ELSE joined]
          /\ cur'.id = c.id /\ cur'.final = c.final
      BY <1>2, <1>10, <2>1 DEF StreamChunk
    <2>3. PICK t, t2, g, s, k : /\ t = toks[c.id] /\ t2 = toks'[c.id] /\ g = gen[c.id]
                                /\ s = bst[c.id] /\ k = nresp[c.id]
      OBVIOUS
    <2>4. t2 = IF c.id \notin seen \/ c.final THEN Padded(joined) ELSE joined
      BY <1>4, <1>5, <2>2, <2>3
    <2>5. /\ Silent(c.id, Q, t, g, s, k) \/ Accounted(c.id, Q, t, g, s)
          /\ g \in Seq({"tok"}) /\ Q[1].id = c.id
          /\ t2 \in {t \o Q[1].toks, Padded(t \o Q[1].toks)}
      BY <1>3, <1>4, <1>5, <1>a, <2>1, <2>2, <2>3, <2>4
    <2>6. /\ Silent(c.id, Q2, t2, g, s, k) \/ Accounted(c.id, Q2, t2, g, s)
          /\ Q[1].final /\ t2 = Padded(t \o Q[1].toks) => s = "end" /\ t2 = Padded(g)
      <3>1. Chunked(c.id, Q, Q2, t, g, s, k, t2)
        BY <1>3, <2>5, ChunkJoins
      <3> QED  BY <3>1 DEF Chunked
    <2>7. StreamedInv'
      <3> SUFFICES ASSUME NEW r \in Requests
                   PROVE  \/ Silent(r, Q2, toks'[r], gen[r], bst[r], nresp[r])
                          \/ Accounted(r, Q2, toks'[r], gen[r], bst[r])
        BY <1>1, <1>2 DEF StreamedInv
      <3>1. CASE r = c.id
        BY <2>3, <2>6, <3>1
      <3>2. CASE r # c.id
        <4>1. toks'[r] = toks[r]
          BY <1>5, <2>2, <3>2
        <4> QED  BY <1>6, <2>2, <3>2, <4>1
      <3> QED  BY <3>1, <3>2
    <2>8. c.final => toks'[c.id] = Padded(gen[c.id]) /\ bst[c.id] = "end"
      <3>1. c.final => t2 = Padded(t \o Q[1].toks)
        BY <1>3, <2>1, <2>3, <2>4
      <3> QED  BY <1>3, <2>3, <2>6, <3>1
    <2>9. EndedInv'
      BY <1>1, <1>8, <2>2, <2>8 DEF EndedInv
    <2> QED  BY <1>7, <2>7, <2>9 DEF OutputInv
  <1>11. CASE WholeAnswer
    <2>1. /\ ~Streaming /\ ~c.error
          /\ toks' = [toks EXCEPT ![c.id] = Padded(c.toks)] /\ cur'.id = c.id
      BY <1>2, <1>11 DEF WholeAnswer
    <2>2. Whole(c.id, Q, gen[c.id], bst[c.id])
      BY <1>4, <1>b, <2>1
    <2>3. bst[c.id] = "end" /\ c.toks = gen[c.id]
      BY <1>3, <1>4, <2>1, <2>2 DEF Whole
    <2>4. toks'[c.id] = Padded(gen[c.id])
      BY <1>4, <1>5, <2>1, <2>3
    <2>5. EndedInv'
      BY <1>1, <1>8, <2>1, <2>3, <2>4 DEF EndedInv
    <2>6. StreamedInv'
      BY <2>1 DEF StreamedInv
    <2> QED  BY <1>7, <2>5, <2>6 DEF OutputInv
  <1> QED  BY <1>9, <1>10, <1>11

\* Every step keeps the accounts and what they say of the reported ends.
LEMMA OutputNext ==
  ASSUME LongFirstChunks
  PROVE  IInv /\ OutputInv /\ [Next]_vars => OutputInv'
  <1> SUFFICES ASSUME IInv, OutputInv, [Next]_vars PROVE OutputInv'
    OBVIOUS
  <1>a. /\ completions \in [Requests -> Nat] /\ output \in [Requests -> Seq(TokenKinds)]
        /\ cur.id \in Requests /\ cur.final \in BOOLEAN
    BY DEF IInv, TypeOK
  <1>b. EndedInv
    BY DEF OutputInv
  <1>1. CASE Driver \/ Handler
    <2>1. UNCHANGED <<pollVars, gen, nresp, ready, completions, output>>
      BY <1>1, DriverFrame
    <2>2. \A r \in Requests : bst[r] = "end" => bst'[r] = "end"
      BY <1>1, DriverEnds
    <2>3. Queue' = Queue
      BY <2>1 DEF Queue
    <2>4. StreamedInv' /\ WholeInv'
      BY <2>1, <2>2, <2>3, QuietKeeps
    <2>5. EndedInv'
      BY <1>a, <1>b, <2>1, <2>2 DEF EndedInv
    <2> QED  BY <2>4, <2>5 DEF OutputInv
  <1>2. CASE SkipError \/ StreamChunk \/ WholeAnswer
    BY <1>2, HandleKeeps
  <1>3. CASE Poll /\ ~SkipError /\ ~StreamChunk /\ ~WholeAnswer
    <2>1. UNCHANGED <<bst, gen, nresp>>
      BY <1>3, PollFrame
    <2>2. UNCHANGED <<toks, cur>>
      BY <1>3 DEF Poll, PollRead, PollNotify, PollCheckStop, PollBackend, HandledAll,
         TrackResponse, DropWarmup, Deliver, PollExit, PollSetExit, PollLastNotify
    <2>3. Queue' = Queue
      <3>1. CASE PollBackend  BY <3>1, PollKeepsQueue
      <3>2. CASE ~PollBackend
        <4>1. UNCHANGED <<batch, ready>>
          BY <1>3, <3>2 DEF Poll, PollRead, PollNotify, PollCheckStop, HandledAll,
             TrackResponse, DropWarmup, Deliver, PollExit, PollSetExit, PollLastNotify
        <4> QED  BY <4>1 DEF Queue
      <3> QED  BY <3>1, <3>2
    <2>4. StreamedInv' /\ WholeInv'
      BY <2>1, <2>2, <2>3, QuietKeeps
    <2>5. EndedInv'
      <3>1. CASE Deliver
        <4>1. /\ pollPc = "deliver" /\ pollPc' \in {"handle", "dead"}
              /\ completions' = [completions EXCEPT ![cur.id] =
                                    @ + IF cur.final THEN 1 ELSE 0]
              /\ output' = IF cur.final THEN [output EXCEPT ![cur.id] = toks[cur.id]]
                           ELSE output
          BY <3>1 DEF Deliver, CompleteCallback
        <4>2. ASSUME NEW r \in Requests, completions'[r] > 0
              PROVE  output'[r] = Padded(gen[r]) /\ bst[r] = "end"
          <5>1. CASE r = cur.id /\ cur.final
            <6>1. output'[r] = toks[r]
              BY <1>a, <4>1, <5>1
            <6> QED  BY <1>b, <4>1, <5>1, <6>1 DEF EndedInv
          <5>2. CASE ~(r = cur.id /\ cur.final)
            <6>1. output'[r] = output[r]
              BY <1>a, <4>1, <5>2
            <6>2. completions'[r] = completions[r]
              <7>1. CASE cur.final
                BY <1>a, <4>1, <5>2, <7>1
              <7>2. CASE ~cur.final
                <8>1. completions' = [completions EXCEPT ![cur.id] = @ + 0]
                  BY <4>1, <7>2
                <8> QED  BY <1>a, <8>1
              <7> QED  BY <7>1, <7>2
            <6> QED  BY <1>b, <4>2, <6>1, <6>2 DEF EndedInv
          <5> QED  BY <5>1, <5>2
        <4> QED  BY <2>1, <4>1, <4>2 DEF EndedInv
      <3>2. CASE ~Deliver
        <4>1. /\ UNCHANGED <<completions, output>>
              /\ pollPc' \in {"track", "deliver"} => pollPc \in {"track", "deliver"}
          BY <1>3, <3>2 DEF Poll, PollRead, PollNotify, PollCheckStop, PollBackend,
             HandledAll, TrackResponse, DropWarmup, PollExit, PollSetExit, PollLastNotify
        <4> QED  BY <1>b, <2>1, <2>2, <4>1 DEF EndedInv
      <3> QED  BY <3>1, <3>2
    <2> QED  BY <2>4, <2>5 DEF OutputInv
  <1>4. CASE Backend
    <2>1. PICK q \in Requests : Generate(q) \/ RepeatFinal(q) \/ Fail(q)
      BY <1>4 DEF Backend
    <2>2. TypeOK
      BY DEF IInv
    <2>3. UNCHANGED <<coreVars, pollVars, driverVars, loadgenVars>>
      BY <2>1, <2>2, BackendSends
    <2>4. PICK e : Sends(q, e) /\ StartsLong(q, e)
      BY <2>1, <2>2, BackendSends
    <2> QED  BY <2>2, <2>3, <2>4, SendsKeeps
  <1>5. CASE Finished \/ UNCHANGED vars
    <2>1. UNCHANGED vars
      BY <1>5, FinishedFrame
    <2>2. Queue' = Queue /\ UNCHANGED <<toks, gen, nresp, bst, cur, pollPc, completions, output>>
      BY <2>1 DEF vars, Queue
    <2>3. StreamedInv' /\ WholeInv'
      BY <2>2, QuietKeeps
    <2>4. EndedInv'
      BY <1>b, <2>2 DEF EndedInv
    <2> QED  BY <2>3, <2>4 DEF OutputInv
  <1> QED  BY <1>1, <1>2, <1>3, <1>4, <1>5 DEF Next

\* At the start nothing is generated, under way or told.
LEMMA OutputInit == Init => OutputInv
  <1> SUFFICES ASSUME Init PROVE OutputInv
    OBVIOUS
  <1>1. Queue = <<>> /\ Len(Queue) = 0
    <2>1. batch = <<>> /\ ready = <<>>
      BY DEF Init
    <2>2. Queue = <<>>
      BY <2>1, PaddedNone DEF Queue
    <2> QED  BY <2>2
  <1>2. StreamedInv
    BY <1>1 DEF Init, StreamedInv, Silent
  <1>3. WholeInv
    BY <1>1 DEF Init, WholeInv, Whole
  <1>4. EndedInv
    BY DEF Init, EndedInv
  <1> QED  BY <1>2, <1>3, <1>4 DEF OutputInv

\* LoadGen is given what the backend generated for the request, padded when it
\* is shorter than two tokens: for every chunking, any failures, repeated final
\* responses, with warm-up or without, provided that the first chunk of a
\* stream has two tokens or more (it is padded by itself otherwise).
THEOREM ReportsWhatWasGenerated == LongFirstChunks => (Spec => []OutputIsGenerated)
  <1> SUFFICES ASSUME LongFirstChunks PROVE Spec => []OutputIsGenerated
    OBVIOUS
  <1>1. IInv /\ OutputInv /\ [Next]_vars => OutputInv'
    BY OutputNext
  <1>2. OutputInv => OutputIsGenerated
    BY DEF OutputInv, EndedInv, OutputIsGenerated
  <1> QED  BY <1>1, <1>2, OutputInit, IInvAlways, PTL DEF Spec

-----------------------------------------------------------------------------
(***************************************************************************)
(* No token is lost, whatever the size of the chunks: the same bookkeeping *)
(* in numbers, since padding may come to stand among the tokens.           *)
(***************************************************************************)
Kept(s) == Cardinality(Generated(s))

\* What a text keeps of the generated tokens is a finite number of places.
LEMMA KeptType ==
  ASSUME NEW s \in Seq(TokenKinds)
  PROVE  /\ Generated(s) \subseteq 1..Len(s) /\ IsFiniteSet(Generated(s))
         /\ Kept(s) \in Nat
  <1>1. Generated(s) \subseteq 1..Len(s) /\ Len(s) \in Nat
    BY DEF Generated
  <1>2. IsFiniteSet(1..Len(s))
    BY <1>1, FS_Interval
  <1>3. IsFiniteSet(Generated(s))
    BY <1>1, <1>2, FS_Subset
  <1> QED  BY <1>1, <1>3, FS_CardinalityType DEF Kept

\* Tokens keep themselves.
LEMMA KeptTokens ==
  ASSUME NEW t \in Seq({"tok"})
  PROVE  t \in Seq(TokenKinds) /\ Generated(t) = 1..Len(t) /\ Kept(t) = Len(t)
  <1>1. t \in Seq(TokenKinds)
    BY DEF TokenKinds
  <1>2. Generated(t) = 1..Len(t) /\ Len(t) \in Nat
    BY DEF Generated
  <1>3. Cardinality(1..Len(t)) = Len(t)
    BY <1>2, CardInterval
  <1> QED  BY <1>1, <1>2, <1>3 DEF Kept

\* Tokens that are joined are counted with those before them.
LEMMA KeptJoin ==
  ASSUME NEW s \in Seq(TokenKinds), NEW t \in Seq({"tok"})
  PROVE  s \o t \in Seq(TokenKinds) /\ Kept(s \o t) = Kept(s) + Len(t)
  <1>1. t \in Seq(TokenKinds) /\ Len(s) \in Nat /\ Len(t) \in Nat
    BY KeptTokens
  <1>2. PICK u : u = s \o t
    OBVIOUS
  <1>3. u \in Seq(TokenKinds) /\ Len(u) = Len(s) + Len(t)
    BY <1>1, <1>2, JoinLength
  <1>4. \A i \in 1..Len(s) : u[i] = s[i]
    BY <1>1, <1>2
  <1>5. \A i \in (Len(s) + 1)..(Len(s) + Len(t)) : u[i] = "tok"
    <2> SUFFICES ASSUME NEW i \in (Len(s) + 1)..(Len(s) + Len(t)) PROVE u[i] = "tok"
      OBVIOUS
    <2>1. i - Len(s) \in 1..Len(t) /\ i \in Int
      BY <1>1
    <2>2. u[i] = t[i - Len(s)]
      BY <1>1, <1>2, <2>1
    <2> QED  BY <2>1, <2>2
  <1> DEFINE tail == (Len(s) + 1)..(Len(s) + Len(t))
  <1>6. Generated(s) \subseteq 1..Len(s) /\ IsFiniteSet(Generated(s)) /\ Kept(s) \in Nat
    BY KeptType
  <1>7. Generated(u) = Generated(s) \cup tail
    <2>1. DOMAIN u = 1..(Len(s) + Len(t)) /\ DOMAIN s = 1..Len(s)
      BY <1>1, <1>3
    <2>2. 1..(Len(s) + Len(t)) = (1..Len(s)) \cup tail
      BY <1>1
    <2>3. ASSUME NEW i \in Generated(u) PROVE i \in Generated(s) \cup tail
      BY <1>4, <2>1, <2>2, <2>3 DEF Generated
    <2>4. ASSUME NEW i \in Generated(s) PROVE i \in Generated(u)
      BY <1>4, <2>1, <2>2, <2>4 DEF Generated
    <2>5. ASSUME NEW i \in tail PROVE i \in Generated(u)
      BY <1>5, <2>1, <2>2, <2>5 DEF Generated
    <2> QED  BY <2>3, <2>4, <2>5
  <1>8. Generated(s) \cap tail = {}
    <2>1. (1..Len(s)) \cap tail = {}
      BY <1>1
    <2> QED  BY <1>6, <2>1
  <1>9. IsFiniteSet(tail) /\ Cardinality(tail) = Len(t)
    <2>1. Len(s) + 1 \in Int /\ Len(s) + Len(t) \in Int
      BY <1>1
    <2>2. /\ IsFiniteSet(tail)
          /\ Cardinality(tail) = IF Len(s) + 1 > Len(s) + Len(t) THEN 0
                                 ELSE (Len(s) + Len(t)) - (Len(s) + 1) + 1
      BY <2>1, FS_Interval
    <2> HIDE DEF tail
    <2> QED  BY <1>1, <2>2
  <1> HIDE DEF tail
  <1>10. Cardinality(Generated(s) \cup tail) = Kept(s) + Len(t) - 0
    <2>1. Cardinality(Generated(s) \cup tail) =
            Cardinality(Generated(s)) + Cardinality(tail) - Cardinality(Generated(s) \cap tail)
      BY <1>6, <1>9, FS_Union
    <2> QED  BY <1>8, <1>9, <2>1, FS_EmptySet DEF Kept
  <1>11. Kept(u) = Kept(s) + Len(t)
    BY <1>1, <1>6, <1>7, <1>10 DEF Kept
  <1> QED  BY <1>2, <1>3, <1>11

\* Padding generates nothing, hides nothing and leaves two tokens at least.
LEMMA KeptPadded ==
  ASSUME NEW s \in Seq(TokenKinds)
  PROVE  Padded(s) \in Seq(TokenKinds) /\ Kept(Padded(s)) = Kept(s) /\ Len(Padded(s)) >= 2
  <1>1. Padded(s) \in Seq(TokenKinds)
    BY PaddedType
  <1>2. ASSUME NEW u \in Seq(TokenKinds), NEW x \in TokenKinds, x # "tok"
        PROVE  Generated(Append(u, x)) = Generated(u) /\ Len(Append(u, x)) = Len(u) + 1
    BY <1>2 DEF Generated
  <1>3. CASE s = <<>>
    <2>1. Padded(s) = <<"BOS", "EOS">>
      BY <1>3, PaddedNone
    <2>2. Generated(<<"BOS", "EOS">>) = {} /\ Len(<<"BOS", "EOS">>) = 2
      BY DEF Generated
    <2>3. Generated(<<>>) = {}
      BY DEF Generated
    <2>4. Generated(Padded(s)) = {} /\ Generated(s) = {} /\ Len(Padded(s)) = 2
      BY <1>3, <2>1, <2>2, <2>3, Zenon
    <2>5. Kept(Padded(s)) = Kept(s) /\ Len(Padded(s)) >= 2
      BY <2>4 DEF Kept
    <2> QED  BY <1>1, <2>5
  <1>4. CASE s # <<>>
    <2>1. Len(s) \in Nat /\ Len(s) >= 1
      BY <1>4
    <2>2. CASE Len(s) <= 1
      <3>1. Padded(s) = Append(s, "EOS")
        BY <1>4, <2>2 DEF Padded, PadWith
      <3>2. "EOS" \in TokenKinds
        BY DEF TokenKinds
      <3>3. Generated(Append(s, "EOS")) = Generated(s) /\ Len(Append(s, "EOS")) = Len(s) + 1
        BY <1>2, <3>2
      <3> QED  BY <1>1, <2>1, <3>1, <3>3 DEF Kept
    <2>3. CASE Len(s) >= 2
      <3>1. Padded(s) = s
        BY <1>4, <2>1, <2>3, PaddedLong
      <3> QED  BY <2>3, <3>1
    <2> QED  BY <2>1, <2>2, <2>3
  <1> QED  BY <1>3, <1>4

\* n[i] tokens of r are told before the i-th response in Q, k before the first
\* and a after the last, and a final response leaves none to tell.
Tally(r, Q, k, a, st, n) ==
    /\ n[1] = k /\ n[Len(Q) + 1] = a
    /\ \A i \in 1..Len(Q) : Q[i].id # r => n[i + 1] = n[i]
    /\ \A i \in 1..Len(Q) : Q[i].id = r =>
        /\ n[i + 1] = n[i] + Len(Q[i].toks)
        /\ Q[i].error => Q[i].toks = <<>>
        /\ Q[i].final => st = "end" /\ n[i + 1] = a

Tallied(r, Q, k, a, st) ==
    \E n \in [1..(Len(Q) + 1) -> Nat] : Tally(r, Q, k, a, st, n)

\* With nothing under way everything has been told.
LEMMA TallyNone ==
  ASSUME NEW r, NEW Q, Len(Q) = 0, NEW a \in Nat, NEW st
  PROVE  Tallied(r, Q, a, a, st)
  <1>1. PICK n : n = [i \in 1..(Len(Q) + 1) |-> a]
    OBVIOUS
  <1>2. n \in [1..(Len(Q) + 1) -> Nat] /\ n[1] = a /\ n[Len(Q) + 1] = a
    BY <1>1
  <1>3. 1..Len(Q) = {}
    OBVIOUS
  <1> QED  BY <1>2, <1>3 DEF Tally, Tallied

\* More may be known of the backend's state than before.
LEMMA TallyEnd ==
  ASSUME NEW r, NEW Q, NEW k, NEW a, NEW st, NEW st2, st = "end" => st2 = "end",
         Tallied(r, Q, k, a, st)
  PROVE  Tallied(r, Q, k, a, st2)
  <1>1. ASSUME NEW n, Tally(r, Q, k, a, st, n) PROVE Tally(r, Q, k, a, st2, n)
    BY <1>1 DEF Tally
  <1> QED  BY <1>1 DEF Tallied

\* The first response in Q is handled.
LEMMA TallyDrop ==
  ASSUME NEW r, NEW Q \in Seq(Response), NEW Q2 \in Seq(Response), Len(Q) = Len(Q2) + 1,
         \A i \in 1..Len(Q2) : Q2[i] = Q[i + 1],
         NEW k, NEW a, NEW st, Tallied(r, Q, k, a, st)
  PROVE  /\ Q[1].id # r => Tallied(r, Q2, k, a, st)
         /\ Q[1].id = r => /\ Tallied(r, Q2, k + Len(Q[1].toks), a, st)
                           /\ Q[1].error => Q[1].toks = <<>>
                           /\ Q[1].final => st = "end" /\ k + Len(Q[1].toks) = a
  <1>1. PICK n \in [1..(Len(Q) + 1) -> Nat] : Tally(r, Q, k, a, st, n)
    BY DEF Tallied
  <1>2. Len(Q) \in Nat /\ Len(Q2) \in Nat /\ 1 \in 1..Len(Q)
    OBVIOUS
  <1>3. n[1] = k /\ n[Len(Q) + 1] = a
    BY <1>1 DEF Tally
  <1>4. /\ Q[1].id # r => n[2] = n[1]
        /\ Q[1].id = r => /\ n[2] = n[1] + Len(Q[1].toks)
                          /\ Q[1].error => Q[1].toks = <<>>
                          /\ Q[1].final => st = "end" /\ n[2] = a
    <2>1. PICK i \in 1..Len(Q), j \in Nat : i = 1 /\ j = i + 1
      BY <1>2
    <2>2. /\ Q[i].id # r => n[j] = n[i]
          /\ Q[i].id = r => /\ n[j] = n[i] + Len(Q[i].toks)
                            /\ Q[i].error => Q[i].toks = <<>>
                            /\ Q[i].final => st = "end" /\ n[j] = a
      BY <1>1, <2>1 DEF Tally
    <2>3. i = 1 /\ j = 2
      BY <2>1
    <2> QED  BY <2>2, <2>3
  <1>5. PICK m : m = [i \in 1..(Len(Q2) + 1) |-> n[i + 1]]
    OBVIOUS
  <1>6. m \in [1..(Len(Q2) + 1) -> Nat] /\ \A i \in 1..(Len(Q2) + 1) : m[i] = n[i + 1]
    BY <1>2, <1>5
  <1>7. m[1] = n[2] /\ m[Len(Q2) + 1] = a
    <2>1. 1 \in 1..(Len(Q2) + 1) /\ Len(Q2) + 1 \in 1..(Len(Q2) + 1)
      BY <1>2
    <2>2. m[1] = n[1 + 1] /\ m[Len(Q2) + 1] = n[(Len(Q2) + 1) + 1]
      BY <1>6, <2>1
    <2>3. 1 + 1 = 2 /\ (Len(Q2) + 1) + 1 = Len(Q) + 1
      BY <1>2
    <2> QED  BY <1>3, <2>2, <2>3
  <1>8. ASSUME NEW i \in 1..Len(Q2)
        PROVE  /\ Q2[i] = Q[i + 1] /\ m[i] = n[i + 1] /\ m[i + 1] = n[(i + 1) + 1]
               /\ i + 1 \in 1..Len(Q)
    <2>1. i \in 1..(Len(Q2) + 1) /\ i + 1 \in 1..(Len(Q2) + 1) /\ i + 1 \in 1..Len(Q)
      BY <1>2
    <2>2. m[i] = n[i + 1] /\ m[i + 1] = n[(i + 1) + 1]
      BY <1>6, <2>1
    <2> QED  BY <2>1, <2>2
  <1>9. \A i \in 1..Len(Q2) : Q2[i].id # r => m[i + 1] = m[i]
    BY <1>1, <1>8 DEF Tally
  <1>10. ASSUME NEW i \in 1..Len(Q2), Q2[i].id = r
         PROVE  /\ m[i + 1] = m[i] + Len(Q2[i].toks)
                /\ Q2[i].error => Q2[i].toks = <<>>
                /\ Q2[i].final => st = "end" /\ m[i + 1] = a
    <2>1. PICK j \in 1..Len(Q) : Q2[i] = Q[j] /\ m[i] = n[j] /\ m[i + 1] = n[j + 1]
      BY <1>8
    <2> QED  BY <1>1, <1>10, <2>1 DEF Tally
  <1>11. Tally(r, Q2, n[2], a, st, m)
    BY <1>7, <1>9, <1>10 DEF Tally
  <1>12. Tallied(r, Q2, n[2], a, st)
    BY <1>6, <1>11 DEF Tallied
  <1> QED  BY <1>3, <1>4, <1>12

\* A response joins the end of Q.
LEMMA TallyAdd ==
  ASSUME NEW r, NEW Q, NEW Q2, NEW e, Joins(Q, Q2, e),
         NEW k, NEW a \in Nat, NEW st, NEW st2, Tallied(r, Q, k, a, st),
         NEW a2 \in Nat, a2 = a + (IF e.id = r THEN Len(e.toks) ELSE 0),
         IF e.id = r THEN Follows(e, st, st2) ELSE st2 = st
  PROVE  Tallied(r, Q2, k, a2, st2)
  <1> /\ Q \in Seq(Response) /\ Q2 \in Seq(Response) /\ e \in Response
      /\ Len(Q2) = Len(Q) + 1 /\ Q2[Len(Q) + 1] = e
      /\ \A i \in 1..Len(Q) : Q2[i] = Q[i]
    BY DEF Joins
  <1>1. PICK n \in [1..(Len(Q) + 1) -> Nat] : Tally(r, Q, k, a, st, n)
    BY DEF Tallied
  <1>2. Len(Q) \in Nat /\ e.toks \in Seq({"tok"}) /\ Len(e.toks) \in Nat
    BY ResponseFields
  <1>3. e.id = r => /\ st = "end" => st2 = "end" /\ e.toks = <<>>
                    /\ e.error => e.toks = <<>>
                    /\ e.final => st2 = "end"
    BY DEF Follows
  <1>4. PICK m : m = [i \in 1..(Len(Q2) + 1) |-> IF i <= Len(Q) + 1 THEN n[i] ELSE a2]
    OBVIOUS
  <1>5. /\ m \in [1..(Len(Q2) + 1) -> Nat]
        /\ \A i \in 1..(Len(Q) + 1) : m[i] = n[i]
        /\ m[Len(Q) + 2] = a2 /\ m[Len(Q2) + 1] = a2
    BY <1>2, <1>4
  <1>6. m[1] = k /\ m[Len(Q) + 1] = a
    <2>1. n[1] = k /\ n[Len(Q) + 1] = a
      BY <1>1 DEF Tally
    <2>2. 1 \in 1..(Len(Q) + 1) /\ Len(Q) + 1 \in 1..(Len(Q) + 1)
      BY <1>2
    <2> QED  BY <1>5, <2>1, <2>2
  <1>7. \A i \in 1..Len(Q2) : i \in 1..Len(Q) \/ i = Len(Q) + 1
    BY <1>2
  <1>8. ASSUME NEW i \in 1..Len(Q)
        PROVE  Q2[i] = Q[i] /\ m[i] = n[i] /\ m[i + 1] = n[i + 1]
    BY <1>2, <1>5
  <1>9. \A i \in 1..Len(Q2) : Q2[i].id # r => m[i + 1] = m[i]
    <2>1. \A i \in 1..Len(Q) : Q2[i].id # r => m[i + 1] = m[i]
      BY <1>1, <1>8 DEF Tally
    <2>2. e.id # r => m[Len(Q) + 2] = m[Len(Q) + 1]
      BY <1>5, <1>6
    <2>3. (Len(Q) + 1) + 1 = Len(Q) + 2
      BY <1>2
    <2> QED  BY <1>7, <2>1, <2>2, <2>3
  <1>10. ASSUME NEW i \in 1..Len(Q2), Q2[i].id = r
         PROVE  /\ m[i + 1] = m[i] + Len(Q2[i].toks)
                /\ Q2[i].error => Q2[i].toks = <<>>
                /\ Q2[i].final => st2 = "end" /\ m[i + 1] = a2
    <2>1. CASE i \in 1..Len(Q)
      <3>1. /\ n[i + 1] = n[i] + Len(Q[i].toks)
            /\ Q[i].error => Q[i].toks = <<>>
            /\ Q[i].final => st = "end" /\ n[i + 1] = a
        BY <1>1, <1>8, <1>10, <2>1 DEF Tally
      <3>2. st = "end" => st2 = "end" /\ a2 = a
        <4>1. Len(<<>>) = 0
          OBVIOUS
        <4> QED  BY <1>3, <4>1
      <3> QED  BY <1>8, <2>1, <3>1, <3>2
    <2>2. CASE i = Len(Q) + 1
      <3>1. Q2[i] = e /\ m[i] = a /\ m[i + 1] = a2 /\ e.id = r
        BY <1>2, <1>5, <1>6, <1>10, <2>2
      <3> QED  BY <1>3, <3>1
    <2> QED  BY <1>7, <2>1, <2>2
  <1>11. Tally(r, Q2, k, a2, st2, m)
    BY <1>5, <1>6, <1>9, <1>10 DEF Tally
  <1> QED  BY <1>5, <1>11 DEF Tallied

TalliedInv ==
    Streaming => \A r \in Requests :
        Tallied(r, Queue, Kept(toks[r]), Len(gen[r]), bst[r])

\* What is reported as the whole output holds all tokens of the request.
AllIn(r, s) == Kept(s) = Len(gen[r]) /\ Len(s) >= 2 /\ bst[r] = "end"

CountedInv ==
    /\ pollPc \in {"track", "deliver"} /\ cur.final => AllIn(cur.id, toks[cur.id])
    /\ \A r \in Requests : completions[r] > 0 => AllIn(r, output[r])

LosslessInv == TalliedInv /\ WholeInv /\ CountedInv

\* At the start nothing is generated, under way or told.
LEMMA LosslessInit == Init => LosslessInv
  <1> SUFFICES ASSUME Init PROVE LosslessInv
    OBVIOUS
  <1>1. OutputInv
    BY OutputInit
  <1>2. Queue = <<>> /\ Len(Queue) = 0
    <2>1. batch = <<>> /\ ready = <<>>
      BY DEF Init
    <2>2. Queue = <<>>
      BY <2>1, PaddedNone DEF Queue
    <2> QED  BY <2>2
  <1>3. TalliedInv
    <2> SUFFICES ASSUME NEW r \in Requests
                 PROVE  Tallied(r, Queue, Kept(toks[r]), Len(gen[r]), bst[r])
      BY DEF TalliedInv
    <2>1. toks[r] = <<>> /\ gen[r] = <<>>
      BY DEF Init
    <2>2. <<>> \in Seq({"tok"}) /\ Len(<<>>) = 0
      OBVIOUS
    <2>3. Kept(<<>>) = 0
      BY <2>2, KeptTokens
    <2>4. PICK Q, st : Q = Queue /\ st = bst[r]
      OBVIOUS
    <2>5. Tallied(r, Q, 0, 0, st)
      BY <1>2, <2>4, TallyNone
    <2> QED  BY <2>1, <2>2, <2>3, <2>4, <2>5
  <1>4. CountedInv
    BY DEF Init, CountedInv
  <1> QED  BY <1>1, <1>3, <1>4 DEF OutputInv, LosslessInv

\* Steps that move no response keep the tallies.
LEMMA QuietTallies ==
  ASSUME LosslessInv, Queue' = Queue, UNCHANGED <<toks, gen>>,
         \A r \in Requests : bst[r] = "end" => bst'[r] = "end"
  PROVE  TalliedInv' /\ WholeInv'
  <1>1. TalliedInv'
    <2> SUFFICES ASSUME Streaming, NEW r \in Requests
                 PROVE  Tallied(r, Queue, Kept(toks[r]), Len(gen[r]), bst'[r])
      BY DEF TalliedInv
    <2>1. Tallied(r, Queue, Kept(toks[r]), Len(gen[r]), bst[r])
      BY DEF LosslessInv, TalliedInv
    <2>2. bst[r] = "end" => bst'[r] = "end"
      OBVIOUS
    <2> QED  BY <2>1, <2>2, TallyEnd
  <1>2. WholeInv'
    <2> SUFFICES ASSUME ~Streaming, NEW r \in Requests
                 PROVE  Whole(r, Queue, gen[r], bst'[r])
      BY DEF WholeInv
    <2>1. Whole(r, Queue, gen[r], bst[r])
      BY DEF LosslessInv, WholeInv
    <2>2. bst[r] = "end" => bst'[r] = "end"
      OBVIOUS
    <2> QED  BY <2>1, <2>2, AccountsEnd
  <1> QED  BY <1>1, <1>2

\* A response of the backend adds its tokens to what is to be told.
LEMMA SendsTallies ==
  ASSUME TypeOK, LosslessInv, NEW q \in Requests, NEW e, Sends(q, e),
         UNCHANGED <<coreVars, pollVars, driverVars, loadgenVars>>
  PROVE  LosslessInv'
  <1>a. e \in Response /\ e.id = q /\ e.toks \in Seq({"tok"}) /\ Len(e.toks) \in Nat
    BY ResponseFields DEF Sends
  <1>b. /\ \A r \in Requests : gen[r] \in Seq({"tok"})
        /\ cur.id \in Requests
    BY DEF TypeOK
  <1>c. UNCHANGED <<batch, toks, cur, pollPc, completions, output>>
    BY DEF pollVars, loadgenVars
  <1>1. Joins(Queue, Queue', e)
    BY <1>c, SendsJoins
  <1>2. ASSUME NEW r \in Requests, bst[r] = "end" PROVE gen'[r] = gen[r] /\ bst'[r] = "end"
    BY <1>2, EndStays
  <1>3. TalliedInv'
    <2> SUFFICES ASSUME Streaming, NEW r \in Requests
                 PROVE  Tallied(r, Queue', Kept(toks[r]), Len(gen'[r]), bst'[r])
      BY <1>c DEF TalliedInv
    <2>1. Tallied(r, Queue, Kept(toks[r]), Len(gen[r]), bst[r])
      BY DEF LosslessInv, TalliedInv
    <2>2. PICK Q, Q2, k, a, a2, st, st2 :
              /\ Q = Queue /\ Q2 = Queue' /\ k = Kept(toks[r]) /\ a = Len(gen[r])
              /\ a2 = Len(gen'[r]) /\ st = bst[r] /\ st2 = bst'[r]
      OBVIOUS
    <2>3. a \in Nat /\ a2 \in Nat /\ a2 = a + (IF e.id = r THEN Len(e.toks) ELSE 0)
      <3>1. CASE r = q
        <4>1. gen[r] \in Seq({"tok"}) /\ gen'[r] = gen[r] \o e.toks
          BY <1>b, <3>1 DEF Sends
        <4>2. Len(gen'[r]) = Len(gen[r]) + Len(e.toks)
          BY <1>a, <4>1, JoinTokens
        <4>3. a \in Nat /\ a2 = a + Len(e.toks)
          <5>1. Len(gen[r]) \in Nat
            BY <4>1
          <5> QED  BY <2>2, <4>2, <5>1, Zenon
        <4> QED  BY <1>a, <3>1, <4>3
      <3>2. CASE r # q
        <4>1. gen[r] \in Seq({"tok"}) /\ gen'[r] = gen[r]
          BY <1>b, <3>2 DEF Sends
        <4>2. a \in Nat /\ a2 = a
          <5>1. Len(gen[r]) \in Nat
            BY <4>1
          <5> QED  BY <2>2, <4>1, <5>1, Zenon
        <4> QED  BY <1>a, <3>2, <4>2
      <3> QED  BY <3>1, <3>2
    <2>4. IF e.id = r THEN Follows(e, st, st2) ELSE st2 = st
      <3>1. CASE r = q
        <4>1. /\ st2 = IF e.final THEN "end" ELSE "run"
              /\ st = "end" => e.toks = <<>> /\ e.final
              /\ e.error => e.toks = <<>> /\ e.final
          BY <2>2, <3>1 DEF Sends
        <4> QED  BY <1>a, <3>1, <4>1 DEF Follows
      <3>2. CASE r # q
        BY <1>a, <2>2, <3>2 DEF Sends
      <3> QED  BY <3>1, <3>2
    <2>5. Joins(Q, Q2, e) /\ Tallied(r, Q, k, a, st)
      BY <1>1, <2>1, <2>2
    <2>6. Tallied(r, Q2, k, a2, st2)
      BY <2>3, <2>4, <2>5, TallyAdd
    <2> QED  BY <2>2, <2>6
  <1>4. WholeInv'
    BY <1>c, WholeSends DEF LosslessInv
  <1>5. CountedInv'
    <2>1. pollPc \in {"track", "deliver"} /\ cur.final =>
              /\ Kept(toks[cur.id]) = Len(gen'[cur.id]) /\ Len(toks[cur.id]) >= 2
              /\ bst'[cur.id] = "end"
      BY <1>b, <1>2 DEF LosslessInv, CountedInv, AllIn
    <2>2. \A r \in Requests : completions[r] > 0 =>
              /\ Kept(output[r]) = Len(gen'[r]) /\ Len(output[r]) >= 2
              /\ bst'[r] = "end"
      BY <1>2 DEF LosslessInv, CountedInv, AllIn
    <2> QED  BY <1>c, <2>1, <2>2 DEF CountedInv, AllIn
  <1> QED  BY <1>3, <1>4, <1>5 DEF LosslessInv

\* A chunk is joined and counted, an answer stored, an error skipped.
LEMMA HandleTallies ==
  ASSUME IInv, LosslessInv, SkipError \/ StreamChunk \/ WholeAnswer
  PROVE  LosslessInv'
  <1>1. /\ batch # <<>> /\ batch' = Tail(batch) /\ ready' = ready /\ pollPc = "handle"
        /\ UNCHANGED <<gen, nresp, bst, completions, output>>
    BY DEF SkipError, StreamChunk, WholeAnswer
  <1>2. PICK Q, Q2, c : Q = Queue /\ Q2 = Queue' /\ c = Head(batch)
    OBVIOUS
  <1>3. /\ Q \in Seq(Response) /\ Q2 \in Seq(Response) /\ Len(Q) = Len(Q2) + 1
        /\ \A i \in 1..Len(Q2) : Q2[i] = Q[i + 1]
        /\ Q[1] = c
    <2>1. TypeOK
      BY DEF IInv
    <2> QED  BY <1>1, <1>2, <2>1, TakesFirst
  <1>4. /\ c \in Response /\ c.id \in Requests /\ c.toks \in Seq({"tok"})
        /\ 1 \in 1..Len(Q) /\ Len(Q) \in Nat /\ Len(Q2) \in Nat
    <2>1. 1 \in 1..Len(Q) /\ Len(Q) \in Nat /\ Len(Q2) \in Nat
      BY <1>3
    <2>2. c \in Response
      BY <1>3, <2>1
    <2> QED  BY <2>1, <2>2, ResponseFields
  <1>5. toks \in [Requests -> Seq(TokenKinds)]
    BY DEF IInv, TypeOK
  <1>6. Streaming => \A r \in Requests : Tallied(r, Q, Kept(toks[r]), Len(gen[r]), bst[r])
    BY <1>2 DEF LosslessInv, TalliedInv
  <1>7. WholeInv'
    <2> SUFFICES ASSUME ~Streaming, NEW r \in Requests
                 PROVE  Whole(r, Q2, gen[r], bst[r])
      BY <1>1, <1>2 DEF WholeInv
    <2>1. Whole(r, Q, gen[r], bst[r])
      BY <1>2 DEF LosslessInv, WholeInv
    <2>2. \A i \in 1..Len(Q2) : i + 1 \in 1..Len(Q) /\ Q2[i] = Q[i + 1]
      BY <1>3, <1>4
    <2> QED  BY <2>1, <2>2 DEF Whole
  <1>8. \A r \in Requests : completions'[r] > 0 => AllIn(r, output[r])
    BY <1>1 DEF LosslessInv, CountedInv
  \* A request whose text stays as it is.
  <1>9. ASSUME Streaming, NEW r \in Requests, toks'[r] = toks[r], c.id = r => c.error
        PROVE  Tallied(r, Q2, Kept(toks'[r]), Len(gen[r]), bst[r])
    <2>1. PICK k, a, st : k = Kept(toks[r]) /\ a = Len(gen[r]) /\ st = bst[r]
      OBVIOUS
    <2>2. Tallied(r, Q, k, a, st) /\ k \in Nat
      BY <1>5, <1>6, <1>9, <2>1, KeptType
    <2>3. /\ Q[1].id # r => Tallied(r, Q2, k, a, st)
          /\ Q[1].id = r => /\ Tallied(r, Q2, k + Len(Q[1].toks), a, st)
                            /\ Q[1].error => Q[1].toks = <<>>
      BY <1>3, <2>2, TallyDrop
    <2>4. Tallied(r, Q2, k, a, st)
      <3>1. CASE c.id # r
        BY <1>3, <2>3, <3>1
      <3>2. CASE c.id = r
        <4>1. c.toks = <<>>
          BY <1>3, <1>9, <2>3, <3>2
        <4>2. k + Len(c.toks) = k
          <5>1. Len(c.toks) = 0
            BY <4>1
          <5> QED  BY <2>2, <5>1
        <4> QED  BY <1>3, <2>3, <3>2, <4>2
      <3> QED  BY <3>1, <3>2
    <2> QED  BY <1>9, <2>1, <2>4
  <1>10. CASE SkipError
    <2>1. c.error /\ toks' = toks /\ pollPc' = "handle"
      BY <1>1, <1>2, <1>10 DEF SkipError
    <2>2. TalliedInv'
      BY <1>1, <1>2, <1>9, <2>1 DEF TalliedInv
    <2>3. CountedInv'
      BY <1>1, <1>8, <2>1 DEF CountedInv, AllIn
    <2> QED  BY <1>7, <2>2, <2>3 DEF LosslessInv
  <1>11. CASE StreamChunk
    <2>1. PICK joined : joined = toks[c.id] \o c.toks
      OBVIOUS
    <2>2. /\ Streaming /\ ~c.error
          /\ toks' = [toks EXCEPT ![c.id] =
                        IF c.id \notin seen \/ c.final THEN Padded(joined) ELSE joined]
          /\ cur'.id = c.id /\ cur'.final = c.final
      BY <1>2, <1>11, <2>1 DEF StreamChunk
    <2>3. /\ joined \in Seq(TokenKinds)
          /\ Kept(joined) = Kept(toks[c.id]) + Len(c.toks)
          /\ Kept(Padded(joined)) = Kept(joined) /\ Len(Padded(joined)) >= 2
      <3>1. toks[c.id] \in Seq(TokenKinds)
        BY <1>4, <1>5
      <3>2. joined \in Seq(TokenKinds) /\ Kept(joined) = Kept(toks[c.id]) + Len(c.toks)
        BY <1>4, <2>1, <3>1, KeptJoin
      <3> QED  BY <3>2, KeptPadded
    <2>4. PICK t2, k, a, st : /\ t2 = toks'[c.id] /\ k = Kept(toks[c.id])
                              /\ a = Len(gen[c.id]) /\ st = bst[c.id]
      OBVIOUS
    <2>5. t2 = IF c.id \notin seen \/ c.final THEN Padded(joined) ELSE joined
      BY <1>4, <1>5, <2>2, <2>4
    <2>6. Kept(t2) = k + Len(c.toks) /\ (c.final => Len(t2) >= 2)
      BY <2>3, <2>4, <2>5
    <2>7. Tallied(c.id, Q, k, a, st)
      BY <1>4, <1>6, <2>2, <2>4
    <2>8. /\ Tallied(c.id, Q2, k + Len(c.toks), a, st)
          /\ c.final => st = "end" /\ k + Len(c.toks) = a
      <3>1. PICK r : r = c.id
        OBVIOUS
      <3>2. Tallied(r, Q, k, a, st) /\ Q[1].id = r
        BY <1>3, <2>7, <3>1
      <3>3. /\ Tallied(r, Q2, k + Len(Q[1].toks), a, st)
            /\ Q[1].final => st = "end" /\ k + Len(Q[1].toks) = a
        BY <1>3, <3>2, TallyDrop
      <3> QED  BY <1>3, <3>1, <3>3
    <2>9. TalliedInv'
      <3> SUFFICES ASSUME NEW r \in Requests
                   PROVE  Tallied(r, Q2, Kept(toks'[r]), Len(gen[r]), bst[r])
        BY <1>1, <1>2 DEF TalliedInv
      <3>1. CASE r = c.id
        BY <2>4, <2>6, <2>8, <3>1
      <3>2. CASE r # c.id
        <4>1. toks'[r] = toks[r]
          BY <1>5, <2>2, <3>2
        <4> QED  BY <1>9, <2>2, <3>2, <4>1
      <3> QED  BY <3>1, <3>2
    <2>10. c.final => AllIn(c.id, t2)
      BY <2>4, <2>6, <2>8 DEF AllIn
    <2>11. CountedInv'
      BY <1>1, <1>8, <2>2, <2>4, <2>10 DEF CountedInv, AllIn
    <2> QED  BY <1>7, <2>9, <2>11 DEF LosslessInv
  <1>12. CASE WholeAnswer
    <2>1. /\ ~Streaming /\ ~c.error
          /\ toks' = [toks EXCEPT ![c.id] = Padded(c.toks)] /\ cur'.id = c.id
      BY <1>2, <1>12 DEF WholeAnswer
    <2>2. Whole(c.id, Q, gen[c.id], bst[c.id])
      BY <1>2, <1>4, <2>1 DEF LosslessInv, WholeInv
    <2>3. bst[c.id] = "end" /\ c.toks = gen[c.id]
      BY <1>3, <1>4, <2>1, <2>2 DEF Whole
    <2>4. PICK t2 : t2 = toks'[c.id]
      OBVIOUS
    <2>5. t2 = Padded(c.toks)
      BY <1>4, <1>5, <2>1, <2>4
    <2>6. AllIn(c.id, t2)
      <3>1. c.toks \in Seq(TokenKinds) /\ Kept(c.toks) = Len(c.toks)
        BY <1>4, KeptTokens
      <3>2. Kept(Padded(c.toks)) = Kept(c.toks) /\ Len(Padded(c.toks)) >= 2
        BY <3>1, KeptPadded
      <3> QED  BY <2>3, <2>5, <3>1, <3>2 DEF AllIn
    <2>7. CountedInv'
      BY <1>1, <1>8, <2>1, <2>4, <2>6 DEF CountedInv, AllIn
    <2>8. TalliedInv'
      BY <2>1 DEF TalliedInv
    <2> QED  BY <1>7, <2>7, <2>8 DEF LosslessInv
  <1> QED  BY <1>10, <1>11, <1>12

\* Every step keeps the tallies and what they say of the reported ends.
LEMMA LosslessNext == IInv /\ LosslessInv /\ [Next]_vars => LosslessInv'
  <1> SUFFICES ASSUME IInv, LosslessInv, [Next]_vars PROVE LosslessInv'
    OBVIOUS
  <1>a. /\ completions \in [Requests -> Nat] /\ output \in [Requests -> Seq(TokenKinds)]
        /\ cur.id \in Requests /\ cur.final \in BOOLEAN
    BY DEF IInv, TypeOK
  <1>b. CountedInv
    BY DEF LosslessInv
  <1>1. CASE Driver \/ Handler
    <2>1. UNCHANGED <<pollVars, gen, nresp, ready, completions, output>>
      BY <1>1, DriverFrame
    <2>2. \A r \in Requests : bst[r] = "end" => bst'[r] = "end"
      BY <1>1, DriverEnds
    <2>3. Queue' = Queue
      BY <2>1 DEF Queue, pollVars
    <2>4. TalliedInv' /\ WholeInv'
      BY <2>1, <2>2, <2>3, QuietTallies DEF pollVars
    <2>5. CountedInv'
      BY <1>a, <1>b, <2>1, <2>2 DEF CountedInv, AllIn, pollVars
    <2> QED  BY <2>4, <2>5 DEF LosslessInv
  <1>2. CASE SkipError \/ StreamChunk \/ WholeAnswer
    BY <1>2, HandleTallies
  <1>3. CASE Poll /\ ~SkipError /\ ~StreamChunk /\ ~WholeAnswer
    <2>1. UNCHANGED <<bst, gen, nresp>>
      BY <1>3, PollFrame
    <2>2. UNCHANGED <<toks, cur>>
      BY <1>3 DEF Poll, PollRead, PollNotify, PollCheckStop, PollBackend, HandledAll,
         TrackResponse, DropWarmup, Deliver, PollExit, PollSetExit, PollLastNotify
    <2>3. Queue' = Queue
      <3>1. CASE PollBackend  BY <3>1, PollKeepsQueue
      <3>2. CASE ~PollBackend
        <4>1. UNCHANGED <<batch, ready>>
          BY <1>3, <3>2 DEF Poll, PollRead, PollNotify, PollCheckStop, HandledAll,
             TrackResponse, DropWarmup, Deliver, PollExit, PollSetExit, PollLastNotify
        <4> QED  BY <4>1 DEF Queue
      <3> QED  BY <3>1, <3>2
    <2>4. TalliedInv' /\ WholeInv'
      BY <2>1, <2>2, <2>3, QuietTallies
    <2>5. CountedInv'
      <3>1. CASE Deliver
        <4>1. /\ pollPc = "deliver" /\ pollPc' \in {"handle", "dead"}
              /\ completions' = [completions EXCEPT ![cur.id] =
                                    @ + IF cur.final THEN 1 ELSE 0]
              /\ output' = IF cur.final THEN [output EXCEPT ![cur.id] = toks[cur.id]]
                           ELSE output
          BY <3>1 DEF Deliver, CompleteCallback
        <4>2. ASSUME NEW r \in Requests, completions'[r] > 0 PROVE AllIn(r, output'[r])
          <5>1. CASE r = cur.id /\ cur.final
            <6>1. output'[r] = toks[r]
              BY <1>a, <4>1, <5>1
            <6> QED  BY <1>b, <4>1, <5>1, <6>1 DEF CountedInv
          <5>2. CASE ~(r = cur.id /\ cur.final)
            <6>1. output'[r] = output[r]
              BY <1>a, <4>1, <5>2
            <6>2. completions'[r] = completions[r]
              <7>1. CASE cur.final
                BY <1>a, <4>1, <5>2, <7>1
              <7>2. CASE ~cur.final
                <8>1. completions' = [completions EXCEPT ![cur.id] = @ + 0]
                  BY <4>1, <7>2
                <8> QED  BY <1>a, <8>1
              <7> QED  BY <7>1, <7>2
            <6> QED  BY <1>b, <4>2, <6>1, <6>2 DEF CountedInv
          <5> QED  BY <5>1, <5>2
        <4> QED  BY <2>1, <4>1, <4>2 DEF CountedInv, AllIn
      <3>2. CASE ~Deliver
        <4>1. /\ UNCHANGED <<completions, output>>
              /\ pollPc' \in {"track", "deliver"} => pollPc \in {"track", "deliver"}
          BY <1>3, <3>2 DEF Poll, PollRead, PollNotify, PollCheckStop, PollBackend,
             HandledAll, TrackResponse, DropWarmup, PollExit, PollSetExit, PollLastNotify
        <4> QED  BY <1>b, <2>1, <2>2, <4>1 DEF CountedInv, AllIn
      <3> QED  BY <3>1, <3>2
    <2> QED  BY <2>4, <2>5 DEF LosslessInv
  <1>4. CASE Backend
    <2>1. PICK q \in Requests : Generate(q) \/ RepeatFinal(q) \/ Fail(q)
      BY <1>4 DEF Backend
    <2>2. TypeOK
      BY DEF IInv
    <2>3. UNCHANGED <<coreVars, pollVars, driverVars, loadgenVars>>
      BY <2>1, <2>2, BackendSends
    <2>4. PICK e : Sends(q, e)
      BY <2>1, <2>2, BackendSends
    <2> QED  BY <2>2, <2>3, <2>4, SendsTallies
  <1>5. CASE Finished \/ UNCHANGED vars
    <2>1. UNCHANGED vars
      BY <1>5, FinishedFrame
    <2>2. /\ Queue' = Queue
          /\ UNCHANGED <<toks, gen, nresp, bst, cur, pollPc, completions, output>>
      BY <2>1 DEF vars, coreVars, pollVars, driverVars, backendVars, loadgenVars, Queue
    <2>3. TalliedInv' /\ WholeInv'
      BY <2>2, QuietTallies
    <2>4. CountedInv'
      BY <1>b, <2>2 DEF CountedInv, AllIn
    <2> QED  BY <2>3, <2>4 DEF LosslessInv
  <1> QED  BY <1>1, <1>2, <1>3, <1>4, <1>5 DEF Next

\* However a stream is cut into chunks, whether or not it is padded midway,
\* and whatever fails or is repeated: LoadGen is given every token the backend
\* generated for the request, and two tokens at least.
THEOREM KeepsEveryToken == Spec => []NoTokenIsLost
  <1>1. IInv /\ LosslessInv /\ [Next]_vars => LosslessInv'
    BY LosslessNext
  <1>2. LosslessInv => NoTokenIsLost
    BY DEF LosslessInv, CountedInv, AllIn, Kept, NoTokenIsLost
  <1> QED  BY <1>1, <1>2, LosslessInit, IInvAlways, PTL DEF Spec

============================================================================
