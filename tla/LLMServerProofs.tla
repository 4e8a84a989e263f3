-------------------------- MODULE LLMServerProofs --------------------------
(***************************************************************************)
(* What holds of LLMServer for any number of cores, warm-up queries and    *)
(* samples, under every scheduler.                                         *)
(***************************************************************************)
EXTENDS LLMServer, CollectionLemmas

\* The main thread has not begun to issue.
Before == mpc \in {"health", "warm", "raised"}

\* The warm-up thread of c has enqueued its queries.
Served(c) == wpc[c] \in {"flushOut", "clear", "lock", "count", "done"}

PhaseInv ==
    /\ mpc \in {"health", "raised"} => \A c \in Cores : wpc[c] = "off"
    /\ ~Before => (\A c \in Cores : wpc[c] = "off") \/ (\A c \in Cores : wpc[c] = "done")
    /\ mpc \notin {"health", "raised"} => \A c \in Cores : health[c] = "ok"
    /\ mpc \notin {"flush", "stopFlush"} => fpc[Main] = "out"
    /\ \A c \in Cores : inWarmup[c] => wpc[c] \in {"enqueue", "flushOut", "clear"}
    /\ Before =>
        /\ issued = {} /\ carried = {} /\ turn = 0 /\ DOMAIN sizes = {}
        /\ \A c \in Cores : /\ pending[c] \subseteq WarmupReqs
                            /\ islSum[c] = IF Served(c) THEN WarmupLen ELSE 0

\* completed_lock makes the read and the write of completed_count one.
CountInv ==
    /\ completed = Cardinality({c \in Cores : wpc[c] = "done"})
    /\ \A c \in Cores : wpc[c] = "count" <=> warmLock = c
    /\ \A c \in Cores : wpc[c] = "count" => seen[c] = completed

\* The cores are read in order.
ScanInv == \E k \in 0..NumCores : DOMAIN sizes = 1..k

\* What has been given to the cores, as pairs of core and request: a core holds
\* no more than it was given, and what was read of it lies between the two.
Own(given, c) == {x \in given : x[1] = c}
Deals(given) ==
    /\ given \subseteq Cores \X (issued \cup WarmupReqs)
    /\ Cardinality(given) = Cardinality(issued) + Cardinality(carried)
    /\ \A c \in Cores : \A r \in pending[c] : <<c, r>> \in given
    /\ \A c \in DOMAIN sizes : /\ Cardinality(pending[c]) <= sizes[c]
                               /\ sizes[c] <= Cardinality(Own(given, c))
DealtInv ==
    policy = "load_balancing" /\ ~Before => \E given \in SUBSET (Cores \X Requests) : Deals(given)

\* After k rounds and turn samples more.
TurnInv ==
    policy = "round_robin" => \E k \in Nat :
        /\ Cardinality(issued) = NumCores * k + turn
        /\ \A c \in Cores :
            Cardinality(pending[c] \ WarmupReqs) <= k + (IF c <= turn THEN 1 ELSE 0)

SumInv ==
    policy = "isl_load_balancing" => \A c \in DOMAIN sizes : sizes[c] = islSum[c]

\* LoadIsSpread, a scheduler at a time: that of round_robin follows from TurnInv.
QueuesSpread ==
    mpc \notin {"health", "warm"} /\ policy = "load_balancing" => \A c \in Cores :
        \/ pending[c] \subseteq WarmupReqs
        \/ EvenShare(Cardinality(pending[c]), Cardinality(issued) + Cardinality(carried))

TurnsSpread ==
    mpc \notin {"health", "warm"} /\ policy = "round_robin" => \A c \in Cores :
        EvenShare(Cardinality(pending[c] \ WarmupReqs), Cardinality(issued))

TokensSpread ==
    mpc \notin {"health", "warm"} /\ policy = "isl_load_balancing" => \A c, d \in Cores :
        \/ islSum[c] <= islSum[d]
        \/ \E r \in issued : islSum[c] <= islSum[d] + InputLen[r]

IInv ==
    /\ TypeOK /\ PhaseInv /\ CountInv /\ ScanInv
    /\ DealtInv /\ TurnInv /\ SumInv /\ QueuesSpread /\ TokensSpread

-----------------------------------------------------------------------------
\* TypeOK in parts, and what each kind of step changes.
CoreType ==
    /\ pending \in [Cores -> SUBSET Requests] /\ islSum \in [Cores -> Nat]
    /\ inWarmup \in [Cores -> BOOLEAN] /\ stopWork \in [Cores -> BOOLEAN]
    /\ exited \in [Cores -> BOOLEAN] /\ idle \in [Cores -> BOOLEAN]

WarmType ==
    /\ health \in [Cores -> {"check", "ok", "failed"}]
    /\ wpc \in [Cores -> WarmPcs] /\ seen \in [Cores -> 0..NumCores]
    /\ completed \in 0..NumCores /\ warmLock \in Threads

MainType == mpc \in MainPcs /\ fpc \in [Threads -> FlushPcs] /\ flushing \in Cores

DealType ==
    /\ policy \in Policies /\ turn \in Threads
    /\ DOMAIN sizes \subseteq Cores /\ \A c \in DOMAIN sizes : sizes[c] \in Nat
    /\ issued \subseteq TestReqs /\ answered \subseteq Requests
    /\ carried \subseteq Cores \X WarmupReqs

\* TypeOK by the parts of the state that a step changes together.
LEMMA TypeParts == TypeOK <=> CoreType /\ WarmType /\ MainType /\ DealType
  BY DEF TypeOK, CoreType, WarmType, MainType, DealType

\* The cores are numbered from 1, and the main thread and the free lock have numbers of
\* their own.
LEMMA Numbers ==
  /\ NumCores \in Nat /\ NumCores > 0 /\ 1 \in Cores /\ Main \notin Cores
  /\ Cores \subseteq Nat /\ Main \in Threads /\ Cores \subseteq Threads /\ Free \in Threads
  /\ Threads \subseteq Nat /\ IsFiniteSet(Cores) /\ Cardinality(Cores) = NumCores
  <1>1. NumCores \in Nat /\ NumCores > 0
    BY ServerAssumption
  <1>2. IsFiniteSet(Cores) /\ Cardinality(Cores) = NumCores
    BY <1>1, CardInterval DEF Cores
  <1> QED  BY <1>1, <1>2 DEF Cores, Threads, Main, Free

\* Steps of the poll and flush machinery, and of the main thread once it has
\* issued.
Quiet ==
    /\ UNCHANGED <<pending, islSum, inWarmup, health, warmVars, schedVars, loadgenVars>>
    /\ mpc' = mpc \/ (~Before /\ ~Before')

\* A step of a warm-up thread.
WarmKinds(c) ==
    \/ WarmFlushed(c) \/ EnterWarmup(c) \/ WarmEnqueue(c)
    \/ WarmRaises(c) \/ LeaveWarmup(c) \/ LockCount(c) \/ WriteCount(c)

\* The steps, by what they do to the cores and to the load.
LEMMA StepKinds ==
  ASSUME PhaseInv, [Next]_vars
  PROVE  \/ Quiet
         \/ \E c \in Cores : WarmKinds(c) \/ CheckCore(c) \/ \E r \in Requests : Complete(c, r)
         \/ HealthJoined \/ WarmupDone \/ ReadLoad
         \/ \E r \in TestReqs : RoundRobin(r) \/ Balance(r)
  <1>1. ASSUME UNCHANGED vars PROVE Quiet
    BY <1>1 DEF Quiet, vars, coreVars
  <1>2. ASSUME NEW c \in Cores, Poll(c) PROVE Quiet
    BY <1>2 DEF Quiet, Poll, PollSees, PollNotifies
  <1>3. ASSUME Flush PROVE Quiet
    BY <1>3 DEF Quiet, Flush, FlushCheck, FlushWait, coreVars
  <1>4. ASSUME BeginFlush PROVE Quiet
    BY <1>4 DEF Quiet, BeginFlush, FlushAll, coreVars, Before
  <1>5. ASSUME Flushed PROVE Quiet
    <2>1. mpc \in {"flush", "stopFlush"}
      BY <1>5 DEF Flushed, PhaseInv
    <2>2. mpc' = mpc \/ mpc' \in {"await", "over"}
      BY <1>5 DEF Flushed, FlushAll
    <2> QED  BY <1>5, <2>1, <2>2 DEF Quiet, Flushed, coreVars, Before
  <1>6. ASSUME TestEnds \/ NotifyStop PROVE Quiet
    BY <1>6 DEF Quiet, TestEnds, NotifyStop, NotifyCores, FlushAll, coreVars, Before
  <1> QED  BY <1>1, <1>2, <1>3, <1>4, <1>5, <1>6
           DEF Next, Server, Finished, Warm, WarmKinds

\* The warm-up threads run while the main thread waits for them.
WarmMove(c, to) ==
    /\ wpc[c] \notin {"off", "done", "raised"} /\ mpc = "warm"
    /\ wpc' = [wpc EXCEPT ![c] = to]
    /\ UNCHANGED <<health, mpc, flushing, schedVars, loadgenVars, stopWork, exited, idle>>
    /\ fpc' = [fpc EXCEPT ![c] = IF to \in inFlush THEN "check" ELSE "out"]

\* A step of a core's warm-up moves its program counter on and nothing else of the
\* warm-up.
LEMMA WarmMoves ==
  ASSUME TypeOK, PhaseInv, NEW c \in Cores, NEW from, NEW to, WarmStep(c, from, to),
         from \notin {"off", "done", "raised"}
  PROVE  WarmMove(c, to) /\ wpc[c] = from
  <1>1. mpc = "warm"
    BY DEF PhaseInv, WarmStep, Before
  <1> QED  BY <1>1 DEF WarmStep, WarmMove

\* The steps of a core's warm-up, from where and to where they go.
LEMMA WarmKindMoves ==
  ASSUME TypeOK, PhaseInv, NEW c \in Cores
  PROVE  /\ WarmFlushed(c) => /\ \/ wpc[c] = "flushIn" /\ WarmMove(c, "set")
                                 \/ wpc[c] = "flushOut" /\ WarmMove(c, "clear")
                              /\ UNCHANGED <<pending, islSum, inWarmup, seen, completed, warmLock>>
         /\ EnterWarmup(c) => wpc[c] = "set" /\ WarmMove(c, "enqueue")
         /\ WarmEnqueue(c) => wpc[c] = "enqueue" /\ WarmMove(c, "flushOut")
         /\ WarmRaises(c) => wpc[c] = "enqueue" /\ WarmMove(c, "raised")
         /\ LeaveWarmup(c) => wpc[c] = "clear" /\ WarmMove(c, "lock")
         /\ LockCount(c) => wpc[c] = "lock" /\ WarmMove(c, "count")
         /\ WriteCount(c) => wpc[c] = "count" /\ WarmMove(c, "done")
  BY WarmMoves
  DEF WarmFlushed, EnterWarmup, WarmEnqueue, WarmRaises, LeaveWarmup, LeaveMode, LockCount,
      ReadCount, WriteCount

-----------------------------------------------------------------------------
\* Types.
LEMMA TypeInit == Init => TypeOK
  <1> SUFFICES ASSUME Init PROVE TypeOK
    OBVIOUS
  <1>1. CoreType
    BY DEF Init, CoreType
  <1>2. WarmType
    <2>1. 0 \in 0..NumCores
      BY Numbers
    <2> QED  BY <2>1, Numbers DEF Init, WarmType, WarmPcs
  <1>3. MainType
    BY Numbers DEF Init, MainType, MainPcs, FlushPcs
  <1>4. DealType
    <2>1. DOMAIN << >> = {}
      OBVIOUS
    <2> QED  BY <2>1, Numbers DEF Init, DealType, Main
  <1> QED  BY <1>1, <1>2, <1>3, <1>4, TypeParts

\* Such a step keeps the types, if what it counts and locks has its type.
LEMMA WarmMoveType ==
  ASSUME TypeOK, NEW c \in Cores, NEW to \in WarmPcs, WarmMove(c, to), CoreType',
         seen' \in [Cores -> 0..NumCores], completed' \in 0..NumCores, warmLock' \in Threads
  PROVE  TypeOK'
  <1>0. CoreType /\ WarmType /\ MainType /\ DealType
    BY TypeParts
  <1>1. WarmType'
    BY <1>0 DEF WarmType, WarmMove
  <1>2. MainType'
    <2>1. fpc' \in [Threads -> FlushPcs]
      BY <1>0, Numbers DEF MainType, WarmMove, FlushPcs
    <2> QED  BY <1>0, <2>1 DEF MainType, WarmMove
  <1>3. DealType'
    BY <1>0 DEF DealType, WarmMove, schedVars, loadgenVars
  <1> QED  BY <1>1, <1>2, <1>3, TypeParts DEF TypeOK, CoreType, WarmType, MainType, DealType

\* A core about to write the count read the present one, and is itself not counted yet.
LEMMA CountBelow ==
  ASSUME TypeOK, CountInv, NEW c \in Cores, wpc[c] = "count"
  PROVE  seen[c] = completed /\ completed + 1 \in 0..NumCores
         /\ LET done == {d \in Cores : wpc[d] = "done"}
            IN  IsFiniteSet(done) /\ Cardinality(done) = completed /\ c \notin done
  <1> DEFINE done == {d \in Cores : wpc[d] = "done"}
  <1>1. seen[c] = completed /\ completed = Cardinality(done)
    BY DEF CountInv
  <1>2. IsFiniteSet(done) /\ Cardinality(done) \in Nat /\ c \notin done
    BY Numbers, FS_Subset, FS_CardinalityType
  <1>3. Cardinality(done \cup {c}) = Cardinality(done) + 1
    BY <1>2, FS_AddElement
  <1>4. Cardinality(done \cup {c}) <= NumCores
    <2>1. done \cup {c} \subseteq Cores
      OBVIOUS
    <2> QED  BY <2>1, Numbers, FS_Subset
  <1> QED  BY <1>1, <1>2, <1>3, <1>4, Numbers

\* The steps of the warm-up keep the types.
LEMMA TypeWarm ==
  ASSUME TypeOK, PhaseInv, CountInv, NEW c \in Cores, WarmKinds(c)
  PROVE  TypeOK'
  <1>0. CoreType /\ WarmType /\ MainType /\ DealType
    BY TypeParts
  <1>1. CASE WarmFlushed(c)
    <2>1. CoreType'
      BY <1>0, <1>1, WarmKindMoves DEF CoreType, WarmMove
    <2> QED  BY <1>0, <1>1, <2>1, WarmKindMoves, WarmMoveType DEF WarmType, WarmPcs
  <1>2. ASSUME NEW to \in WarmPcs, WarmMove(c, to), NEW mode \in BOOLEAN,
               inWarmup' = [inWarmup EXCEPT ![c] = mode],
               UNCHANGED <<pending, islSum, seen, completed, warmLock>>
        PROVE  TypeOK'
    <2>1. CoreType'
      BY <1>0, <1>2 DEF CoreType, WarmMove
    <2> QED  BY <1>0, <1>2, <2>1, WarmMoveType DEF WarmType
  <1>3. CASE EnterWarmup(c)
    BY <1>2, <1>3, WarmKindMoves DEF EnterWarmup, WarmPcs
  <1>4. CASE WarmRaises(c)
    BY <1>2, <1>4, WarmKindMoves DEF WarmRaises, WarmPcs
  <1>5. CASE LeaveWarmup(c)
    BY <1>2, <1>5, WarmKindMoves DEF LeaveWarmup, LeaveMode, WarmPcs
  <1>6. CASE WarmEnqueue(c)
    <2>1. CoreType'
      <3>1. pending' \in [Cores -> SUBSET Requests]
        BY <1>0, <1>6 DEF CoreType, WarmEnqueue, Enqueue, Requests
      <3>2. islSum' \in [Cores -> Nat]
        <4>1. WarmupLen \in Nat
          BY ServerAssumption
        <4> QED  BY <1>0, <1>6, <4>1 DEF CoreType, WarmEnqueue, Enqueue
      <3>3. UNCHANGED <<inWarmup, stopWork, exited, idle>>
        BY <1>6, WarmKindMoves DEF WarmMove, WarmEnqueue
      <3> QED  BY <1>0, <3>1, <3>2, <3>3 DEF CoreType
    <2> QED  BY <1>0, <1>6, <2>1, WarmKindMoves, WarmMoveType DEF WarmType, WarmPcs, WarmEnqueue
  <1>7. CASE LockCount(c)
    <2>1. CoreType'
      BY <1>0, <1>7, WarmKindMoves DEF CoreType, WarmMove, LockCount, ReadCount
    <2>2. seen' \in [Cores -> 0..NumCores] /\ warmLock' \in Threads /\ completed' = completed
      BY <1>0, <1>7, Numbers DEF WarmType, LockCount, ReadCount
    <2> QED  BY <1>0, <1>7, <2>1, <2>2, WarmKindMoves, WarmMoveType DEF WarmType, WarmPcs
  <1>8. CASE WriteCount(c)
    <2>1. CoreType'
      BY <1>0, <1>8, WarmKindMoves DEF CoreType, WarmMove, WriteCount
    <2>2. completed' \in 0..NumCores /\ warmLock' \in Threads /\ seen' = seen
      BY <1>0, <1>8, Numbers, CountBelow, WarmKindMoves DEF WriteCount
    <2> QED  BY <1>0, <1>8, <2>1, <2>2, WarmKindMoves, WarmMoveType DEF WarmType, WarmPcs
  <1> QED  BY <1>1, <1>3, <1>4, <1>5, <1>6, <1>7, <1>8 DEF WarmKinds

\* The scheduler picks the first of the least loaded cores.
LEMMA LeastLoadedIs ==
  ASSUME TypeOK, DOMAIN sizes = Cores
  PROVE  LeastLoaded \in Cores /\ \A d \in Cores : sizes[LeastLoaded] <= sizes[d]
  <1> DEFINE loads == {sizes[c] : c \in Cores}
  <1>1. \A c \in Cores : sizes[c] \in Nat
    BY DEF TypeOK
  <1>2. loads \subseteq Nat /\ loads # {}
    BY <1>1, Numbers
  <1>3. PICK least \in loads : \A x \in loads : least <= x
    BY <1>2, NatMin
  <1> DEFINE places == {c \in Cores : sizes[c] = least}
  <1>4. places \subseteq Nat /\ places # {}
    BY <1>3, Numbers
  <1>5. PICK c \in places : \A d \in places : c <= d
    BY <1>4, NatMin
  <1>6. \A d \in Cores : sizes[c] <= sizes[d]
    BY <1>3, <1>5
  <1>7. \A d \in Cores : d < c => sizes[c] < sizes[d]
    <2> SUFFICES ASSUME NEW d \in Cores, d < c PROVE sizes[c] < sizes[d]
      OBVIOUS
    <2>1. d \in Nat /\ c \in Nat
      BY <1>5, Numbers
    <2>2. d \notin places
      BY <1>5, <2>1
    <2>3. sizes[c] # sizes[d]
      BY <1>5, <2>2
    <2> QED  BY <1>1, <1>5, <1>6, <2>3
  <1> HIDE DEF places
  <1>8. c \in Cores
    BY <1>5 DEF places
  <1>9. \E e \in Cores : \A d \in Cores : sizes[e] <= sizes[d] /\ (d < e => sizes[e] < sizes[d])
    BY <1>6, <1>7, <1>8
  <1>10. LeastLoaded \in Cores /\ \A d \in Cores :
            sizes[LeastLoaded] <= sizes[d] /\ (d < LeastLoaded => sizes[LeastLoaded] < sizes[d])
    BY <1>9 DEF LeastLoaded
  <1> QED  BY <1>10

\* What the cores hold, what was issued and what was carried are finite.
LEMMA HeldIsFinite ==
  ASSUME TypeOK, NEW c \in Cores
  PROVE  /\ IsFiniteSet(Requests) /\ IsFiniteSet(TestReqs) /\ IsFiniteSet(WarmupReqs)
         /\ pending[c] \subseteq Requests /\ IsFiniteSet(pending[c])
         /\ Cardinality(pending[c]) \in Nat
         /\ IsFiniteSet(issued) /\ Cardinality(issued) \in Nat
         /\ IsFiniteSet(carried) /\ Cardinality(carried) \in Nat
  <1>1. IsFiniteSet(TestReqs) /\ IsFiniteSet(WarmupReqs)
    BY ServerAssumption
  <1>2. IsFiniteSet(Requests)
    BY <1>1, FS_Union DEF Requests
  <1>3. pending[c] \subseteq Requests /\ issued \subseteq TestReqs
        /\ carried \subseteq Cores \X WarmupReqs
    BY DEF TypeOK
  <1>4. IsFiniteSet(pending[c]) /\ IsFiniteSet(issued)
    BY <1>1, <1>2, <1>3, FS_Subset
  <1>5. IsFiniteSet(Cores \X WarmupReqs)
    BY <1>1, Numbers, FS_Product
  <1>6. IsFiniteSet(carried)
    BY <1>3, <1>5, FS_Subset
  <1> QED  BY <1>1, <1>2, <1>3, <1>4, <1>6, FS_CardinalityType

\* A scheduler reads the load of the cores one after the other.
LEMMA ScanReads ==
  ASSUME TypeOK, ScanInv, ReadLoad
  PROVE  \E k \in 0..(NumCores - 1) :
            /\ DOMAIN sizes = 1..k /\ DOMAIN sizes' = 1..(k + 1) /\ k + 1 \in Cores
            /\ \A d \in 1..k : sizes'[d] = sizes[d]
            /\ sizes'[k + 1] = LoadOf(k + 1)
  <1>1. PICK k \in 0..NumCores : DOMAIN sizes = 1..k
    BY DEF ScanInv
  <1>2. Cardinality(DOMAIN sizes) = k
    BY <1>1, CardInterval
  <1>3. k \in 0..(NumCores - 1)
    BY <1>2, Numbers DEF ReadLoad
  <1>4. sizes' = [d \in 1..(k + 1) |-> IF d = k + 1 THEN LoadOf(k + 1) ELSE sizes[d]]
    BY <1>2 DEF ReadLoad
  <1>5. k + 1 \in Cores
    BY <1>3, Numbers DEF Cores
  <1>6. \A d \in 1..k : d \in 1..(k + 1) /\ d # k + 1
    BY <1>3
  <1>7. k + 1 \in 1..(k + 1)
    BY <1>3
  <1> QED  BY <1>1, <1>3, <1>4, <1>5, <1>6, <1>7

\* Giving a request to a core keeps the types.
LEMMA SendType ==
  ASSUME TypeOK, NEW c \in Cores, NEW r \in TestReqs, Send(c, r), turn' \in Threads
  PROVE  TypeOK'
  <1>0. CoreType /\ WarmType /\ MainType /\ DealType
    BY TypeParts
  <1>1. CoreType'
    <2>1. pending' \in [Cores -> SUBSET Requests]
      BY <1>0 DEF CoreType, Send, Enqueue, Requests
    <2>2. islSum' \in [Cores -> Nat]
      <3>1. InputLen[r] \in Nat
        BY ServerAssumption
      <3> QED  BY <1>0, <3>1 DEF CoreType, Send, Enqueue
    <2> QED  BY <1>0, <2>1, <2>2 DEF CoreType, Send
  <1>2. WarmType'
    BY <1>0 DEF WarmType, Send, warmVars
  <1>3. MainType'
    BY <1>0 DEF MainType, Send
  <1>4. DealType'
    <2>1. sizes' = << >> /\ issued' = issued \cup {r}
      BY DEF Send
    <2>2. DOMAIN sizes' = {}
      BY <2>1
    <2> QED  BY <1>0, <2>1, <2>2 DEF DealType, Send
  <1> QED  BY <1>1, <1>2, <1>3, <1>4, TypeParts DEF TypeOK, CoreType, WarmType, MainType, DealType

\* Every step keeps the types.
LEMMA TypeNext == TypeOK /\ PhaseInv /\ CountInv /\ ScanInv /\ [Next]_vars => TypeOK'
  <1> SUFFICES ASSUME TypeOK, PhaseInv, CountInv, ScanInv, [Next]_vars PROVE TypeOK'
    OBVIOUS
  <1>0. CoreType /\ WarmType /\ MainType /\ DealType
    BY TypeParts
  <1>p. CoreType' /\ WarmType' /\ MainType' /\ DealType' => TypeOK'
    BY DEF TypeOK, CoreType, WarmType, MainType, DealType
  <1>1. ASSUME UNCHANGED vars PROVE TypeOK'
    BY <1>1 DEF TypeOK, vars, coreVars, warmVars, schedVars, loadgenVars
  <1>2. ASSUME NEW c \in Cores, PollSees(c) PROVE TypeOK'
    <2>1. CoreType'
      BY <1>0, <1>2 DEF CoreType, PollSees
    <2> QED  BY <1>0, <1>p, <1>2, <2>1
             DEF WarmType, MainType, DealType, PollSees, warmVars, schedVars, loadgenVars
  <1>3. ASSUME NEW c \in Cores, PollNotifies(c) PROVE TypeOK'
    <2>1. CoreType'
      BY <1>0, <1>3 DEF CoreType, PollNotifies
    <2>2. MainType'
      <3>1. fpc' \in [Threads -> FlushPcs]
        BY <1>0, <1>3 DEF MainType, PollNotifies, FlushPcs
      <3> QED  BY <1>0, <1>3, <3>1 DEF MainType, PollNotifies
    <2> QED  BY <1>0, <1>p, <1>3, <2>1, <2>2
             DEF WarmType, DealType, PollNotifies, warmVars, schedVars, loadgenVars
  <1>4. ASSUME NEW t \in Threads, FlushCheck(t) \/ FlushWait(t) PROVE TypeOK'
    <2>1. MainType'
      <3>1. fpc' \in [Threads -> FlushPcs]
        BY <1>0, <1>4 DEF MainType, FlushCheck, FlushWait, FlushPcs
      <3> QED  BY <1>0, <1>4, <3>1 DEF MainType, FlushCheck, FlushWait
    <2> QED  BY <1>0, <1>p, <1>4, <2>1
             DEF CoreType, WarmType, DealType, FlushCheck, FlushWait, coreVars, warmVars,
                 schedVars, loadgenVars
  <1>5. ASSUME NEW c \in Cores, NEW r \in Requests, Complete(c, r) PROVE TypeOK'
    <2>1. CoreType'
      BY <1>0, <1>5 DEF CoreType, Complete
    <2>2. DealType'
      BY <1>0, <1>5 DEF DealType, Complete, schedVars
    <2> QED  BY <1>0, <1>p, <1>5, <2>1, <2>2 DEF WarmType, MainType, Complete, warmVars
  <1>6. ASSUME NEW c \in Cores, CheckCore(c) PROVE TypeOK'
    <2>1. WarmType'
      BY <1>0, <1>6 DEF WarmType, CheckCore, warmVars
    <2> QED  BY <1>0, <1>p, <1>6, <2>1
             DEF CoreType, MainType, DealType, CheckCore, coreVars, schedVars, loadgenVars
  <1>7. ASSUME HealthJoined PROVE TypeOK'
    <2>1. wpc' \in [Cores -> WarmPcs] /\ fpc' \in [Threads -> FlushPcs] /\ mpc' \in MainPcs
      <3>1. mpc' \in {"raised", "issue", "warm"}
        BY <1>7 DEF HealthJoined, JoinChecks
      <3>2. mpc' \in MainPcs
        BY <3>1 DEF MainPcs
      <3>3. CASE mpc' = "warm"
        BY <1>7, <3>2, <3>3 DEF HealthJoined, JoinChecks, WarmPcs, FlushPcs
      <3>4. CASE mpc' # "warm"
        BY <1>0, <1>7, <3>2, <3>4 DEF HealthJoined, JoinChecks, WarmType, MainType
      <3> QED  BY <3>3, <3>4
    <2> QED  BY <1>0, <1>p, <1>7, <2>1
             DEF CoreType, WarmType, MainType, DealType, HealthJoined, JoinChecks, coreVars,
                 schedVars, loadgenVars
  <1>8. ASSUME WarmupDone PROVE TypeOK'
    BY <1>0, <1>p, <1>8
    DEF CoreType, WarmType, MainType, DealType, WarmupDone, MainPcs, coreVars, warmVars, schedVars
  <1>9. ASSUME ReadLoad PROVE TypeOK'
    <2>1. PICK k \in 0..(NumCores - 1) :
            /\ DOMAIN sizes = 1..k /\ DOMAIN sizes' = 1..(k + 1) /\ k + 1 \in Cores
            /\ \A d \in 1..k : sizes'[d] = sizes[d]
            /\ sizes'[k + 1] = LoadOf(k + 1)
      BY <1>9, ScanReads
    <2>2. LoadOf(k + 1) \in Nat
      BY <1>0, <2>1, HeldIsFinite DEF LoadOf, CoreType
    <2>3. \A d \in 1..(k + 1) : d \in 1..k \/ d = k + 1
      BY <2>1
    <2>4. \A d \in DOMAIN sizes' : sizes'[d] \in Nat
      BY <1>0, <2>1, <2>2, <2>3 DEF DealType
    <2>5. DOMAIN sizes' \subseteq Cores
      BY <1>0, <2>1, <2>3 DEF DealType
    <2> QED  BY <1>0, <1>p, <1>9, <2>4, <2>5
             DEF CoreType, WarmType, MainType, DealType, ReadLoad, coreVars, warmVars, loadgenVars
  <1>10. ASSUME NEW r \in TestReqs, RoundRobin(r) PROVE TypeOK'
    <2>1. turn' \in Cores
      BY <1>0, <1>10, Numbers DEF RoundRobin, NextTurn, Cores, DealType
    <2> QED  BY <1>10, <2>1, SendType, Numbers DEF RoundRobin
  <1>11. ASSUME NEW r \in TestReqs, Balance(r) PROVE TypeOK'
    BY <1>0, <1>11, LeastLoadedIs, SendType DEF Balance, DealType
  <1>12. ASSUME NEW f \in Cores, NEW phase \in FlushPcs, NEW pc \in MainPcs,
                flushing' = f, fpc' = [fpc EXCEPT ![Main] = phase], mpc' = pc,
                UNCHANGED <<pending, islSum, inWarmup, exited, idle, health, warmVars, schedVars,
                            loadgenVars>>,
                stopWork' \in [Cores -> BOOLEAN]
         PROVE  TypeOK'
    <2>1. MainType'
      BY <1>0, <1>12 DEF MainType
    <2> QED  BY <1>0, <1>p, <1>12, <2>1
             DEF CoreType, WarmType, DealType, warmVars, schedVars, loadgenVars
  <1>13. ASSUME BeginFlush PROVE TypeOK'
    BY <1>0, <1>12, <1>13, Numbers DEF BeginFlush, FlushAll, coreVars, CoreType, MainPcs, FlushPcs
  <1>14. ASSUME Flushed PROVE TypeOK'
    <2>1. CASE flushing < NumCores
      <3>1. flushing + 1 \in Cores /\ mpc \in MainPcs
        BY <1>0, <2>1, Numbers DEF MainType, Cores
      <3> QED  BY <1>0, <1>12, <1>14, <2>1, <3>1 DEF Flushed, coreVars, CoreType, FlushPcs
    <2>2. CASE ~(flushing < NumCores)
      BY <1>0, <1>12, <1>14, <2>2, Numbers DEF Flushed, FlushAll, coreVars, CoreType, MainPcs, FlushPcs
    <2> QED  BY <2>1, <2>2
  <1>15. ASSUME TestEnds PROVE TypeOK'
    BY <1>0, <1>p, <1>15
    DEF CoreType, WarmType, MainType, DealType, TestEnds, MainPcs, coreVars, warmVars, schedVars,
        loadgenVars
  <1>16. ASSUME NotifyStop PROVE TypeOK'
    <2>1. stopWork' \in [Cores -> BOOLEAN]
      BY <1>0, <1>16 DEF NotifyStop, NotifyCores, CoreType
    <2> QED  BY <1>12, <1>16, <2>1, Numbers DEF NotifyStop, NotifyCores, FlushAll, MainPcs, FlushPcs
  <1> QED  BY <1>1, <1>2, <1>3, <1>4, <1>5, <1>6, <1>7, <1>8, <1>9, <1>10, <1>11, <1>13, <1>14,
              <1>15, <1>16, TypeWarm
           DEF Next, Server, Finished, Warm, WarmKinds, Poll, Flush

-----------------------------------------------------------------------------
\* The phases.
LEMMA MainOut ==
  ASSUME TypeOK, PhaseInv, [Next]_vars
  PROVE  mpc' \notin {"flush", "stopFlush"} => fpc'[Main] = "out"
  <1> DEFINE Out == mpc \notin {"flush", "stopFlush"} => fpc[Main] = "out"
  <1>0. Out /\ fpc \in [Threads -> FlushPcs] /\ Main \in Threads
    BY Numbers DEF PhaseInv, TypeOK
  <1>1. ASSUME UNCHANGED <<mpc, fpc>> PROVE Out'
    BY <1>0, <1>1
  <1>2. ASSUME NEW c \in Cores, PollNotifies(c) PROVE Out'
    BY <1>0, <1>2 DEF PollNotifies
  <1>3. ASSUME NEW t \in Threads, FlushCheck(t) \/ FlushWait(t) PROVE Out'
    BY <1>0, <1>3 DEF FlushCheck, FlushWait
  <1>4. ASSUME NEW c \in Cores, WarmKinds(c) PROVE Out'
    <2>1. PICK to : WarmMove(c, to)
      BY <1>4, WarmKindMoves DEF WarmKinds
    <2>2. mpc' = mpc /\ fpc'[Main] = fpc[Main]
      BY <1>0, <2>1, Numbers DEF WarmMove
    <2> QED  BY <1>0, <2>2
  <1>5. ASSUME HealthJoined PROVE Out'
    BY <1>0, <1>5 DEF HealthJoined, JoinChecks
  <1>6. ASSUME WarmupDone \/ TestEnds PROVE Out'
    BY <1>0, <1>6 DEF WarmupDone, TestEnds
  <1>7. ASSUME BeginFlush \/ NotifyStop PROVE Out'
    BY <1>7 DEF BeginFlush, NotifyStop, NotifyCores, FlushAll
  <1>8. ASSUME Flushed PROVE Out'
    <2>1. CASE flushing < NumCores
      BY <1>0, <1>8, <2>1 DEF Flushed
    <2>2. CASE ~(flushing < NumCores)
      BY <1>0, <1>8, <2>2 DEF Flushed, FlushAll
    <2> QED  BY <2>1, <2>2
  <1>9. ASSUME NEW c \in Cores, PollSees(c) \/ CheckCore(c) PROVE Out'
    BY <1>1, <1>9 DEF PollSees, CheckCore
  <1>10. ASSUME NEW c \in Cores, NEW r \in Requests, Complete(c, r) PROVE Out'
    BY <1>1, <1>10 DEF Complete
  <1>11. ASSUME ReadLoad PROVE Out'
    BY <1>1, <1>11 DEF ReadLoad
  <1>12. ASSUME NEW r \in TestReqs, RoundRobin(r) \/ Balance(r) PROVE Out'
    BY <1>1, <1>12 DEF RoundRobin, Balance, Send
  <1>13. ASSUME UNCHANGED vars PROVE Out'
    BY <1>1, <1>13 DEF vars
  <1> HIDE DEF Out
  <1>14. Out'
    BY <1>2, <1>3, <1>4, <1>5, <1>6, <1>7, <1>8, <1>9, <1>10, <1>11, <1>12, <1>13
    DEF Next, Server, Finished, Warm, WarmKinds, Poll, Flush
  <1> QED  BY <1>14 DEF Out

\* PhaseInv, when a core's warm-up takes a step.
LEMMA PhaseWarm ==
  ASSUME TypeOK, PhaseInv, NEW c \in Cores, WarmKinds(c), fpc'[Main] = "out"
  PROVE  PhaseInv'
  <1>1. PICK to : WarmMove(c, to) /\ mpc = "warm"
    BY WarmKindMoves DEF WarmKinds, WarmMove
  <1>2. wpc \in [Cores -> WarmPcs] /\ pending \in [Cores -> SUBSET Requests]
        /\ islSum \in [Cores -> Nat] /\ inWarmup \in [Cores -> BOOLEAN]
        /\ wpc' = [wpc EXCEPT ![c] = to]
    BY <1>1 DEF TypeOK, WarmMove
  <1>3. /\ mpc' = "warm" /\ Before /\ Before'
        /\ UNCHANGED <<health, issued, carried, turn, sizes>>
    BY <1>1 DEF WarmMove, Before, schedVars, loadgenVars
  <1>4. ASSUME NEW d \in Cores, inWarmup'[d] PROVE wpc'[d] \in {"enqueue", "flushOut", "clear"}
    <2>0. inWarmup[d] => wpc[d] \in {"enqueue", "flushOut", "clear"}
      BY DEF PhaseInv
    <2>1. CASE d # c
      <3>1. inWarmup'[d] = inWarmup[d] /\ wpc'[d] = wpc[d]
        BY <1>2, <2>1 DEF WarmKinds, WarmFlushed, EnterWarmup, WarmEnqueue, WarmRaises,
                          LeaveWarmup, LeaveMode, LockCount, ReadCount, WriteCount
      <3> QED  BY <1>4, <2>0, <3>1
    <2>2. CASE d = c
      <3> USE <1>2, <1>4, <2>0, <2>2, WarmKindMoves
      <3>1. CASE WarmFlushed(c)
        BY <3>1 DEF WarmMove
      <3>2. CASE EnterWarmup(c) \/ WarmEnqueue(c)
        BY <3>2 DEF WarmMove
      <3>3. CASE WarmRaises(c) \/ LeaveWarmup(c)
        BY <3>3 DEF WarmRaises, LeaveWarmup, LeaveMode
      <3>4. CASE LockCount(c) \/ WriteCount(c)
        BY <3>4 DEF LockCount, ReadCount, WriteCount
      <3> QED  BY <3>1, <3>2, <3>3, <3>4 DEF WarmKinds
    <2> QED  BY <2>1, <2>2
  <1>5. ASSUME NEW d \in Cores
        PROVE  pending'[d] \subseteq WarmupReqs
               /\ islSum'[d] = IF Served(d)' THEN WarmupLen ELSE 0
    <2>0. pending[d] \subseteq WarmupReqs /\ islSum[d] = IF Served(d) THEN WarmupLen ELSE 0
      BY <1>3 DEF PhaseInv
    <2>1. CASE WarmEnqueue(c)
      <3>1. wpc[c] = "enqueue" /\ wpc'[c] = "flushOut" /\ \A e \in Cores \ {c} : wpc'[e] = wpc[e]
        BY <1>2, <2>1, WarmKindMoves DEF WarmMove
      <3>2. /\ pending' = [pending EXCEPT ![c] = @ \cup WarmupReqs]
            /\ islSum' = [islSum EXCEPT ![c] = @ + WarmupLen]
        BY <2>1 DEF WarmEnqueue, Enqueue
      <3>3. WarmupLen \in Nat
        BY ServerAssumption
      <3>4. CASE d = c
        BY <1>2, <2>0, <3>1, <3>2, <3>3, <3>4 DEF Served
      <3>5. CASE d # c
        BY <1>2, <2>0, <3>1, <3>2, <3>5 DEF Served
      <3> QED  BY <3>4, <3>5
    <2>2. CASE ~WarmEnqueue(c)
      <3>1. UNCHANGED <<pending, islSum>>
        <4>1. CASE WarmFlushed(c)
          BY <4>1 DEF WarmFlushed
        <4>2. CASE EnterWarmup(c) \/ WarmRaises(c)
          BY <4>2 DEF EnterWarmup, WarmRaises
        <4>3. CASE LeaveWarmup(c) \/ LockCount(c) \/ WriteCount(c)
          BY <4>3 DEF LeaveWarmup, LeaveMode, LockCount, ReadCount, WriteCount
        <4> QED  BY <2>2, <4>1, <4>2, <4>3 DEF WarmKinds
      <3>2. Served(c)' = Served(c)
        <4>0. \A a, b : WarmMove(c, b) /\ wpc[c] = a => wpc'[c] = b
          BY <1>2 DEF WarmMove
        <4>1. CASE WarmFlushed(c)
          BY <4>0, <4>1, WarmKindMoves DEF Served
        <4>2. CASE EnterWarmup(c) \/ WarmRaises(c)
          BY <4>0, <4>2, WarmKindMoves DEF Served
        <4>3. CASE LeaveWarmup(c) \/ LockCount(c) \/ WriteCount(c)
          BY <4>0, <4>3, WarmKindMoves DEF Served
        <4> QED  BY <2>2, <4>1, <4>2, <4>3 DEF WarmKinds
      <3>3. Served(d)' = Served(d)
        BY <1>2, <3>2 DEF Served
      <3> QED  BY <2>0, <3>1, <3>3
    <2> QED  BY <2>1, <2>2
  <1>6. \A d \in Cores : health[d] = "ok"
    BY <1>1 DEF PhaseInv
  <1>7. issued = {} /\ carried = {} /\ turn = 0 /\ DOMAIN sizes = {}
    BY <1>3 DEF PhaseInv
  <1> QED  BY <1>3, <1>4, <1>5, <1>6, <1>7 DEF PhaseInv

\* Every step keeps the order of the phases.
LEMMA PhaseNext == TypeOK /\ PhaseInv /\ [Next]_vars => PhaseInv'
  <1> SUFFICES ASSUME TypeOK, PhaseInv, [Next]_vars PROVE PhaseInv'
    OBVIOUS
  <1>0. mpc' \notin {"flush", "stopFlush"} => fpc'[Main] = "out"
    BY MainOut
  <1>1. ASSUME Quiet PROVE PhaseInv'
    <2>1. UNCHANGED <<pending, islSum, inWarmup, health, wpc, issued, carried, turn, sizes>>
      BY <1>1 DEF Quiet, warmVars, schedVars, loadgenVars
    <2>2. CASE mpc' = mpc
      <3>1. Before' = Before /\ \A c \in Cores : Served(c)' = Served(c)
        BY <2>1, <2>2 DEF Before, Served
      <3> QED  BY <1>0, <2>1, <2>2, <3>1 DEF PhaseInv
    <2>3. CASE ~Before /\ ~Before'
      BY <1>0, <2>1, <2>3 DEF PhaseInv, Before
    <2> QED  BY <1>1, <2>2, <2>3 DEF Quiet
  <1>2. ASSUME NEW c \in Cores, WarmKinds(c) PROVE PhaseInv'
    <2>1. mpc' = "warm"
      BY <1>2, WarmKindMoves DEF WarmKinds, WarmMove
    <2> QED  BY <1>0, <1>2, <2>1, PhaseWarm
  <1>3. ASSUME NEW c \in Cores, CheckCore(c) PROVE PhaseInv'
    <2>1. mpc = "health" /\ mpc' = "health"
          /\ UNCHANGED <<pending, islSum, inWarmup, wpc, issued, carried, turn, sizes>>
      BY <1>3 DEF CheckCore, coreVars, warmVars, schedVars, loadgenVars
    <2>2. Before /\ Before' /\ \A d \in Cores : Served(d)' = Served(d)
      BY <2>1 DEF Before, Served
    <2> QED  BY <1>0, <2>1, <2>2 DEF PhaseInv
  <1>4. ASSUME NEW c \in Cores, NEW r \in Requests, Complete(c, r) PROVE PhaseInv'
    <2>1. UNCHANGED <<mpc, islSum, inWarmup, health, wpc, issued, carried, turn, sizes>>
      BY <1>4 DEF Complete, warmVars, schedVars
    <2>2. \A d \in Cores : pending'[d] \subseteq pending[d]
      BY <1>4 DEF Complete, TypeOK
    <2>3. Before' = Before /\ \A d \in Cores : Served(d)' = Served(d)
      BY <2>1 DEF Before, Served
    <2>4. ASSUME Before, NEW d \in Cores
          PROVE  pending'[d] \subseteq WarmupReqs /\ islSum'[d] = IF Served(d) THEN WarmupLen ELSE 0
      BY <2>1, <2>2, <2>4 DEF PhaseInv
    <2> QED  BY <1>0, <2>1, <2>3, <2>4 DEF PhaseInv
  <1>5. ASSUME HealthJoined PROVE PhaseInv'
    <2>0. mpc = "health" /\ Before
      BY <1>5 DEF HealthJoined, JoinChecks, Before
    <2>1. /\ UNCHANGED <<pending, islSum, inWarmup, health, issued, carried, turn, sizes>>
          /\ mpc' \in {"raised", "issue", "warm"}
          /\ mpc' # "raised" => \A c \in Cores : health[c] = "ok"
      BY <1>5 DEF HealthJoined, JoinChecks, coreVars, schedVars, loadgenVars
    <2>2. \A c \in Cores : wpc[c] = "off"
      BY <2>0 DEF PhaseInv
    <2>3. \A c \in Cores : wpc'[c] = IF mpc' = "warm" THEN "flushIn" ELSE "off"
      BY <1>5, <2>2 DEF HealthJoined, JoinChecks
    <2>4. \A c \in Cores : /\ ~inWarmup[c] /\ pending[c] \subseteq WarmupReqs
                           /\ islSum[c] = 0 /\ ~Served(c)'
      BY <2>0, <2>2, <2>3 DEF PhaseInv, Served
    <2>5. issued = {} /\ carried = {} /\ turn = 0 /\ DOMAIN sizes = {}
      BY <2>0 DEF PhaseInv
    <2> QED  BY <1>0, <2>1, <2>3, <2>4, <2>5 DEF PhaseInv, Before
  <1>6. ASSUME WarmupDone PROVE PhaseInv'
    <2>1. /\ mpc = "warm" /\ mpc' = "issue" /\ UNCHANGED <<health, wpc, inWarmup>>
          /\ \A c \in Cores : wpc[c] = "done"
      BY <1>6 DEF WarmupDone, coreVars, warmVars
    <2> QED  BY <1>0, <2>1 DEF PhaseInv, Before
  <1>7. ASSUME mpc = "issue", UNCHANGED <<mpc, health, wpc, inWarmup>> PROVE PhaseInv'
    BY <1>0, <1>7 DEF PhaseInv, Before
  <1>8. ASSUME ReadLoad PROVE PhaseInv'
    BY <1>7, <1>8 DEF ReadLoad, coreVars, warmVars
  <1>9. ASSUME NEW r \in TestReqs, RoundRobin(r) \/ Balance(r) PROVE PhaseInv'
    BY <1>7, <1>9 DEF RoundRobin, Balance, Send, warmVars
  <1> QED  BY <1>1, <1>2, <1>3, <1>4, <1>5, <1>6, <1>8, <1>9, StepKinds

-----------------------------------------------------------------------------
\* The count of the warm-up threads, and the order in which cores are read.
LEMMA CountNext == TypeOK /\ PhaseInv /\ CountInv /\ [Next]_vars => CountInv'
  <1> SUFFICES ASSUME TypeOK, PhaseInv, CountInv, [Next]_vars PROVE CountInv'
    OBVIOUS
  <1> DEFINE done == {d \in Cores : wpc[d] = "done"}
  <1>0. wpc \in [Cores -> WarmPcs] /\ seen \in [Cores -> 0..NumCores]
    BY DEF TypeOK
  <1>1. ASSUME UNCHANGED <<wpc, seen, completed, warmLock>> PROVE CountInv'
    BY <1>1 DEF CountInv
  <1>2. ASSUME NEW c \in Cores, NEW to, WarmMove(c, to), wpc[c] # "count", to \notin {"count", "done"},
               UNCHANGED <<seen, completed, warmLock>>
        PROVE  CountInv'
    <2>1. wpc' = [wpc EXCEPT ![c] = to] /\ wpc[c] # "done"
      BY <1>2 DEF WarmMove
    <2>2. done' = done
      BY <1>0, <1>2, <2>1
    <2>3. \A d \in Cores : wpc'[d] = "count" <=> wpc[d] = "count"
      BY <1>0, <1>2, <2>1
    <2> QED  BY <1>2, <2>2, <2>3 DEF CountInv
  <1>3. ASSUME NEW c \in Cores, LockCount(c) PROVE CountInv'
    <2>1. /\ wpc[c] = "lock" /\ wpc' = [wpc EXCEPT ![c] = "count"]
          /\ warmLock = Free /\ warmLock' = c /\ completed' = completed
          /\ seen' = [seen EXCEPT ![c] = completed]
      BY <1>3, WarmKindMoves DEF LockCount, ReadCount, WarmMove
    <2>2. done' = done
      BY <1>0, <2>1
    <2>3. \A d \in Cores : wpc[d] # "count"
      BY <2>1, Numbers DEF CountInv, Free, Main
    <2>4. \A d \in Cores : (wpc'[d] = "count" <=> d = c) /\ (d = c => seen'[d] = completed)
      BY <1>0, <2>1, <2>3
    <2> QED  BY <2>1, <2>2, <2>4 DEF CountInv
  <1>4. ASSUME NEW c \in Cores, WriteCount(c) PROVE CountInv'
    <2>1. /\ wpc[c] = "count" /\ wpc' = [wpc EXCEPT ![c] = "done"]
          /\ warmLock' = Free /\ completed' = seen[c] + 1
      BY <1>4, WarmKindMoves DEF WriteCount, WarmMove
    <2>2. /\ seen[c] = completed /\ IsFiniteSet(done) /\ Cardinality(done) = completed
          /\ c \notin done
      BY <2>1, CountBelow
    <2>3. done' = done \cup {c}
      BY <1>0, <2>1
    <2>4. Cardinality(done') = completed + 1
      BY <2>2, <2>3, FS_AddElement
    <2>5. \A d \in Cores : wpc[d] = "count" => d = c
      BY <2>1 DEF CountInv
    <2>6. \A d \in Cores : wpc'[d] # "count" /\ d # Free
      BY <1>0, <2>1, <2>5, Numbers DEF Free, Main
    <2> QED  BY <2>1, <2>2, <2>4, <2>6 DEF CountInv
  <1>5. ASSUME NEW c \in Cores, WarmKinds(c) PROVE CountInv'
    <2>1. CASE WarmFlushed(c)
      BY <1>2, <2>1, WarmKindMoves
    <2>2. CASE EnterWarmup(c) \/ WarmEnqueue(c) \/ WarmRaises(c)
      BY <1>2, <2>2, WarmKindMoves DEF EnterWarmup, WarmEnqueue, WarmRaises
    <2>3. CASE LeaveWarmup(c)
      BY <1>2, <2>3, WarmKindMoves DEF LeaveWarmup, LeaveMode
    <2> QED  BY <1>3, <1>4, <1>5, <2>1, <2>2, <2>3 DEF WarmKinds
  <1>6. ASSUME HealthJoined PROVE CountInv'
    <2>1. \A c \in Cores : wpc[c] = "off"
      BY <1>6 DEF HealthJoined, JoinChecks, PhaseInv
    <2>2. \A c \in Cores : wpc'[c] \notin {"done", "count"}
      BY <1>6, <2>1 DEF HealthJoined, JoinChecks
    <2>3. done = {} /\ done' = {}
      BY <2>1, <2>2
    <2>4. UNCHANGED <<seen, completed, warmLock>>
      BY <1>6 DEF HealthJoined, JoinChecks
    <2>5. completed = Cardinality(done) /\ \A c \in Cores : warmLock # c
      BY <2>1 DEF CountInv
    <2> QED  BY <2>2, <2>3, <2>4, <2>5 DEF CountInv
  <1>7. ASSUME NEW c \in Cores, CheckCore(c) PROVE CountInv'
    BY <1>1, <1>7 DEF CheckCore, warmVars
  <1>8. ASSUME NEW c \in Cores, NEW r \in Requests, Complete(c, r) PROVE CountInv'
    BY <1>1, <1>8 DEF Complete, warmVars
  <1>9. ASSUME WarmupDone \/ ReadLoad \/ Quiet PROVE CountInv'
    BY <1>1, <1>9 DEF WarmupDone, ReadLoad, Quiet, warmVars
  <1>10. ASSUME NEW r \in TestReqs, RoundRobin(r) \/ Balance(r) PROVE CountInv'
    BY <1>1, <1>10 DEF RoundRobin, Balance, Send, warmVars
  <1> QED  BY <1>5, <1>6, <1>7, <1>8, <1>9, <1>10, StepKinds

\* Every step keeps ScanInv.
LEMMA ScanNext == TypeOK /\ PhaseInv /\ ScanInv /\ [Next]_vars => ScanInv'
  <1> SUFFICES ASSUME TypeOK, PhaseInv, ScanInv, [Next]_vars PROVE ScanInv'
    OBVIOUS
  <1>1. ASSUME UNCHANGED sizes PROVE ScanInv'
    BY <1>1 DEF ScanInv
  <1>2. ASSUME ReadLoad PROVE ScanInv'
    <2>1. PICK k \in 0..(NumCores - 1) : DOMAIN sizes' = 1..(k + 1)
      BY <1>2, ScanReads
    <2>2. k + 1 \in 0..NumCores
      BY Numbers
    <2> QED  BY <2>1, <2>2 DEF ScanInv
  <1>3. ASSUME NEW r \in TestReqs, RoundRobin(r) \/ Balance(r) PROVE ScanInv'
    <2>1. sizes' = << >>
      BY <1>3 DEF RoundRobin, Balance, Send
    <2>2. DOMAIN sizes' = 1..0 /\ 0 \in 0..NumCores
      BY <2>1, Numbers
    <2> QED  BY <2>2 DEF ScanInv
  <1>4. ASSUME NEW c \in Cores, WarmKinds(c) PROVE ScanInv'
    BY <1>1, <1>4, WarmKindMoves DEF WarmKinds, WarmMove, schedVars
  <1>5. ASSUME NEW c \in Cores, CheckCore(c) PROVE ScanInv'
    BY <1>1, <1>5 DEF CheckCore, schedVars
  <1>6. ASSUME NEW c \in Cores, NEW r \in Requests, Complete(c, r) PROVE ScanInv'
    BY <1>1, <1>6 DEF Complete, schedVars
  <1>7. ASSUME HealthJoined \/ WarmupDone \/ Quiet PROVE ScanInv'
    BY <1>1, <1>7 DEF HealthJoined, JoinChecks, WarmupDone, Quiet, schedVars
  <1> QED  BY <1>2, <1>3, <1>4, <1>5, <1>6, <1>7, StepKinds

-----------------------------------------------------------------------------
\* The schedulers. Every step but a scheduler's leaves the samples issued alone,
\* and gives a core at most its warm-up queries.
Calm ==
    /\ UNCHANGED <<policy, turn, issued>>
    /\ \A c \in Cores : pending'[c] \subseteq pending[c] \cup WarmupReqs

\* Only a scheduler gives requests to cores.
LEMMA CalmSteps ==
  ASSUME TypeOK, PhaseInv, [Next]_vars
  PROVE  Calm \/ \E r \in TestReqs : RoundRobin(r) \/ Balance(r)
  <1>1. ASSUME UNCHANGED <<pending, policy, turn, issued>> PROVE Calm
    BY <1>1 DEF Calm
  <1>2. ASSUME NEW c \in Cores, WarmKinds(c) PROVE Calm
    <2>1. UNCHANGED <<policy, turn, issued>>
      BY <1>2, WarmKindMoves DEF WarmKinds, WarmMove, schedVars, loadgenVars
    <2>2. CASE WarmEnqueue(c)
      <3>1. pending' = [pending EXCEPT ![c] = @ \cup WarmupReqs]
        BY <2>2 DEF WarmEnqueue, Enqueue
      <3> QED  BY <2>1, <3>1 DEF Calm, TypeOK
    <2>3. CASE ~WarmEnqueue(c)
      <3>1. CASE WarmFlushed(c)
        BY <1>1, <2>1, <3>1 DEF WarmFlushed
      <3>2. CASE EnterWarmup(c) \/ WarmRaises(c)
        BY <1>1, <2>1, <3>2 DEF EnterWarmup, WarmRaises
      <3>3. CASE LeaveWarmup(c) \/ LockCount(c) \/ WriteCount(c)
        BY <1>1, <2>1, <3>3 DEF LeaveWarmup, LeaveMode, LockCount, ReadCount, WriteCount
      <3> QED  BY <1>2, <2>3, <3>1, <3>2, <3>3 DEF WarmKinds
    <2> QED  BY <2>2, <2>3
  <1>3. ASSUME NEW c \in Cores, NEW r \in Requests, Complete(c, r) PROVE Calm
    <2>1. pending' = [pending EXCEPT ![c] = @ \ {r}] /\ UNCHANGED <<policy, turn, issued>>
      BY <1>3 DEF Complete, schedVars
    <2> QED  BY <2>1 DEF Calm, TypeOK
  <1>4. ASSUME NEW c \in Cores, CheckCore(c) PROVE Calm
    BY <1>1, <1>4 DEF CheckCore, coreVars, schedVars, loadgenVars
  <1>5. ASSUME Quiet \/ HealthJoined \/ WarmupDone \/ ReadLoad PROVE Calm
    BY <1>1, <1>5 DEF Quiet, HealthJoined, JoinChecks, WarmupDone, ReadLoad, coreVars,
                      schedVars, loadgenVars
  <1> QED  BY <1>2, <1>3, <1>4, <1>5, StepKinds

\* A scheduler gives one request to one core, and begins its next scan anew.
LEMMA IssueOne ==
  ASSUME TypeOK, NEW r \in TestReqs \ issued, NEW c \in Cores, Send(c, r)
  PROVE  /\ issued' = issued \cup {r} /\ Cardinality(issued') = Cardinality(issued) + 1
         /\ \A d \in Cores : pending'[d] = IF d = c THEN pending[d] \cup {r} ELSE pending[d]
         /\ \A d \in Cores : islSum'[d] = IF d = c THEN islSum[d] + InputLen[r] ELSE islSum[d]
         /\ UNCHANGED <<mpc, policy, carried>> /\ DOMAIN sizes' = {}
  <1>1. issued' = issued \cup {r} /\ UNCHANGED <<mpc, policy, carried>> /\ sizes' = << >>
        /\ pending' = [pending EXCEPT ![c] = @ \cup {r}]
        /\ islSum' = [islSum EXCEPT ![c] = @ + InputLen[r]]
    BY DEF Send, Enqueue
  <1>2. Cardinality(issued') = Cardinality(issued) + 1
    BY <1>1, HeldIsFinite, FS_AddElement
  <1>3. DOMAIN sizes' = {}
    BY <1>1
  <1>4. pending \in [Cores -> SUBSET Requests] /\ islSum \in [Cores -> Nat]
    BY DEF TypeOK
  <1> QED  BY <1>1, <1>2, <1>3, <1>4

\* Every step keeps the count of the rounds.
LEMMA TurnNext == TypeOK /\ PhaseInv /\ TurnInv /\ [Next]_vars => TurnInv'
  <1> SUFFICES ASSUME TypeOK, PhaseInv, TurnInv, [Next]_vars, policy' = "round_robin"
               PROVE  TurnInv'
    BY DEF TurnInv
  <1> DEFINE samples(c) == pending[c] \ WarmupReqs
  <1>1. policy = "round_robin"
    <2>1. CASE Calm
      BY <2>1 DEF Calm
    <2>2. CASE \E r \in TestReqs : RoundRobin(r) \/ Balance(r)
      BY <2>2 DEF RoundRobin, Balance, Send
    <2> QED  BY <2>1, <2>2, CalmSteps
  <1>2. PICK k \in Nat :
            /\ Cardinality(issued) = NumCores * k + turn
            /\ \A c \in Cores : Cardinality(samples(c)) <= k + (IF c <= turn THEN 1 ELSE 0)
    BY <1>1 DEF TurnInv
  <1>3. ASSUME NEW c \in Cores
        PROVE  IsFiniteSet(samples(c)) /\ Cardinality(samples(c)) \in Nat
    BY HeldIsFinite, FS_Subset, FS_CardinalityType
  <1>4. CASE Calm
    <2>1. ASSUME NEW c \in Cores
          PROVE  Cardinality(samples(c)') <= Cardinality(samples(c))
                 /\ Cardinality(samples(c)') \in Nat
      <3>1. samples(c)' \subseteq samples(c)
        BY <1>4 DEF Calm
      <3> HIDE DEF samples
      <3> QED  BY <1>3, <3>1, FS_Subset, FS_CardinalityType
    <2>2. issued' = issued /\ turn' = turn /\ turn \in Nat
      BY <1>4, Numbers DEF Calm, TypeOK
    <2>3. ASSUME NEW c \in Cores
          PROVE  Cardinality(samples(c)') <= k + (IF c <= turn THEN 1 ELSE 0)
      <3> HIDE DEF samples
      <3> QED  BY <1>2, <1>3, <2>1, <2>2, Numbers
    <2> QED  BY <1>2, <2>2, <2>3 DEF TurnInv
  <1>5. ASSUME NEW r \in TestReqs, RoundRobin(r) PROVE TurnInv'
    <2>1. r \in TestReqs \ issued /\ turn' = NextTurn /\ Send(turn', r)
      BY <1>5 DEF RoundRobin
    <2>2. turn \in 0..NumCores /\ NumCores \in Nat /\ NumCores > 0
      BY Numbers DEF TypeOK, Threads, Cores, Main
    <2>3. turn' \in Cores /\ \/ turn < NumCores /\ turn' = turn + 1
                             \/ turn = NumCores /\ turn' = 1
      <3>1. CASE turn < NumCores
        <4>1. turn % NumCores = turn
          BY <2>2, <3>1
        <4> QED  BY <2>1, <2>2, <3>1, <4>1 DEF NextTurn, Cores
      <3>2. CASE turn = NumCores
        <4>1. turn % NumCores = 0
          BY <2>2, <3>2
        <4> QED  BY <2>1, <2>2, <3>2, <4>1 DEF NextTurn, Cores
      <3> QED  BY <2>2, <3>1, <3>2
    <2>4. /\ Cardinality(issued') = Cardinality(issued) + 1
          /\ \A d \in Cores : pending'[d] = IF d = turn' THEN pending[d] \cup {r} ELSE pending[d]
      BY <2>1, <2>3, IssueOne
    <2>5. ASSUME NEW d \in Cores
          PROVE  /\ Cardinality(samples(d)') \in Nat
                 /\ Cardinality(samples(d)') <= Cardinality(samples(d)) + 1
                 /\ d # turn' => Cardinality(samples(d)') = Cardinality(samples(d))
      <3>1. samples(d)' \subseteq samples(d) \cup {r} /\ (d # turn' => samples(d)' = samples(d))
        BY <2>4
      <3> HIDE DEF samples
      <3> QED  BY <1>3, <3>1, GrowsByOne
    <2>6. ASSUME NEW j \in Nat, Cardinality(issued') = NumCores * j + turn',
                 \A d \in Cores : Cardinality(samples(d)') <= j + (IF d <= turn' THEN 1 ELSE 0)
          PROVE  TurnInv'
      BY <2>6 DEF TurnInv
    <2> HIDE DEF samples
    <2>7. CASE turn < NumCores /\ turn' = turn + 1
      <3>1. NumCores * k \in Nat /\ Cardinality(issued') = NumCores * k + turn'
        BY <1>2, <2>2, <2>4, <2>7
      <3>2. ASSUME NEW d \in Cores
            PROVE  Cardinality(samples(d)') <= k + (IF d <= turn' THEN 1 ELSE 0)
        <4>1. d \in Nat /\ Cardinality(samples(d)) \in Nat
              /\ Cardinality(samples(d)) <= k + (IF d <= turn THEN 1 ELSE 0)
          BY <1>2, <1>3, Numbers
        <4> QED  BY <2>2, <2>5, <2>7, <4>1
      <3> QED  BY <2>6, <3>1, <3>2
    <2>8. CASE turn = NumCores /\ turn' = 1
      <3>1. NumCores * k \in Nat /\ NumCores * (k + 1) = NumCores * k + NumCores
        BY <2>2
      <3>2. Cardinality(issued') = NumCores * (k + 1) + turn'
        BY <1>2, <2>2, <2>4, <2>8, <3>1
      <3>3. ASSUME NEW d \in Cores
            PROVE  Cardinality(samples(d)') <= (k + 1) + (IF d <= turn' THEN 1 ELSE 0)
        <4>1. d \in Nat /\ d >= 1 /\ Cardinality(samples(d)) \in Nat
              /\ Cardinality(samples(d)) <= k + 1
          BY <1>2, <1>3, <2>2, <2>8, Numbers DEF Cores
        <4> QED  BY <2>2, <2>5, <2>8, <4>1
      <3> QED  BY <2>6, <3>2, <3>3
    <2> QED  BY <2>3, <2>7, <2>8
  <1>6. \A r \in TestReqs : ~Balance(r)
    BY <1>1 DEF Balance
  <1> QED  BY <1>4, <1>5, <1>6, CalmSteps

\* Every step keeps the sums that isl_load_balancing compares.
LEMMA SumNext == TypeOK /\ PhaseInv /\ ScanInv /\ SumInv /\ [Next]_vars => SumInv'
  <1> SUFFICES ASSUME TypeOK, PhaseInv, ScanInv, SumInv, [Next]_vars,
                      policy' = "isl_load_balancing"
               PROVE  SumInv'
    BY DEF SumInv
  <1>1. ASSUME UNCHANGED <<policy, sizes, islSum>> PROVE SumInv'
    BY <1>1 DEF SumInv
  <1>2. ASSUME NEW c \in Cores, WarmKinds(c) PROVE SumInv'
    <2>1. mpc = "warm" /\ sizes' = sizes
      BY <1>2, WarmKindMoves DEF WarmKinds, WarmMove, schedVars
    <2>2. DOMAIN sizes' = {}
      BY <2>1 DEF PhaseInv, Before
    <2> QED  BY <2>2 DEF SumInv
  <1>3. ASSUME ReadLoad PROVE SumInv'
    <2>1. PICK k \in 0..(NumCores - 1) :
            /\ DOMAIN sizes = 1..k /\ DOMAIN sizes' = 1..(k + 1) /\ k + 1 \in Cores
            /\ \A d \in 1..k : sizes'[d] = sizes[d]
            /\ sizes'[k + 1] = LoadOf(k + 1)
      BY <1>3, ScanReads
    <2>2. policy = "isl_load_balancing" /\ islSum' = islSum
      BY <1>3 DEF ReadLoad, coreVars
    <2>3. sizes'[k + 1] = islSum[k + 1]
      BY <2>1, <2>2 DEF LoadOf
    <2>4. \A d \in 1..(k + 1) : d \in 1..k \/ d = k + 1
      BY <2>1
    <2> QED  BY <2>1, <2>2, <2>3, <2>4 DEF SumInv
  <1>4. ASSUME NEW r \in TestReqs, RoundRobin(r) \/ Balance(r) PROVE SumInv'
    <2>1. sizes' = << >>
      BY <1>4 DEF RoundRobin, Balance, Send
    <2>2. DOMAIN sizes' = {}
      BY <2>1
    <2> QED  BY <2>2 DEF SumInv
  <1>5. ASSUME NEW c \in Cores, CheckCore(c) PROVE SumInv'
    BY <1>1, <1>5 DEF CheckCore, schedVars, coreVars
  <1>6. ASSUME NEW c \in Cores, NEW r \in Requests, Complete(c, r) PROVE SumInv'
    BY <1>1, <1>6 DEF Complete, schedVars
  <1>7. ASSUME HealthJoined \/ WarmupDone \/ Quiet PROVE SumInv'
    BY <1>1, <1>7 DEF HealthJoined, JoinChecks, WarmupDone, Quiet, schedVars, coreVars
  <1> QED  BY <1>2, <1>3, <1>4, <1>5, <1>6, <1>7, StepKinds

-----------------------------------------------------------------------------
\* The work given to the cores.
LEMMA OwnIsFinite ==
  ASSUME TypeOK, NEW given, Deals(given), NEW c \in Cores
  PROVE  /\ IsFiniteSet(given) /\ Cardinality(given) \in Nat
         /\ IsFiniteSet(Own(given, c)) /\ Cardinality(Own(given, c)) \in Nat
         /\ Cardinality(pending[c]) <= Cardinality(Own(given, c))
  <1>1. given \subseteq Cores \X Requests
    BY DEF Deals, TypeOK, Requests
  <1>2. IsFiniteSet(Cores \X Requests)
    BY Numbers, HeldIsFinite, FS_Product
  <1>3. IsFiniteSet(given) /\ IsFiniteSet(Own(given, c))
    <2>1. Own(given, c) \subseteq given
      BY DEF Own
    <2> QED  BY <1>1, <1>2, <2>1, FS_Subset
  <1> DEFINE pair == [r \in pending[c] |-> <<c, r>>]
  <1>4. pair \in [pending[c] -> Own(given, c)]
    BY DEF Deals, Own
  <1>5. \A a, b \in pending[c] : pair[a] = pair[b] => a = b
    OBVIOUS
  <1>6. pair \in Injection(pending[c], Own(given, c))
    BY <1>4, <1>5 DEF Injection, IsInjective
  <1> HIDE DEF pair
  <1>7. Cardinality(pending[c]) <= Cardinality(Own(given, c))
    BY <1>3, <1>6, FS_Injection
  <1> QED  BY <1>3, <1>7, FS_CardinalityType

\* Every step keeps the account of what each core was given.
LEMMA DealtNext == TypeOK /\ PhaseInv /\ ScanInv /\ DealtInv /\ [Next]_vars => DealtInv'
  <1> SUFFICES ASSUME TypeOK, PhaseInv, ScanInv, DealtInv, [Next]_vars,
                      policy' = "load_balancing", ~Before'
               PROVE  \E given \in SUBSET (Cores \X Requests) : Deals(given)'
    BY DEF DealtInv
  <1>0. ASSUME NEW given, Deals(given)' PROVE \E g \in SUBSET (Cores \X Requests) : Deals(g)'
    <2>1. TypeOK /\ issued' \subseteq Requests
      <3>1. issued' = issued \/ \E r \in TestReqs : issued' = issued \cup {r}
        BY CalmSteps DEF Calm, RoundRobin, Balance, Send
      <3> QED  BY <3>1 DEF TypeOK, Requests
    <2>2. given \subseteq Cores \X (issued' \cup WarmupReqs)
      BY <1>0 DEF Deals
    <2>3. issued' \cup WarmupReqs \subseteq Requests
      BY <2>1 DEF Requests
    <2>4. given \in SUBSET (Cores \X Requests)
      BY <2>2, <2>3
    <2> WITNESS given \in SUBSET (Cores \X Requests)
    <2> QED  BY <1>0
  <1> DEFINE Goal == \E given \in SUBSET (Cores \X Requests) : Deals(given)'
  <1> HIDE DEF Goal
  <1>1. ASSUME NEW given, Deals(given)' PROVE Goal
    BY <1>0, <1>1 DEF Goal
  <1>2. ASSUME policy = "load_balancing", ~Before
        PROVE  \E given : Deals(given)
    BY <1>2 DEF DealtInv
  <1>3. ASSUME Quiet PROVE Goal
    <2>1. policy = "load_balancing" /\ ~Before
          /\ UNCHANGED <<issued, carried, pending, sizes>>
      BY <1>3 DEF Quiet, schedVars, loadgenVars, Before
    <2>2. PICK given : Deals(given)
      BY <1>2, <2>1
    <2>3. Deals(given)'
      BY <2>1, <2>2 DEF Deals
    <2> QED  BY <1>1, <2>3
  <1>4. ASSUME NEW c \in Cores, WarmKinds(c) \/ CheckCore(c) PROVE Goal
    <2>1. mpc' \in {"warm", "health"}
      BY <1>4, WarmKindMoves DEF WarmKinds, WarmMove, CheckCore
    <2> QED  BY <2>1 DEF Before
  <1>5. ASSUME NEW c \in Cores, NEW r \in Requests, Complete(c, r) PROVE Goal
    <2>1. policy = "load_balancing" /\ ~Before /\ UNCHANGED <<issued, carried, sizes>>
      BY <1>5 DEF Complete, schedVars, Before
    <2>2. PICK given : Deals(given)
      BY <1>2, <2>1
    <2>3. ASSUME NEW d \in Cores
          PROVE  pending'[d] \subseteq pending[d]
                 /\ Cardinality(pending'[d]) \in Nat /\ Cardinality(pending[d]) \in Nat
                 /\ Cardinality(pending'[d]) <= Cardinality(pending[d])
      <3>1. pending'[d] \subseteq pending[d]
        BY <1>5 DEF Complete, TypeOK
      <3> QED  BY <3>1, HeldIsFinite, FS_Subset, FS_CardinalityType
    <2>4. ASSUME NEW d \in DOMAIN sizes
          PROVE  /\ Cardinality(pending'[d]) <= sizes'[d]
                 /\ sizes'[d] <= Cardinality(Own(given, d))
      <3>1. d \in Cores /\ sizes[d] \in Nat /\ sizes'[d] = sizes[d]
            /\ Cardinality(pending[d]) <= sizes[d] /\ sizes[d] <= Cardinality(Own(given, d))
        BY <2>1, <2>2 DEF Deals, TypeOK
      <3> QED  BY <2>3, <3>1
    <2>5. Deals(given)'
      BY <2>1, <2>2, <2>3, <2>4 DEF Deals
    <2> QED  BY <1>1, <2>5
  <1>6. ASSUME HealthJoined PROVE Goal
    <2>1. mpc = "health" /\ mpc' = "issue" /\ WarmupReqs = {}
          /\ UNCHANGED <<pending, sizes, issued, carried>>
      BY <1>6 DEF HealthJoined, JoinChecks, coreVars, schedVars, loadgenVars, Before
    <2>2. /\ issued = {} /\ carried = {} /\ DOMAIN sizes = {}
          /\ \A c \in Cores : pending[c] = {}
      BY <2>1 DEF PhaseInv, Before
    <2>3. Cardinality({}) = 0
      BY FS_EmptySet
    <2>4. Deals({})'
      BY <2>1, <2>2, <2>3 DEF Deals
    <2> QED  BY <1>1, <2>4
  <1>7. ASSUME WarmupDone PROVE Goal
    <2>1. mpc = "warm" /\ UNCHANGED <<pending, sizes, issued>>
          /\ carried' = {x \in Cores \X WarmupReqs : x[2] \in pending[x[1]]}
      BY <1>7 DEF WarmupDone, coreVars, schedVars
    <2>2. /\ issued = {} /\ DOMAIN sizes = {}
          /\ \A c \in Cores : pending[c] \subseteq WarmupReqs
      BY <2>1 DEF PhaseInv, Before
    <2>3. Cardinality(issued) = 0 /\ IsFiniteSet(carried')
      <3>1. IsFiniteSet(Cores \X WarmupReqs)
        BY Numbers, ServerAssumption, FS_Product
      <3> QED  BY <2>1, <2>2, <3>1, FS_EmptySet, FS_Subset
    <2>4. Cardinality(carried') = Cardinality(issued') + Cardinality(carried')
      BY <2>1, <2>3, FS_CardinalityType
    <2>5. \A c \in Cores : \A r \in pending'[c] : <<c, r>> \in carried'
      BY <2>1, <2>2
    <2>. PICK given : given = carried'
      OBVIOUS
    <2>6. given \subseteq Cores \X (issued' \cup WarmupReqs)
      BY <2>1
    <2>7. Deals(given)'
      <3>1. DOMAIN sizes' = {}
        BY <2>1, <2>2
      <3> QED  BY <2>4, <2>5, <2>6, <3>1 DEF Deals
    <2> QED  BY <1>1, <2>7
  <1>8. ASSUME ReadLoad PROVE Goal
    <2>1. policy = "load_balancing" /\ ~Before /\ UNCHANGED <<issued, carried, pending>>
      BY <1>8 DEF ReadLoad, coreVars, loadgenVars, Before
    <2>2. PICK given : Deals(given)
      BY <1>2, <2>1
    <2>3. PICK k \in 0..(NumCores - 1) :
            /\ DOMAIN sizes = 1..k /\ DOMAIN sizes' = 1..(k + 1) /\ k + 1 \in Cores
            /\ \A d \in 1..k : sizes'[d] = sizes[d]
            /\ sizes'[k + 1] = LoadOf(k + 1)
      BY <1>8, ScanReads
    <2>4. sizes'[k + 1] = Cardinality(pending[k + 1])
      BY <2>1, <2>3 DEF LoadOf
    <2>5. \A d \in 1..(k + 1) : d \in 1..k \/ d = k + 1
      BY <2>3
    <2>6. Cardinality(pending[k + 1]) \in Nat
          /\ Cardinality(pending[k + 1]) <= Cardinality(Own(given, k + 1))
      BY <2>2, <2>3, OwnIsFinite, HeldIsFinite
    <2>7. \A d \in DOMAIN sizes' : /\ Cardinality(pending[d]) <= sizes'[d]
                                   /\ sizes'[d] <= Cardinality(Own(given, d))
      BY <2>2, <2>3, <2>4, <2>5, <2>6 DEF Deals
    <2>8. Deals(given)'
      BY <2>1, <2>2, <2>7 DEF Deals
    <2> QED  BY <1>1, <2>8
  <1>9. ASSUME NEW r \in TestReqs, RoundRobin(r) PROVE Goal
    BY <1>9 DEF RoundRobin, Send
  <1>10. ASSUME NEW r \in TestReqs, Balance(r) PROVE Goal
    <2>1. policy = "load_balancing" /\ ~Before /\ r \in TestReqs \ issued
          /\ DOMAIN sizes = Cores /\ Send(LeastLoaded, r)
      BY <1>10 DEF Balance, Send, Before
    <2>2. PICK c \in Cores : Send(c, r)
      BY <2>1, LeastLoadedIs
    <2>3. PICK given : Deals(given)
      BY <1>2, <2>1
    <2>4. /\ issued' = issued \cup {r} /\ Cardinality(issued') = Cardinality(issued) + 1
          /\ \A d \in Cores : pending'[d] = IF d = c THEN pending[d] \cup {r} ELSE pending[d]
          /\ carried' = carried /\ DOMAIN sizes' = {}
      BY <2>1, <2>2, IssueOne
    <2>5. <<c, r>> \notin given
      BY <2>1, <2>3, ServerAssumption DEF Deals
    <2> DEFINE more == given \cup {<<c, r>>}
    <2>6. Cardinality(more) = Cardinality(given) + 1
      BY <2>2, <2>3, <2>5, OwnIsFinite, FS_AddElement
    <2>7. Cardinality(more) = Cardinality(issued') + Cardinality(carried')
      BY <2>2, <2>3, <2>4, <2>6, HeldIsFinite DEF Deals
    <2>8. more \subseteq Cores \X (issued' \cup WarmupReqs)
      BY <2>3, <2>4 DEF Deals
    <2>9. \A d \in Cores : \A x \in pending'[d] : <<d, x>> \in more
      BY <2>3, <2>4 DEF Deals
    <2> HIDE DEF more
    <2>10. Deals(more)'
      BY <2>4, <2>7, <2>8, <2>9 DEF Deals
    <2> QED  BY <1>1, <2>10
  <1>11. Goal
    BY <1>3, <1>4, <1>5, <1>6, <1>7, <1>8, <1>9, <1>10, StepKinds
  <1> QED  BY <1>11 DEF Goal

-----------------------------------------------------------------------------
\* The spread of the load, for each of the schedulers.
LEMMA SpreadParts == LoadIsSpread <=> QueuesSpread /\ TurnsSpread /\ TokensSpread
  BY DEF LoadIsSpread, QueuesSpread, TurnsSpread, TokensSpread

\* Multiplication by a number is monotone, and adds it once more for the next one.
LEMMA TimesMonotone ==
  ASSUME NEW n \in Nat, NEW a \in Nat, NEW b \in Nat, a <= b
  PROVE  n * a \in Nat /\ n * b \in Nat /\ n * a <= n * b /\ n * (a + 1) = n * a + n
  OBVIOUS

\* With round_robin a core has no more requests than an even share of those issued.
LEMMA TurnsAreSpread == TypeOK /\ TurnInv => TurnsSpread
  <1> SUFFICES ASSUME TypeOK, TurnInv, policy = "round_robin", NEW c \in Cores
               PROVE  EvenShare(Cardinality(pending[c] \ WarmupReqs), Cardinality(issued))
    BY DEF TurnsSpread
  <1>1. PICK k \in Nat :
            /\ Cardinality(issued) = NumCores * k + turn
            /\ Cardinality(pending[c] \ WarmupReqs) <= k + (IF c <= turn THEN 1 ELSE 0)
    BY DEF TurnInv
  <1> DEFINE n == Cardinality(pending[c] \ WarmupReqs)
  <1>2. n \in Nat /\ turn \in Nat /\ c \in Nat /\ c >= 1 /\ NumCores \in Nat /\ NumCores > 0
    <2>1. n \in Nat
      <3>1. IsFiniteSet(pending[c]) /\ pending[c] \ WarmupReqs \subseteq pending[c]
        BY HeldIsFinite
      <3>2. IsFiniteSet(pending[c] \ WarmupReqs)
        BY <3>1, FS_Subset
      <3> QED  BY <3>2, FS_CardinalityType
    <2>2. turn \in Nat /\ c \in Nat /\ NumCores \in Nat /\ NumCores > 0
      BY Numbers DEF TypeOK
    <2>3. c >= 1
      BY Numbers DEF Cores
    <2> QED  BY <2>1, <2>2, <2>3
  <1> HIDE DEF n
  <1>3. NumCores * n < NumCores * k + turn + NumCores
    <2>1. CASE c <= turn
      <3>1. n <= k + 1 /\ turn >= 1
        BY <1>1, <1>2, <2>1 DEF n
      <3>2. NumCores * n <= NumCores * (k + 1) /\ NumCores * (k + 1) = NumCores * k + NumCores
            /\ NumCores * k \in Nat /\ NumCores * n \in Nat
        BY <1>2, <3>1, TimesMonotone
      <3> QED  BY <1>2, <3>1, <3>2
    <2>2. CASE ~(c <= turn)
      <3>1. n <= k
        BY <1>1, <1>2, <2>2 DEF n
      <3>2. NumCores * n <= NumCores * k /\ NumCores * k \in Nat /\ NumCores * n \in Nat
        BY <1>2, <3>1, TimesMonotone
      <3> QED  BY <1>2, <3>2
    <2> QED  BY <2>1, <2>2
  <1> QED  BY <1>1, <1>3 DEF EvenShare, n

\* No core was given less than what was read of the least loaded one, so all of
\* them together were given NumCores times as much.
LEMMA LeastIsShared ==
  ASSUME TypeOK, DOMAIN sizes = Cores, NEW given, Deals(given), NEW c \in Cores,
         \A d \in Cores : sizes[c] <= sizes[d]
  PROVE  NumCores * Cardinality(pending[c]) <= Cardinality(issued) + Cardinality(carried)
  <1> DEFINE part == [d \in 1..NumCores |-> Own(given, d)]
             n == Cardinality(pending[c])
  <1>1. n \in Nat /\ IsFiniteSet(given)
    BY HeldIsFinite, OwnIsFinite
  <1>2. part \in [1..NumCores -> SUBSET given]
    BY DEF Own
  <1>8. ASSUME NEW i \in 1..NumCores, NEW j \in 1..NumCores, i # j
        PROVE  part[i] \cap part[j] = {}
    BY <1>8 DEF Own
  <1>3. ASSUME NEW d \in 1..NumCores PROVE Cardinality(part[d]) >= n
    <2>1. d \in Cores
      BY DEF Cores
    <2>2. n <= sizes[c] /\ sizes[c] <= sizes[d] /\ sizes[d] <= Cardinality(Own(given, d))
      BY <2>1 DEF Deals
    <2>3. sizes[c] \in Nat /\ sizes[d] \in Nat /\ Cardinality(Own(given, d)) \in Nat
      BY <2>1, OwnIsFinite DEF TypeOK
    <2> QED  BY <1>1, <2>2, <2>3
  <1>4. NumCores \in Nat
    BY Numbers
  <1> HIDE DEF part, n
  <1>5. Cardinality(given) >= NumCores * n
    BY <1>1, <1>2, <1>3, <1>4, <1>8, PartsLower
  <1>6. Cardinality(given) = Cardinality(issued) + Cardinality(carried)
    BY DEF Deals
  <1>7. Cardinality(given) \in Nat /\ NumCores * n \in Nat
    BY <1>1, <1>4, OwnIsFinite, TimesMonotone
  <1> QED  BY <1>5, <1>6, <1>7 DEF n

\* Every step of load_balancing keeps the bound on a core's queue.
LEMMA QueuesNext ==
  TypeOK /\ PhaseInv /\ DealtInv /\ QueuesSpread /\ [Next]_vars => QueuesSpread'
  <1> SUFFICES ASSUME TypeOK, PhaseInv, DealtInv, QueuesSpread, [Next]_vars,
                      mpc' \notin {"health", "warm"}, policy' = "load_balancing",
                      NEW d \in Cores
               PROVE  \/ pending'[d] \subseteq WarmupReqs
                      \/ EvenShare(Cardinality(pending'[d]),
                                   Cardinality(issued') + Cardinality(carried'))
    BY DEF QueuesSpread, EvenShare
  <1> DEFINE Share(held, total) == held \subseteq WarmupReqs \/ EvenShare(Cardinality(held), total)
             work == Cardinality(issued) + Cardinality(carried)
  <1>0. work \in Nat /\ NumCores \in Nat /\ NumCores > 0
        /\ Cardinality(issued) \in Nat /\ Cardinality(carried) \in Nat
    BY HeldIsFinite, Numbers
  <1>1. ASSUME NEW total \in Nat, NEW more \in Nat, total <= more,
               Share(pending[d], total), NEW held, held \subseteq pending[d]
        PROVE  Share(held, more)
    <2>1. CASE pending[d] \subseteq WarmupReqs
      BY <1>1, <2>1
    <2>2. CASE EvenShare(Cardinality(pending[d]), total)
      <3> DEFINE a == Cardinality(held)
                 b == Cardinality(pending[d])
      <3>1. a \in Nat /\ b \in Nat /\ a <= b
        BY <1>1, HeldIsFinite, FS_Subset, FS_CardinalityType
      <3>2. NumCores * b < total + NumCores
        BY <2>2 DEF EvenShare
      <3> HIDE DEF a, b
      <3>3. NumCores * a < more + NumCores
        BY <1>0, <1>1, <3>1, <3>2, TimesMonotone
      <3> QED  BY <3>3 DEF EvenShare, a
    <2> QED  BY <1>1, <2>1, <2>2
  <1>2. ASSUME mpc \notin {"health", "warm"}, policy = "load_balancing"
        PROVE  Share(pending[d], work)
    BY <1>2 DEF QueuesSpread
  <1> DEFINE Goal == Share(pending'[d], Cardinality(issued') + Cardinality(carried'))
  <1>3. ASSUME mpc \notin {"health", "warm"}, policy = "load_balancing",
               UNCHANGED <<issued, carried>>, pending'[d] \subseteq pending[d]
        PROVE  Goal
    <2> HIDE DEF Share
    <2> QED  BY <1>0, <1>1, <1>2, <1>3
  <1>4. ASSUME mpc \in {"health", "warm"} PROVE Goal
    <2>1. pending[d] \subseteq WarmupReqs /\ Before
      BY <1>4 DEF PhaseInv, Before
    <2>2. CASE Calm
      BY <2>1, <2>2 DEF Calm
    <2>3. \A r \in TestReqs : ~RoundRobin(r) /\ ~Balance(r)
      BY <1>4 DEF RoundRobin, Balance
    <2> QED  BY <2>2, <2>3, CalmSteps
  <1>5. ASSUME mpc \notin {"health", "warm"} PROVE Goal
    <2>1. ASSUME NEW r \in TestReqs, Balance(r) PROVE Goal
      <3>1. policy = "load_balancing" /\ ~Before /\ r \in TestReqs \ issued
            /\ DOMAIN sizes = Cores /\ Send(LeastLoaded, r)
        BY <2>1 DEF Balance, Send, Before
      <3>2. PICK c \in Cores : Send(c, r) /\ \A e \in Cores : sizes[c] <= sizes[e]
        BY <3>1, LeastLoadedIs
      <3>3. /\ Cardinality(issued') = Cardinality(issued) + 1 /\ carried' = carried
            /\ pending'[d] = IF d = c THEN pending[d] \cup {r} ELSE pending[d]
        <4>1. Send(c, r) /\ r \in TestReqs \ issued
          BY <3>1, <3>2
        <4> HIDE DEF Share, work, Goal
        <4> QED  BY <4>1, IssueOne
      <3>4. Share(pending[d], work)
        BY <1>2, <1>5, <3>1
      <3>5. CASE d # c
        <4> HIDE DEF Share
        <4>1. pending'[d] = pending[d] /\ Cardinality(issued') + Cardinality(carried') = work + 1
          BY <1>0, <3>3, <3>5
        <4> QED  BY <1>0, <1>1, <3>4, <4>1
      <3>6. CASE d = c
        <4>1. PICK given : Deals(given)
          BY <3>1 DEF DealtInv
        <4>2. NumCores * Cardinality(pending[c]) <= work
          BY <3>1, <3>2, <4>1, LeastIsShared
        <4> DEFINE a == Cardinality(pending'[d])
                   b == Cardinality(pending[c])
        <4>3. a \in Nat /\ b \in Nat /\ a <= b + 1
          BY <3>3, <3>6, HeldIsFinite, GrowsByOne
        <4>4. NumCores * b <= work
          BY <4>2
        <4> HIDE DEF a, b
        <4>5. NumCores * a <= NumCores * (b + 1) /\ NumCores * (b + 1) = NumCores * b + NumCores
              /\ NumCores * a \in Nat /\ NumCores * b \in Nat
          BY <1>0, <4>3, TimesMonotone
        <4>6. Cardinality(issued') + Cardinality(carried') = work + 1
          BY <1>0, <3>3
        <4> HIDE DEF work
        <4>7. NumCores * a < (Cardinality(issued') + Cardinality(carried')) + NumCores
          BY <1>0, <4>4, <4>5, <4>6
        <4> QED  BY <4>7 DEF EvenShare, a
      <3> QED  BY <3>5, <3>6
    <2>2. ASSUME NEW r \in TestReqs, RoundRobin(r) PROVE Goal
      BY <2>2 DEF RoundRobin, Send
    <2>3. ASSUME NEW c \in Cores, WarmKinds(c) \/ CheckCore(c) PROVE Goal
      BY <1>5, <2>3, WarmKindMoves DEF WarmKinds, WarmMove, CheckCore
    <2>4. ASSUME NEW c \in Cores, NEW r \in Requests, Complete(c, r) PROVE Goal
      <3>1. policy' = policy /\ UNCHANGED <<issued, carried>> /\ pending'[d] \subseteq pending[d]
        BY <2>4 DEF Complete, schedVars, TypeOK
      <3> HIDE DEF Goal
      <3> QED  BY <1>3, <1>5, <3>1
    <2>5. ASSUME Quiet \/ ReadLoad PROVE Goal
      <3>1. UNCHANGED <<policy, issued, carried, pending>>
        BY <2>5 DEF Quiet, ReadLoad, coreVars, schedVars, loadgenVars
      <3> HIDE DEF Goal
      <3> QED  BY <1>3, <1>5, <3>1
    <2>6. ~HealthJoined /\ ~WarmupDone
      BY <1>5 DEF HealthJoined, JoinChecks, WarmupDone
    <2> HIDE DEF Goal
    <2> QED  BY <2>1, <2>2, <2>3, <2>4, <2>5, <2>6, StepKinds
  <1> QED  BY <1>4, <1>5

\* Every step of isl_load_balancing keeps the bound on a core's tokens.
LEMMA TokensNext ==
  TypeOK /\ PhaseInv /\ SumInv /\ TokensSpread /\ [Next]_vars => TokensSpread'
  <1> SUFFICES ASSUME TypeOK, PhaseInv, SumInv, TokensSpread, [Next]_vars,
                      mpc' \notin {"health", "warm"}, policy' = "isl_load_balancing",
                      NEW c \in Cores, NEW d \in Cores
               PROVE  \/ islSum'[c] <= islSum'[d]
                      \/ \E r \in issued' : islSum'[c] <= islSum'[d] + InputLen[r]
    BY DEF TokensSpread
  <1> DEFINE Close == \/ islSum'[c] <= islSum'[d]
                      \/ \E r \in issued' : islSum'[c] <= islSum'[d] + InputLen[r]
  <1>0. islSum \in [Cores -> Nat] /\ InputLen \in [TestReqs -> Nat]
    BY ServerAssumption DEF TypeOK
  <1>1. ASSUME mpc \notin {"health", "warm"}, UNCHANGED <<policy, issued, islSum>> PROVE Close
    BY <1>1 DEF TokensSpread
  <1>2. ASSUME NEW r \in TestReqs, Balance(r) PROVE Close
    <2>1. policy = "isl_load_balancing" /\ mpc = "issue" /\ r \in TestReqs \ issued
          /\ DOMAIN sizes = Cores /\ Send(LeastLoaded, r)
      BY <1>2 DEF Balance, Send
    <2>2. PICK e \in Cores : Send(e, r) /\ \A f \in Cores : sizes[e] <= sizes[f]
      BY <2>1, LeastLoadedIs
    <2>3. \A f \in Cores : islSum[e] <= islSum[f]
      BY <2>1, <2>2 DEF SumInv
    <2>4. /\ issued' = issued \cup {r}
          /\ \A f \in Cores : islSum'[f] = IF f = e THEN islSum[f] + InputLen[r] ELSE islSum[f]
      BY <2>1, <2>2, IssueOne
    <2>5. \/ islSum[c] <= islSum[d]
          \/ \E x \in issued : islSum[c] <= islSum[d] + InputLen[x]
      BY <2>1 DEF TokensSpread
    <2>6. CASE c = e
      BY <1>0, <2>3, <2>4, <2>6
    <2>7. CASE c # e
      <3>1. islSum'[c] = islSum[c] /\ islSum'[d] >= islSum[d] /\ islSum'[d] \in Nat
        BY <1>0, <2>4, <2>7
      <3>2. CASE islSum[c] <= islSum[d]
        BY <1>0, <3>1, <3>2
      <3>3. ASSUME NEW x \in issued, islSum[c] <= islSum[d] + InputLen[x] PROVE Close
        <4>1. InputLen[x] \in Nat /\ x \in issued'
          BY <1>0, <2>4 DEF TypeOK
        <4>2. islSum'[c] <= islSum'[d] + InputLen[x]
          BY <1>0, <3>1, <3>3, <4>1
        <4> QED  BY <4>1, <4>2
      <3> QED  BY <2>5, <3>2, <3>3
    <2> QED  BY <2>6, <2>7
  <1>3. ASSUME NEW r \in TestReqs, RoundRobin(r) PROVE Close
    BY <1>3 DEF RoundRobin, Send
  <1>4. ASSUME NEW e \in Cores, WarmKinds(e) \/ CheckCore(e) PROVE Close
    BY <1>4, WarmKindMoves DEF WarmKinds, WarmMove, CheckCore
  <1>5. ASSUME NEW e \in Cores, NEW r \in Requests, Complete(e, r) PROVE Close
    BY <1>1, <1>5 DEF Complete, schedVars
  <1>6. ASSUME HealthJoined \/ WarmupDone PROVE Close
    <2>1. mpc \in {"health", "warm"} /\ islSum' = islSum
      BY <1>6 DEF HealthJoined, JoinChecks, WarmupDone, coreVars
    <2>2. CASE HealthJoined
      <3>1. islSum[c] = 0 /\ islSum[d] = 0
        BY <2>2 DEF HealthJoined, JoinChecks, PhaseInv, Before, Served
      <3> QED  BY <2>1, <3>1
    <2>3. CASE WarmupDone
      <3>1. islSum[c] = WarmupLen /\ islSum[d] = WarmupLen
        BY <2>3 DEF WarmupDone, PhaseInv, Before, Served
      <3> QED  BY <1>0, <2>1, <3>1
    <2> QED  BY <1>6, <2>2, <2>3
  <1>7. ASSUME Quiet PROVE Close
    <2>1. UNCHANGED <<policy, issued, islSum>> /\ mpc \notin {"health", "warm"}
      BY <1>7 DEF Quiet, schedVars, loadgenVars, Before
    <2> QED  BY <1>1, <2>1
  <1>8. ASSUME ReadLoad PROVE Close
    BY <1>1, <1>8 DEF ReadLoad, coreVars, loadgenVars
  <1> HIDE DEF Close
  <1>9. Close
    BY <1>2, <1>3, <1>4, <1>5, <1>6, <1>7, <1>8, StepKinds
  <1> QED  BY <1>9 DEF Close

-----------------------------------------------------------------------------
\* The invariant holds initially.
LEMMA InvInit == Init => IInv
  <1> SUFFICES ASSUME Init PROVE IInv
    OBVIOUS
  <1>1. TypeOK
    BY TypeInit
  <1>2. DOMAIN sizes = {} /\ mpc = "health" /\ issued = {} /\ carried = {} /\ turn = 0
    <2>1. sizes = << >>
      BY DEF Init
    <2> QED  BY <2>1 DEF Init
  <1>3. Cardinality({}) = 0 /\ NumCores \in Nat /\ NumCores > 0
    BY FS_EmptySet, Numbers
  <1>4. PhaseInv
    BY <1>2, Numbers DEF Init, PhaseInv, Before, Served
  <1>5. CountInv
    <2>1. {c \in Cores : wpc[c] = "done"} = {}
      BY DEF Init
    <2>2. \A c \in Cores : wpc[c] # "count" /\ warmLock # c
      BY Numbers DEF Init, Free, Main
    <2>3. completed = 0
      BY DEF Init
    <2> QED  BY <1>3, <2>1, <2>2, <2>3 DEF CountInv
  <1>6. ScanInv
    <2>1. DOMAIN sizes = 1..0 /\ 0 \in 0..NumCores
      BY <1>2, <1>3
    <2> QED  BY <2>1 DEF ScanInv
  <1>7. DealtInv /\ SumInv
    BY <1>2 DEF DealtInv, SumInv, Before
  <1>8. TurnInv
    <2>1. \A c \in Cores : pending[c] \ WarmupReqs = {} /\ c \in Nat /\ c >= 1
      BY Numbers DEF Init, Cores
    <2>2. 0 \in Nat /\ Cardinality(issued) = NumCores * 0 + turn
      BY <1>2, <1>3
    <2>3. \A c \in Cores :
            Cardinality(pending[c] \ WarmupReqs) <= 0 + (IF c <= turn THEN 1 ELSE 0)
      <3> SUFFICES ASSUME NEW c \in Cores
                   PROVE  Cardinality(pending[c] \ WarmupReqs)
                            <= 0 + (IF c <= turn THEN 1 ELSE 0)
        OBVIOUS
      <3>1. Cardinality(pending[c] \ WarmupReqs) = 0 /\ ~(c <= turn)
        <4>1. pending[c] \ WarmupReqs = {} /\ c \in Nat /\ c >= 1
          BY <2>1
        <4>2. ~(c <= turn)
          BY <1>2, <4>1
        <4> QED  BY <1>3, <4>1, <4>2
      <3> QED  BY <3>1
    <2> QED  BY <2>2, <2>3 DEF TurnInv
  <1>9. QueuesSpread /\ TokensSpread
    BY <1>2 DEF QueuesSpread, TokensSpread
  <1> QED  BY <1>1, <1>4, <1>5, <1>6, <1>7, <1>8, <1>9 DEF IInv

\* Every step keeps the invariant.
LEMMA InvNext == IInv /\ [Next]_vars => IInv'
  <1> SUFFICES ASSUME IInv, [Next]_vars PROVE IInv'
    OBVIOUS
  <1>0. /\ TypeOK /\ PhaseInv /\ CountInv /\ ScanInv /\ DealtInv /\ TurnInv /\ SumInv
        /\ QueuesSpread /\ TokensSpread
    BY DEF IInv
  <1>1. TypeOK' /\ PhaseInv' /\ CountInv' /\ ScanInv'
    BY <1>0, TypeNext, PhaseNext, CountNext, ScanNext
  <1>2. DealtInv' /\ TurnInv' /\ SumInv'
    BY <1>0, DealtNext, TurnNext, SumNext
  <1>3. QueuesSpread' /\ TokensSpread'
    BY <1>0, QueuesNext, TokensNext
  <1> QED  BY <1>1, <1>2, <1>3 DEF IInv

\* The invariant always holds.
LEMMA InvHolds == Spec => []IInv
  BY InvInit, InvNext, PTL DEF Spec

\* Every variable keeps its type; in particular completed_count and what a
\* warm-up thread reads of it never pass the number of cores, and every
\* scheduler picks a core that there is.
THEOREM TypeCorrect == Spec => []TypeOK
  <1>1. IInv => TypeOK
    BY DEF IInv
  <1> QED  BY InvHolds, <1>1, PTL

\* When LoadGen's samples are issued every core has passed its health check and
\* has left warm-up mode, though each core's own thread does the latter and the
\* main thread goes by a count and a join.
THEOREM ReadyAtStart == Spec => []TestStartsReady
  <1>1. IInv => TestStartsReady
    <2> SUFFICES ASSUME IInv, mpc = "issue", NEW c \in Cores
                 PROVE  health[c] = "ok" /\ ~inWarmup[c]
      BY DEF TestStartsReady
    <2>1. health[c] = "ok" /\ (wpc[c] = "off" \/ wpc[c] = "done")
          /\ (inWarmup[c] => wpc[c] \in {"enqueue", "flushOut", "clear"})
      BY DEF IInv, PhaseInv, Before
    <2>2. ~inWarmup[c]
      BY <2>1
    <2> QED  BY <2>1, <2>2
  <1> QED  BY InvHolds, <1>1, PTL

\* Every scheduler keeps its promise about the spread of the load over any number
\* of cores, samples and warm-up queries: round_robin exactly by its turns,
\* load_balancing although the queue lengths it compares are read one after the
\* other while the backends answer, isl_load_balancing by the sums of input
\* lengths.
THEOREM LoadSpread == Spec => []LoadIsSpread
  <1>1. IInv => LoadIsSpread
    BY TurnsAreSpread, SpreadParts DEF IInv
  <1> QED  BY InvHolds, <1>1, PTL

=============================================================================
