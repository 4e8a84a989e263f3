--------------------------- MODULE MpiServerProofs ---------------------------
(***************************************************************************)
(* What holds of the MPI harness for any number of samples, groups and     *)
(* buffer entries and every setting: proofs of the safety properties of    *)
(* MpiServer and of the safety part of LoadGen's contract.                 *)
(***************************************************************************)
EXTENDS MpiServer, CollectionLemmas

\* Where samples wait: the queues and communicators but respBack, which only
\* carries termination, what a thread has drained, and deferredResps.
RequestPlaces == {"request", "send", "reqComm", "work"}
ResponsePlaces == {"result", "wSend", "respComm", "response", "complete", "deferred"}
TokenPlaces == {"token", "wFirst", "firstComm", "first", "report"}
SpentPlaces == {"spent", "reclaim"}
Places == RequestPlaces \cup ResponsePlaces \cup TokenPlaces \cup SpentPlaces

Line(p, g) ==
    IF p = "deferred" THEN deferred[g]
    ELSE IF p \in Sleepers THEN local[p][g]
    ELSE q[p][g]

Held(line) == Elements(line) \ {Term}
At(p, g) == Held(Line(p, g))

\* No sample is in a line twice.
Unrepeated(line) == \A i, j \in DOMAIN line : line[i] = line[j] /\ line[i] # Term => i = j

\* A request and its response are one thing on its way, and so are the first
\* token and the spent buffer: a sample is in one place of each path.
SamePath(p1, p2) ==
    \/ {p1, p2} \subseteq RequestPlaces \cup ResponsePlaces
    \/ {p1, p2} \subseteq TokenPlaces
    \/ {p1, p2} \subseteq SpentPlaces

PlaceInv ==
    /\ \A p \in Places, g \in Groups :
        /\ Unrepeated(Line(p, g))
        /\ \A s \in At(p, g) : s \in issued /\ route[s] = g
    /\ \A p1, p2 \in Places, g \in Groups :
        p1 # p2 /\ SamePath(p1, p2) => At(p1, g) \cap At(p2, g) = {}

\* Only what goes through MPI meets the termination key, and LoadGen's main
\* thread sends it where somebody receives it.
TermInv ==
    /\ \A c \in Channels \ {"reqComm", "respComm", "firstComm", "respBack"} :
        \A g \in Groups : q[c][g] \in Seq(Samples)
    /\ main = <<"test">> \/ main \in Seq({"reqComm", "respBack"} \X Groups)

\* What the place of a sample says about its state in the core and in LoadGen.
Fits(p, s) ==
    /\ p \in RequestPlaces => core[s] = "none"
    /\ p \in ResponsePlaces => core[s] \in {"answered", "gone"} /\ completions[s] = 0
    /\ p \in TokenPlaces =>
        settings.streaming /\ core[s] \notin {"none", "run"} /\ firstTokens[s] = 0
    /\ p \in SpentPlaces => core[s] = "gone"

Stage(s) ==
    /\ s \notin issued => core[s] = "none"
    /\ core[s] \in {"none", "run"} => firstTokens[s] = 0
    /\ core[s] \in {"none", "run", "streamed"} => completions[s] = 0

StageInv ==
    /\ \A p \in Places, g \in Groups : \A s \in At(p, g) : Fits(p, s)
    /\ \A s \in Samples : Stage(s)

\* The tracker knows a sample between its two reports.
ReportInv ==
    \A s \in Samples :
        /\ tracker[s] # "out" => firstTokens[s] = 1 /\ completions[s] = 0
        /\ firstTokens[s] \in {0, 1} /\ completions[s] \in {0, 1}
        /\ settings.streaming /\ completions[s] = 1 => firstTokens[s] = 1

\* A buffer entry belongs to a request of the group.
EntryInv ==
    \A g \in Groups : \A s \in reqBuf[g] : s \in issued /\ route[s] = g

\* The test ends with everything reported, and a thread of responses with
\* everything counted down.
EndInv ==
    /\ main = <<"test">> \/ \A s \in Samples : completions[s] > 0
    /\ \A g \in Groups :
        <<"complete", g>> \in ended => local["complete"][g] = <<>> /\ handled[g] = 0

TypeInv == TypeOK /\ TermInv

\* The counters and what is out.
Out(g) == {s \in issued : route[s] = g /\ completions[s] = 0}
CountInv == \A g \in Groups : inFlight[g] = handled[g] + Cardinality(Out(g))

\* The buffers and what points into them, by the places.
Answering == {"response", "complete", "deferred"}
Reporting == {"first", "report"}
In(P, s) == \E g \in Groups, p \in P : s \in At(p, g)

OwnInv ==
    /\ \A s : s \in respBuf <=> In(Answering, s)
    /\ \A s : s \in firstBuf <=> In(Reporting, s)
    /\ \A g \in Groups : At("work", g) \subseteq reqBuf[g]

FreedInv ==
    SessionSize > 1 => \A g \in Groups, s \in Samples :
        core[s] = "gone" /\ s \in reqBuf[g] => s \in At("spent", g) \cup At("reclaim", g)

IInv ==
    TypeInv /\ CountInv /\ PlaceInv /\ StageInv /\ ReportInv /\ EntryInv /\ EndInv /\ OwnInv /\ FreedInv

-----------------------------------------------------------------------------
USE DEF threadVars, bufferVars, routeVars, stopVars, loadgenVars

\* Lines, by the samples they hold.
LEMMA LineEmpty == Unrepeated(<<>>) /\ Held(<<>>) = {}
  BY DEF Unrepeated, Held, Elements

\* Without its head a line holds one sample less, or as many if the head was the key.
LEMMA LineTail ==
  ASSUME NEW M, NEW line \in Seq(M), line # <<>>, Unrepeated(line)
  PROVE  /\ Unrepeated(Tail(line)) /\ Held(Tail(line)) = Held(line) \ {Head(line)}
         /\ Head(line) # Term => Head(line) \in Held(line)
  <1>1. Head(line) = line[1] /\ 1 \in DOMAIN line
    BY HeadTail
  <1>2. \A i \in DOMAIN Tail(line) :
            i \in Int /\ i + 1 # 1 /\ i + 1 \in DOMAIN line /\ Tail(line)[i] = line[i + 1]
    <2>1. \A i \in DOMAIN Tail(line) : i \in Nat \ {0}
      BY HeadTail, ElementType
    <2> QED  BY <2>1, HeadTail
  <1>3. \A i \in DOMAIN line \ {1} : i - 1 \in DOMAIN Tail(line) /\ Tail(line)[i - 1] = line[i]
    BY HeadTail
  <1>4. Unrepeated(Tail(line))
    BY <1>2 DEF Unrepeated
  <1> DEFINE rest == Tail(line)
             first == Head(line)
  <1>a. \A i \in DOMAIN rest :
            i + 1 \in DOMAIN line /\ rest[i] = line[i + 1] /\ (line[i + 1] = first => first = Term)
    BY <1>1, <1>2 DEF Unrepeated
  <1>b. \A i \in DOMAIN line : line[i] = first \/ (i - 1 \in DOMAIN rest /\ rest[i - 1] = line[i])
    BY <1>1, <1>3
  <1> HIDE DEF rest, first
  <1>c. \A x : (\E i \in DOMAIN rest : rest[i] = x) =>
            (\E i \in DOMAIN line : line[i] = x) /\ (x = first => x = Term)
    BY <1>a
  <1>d. \A x : (\E i \in DOMAIN line : line[i] = x) => x = first \/ \E i \in DOMAIN rest : rest[i] = x
    BY <1>b
  <1>e. Held(rest) = Held(line) \ {first}
    BY <1>c, <1>d DEF Held, Elements
  <1>5. Held(Tail(line)) = Held(line) \ {Head(line)}
    BY <1>e DEF rest, first
  <1> QED  BY <1>1, <1>4, <1>5 DEF Held, Elements

\* A line that is extended holds one sample more, or as many if it is the key.
LEMMA LineAppend ==
  ASSUME NEW M, NEW line \in Seq(M), NEW e \in M, Unrepeated(line),
         e # Term => e \notin Held(line)
  PROVE  /\ Unrepeated(Append(line, e))
         /\ Held(Append(line, e)) = Held(line) \cup ({e} \ {Term})
  <1>1. Append(line, e) \in Seq(M) /\ Len(Append(line, e)) = Len(line) + 1 /\ Len(line) \in Nat
    BY AppendProperties, LenProperties
  <1>2. /\ DOMAIN line = 1..Len(line) /\ DOMAIN Append(line, e) = 1..(Len(line) + 1)
        /\ \A i \in DOMAIN line : Append(line, e)[i] = line[i]
        /\ Append(line, e)[Len(line) + 1] = e
    BY <1>1, AppendProperties, LenProperties
  <1>3. \A i \in DOMAIN Append(line, e) : i \in DOMAIN line \/ i = Len(line) + 1
    BY <1>1, <1>2
  <1>4. DOMAIN line \subseteq DOMAIN Append(line, e) /\ Len(line) + 1 \in DOMAIN Append(line, e)
    BY <1>1, <1>2
  <1>5. Unrepeated(Append(line, e))
    BY <1>2, <1>3 DEF Unrepeated, Held, Elements
  <1>6. Elements(Append(line, e)) = Elements(line) \cup {e}
    BY <1>2, <1>3, <1>4 DEF Elements
  <1> QED  BY <1>5, <1>6 DEF Held

\* Two lines with no sample in common, one behind the other, hold the samples of both,
\* each once.
LEMMA LineConcat ==
  ASSUME NEW M, NEW front \in Seq(M), NEW back \in Seq(M), Unrepeated(front), Unrepeated(back),
         Held(front) \cap Held(back) = {}
  PROVE  /\ Unrepeated(front \o back)
         /\ Held(front \o back) = Held(front) \cup Held(back)
  <1> DEFINE n == Len(front)
             all == front \o back
  <1>1. /\ all \in Seq(M) /\ Len(all) = n + Len(back) /\ n \in Nat /\ Len(back) \in Nat
        /\ \A i \in 1..(n + Len(back)) :
                all[i] = IF i <= n THEN front[i] ELSE back[i - n]
    BY ConcatProperties, LenProperties
  <1>2. DOMAIN front = 1..n /\ DOMAIN back = 1..Len(back) /\ DOMAIN all = 1..(n + Len(back))
    BY <1>1, LenProperties
  <1> HIDE DEF n, all
  <1>3. /\ \A i \in DOMAIN all : \/ i \in DOMAIN front /\ all[i] = front[i]
                                 \/ i \in Int /\ i - n \in DOMAIN back /\ all[i] = back[i - n]
        /\ \A i \in DOMAIN front : i \in DOMAIN all /\ all[i] = front[i]
        /\ \A i \in DOMAIN back : i + n \in DOMAIN all /\ all[i + n] = back[i]
    BY <1>1, <1>2
  <1>4. Unrepeated(all)
    <2> SUFFICES ASSUME NEW i \in DOMAIN all, NEW j \in DOMAIN all, all[i] = all[j], all[i] # Term
                 PROVE  i = j
      BY DEF Unrepeated
    <2>1. \A k \in DOMAIN front, l \in DOMAIN back : front[k] = back[l] => front[k] = Term
      BY DEF Held, Elements
    <2>2. CASE i \in DOMAIN front /\ all[i] = front[i]
      BY <1>3, <2>1, <2>2 DEF Unrepeated
    <2>3. CASE i \in Int /\ i - n \in DOMAIN back /\ all[i] = back[i - n]
      <3>1. CASE j \in DOMAIN front /\ all[j] = front[j]
        BY <2>1, <2>3, <3>1
      <3>2. CASE j \in Int /\ j - n \in DOMAIN back /\ all[j] = back[j - n]
        <4>1. i - n = j - n
          BY <2>3, <3>2 DEF Unrepeated
        <4> QED  BY <1>1, <2>3, <3>2, <4>1
      <3> QED  BY <1>3, <3>1, <3>2
    <2> QED  BY <1>3, <2>2, <2>3
  <1>5. Elements(all) = Elements(front) \cup Elements(back)
    <2>1. Elements(all) \subseteq Elements(front) \cup Elements(back)
      BY <1>3 DEF Elements
    <2>2. ASSUME NEW i \in DOMAIN front PROVE front[i] \in Elements(all)
      BY <1>3 DEF Elements
    <2>3. ASSUME NEW i \in DOMAIN back PROVE back[i] \in Elements(all)
      <3>1. i + n \in DOMAIN all /\ all[i + n] = back[i]
        BY <1>3
      <3> QED  BY <3>1 DEF Elements
    <2> QED  BY <2>1, <2>2, <2>3 DEF Elements
  <1> QED  BY <1>4, <1>5 DEF Held, all

\* A line of samples has no key in it.
LEMMA HeldSamples ==
  ASSUME NEW line \in Seq(Samples)
  PROVE  Held(line) = Elements(line) /\ Elements(line) \subseteq Samples
  <1>1. \A i \in DOMAIN line : line[i] \in Samples
    BY ElementType
  <1> QED  BY <1>1, ConstantsAssumption DEF Held, Elements

-----------------------------------------------------------------------------
\* Functions of two arguments, after a step.
LEMMA SetType ==
  ASSUME NEW C, NEW G, NEW S, NEW Q \in [C -> [G -> S]], NEW c \in C, NEW g \in G, NEW x \in S
  PROVE  /\ [Q EXCEPT ![c][g] = x] \in [C -> [G -> S]]
         /\ \A d \in C, h \in G : [Q EXCEPT ![c][g] = x][d][h] =
                IF d = c /\ h = g THEN x ELSE Q[d][h]
  OBVIOUS

\* A thread takes the first item off its local list, and the other lists stay as they
\* are.
LEMMA DoneType ==
  ASSUME NEW G, NEW g \in G, NEW t \in Sleepers, local \in [Sleepers -> [G -> Seq(Samples)]],
         HasItem(t, g), Done(t, g)
  PROVE  /\ local' \in [Sleepers -> [G -> Seq(Samples)]] /\ Head(local[t][g]) \in Samples
         /\ \A u \in Sleepers, h \in G : local'[u][h] =
                IF u = t /\ h = g THEN Tail(local[t][g]) ELSE local[u][h]
  <1>1. Tail(local[t][g]) \in Seq(Samples) /\ Head(local[t][g]) \in Samples
    BY HeadTail DEF HasItem
  <1> QED  BY <1>1 DEF Done

\* What the settings say, and that they stay.
LEMMA SettingTypes ==
  ASSUME settings \in Settings
  PROVE  /\ settings.groups \in Nat \ {0} /\ settings.streaming \in BOOLEAN
         /\ settings.policy \in {"roundRobin", "staticChop", "loadBalancing"}
         /\ Groups \subseteq Nat /\ 0 \in Groups
         /\ \A g \in Groups : g + 1 \in 1..settings.groups
  BY ConstantsAssumption DEF Groups

\* Groups and threads depend on the settings only.
LEMMA SameGroups ==
  ASSUME settings' = settings
  PROVE  Groups' = Groups /\ Threads' = Threads
  BY DEF Groups, Threads

\* Nothing changes the settings.
LEMMA SettingsStay == [Next]_vars => settings' = settings
  <1> SUFFICES ASSUME [Next]_vars PROVE settings' = settings
    OBVIOUS
  <1>1. CASE Main
    BY <1>1 DEF Main, ReadCounter, TestEnds, SendTerminate, Issue
  <1>2. ASSUME NEW g \in Groups, NEW t \in Threads, ThreadStep(t, g) PROVE settings' = settings
    BY <1>2 DEF ThreadStep, Drain, Quit, Forward, RecvRequest, Accept, RecvRequestEnds, Ends,
                RecvResponse, LoadGenReceiverEnds, RecvFirstToken, Complete, CountDown,
                CountDownBy, ReportFirst, Reclaim, WaitForTermination
  <1>3. ASSUME NEW g \in Groups, GetInferenceRequest(g) PROVE settings' = settings
    BY <1>3 DEF GetInferenceRequest
  <1>4. ASSUME NEW s \in Samples, Core(s) \/ Age(s) PROVE settings' = settings
    BY <1>4 DEF Core, SendFirst, SendFinal, SendReclaim, CoreStep, Age
  <1>5. CASE Finished \/ UNCHANGED vars
    BY <1>5 DEF Finished, vars
  <1> QED  BY <1>1, <1>2, <1>3, <1>4, <1>5 DEF Next

-----------------------------------------------------------------------------
(***************************************************************************)
(* Types.                                                                  *)
(***************************************************************************)
TermChannels == {"reqComm", "respComm", "firstComm", "respBack"}
Messages == Samples \cup {Term}

QueueType(Q, G) ==
    /\ Q \in [Channels -> [G -> Seq(Messages)]]
    /\ \A c \in Channels \ TermChannels, g \in G : Q[c][g] \in Seq(Samples)

\* Pushing a sample anywhere, or the key where it may go.
LEMMA PushQueue ==
  ASSUME NEW G, NEW Q, QueueType(Q, G), NEW c \in Channels, NEW g \in G, NEW m,
         m \in Samples \/ (m = Term /\ c \in TermChannels)
  PROVE  /\ QueueType(Push(Q, c, g, m), G)
         /\ \A d \in Channels, h \in G : Push(Q, c, g, m)[d][h] =
                IF d = c /\ h = g THEN Append(Q[c][g], m) ELSE Q[d][h]
  <1>1. Q \in [Channels -> [G -> Seq(Messages)]] /\ m \in Messages
    BY DEF QueueType, Messages
  <1>2. /\ Push(Q, c, g, m) \in [Channels -> [G -> Seq(Messages)]]
        /\ \A d \in Channels, h \in G : Push(Q, c, g, m)[d][h] =
                IF d = c /\ h = g THEN Append(Q[c][g], m) ELSE Q[d][h]
    <2>1. Append(Q[c][g], m) \in Seq(Messages)
      BY <1>1, Extended
    <2> QED  BY <1>1, <2>1 DEF Push
  <1>3. ASSUME NEW d \in Channels \ TermChannels, NEW h \in G
        PROVE  Push(Q, c, g, m)[d][h] \in Seq(Samples)
    <2>1. Q[d][h] \in Seq(Samples)
      BY DEF QueueType
    <2>2. m \in Samples => Append(Q[d][h], m) \in Seq(Samples)
      BY <2>1, Extended
    <2> QED  BY <1>2, <2>1, <2>2
  <1> QED  BY <1>2, <1>3 DEF QueueType

\* A channel without its head keeps its type, and no other channel changes; the head is
\* a sample where no key may travel.
LEMMA PopQueue ==
  ASSUME NEW G, NEW Q, QueueType(Q, G), NEW c \in Channels, NEW g \in G, Q[c][g] # <<>>
  PROVE  /\ QueueType(Pop(Q, c, g), G)
         /\ \A d \in Channels, h \in G : Pop(Q, c, g)[d][h] =
                IF d = c /\ h = g THEN Tail(Q[c][g]) ELSE Q[d][h]
         /\ Head(Q[c][g]) \in Messages
         /\ c \notin TermChannels => Head(Q[c][g]) \in Samples
  <1>1. Q \in [Channels -> [G -> Seq(Messages)]] /\ Q[c][g] \in Seq(Messages)
    BY DEF QueueType
  <1>2. /\ Pop(Q, c, g) \in [Channels -> [G -> Seq(Messages)]]
        /\ \A d \in Channels, h \in G : Pop(Q, c, g)[d][h] =
                IF d = c /\ h = g THEN Tail(Q[c][g]) ELSE Q[d][h]
    <2>1. Tail(Q[c][g]) \in Seq(Messages)
      BY <1>1, HeadTail
    <2> QED  BY <1>1, <2>1 DEF Pop
  <1>3. ASSUME NEW d \in Channels \ TermChannels, NEW h \in G
        PROVE  Pop(Q, c, g)[d][h] \in Seq(Samples)
    <2>1. Q[d][h] \in Seq(Samples)
      BY DEF QueueType
    <2>2. Q[d][h] # <<>> => Tail(Q[d][h]) \in Seq(Samples)
      BY <2>1, HeadTail
    <2> QED  BY <1>2, <2>1, <2>2
  <1>4. c \notin TermChannels => Head(Q[c][g]) \in Samples
    <2>1. c \notin TermChannels => Q[c][g] \in Seq(Samples)
      BY DEF QueueType
    <2> QED  BY <2>1, HeadTail
  <1>5. Head(Q[c][g]) \in Messages
    BY <1>1, HeadTail
  <1> QED  BY <1>2, <1>3, <1>4, <1>5 DEF QueueType

\* The types, by what steps change together.
MainType == main = <<"test">> \/ main \in Seq({"reqComm", "respBack"} \X Groups)

ThreadType ==
    /\ local \in [Sleepers -> [Groups -> Seq(Samples)]]
    /\ deferred \in [Groups -> Seq(Samples)]
    /\ ended \subseteq Threads \X Groups /\ missed \subseteq Threads \X Groups
    /\ handled \in [Groups -> Nat]

RestType ==
    /\ reqBuf \in [Groups -> SUBSET Samples]
    /\ respBuf \subseteq Samples /\ firstBuf \subseteq Samples
    /\ core \in [Samples -> {"none", "run", "streamed", "answered", "gone"}]
    /\ tracker \in [Samples -> {"out", "young", "due"}]
    /\ exits \in Nat
    /\ stopLoadGen \in BOOLEAN /\ stopWorker \in [Groups -> BOOLEAN]
    /\ firstTokens \in [Samples -> Nat] /\ completions \in [Samples -> Nat]

RouteType ==
    /\ route \in [Samples -> Groups] /\ lastUsed \in Groups
    /\ scan \in Seq(Nat) /\ Len(scan) <= settings.groups
    /\ settings \in Settings /\ issued \subseteq Samples

\* TypeInv by the parts of the state that a step changes together.
LEMMA TypeParts ==
  TypeInv <=> /\ QueueType(q, Groups) /\ MainType /\ ThreadType /\ RestType /\ RouteType
              /\ inFlight \in [Groups -> Nat]
  BY DEF TypeInv, TypeOK, TermInv, QueueType, TermChannels, Messages, MainType, ThreadType, RestType, RouteType

\* Put together after a step.
LEMMA TypeStep ==
  ASSUME settings' = settings, QueueType(q', Groups), MainType', ThreadType', RestType', RouteType',
         inFlight' \in [Groups -> Nat]
  PROVE  TypeInv'
  <1>1. Groups' = Groups /\ Threads' = Threads
    BY SameGroups
  <1> QED  BY <1>1 DEF TypeInv, TypeOK, TermInv, QueueType, TermChannels, Messages, MainType,
                       ThreadType, RestType, RouteType

\* A part whose variables a step leaves alone keeps its type.
LEMMA TypeSame ==
  ASSUME TypeInv, settings' = settings
  PROVE  /\ q' = q => QueueType(q', Groups)
         /\ main' = main => MainType'
         /\ UNCHANGED <<local, deferred, ended, missed, handled>> => ThreadType'
         /\ UNCHANGED <<reqBuf, respBuf, firstBuf, core, tracker, exits, stopLoadGen, stopWorker,
                        firstTokens, completions>> => RestType'
         /\ UNCHANGED <<route, lastUsed, scan, issued>> => RouteType'
         /\ inFlight' = inFlight => inFlight' \in [Groups -> Nat]
  <1>1. Groups' = Groups /\ Threads' = Threads
    BY SameGroups
  <1> USE TypeParts
  <1>2. main' = main => MainType'  BY <1>1 DEF MainType
  <1>3. UNCHANGED <<local, deferred, ended, missed, handled>> => ThreadType'
    BY <1>1 DEF ThreadType
  <1>4. UNCHANGED <<reqBuf, respBuf, firstBuf, core, tracker, exits, stopLoadGen, stopWorker,
                    firstTokens, completions>> => RestType'
    BY <1>1 DEF RestType
  <1>5. UNCHANGED <<route, lastUsed, scan, issued>> => RouteType'
    BY <1>1 DEF RouteType
  <1> QED  BY <1>2, <1>3, <1>4, <1>5

-----------------------------------------------------------------------------
\* The sample goes to a queue that exists, whatever the policy.
LEMMA ChopType ==
  ASSUME RouteType, NEW i \in Nat, NEW n \in Nat, i < n
  PROVE  StaticChop(i, n) \in Groups
  <1> DEFINE k == settings.groups
             share == n \div k
  <1>1. k \in Nat \ {0} /\ share \in Nat
    <2>1. k \in Nat \ {0}
      BY SettingTypes DEF RouteType
    <2> HIDE DEF k
    <2> QED  BY <2>1
  <1>2. Groups = 0..(k - 1)
    BY DEF Groups
  <1>3. StaticChop(i, n) = IF i < share * k THEN i \div share ELSE (i - share * k) % k
    BY DEF StaticChop
  <1> HIDE DEF k, share
  <1>4. i < share * k => i \div share \in 0..(k - 1)
    BY <1>1
  <1>5. share * k \in Int /\ (i - share * k) % k \in 0..(k - 1)
    BY <1>1
  <1> QED  BY <1>2, <1>3, <1>4, <1>5

\* The least busy of the groups whose counters were read is a group.
LEMMA LeastType ==
  ASSUME RouteType, Len(scan) = settings.groups
  PROVE  LeastBusy \in Groups
  <1>1. settings.groups \in Nat \ {0} /\ scan \in Seq(Nat)
    BY SettingTypes DEF RouteType
  <1>2. \E g \in Groups : \A h \in Groups :
            scan[g + 1] <= scan[h + 1] /\ (h < g => scan[g + 1] # scan[h + 1])
    BY <1>1, FirstLeast DEF Groups
  <1> QED  BY <1>2 DEF LeastBusy

\* The group that a policy chooses for the next sample is a group.
LEMMA NextQueueType ==
  ASSUME RouteType, issued # Samples, settings.policy = "loadBalancing" => Len(scan) = settings.groups
  PROVE  NextQueueIdx \in Groups
  <1>1. CASE settings.policy = "roundRobin"
    <2>1. lastUsed + 1 \in Int /\ settings.groups \in Nat \ {0}
      BY SettingTypes DEF RouteType
    <2>2. (lastUsed + 1) % settings.groups \in 0..(settings.groups - 1)
      BY <2>1
    <2> QED  BY <1>1, <2>2 DEF NextQueueIdx, Groups
  <1>2. CASE settings.policy = "staticChop"
    <2>1. IsFiniteSet(Samples) /\ issued \subseteq Samples /\ issued # Samples
      BY ConstantsAssumption DEF RouteType
    <2>2. /\ Cardinality(issued) \in Nat /\ Cardinality(Samples) \in Nat
          /\ Cardinality(issued) < Cardinality(Samples)
      BY <2>1, FS_Subset, FS_CardinalityType
    <2> QED  BY <1>2, <2>2, ChopType DEF NextQueueIdx
  <1>3. CASE settings.policy = "loadBalancing"
    BY <1>3, LeastType DEF NextQueueIdx
  <1> QED  BY <1>1, <1>2, <1>3, SettingTypes DEF RouteType

-----------------------------------------------------------------------------
\* Every step keeps the types.
LEMMA IssueType ==
  ASSUME TypeInv, NEW s \in Samples, Issue(s)
  PROVE  TypeInv' /\ NextQueueIdx \in Groups /\ s \notin issued
  <1> DEFINE g == NextQueueIdx
  <1>0. g \in Groups
    BY TypeParts, NextQueueType DEF Issue
  <1>1. /\ q' = Push(q, "request", g, s) /\ inFlight' = Counted(g)
        /\ route' = [route EXCEPT ![s] = g] /\ lastUsed' = g /\ scan' = <<>>
        /\ issued' = issued \cup {s} /\ s = CHOOSE r \in Samples : r \notin issued
        /\ issued # Samples
        /\ UNCHANGED <<threadVars, bufferVars, core, tracker, settings, stopVars,
                       firstTokens, completions>>
    BY DEF Issue
  <1> HIDE DEF g
  <1>2. QueueType(q', Groups)
    BY <1>0, <1>1, TypeParts, PushQueue DEF Channels
  <1>3. inFlight' \in [Groups -> Nat]
    <2>1. inFlight \in [Groups -> Nat] /\ inFlight' = [inFlight EXCEPT ![g] = inFlight[g] + 1]
      BY <1>1, TypeParts DEF Counted
    <2> QED  BY <1>0, <2>1
  <1>4. RouteType'
    <2>1. RouteType
      BY TypeParts
    <2>2. Groups' = Groups
      BY <1>1, SameGroups
    <2>3. scan' \in Seq(Nat) /\ Len(scan') = 0
      BY <1>1
    <2>4. Len(scan') <= settings'.groups
      BY <1>1, <2>1, <2>3, SettingTypes DEF RouteType
    <2> QED  BY <1>0, <1>1, <2>1, <2>2, <2>3, <2>4 DEF RouteType
  <1>5. MainType' /\ ThreadType' /\ RestType'
    BY <1>1, TypeSame
  <1>6. s \notin issued
    BY <1>1, TypeParts DEF RouteType
  <1> QED  BY <1>0, <1>1, <1>2, <1>3, <1>4, <1>5, <1>6, TypeStep DEF g

\* Reading the counter of one more group keeps the types.
LEMMA ReadCounterType == ASSUME TypeInv, ReadCounter PROVE TypeInv'
  <1>1. RouteType /\ inFlight \in [Groups -> Nat]
    BY TypeParts
  <1>2. settings.groups \in Nat \ {0} /\ Len(scan) \in Nat /\ Len(scan) < settings.groups
        /\ settings' = settings /\ scan' = Append(scan, inFlight[Len(scan)])
    BY <1>1, SettingTypes DEF RouteType, ReadCounter
  <1>3. inFlight[Len(scan)] \in Nat
    BY <1>1, <1>2 DEF Groups
  <1>4. scan' \in Seq(Nat) /\ Len(scan') <= settings.groups
    BY <1>1, <1>2, <1>3 DEF RouteType
  <1>5. RouteType'
    BY <1>1, <1>2, <1>4, SameGroups DEF RouteType, ReadCounter
  <1> QED  BY <1>2, <1>5, TypeSame, TypeStep DEF ReadCounter

\* A thread that wakes up takes over all that waits for it, the deferred responses too
\* in the case of the completing thread, and leaves the channel empty.
LEMMA DrainType ==
  ASSUME TypeInv, NEW g \in Groups, NEW t \in Sleepers, Drain(t, g)
  PROVE  /\ TypeInv'
         /\ SleepsOn[t] \in Channels \ TermChannels
         /\ \A c \in Channels, h \in Groups : q'[c][h] =
                IF c = SleepsOn[t] /\ h = g THEN <<>> ELSE q[c][h]
         /\ \A u \in Sleepers, h \in Groups : local'[u][h] =
                IF u = t /\ h = g THEN Waiting(t, g) ELSE local[u][h]
         /\ \A h \in Groups : deferred'[h] =
                IF t = "complete" /\ h = g THEN <<>> ELSE deferred[h]
  <1>1. QueueType(q, Groups) /\ ThreadType
    BY TypeParts
  <1>2. SleepsOn[t] \in Channels \ TermChannels
    BY DEF SleepsOn, Sleepers, Channels, TermChannels
  <1>3. q[SleepsOn[t]][g] \in Seq(Samples) /\ deferred[g] \in Seq(Samples)
    BY <1>1, <1>2 DEF QueueType, ThreadType
  <1>4. Waiting(t, g) \in Seq(Samples)
    BY <1>3, ConcatProperties DEF Waiting
  <1>5. /\ local' = [local EXCEPT ![t][g] = Waiting(t, g)]
        /\ q' = [q EXCEPT ![SleepsOn[t]][g] = <<>>]
        /\ deferred' = IF t = "complete" THEN [deferred EXCEPT ![g] = <<>>] ELSE deferred
        /\ UNCHANGED <<ended, missed, handled, bufferVars, core, tracker, routeVars,
                       stopVars, loadgenVars>>
    BY DEF Drain
  <1>6. QueueType(q', Groups) /\ \A c \in Channels, h \in Groups : q'[c][h] =
                IF c = SleepsOn[t] /\ h = g THEN <<>> ELSE q[c][h]
    <2> DEFINE d == SleepsOn[t]
    <2>1. d \in Channels /\ q' = [q EXCEPT ![d][g] = <<>>]
      BY <1>2, <1>5
    <2> HIDE DEF d
    <2>2. q \in [Channels -> [Groups -> Seq(Messages)]]
      BY <1>1 DEF QueueType
    <2>3. /\ q' \in [Channels -> [Groups -> Seq(Messages)]]
          /\ \A c \in Channels, h \in Groups : q'[c][h] = IF c = d /\ h = g THEN <<>> ELSE q[c][h]
      BY <2>1, <2>2, EmptySeqType
    <2>4. \A c \in Channels \ TermChannels, h \in Groups : q'[c][h] \in Seq(Samples)
      BY <1>1, <2>3, EmptySeqType DEF QueueType
    <2> QED  BY <2>3, <2>4 DEF QueueType, d
  <1>7. local' \in [Sleepers -> [Groups -> Seq(Samples)]] /\ \A u \in Sleepers, h \in Groups :
            local'[u][h] = IF u = t /\ h = g THEN Waiting(t, g) ELSE local[u][h]
    BY <1>1, <1>4, <1>5 DEF ThreadType
  <1>8. deferred' \in [Groups -> Seq(Samples)] /\ \A h \in Groups : deferred'[h] =
                IF t = "complete" /\ h = g THEN <<>> ELSE deferred[h]
    BY <1>1, <1>5, EmptySeqType DEF ThreadType
  <1>9. ThreadType'
    BY <1>1, <1>5, <1>7, <1>8, SameGroups DEF ThreadType
  <1> QED  BY <1>2, <1>5, <1>6, <1>7, <1>8, <1>9, TypeSame, TypeStep

\* A thread that leaves its loop keeps the types.
LEMMA QuitType ==
  ASSUME TypeInv, NEW g \in Groups, NEW t \in Threads, Quit(t, g) PROVE TypeInv'
  <1>1. ThreadType'
    BY TypeParts, SameGroups DEF Quit, ThreadType
  <1> QED  BY <1>1, TypeSame, TypeStep DEF Quit

\* A thread passes the first item of its local list on to a channel.
LEMMA ForwardType ==
  ASSUME TypeInv, NEW g \in Groups, NEW t \in Sleepers, NEW c \in Channels, Forward(t, c, g)
  PROVE  /\ TypeInv' /\ local[t][g] \in Seq(Samples) /\ local[t][g] # <<>>
         /\ Head(local[t][g]) \in Samples
         /\ \A d \in Channels, h \in Groups : q'[d][h] =
                IF d = c /\ h = g THEN Append(q[c][g], Head(local[t][g])) ELSE q[d][h]
         /\ \A u \in Sleepers, h \in Groups : local'[u][h] =
                IF u = t /\ h = g THEN Tail(local[t][g]) ELSE local[u][h]
  <1>1. QueueType(q, Groups) /\ ThreadType
    BY TypeParts
  <1>2. /\ local' \in [Sleepers -> [Groups -> Seq(Samples)]] /\ Head(local[t][g]) \in Samples
        /\ \A u \in Sleepers, h \in Groups : local'[u][h] =
                IF u = t /\ h = g THEN Tail(local[t][g]) ELSE local[u][h]
    BY <1>1, DoneType DEF Forward, ThreadType
  <1>3. ThreadType'
    BY <1>1, <1>2, SameGroups DEF Forward, ThreadType
  <1>4. QueueType(q', Groups) /\ \A d \in Channels, h \in Groups : q'[d][h] =
                IF d = c /\ h = g THEN Append(q[c][g], Head(local[t][g])) ELSE q[d][h]
    BY <1>1, <1>2, PushQueue DEF Forward
  <1> QED  BY <1>1, <1>2, <1>3, <1>4, TypeSame, TypeStep DEF Forward, HasItem, ThreadType

\* One message goes from a channel to another.
LEMMA AcceptQueue ==
  ASSUME TypeInv, NEW g \in Groups, NEW c \in Channels, NEW to \in Channels, c # to, Accept(c, to, g)
  PROVE  /\ QueueType(q', Groups) /\ q[c][g] \in Seq(Messages) /\ q[c][g] # <<>>
         /\ Head(q[c][g]) \in Samples /\ q[to][g] \in Seq(Messages)
         /\ \A d \in Channels, h \in Groups : q'[d][h] =
                IF d = c /\ h = g THEN Tail(q[c][g])
                ELSE IF d = to /\ h = g THEN Append(q[to][g], Head(q[c][g])) ELSE q[d][h]
  <1> DEFINE Q == Pop(q, c, g)
             m == Head(q[c][g])
  <1>1. QueueType(q, Groups) /\ q[c][g] # <<>> /\ m # Term /\ q' = Push(Q, to, g, m)
    BY TypeParts DEF Accept, IsNext
  <1>2. QueueType(Q, Groups) /\ m \in Messages
        /\ \A d \in Channels, h \in Groups : Q[d][h] =
                IF d = c /\ h = g THEN Tail(q[c][g]) ELSE q[d][h]
    BY <1>1, PopQueue
  <1>3. m \in Samples
    BY <1>1, <1>2 DEF Messages
  <1> HIDE DEF Q, m
  <1>4. QueueType(q', Groups) /\ \A d \in Channels, h \in Groups : q'[d][h] =
                IF d = to /\ h = g THEN Append(Q[to][g], m) ELSE Q[d][h]
    BY <1>1, <1>2, <1>3, PushQueue
  <1>5. \A d \in Channels, h \in Groups : q'[d][h] =
                IF d = c /\ h = g THEN Tail(q[c][g])
                ELSE IF d = to /\ h = g THEN Append(q[to][g], m) ELSE q[d][h]
    BY <1>2, <1>4
  <1> QED  BY <1>1, <1>3, <1>4, <1>5 DEF QueueType, m

\* Receiving a request keeps the types.
LEMMA RecvRequestType == ASSUME TypeInv, NEW g \in Groups, RecvRequest(g) PROVE TypeInv'
  <1>1. QueueType(q', Groups) /\ Head(q["reqComm"][g]) \in Samples
    BY AcceptQueue, SMTT(20) DEF RecvRequest, Channels
  <1>2. RestType'
    BY <1>1, TypeParts, SameGroups DEF RecvRequest, Accept, RestType
  <1> QED  BY <1>1, <1>2, TypeSame, TypeStep DEF RecvRequest, Accept

\* Receiving a response keeps the types.
LEMMA RecvResponseType == ASSUME TypeInv, NEW g \in Groups, RecvResponse(g) PROVE TypeInv'
  <1>1. QueueType(q', Groups) /\ Head(q["respComm"][g]) \in Samples
    BY AcceptQueue, SMTT(20) DEF RecvResponse, Channels
  <1>2. RestType'
    BY <1>1, TypeParts, SameGroups DEF RecvResponse, Accept, RestType
  <1> QED  BY <1>1, <1>2, TypeSame, TypeStep DEF RecvResponse, Accept

\* Receiving a first token keeps the types.
LEMMA RecvFirstTokenType == ASSUME TypeInv, NEW g \in Groups, RecvFirstToken(g) PROVE TypeInv'
  <1>1. QueueType(q', Groups) /\ Head(q["firstComm"][g]) \in Samples
    BY AcceptQueue, SMTT(20) DEF RecvFirstToken, Channels
  <1>2. RestType'
    BY <1>1, TypeParts, SameGroups DEF RecvFirstToken, Accept, RestType
  <1> QED  BY <1>1, <1>2, TypeSame, TypeStep DEF RecvFirstToken, Accept

\* The thread t of group g is done with the first item it drained.
LEMMA DoneStep ==
  ASSUME TypeInv, NEW g \in Groups, NEW t \in Sleepers, HasItem(t, g), Done(t, g)
  PROVE  /\ local' \in [Sleepers -> [Groups -> Seq(Samples)]]
         /\ local[t][g] \in Seq(Samples) /\ local[t][g] # <<>> /\ Head(local[t][g]) \in Samples
         /\ \A u \in Sleepers, h \in Groups : local'[u][h] =
                IF u = t /\ h = g THEN Tail(local[t][g]) ELSE local[u][h]
  <1>1. local \in [Sleepers -> [Groups -> Seq(Samples)]]
    BY TypeParts DEF ThreadType
  <1> QED  BY <1>1, DoneType DEF HasItem

\* Reporting a first token keeps the types.
LEMMA ReportFirstType == ASSUME TypeInv, NEW g \in Groups, ReportFirst(g) PROVE TypeInv'
  <1> DEFINE s == Head(local["report"][g])
  <1>1. local' \in [Sleepers -> [Groups -> Seq(Samples)]] /\ s \in Samples
    BY DoneStep DEF ReportFirst, Sleepers, SleepsOn
  <1>2. ThreadType'
    BY <1>1, TypeParts, SameGroups DEF ThreadType, ReportFirst
  <1>3. /\ firstTokens' = [firstTokens EXCEPT ![s] = @ + 1]
        /\ tracker' = [tracker EXCEPT ![s] = "young"]
        /\ firstBuf' = CleanBuffer(firstBuf, s)
        /\ UNCHANGED <<q, deferred, ended, missed, handled, reqBuf, respBuf, core,
                       routeVars, stopVars, issued, completions>>
    BY DEF ReportFirst
  <1>4. s \in Samples
    BY <1>1
  <1> HIDE DEF s
  <1>5. RestType'
    <2>1. RestType
      BY TypeParts
    <2>2. /\ firstTokens' \in [Samples -> Nat] /\ firstBuf' \subseteq Samples
          /\ tracker' \in [Samples -> {"out", "young", "due"}]
      BY <1>3, <1>4, <2>1 DEF RestType, CleanBuffer
    <2> QED  BY <1>3, <2>1, <2>2, SameGroups DEF RestType
  <1> QED  BY <1>2, <1>3, <1>5, TypeSame, TypeStep

\* That a tracker entry becomes visible keeps the types.
LEMMA AgeType == ASSUME TypeInv, NEW s \in Samples, Age(s) PROVE TypeInv'
  <1>1. RestType'
    BY TypeParts, SameGroups DEF RestType, Age
  <1> QED  BY <1>1, TypeSame, TypeStep DEF Age

\* Completing a response, or deferring it, keeps the types.
LEMMA CompleteType == ASSUME TypeInv, NEW g \in Groups, Complete(g) PROVE TypeInv'
  <1> DEFINE s == Head(local["complete"][g])
  <1>1. local' \in [Sleepers -> [Groups -> Seq(Samples)]] /\ s \in Samples
    BY DoneStep DEF Complete, Sleepers, SleepsOn
  <1>2. /\ IF MayComplete(s)
           THEN /\ completions' = [completions EXCEPT ![s] = @ + 1]
                /\ tracker' = [tracker EXCEPT ![s] = "out"]
                /\ respBuf' = CleanBuffer(respBuf, s)
                /\ handled' = [handled EXCEPT ![g] = @ + 1]
                /\ UNCHANGED deferred
           ELSE /\ deferred' = [deferred EXCEPT ![g] = Append(@, s)]
                /\ UNCHANGED <<completions, tracker, respBuf, handled>>
        /\ UNCHANGED <<q, ended, missed, reqBuf, firstBuf, core, routeVars,
                       stopVars, issued, firstTokens>>
    BY DEF Complete
  <1>3. s \in Samples
    BY <1>1
  <1> HIDE DEF s
  <1>4. ThreadType /\ RestType
    BY TypeParts
  <1>5. ThreadType'
    <2>1. handled' \in [Groups -> Nat]
      BY <1>2, <1>4 DEF ThreadType
    <2>2. Append(deferred[g], s) \in Seq(Samples)
      BY <1>3, <1>4, Extended DEF ThreadType
    <2>3. deferred' \in [Groups -> Seq(Samples)]
      BY <1>2, <1>4, <2>2 DEF ThreadType
    <2> QED  BY <1>1, <1>2, <1>4, <2>1, <2>3, SameGroups DEF ThreadType
  <1>6. RestType'
    <2>1. /\ completions' \in [Samples -> Nat] /\ respBuf' \subseteq Samples
          /\ tracker' \in [Samples -> {"out", "young", "due"}]
      <3>1. CASE MayComplete(s)
        BY <1>2, <1>3, <1>4, <3>1 DEF RestType, CleanBuffer
      <3>2. CASE ~MayComplete(s)
        BY <1>2, <1>4, <3>2 DEF RestType
      <3> QED  BY <3>1, <3>2
    <2> QED  BY <1>2, <1>4, <2>1, SameGroups DEF RestType
  <1> QED  BY <1>2, <1>5, <1>6, TypeSame, TypeStep

\* The batch that is subtracted was counted.
LEMMA CountDownType == ASSUME TypeInv, CountInv, NEW g \in Groups, CountDown(g) PROVE TypeInv'
  <1>1. ThreadType /\ inFlight \in [Groups -> Nat] /\ issued \subseteq Samples
    BY TypeParts DEF RouteType
  <1>2. Cardinality(Out(g)) \in Nat
    <2>1. Out(g) \subseteq Samples /\ IsFiniteSet(Samples)
      BY <1>1, ConstantsAssumption DEF Out
    <2> QED  BY <2>1, FS_Subset, FS_CardinalityType
  <1>3. inFlight[g] = handled[g] + Cardinality(Out(g)) /\ handled[g] \in Nat
    BY <1>1 DEF CountInv, ThreadType
  <1>4. inFlight[g] - handled[g] \in Nat
    BY <1>2, <1>3
  <1>5. inFlight' \in [Groups -> Nat]
    BY <1>1, <1>4 DEF CountDown, CountDownBy
  <1>6. ThreadType'
    BY <1>1, SameGroups DEF ThreadType, CountDown, CountDownBy
  <1> QED  BY <1>5, <1>6, TypeSame, TypeStep DEF CountDown, CountDownBy

\* The core takes the first request of the work queue and runs it.
LEMMA GetRequestType ==
  ASSUME TypeInv, NEW g \in Groups, GetInferenceRequest(g)
  PROVE  /\ TypeInv' /\ q["work"][g] \in Seq(Samples) /\ q["work"][g] # <<>>
         /\ Head(q["work"][g]) \in Samples
         /\ core' = [core EXCEPT ![Head(q["work"][g])] = "run"]
         /\ \A d \in Channels, h \in Groups : q'[d][h] =
                IF d = "work" /\ h = g THEN Tail(q["work"][g]) ELSE q[d][h]
  <1>1. QueueType(q, Groups) /\ "work" \in Channels \ TermChannels /\ q["work"][g] # <<>>
        /\ q' = Pop(q, "work", g) /\ core' = [core EXCEPT ![Head(q["work"][g])] = "run"]
    BY TypeParts DEF GetInferenceRequest, Channels, TermChannels
  <1>2. QueueType(q', Groups) /\ Head(q["work"][g]) \in Samples
        /\ \A d \in Channels, h \in Groups : q'[d][h] =
                IF d = "work" /\ h = g THEN Tail(q["work"][g]) ELSE q[d][h]
    BY <1>1, PopQueue
  <1>3. RestType'
    BY <1>1, <1>2, TypeParts, SameGroups DEF GetInferenceRequest, RestType
  <1> QED  BY <1>1, <1>2, <1>3, TypeSame, TypeStep DEF GetInferenceRequest, QueueType

\* A step of the core on a sample puts at most one message on a channel of the sample's
\* own group.
LEMMA CoreStepType ==
  ASSUME TypeInv, NEW s \in Samples, NEW from, NEW to \in {"run", "streamed", "answered", "gone"},
         NEW c \in Channels \cup {"none"}, CoreStep(s, from, to, c)
  PROVE  /\ TypeInv' /\ route[s] \in Groups
         /\ core' = [core EXCEPT ![s] = to] /\ core[s] = from
         /\ \A d \in Channels, h \in Groups : q'[d][h] =
                IF d = c /\ h = route[s] THEN Append(q[d][h], s) ELSE q[d][h]
  <1>1. QueueType(q, Groups) /\ route[s] \in Groups /\ RestType
    BY TypeParts DEF RouteType
  <1>2. QueueType(q', Groups) /\ \A d \in Channels, h \in Groups : q'[d][h] =
                IF d = c /\ h = route[s] THEN Append(q[d][h], s) ELSE q[d][h]
    <2>1. CASE c = "none"
      BY <1>1, <2>1 DEF CoreStep, Channels
    <2>2. CASE c # "none"
      <3>1. c \in Channels /\ q' = Push(q, c, route[s], s)
        BY <2>2 DEF CoreStep
      <3> QED  BY <1>1, <3>1, PushQueue
    <2> QED  BY <2>1, <2>2
  <1>3. RestType'
    BY <1>1, SameGroups DEF CoreStep, RestType
  <1> QED  BY <1>1, <1>2, <1>3, TypeSame, TypeStep DEF CoreStep

\* The steps of the core keep the types.
LEMMA CoreType ==
  ASSUME TypeInv, NEW s \in Samples, Core(s) PROVE TypeInv'
  <1>1. CASE SendFirst(s)
    BY <1>1, CoreStepType DEF SendFirst, Channels
  <1>2. CASE SendFinal(s)
    BY <1>2, CoreStepType DEF SendFinal, Channels
  <1>3. CASE SendReclaim(s)
    BY <1>3, CoreStepType DEF SendReclaim, Channels
  <1> QED  BY <1>1, <1>2, <1>3 DEF Core

\* Taking a spent buffer back keeps the types.
LEMMA ReclaimType == ASSUME TypeInv, NEW g \in Groups, Reclaim(g) PROVE TypeInv'
  <1>1. local' \in [Sleepers -> [Groups -> Seq(Samples)]]
    BY DoneStep DEF Reclaim, Sleepers, SleepsOn
  <1>2. ThreadType'
    BY <1>1, TypeParts, SameGroups DEF ThreadType, Reclaim
  <1>3. RestType'
    BY TypeParts, SameGroups DEF RestType, Reclaim, CleanBuffer
  <1> QED  BY <1>2, <1>3, TypeSame, TypeStep DEF Reclaim

\* The end of the test keeps the types, and what the main thread has to do is then no
\* longer the test.
LEMMA TestEndsType == ASSUME TypeInv, TestEnds PROVE TypeInv' /\ main' # <<"test">>
  <1> DEFINE n == settings.groups
             dest == [i \in 1..(2 * n) |-> <<Comms[1 + (i - 1) \div n], (i - 1) % n>>]
  <1>1. n \in Nat \ {0} /\ Groups = 0..(n - 1)
    BY TypeParts, SettingTypes DEF RouteType, Groups
  <1>2. main' = dest
    BY DEF TestEnds
  <1> HIDE DEF n
  <1>3. ASSUME NEW i \in 1..(2 * n)
        PROVE  Comms[1 + (i - 1) \div n] \in {"reqComm", "respBack"} /\ (i - 1) % n \in Groups
    <2> DEFINE a == i - 1
    <2>1. a \in 0..(2 * n - 1)
      BY <1>1
    <2> HIDE DEF a
    <2>2. a \div n \in {0, 1} /\ a % n \in 0..(n - 1)
      BY <1>1, <2>1
    <2>3. 1 + a \div n \in {1, 2}
      BY <2>2
    <2>4. Comms[1] = "reqComm" /\ Comms[2] = "respBack"
      BY DEF Comms
    <2>5. Comms[1 + a \div n] \in {"reqComm", "respBack"}
      BY <2>3, <2>4
    <2> QED  BY <1>1, <2>2, <2>5 DEF a
  <1> DEFINE M == {"reqComm", "respBack"} \X Groups
  <1>4. \A i \in 1..(2 * n) : dest[i] \in M
    BY <1>3
  <1>5. dest \in Seq(M) /\ Len(dest) = 2 * n
    <2>1. 2 * n \in Nat
      BY <1>1
    <2>2. DOMAIN dest = 1..(2 * n)
      OBVIOUS
    <2> HIDE DEF dest, M
    <2>3. dest = [i \in 1..(2 * n) |-> dest[i]]
      BY <2>2 DEF dest
    <2>4. dest \in [1..(2 * n) -> M]
      BY <1>4, <2>3
    <2> QED  BY <2>1, <2>4
  <1>6. main' # <<"test">>
    <2>1. Len(<<"test">>) = 1
      OBVIOUS
    <2>2. 2 * n # 1
      BY <1>1
    <2> HIDE DEF dest
    <2> QED  BY <1>2, <1>5, <2>1, <2>2
  <1>7. MainType'
    <2>1. Groups' = Groups
      BY SameGroups DEF TestEnds
    <2> HIDE DEF dest
    <2> QED  BY <1>2, <1>5, <2>1 DEF MainType
  <1> QED  BY <1>6, <1>7, TypeSame, TypeStep DEF TestEnds

\* The main thread sends the key on a channel through MPI, to a group.
LEMMA SendTerminateType ==
  ASSUME TypeInv, SendTerminate
  PROVE  /\ TypeInv' /\ Head(main)[1] \in {"reqComm", "respBack"} /\ Head(main)[2] \in Groups
         /\ \A d \in Channels, h \in Groups : q'[d][h] =
                IF d = Head(main)[1] /\ h = Head(main)[2] THEN Append(q[d][h], Term) ELSE q[d][h]
  <1> DEFINE M == {"reqComm", "respBack"} \X Groups
             c == Head(main)[1]
             g == Head(main)[2]
  <1>1. main \in Seq(M) /\ main # <<>> /\ main' = Tail(main)
    BY TypeParts DEF MainType, SendTerminate
  <1>2. Head(main) \in M /\ main' \in Seq(M)
    BY <1>1, HeadTail
  <1>3. c \in {"reqComm", "respBack"} /\ g \in Groups /\ q' = Push(q, c, g, Term)
    BY <1>2 DEF SendTerminate
  <1>4. c \in Channels /\ c \in TermChannels
    BY <1>3 DEF Channels, TermChannels
  <1>5. MainType'
    BY <1>2, SameGroups DEF MainType, SendTerminate
  <1> HIDE DEF c, g
  <1>6. QueueType(q', Groups) /\ \A d \in Channels, h \in Groups : q'[d][h] =
                IF d = c /\ h = g THEN Append(q[d][h], Term) ELSE q[d][h]
    BY <1>3, <1>4, TypeParts, PushQueue
  <1>7. TypeInv'
    BY <1>5, <1>6, TypeSame, TypeStep DEF SendTerminate
  <1> QED  BY <1>3, <1>6, <1>7 DEF c, g

\* Who sleeps through the notification is one of the threads.
LEMMA NotifyType ==
  ASSUME TypeInv, Groups' = Groups, Threads' = Threads, NEW ts, ts \subseteq AllThreads \X Groups, Notify(ts)
  PROVE  missed' \subseteq Threads \X Groups
  <1>1. missed \subseteq Threads \X Groups
    BY TypeParts DEF ThreadType
  <1>2. PICK ms \in SUBSET {p \in ts : p[1] \in Sleepers \cap Threads /\ AtLoop(p[1], p[2])
                                 /\ Waiting(p[1], p[2]) = <<>>} : missed' = missed \cup ms
    BY DEF Notify
  <1>3. \A p \in ms : p \in Threads \X Groups
    BY <1>2
  <1> QED  BY <1>1, <1>2, <1>3

\* A thread that finds the key takes it off its channel and ends.
LEMMA EndsType ==
  ASSUME TypeInv, NEW g \in Groups, NEW t \in Threads, NEW c \in Channels, Ends(t, c, g)
  PROVE  /\ QueueType(q', Groups) /\ q[c][g] \in Seq(Messages) /\ q[c][g] # <<>> /\ Head(q[c][g]) = Term
         /\ ended' \subseteq Threads \X Groups
         /\ \A d \in Channels, h \in Groups : q'[d][h] =
                IF d = c /\ h = g THEN Tail(q[d][h]) ELSE q[d][h]
  <1>1. QueueType(q, Groups) /\ q[c][g] # <<>> /\ Head(q[c][g]) = Term /\ q' = Pop(q, c, g)
    BY TypeParts DEF Ends, EndsNext
  <1>2. ended' \subseteq Threads \X Groups
    BY TypeParts DEF Ends, ThreadType
  <1>3. QueueType(q', Groups) /\ \A d \in Channels, h \in Groups : q'[d][h] =
                IF d = c /\ h = g THEN Tail(q[c][g]) ELSE q[d][h]
    BY <1>1, PopQueue
  <1>4. q[c][g] \in Seq(Messages)
    BY <1>1 DEF QueueType
  <1> QED  BY <1>1, <1>2, <1>3, <1>4

\* The end of the thread that receives requests keeps the types.
LEMMA RecvRequestEndsType ==
  ASSUME TypeInv, NEW g \in Groups, "recvReq" \in Threads, RecvRequestEnds(g) PROVE TypeInv'
  <1>1. QueueType(q', Groups) /\ ended' \subseteq Threads \X Groups
    BY EndsType DEF RecvRequestEnds, Channels
  <1>2. ThreadType'
    BY <1>1, TypeParts, SameGroups DEF RecvRequestEnds, Ends, ThreadType
  <1> QED  BY <1>1, <1>2, TypeSame, TypeStep DEF RecvRequestEnds, Ends

\* The end of a receiver on LoadGen's side keeps the types.
LEMMA ReceiverEndsType ==
  ASSUME TypeInv, NEW g \in Groups, NEW t \in Threads, NEW c \in Channels, LoadGenReceiverEnds(t, c, g)
  PROVE  TypeInv'
  <1>1. QueueType(q', Groups) /\ ended' \subseteq Threads \X Groups
    BY EndsType DEF LoadGenReceiverEnds
  <1>2. /\ UNCHANGED <<local, deferred, handled, bufferVars, core, tracker, routeVars,
                       main, loadgenVars>>
        /\ exits' = exits + 1 /\ stopWorker' = stopWorker
    BY DEF LoadGenReceiverEnds, Ends
  <1>3. Groups' = Groups /\ Threads' = Threads
    BY <1>2, SameGroups
  <1>4. missed' \subseteq Threads \X Groups /\ stopLoadGen' \in BOOLEAN
    <2>1. CASE stopLoadGen' = TRUE /\ Notify(LoadGenThreads \X Groups)
      BY <1>3, <2>1, NotifyType DEF AllThreads
    <2>2. CASE UNCHANGED <<stopLoadGen, missed>>
      BY <2>2, TypeParts DEF ThreadType, RestType
    <2> QED  BY <2>1, <2>2 DEF LoadGenReceiverEnds
  <1>5. ThreadType'
    BY <1>1, <1>2, <1>3, <1>4, TypeParts DEF ThreadType
  <1>6. RestType'
    BY <1>2, <1>3, <1>4, TypeParts DEF RestType
  <1> QED  BY <1>1, <1>2, <1>5, <1>6, TypeSame, TypeStep

\* The key is answered on the communicators towards LoadGen.
LEMMA WaitForTerminationType ==
  ASSUME TypeInv, NEW g \in Groups, "waitTerm" \in Threads, WaitForTermination(g)
  PROVE  /\ TypeInv' /\ q["respBack"][g] # <<>>
         /\ \A d \in Channels, h \in Groups :
                IF h = g /\ d = "respBack" THEN q'[d][h] = Tail(q[d][h])
                ELSE IF h = g /\ (d = "respComm" \/ (d = "firstComm" /\ settings.streaming))
                THEN q'[d][h] = Append(q[d][h], Term)
                ELSE q'[d][h] = q[d][h]
  <1> DEFINE popped == Pop(q, "respBack", g)
             answered == Push(popped, "respComm", g, Term)
             both == Push(answered, "firstComm", g, Term)
  <1>1. /\ QueueType(q, Groups) /\ q["respBack"][g] # <<>>
        /\ "respBack" \in Channels /\ "respComm" \in Channels /\ "firstComm" \in Channels
        /\ "respComm" \in TermChannels /\ "firstComm" \in TermChannels
    BY TypeParts DEF WaitForTermination, EndsNext, Channels, TermChannels
  <1>2. QueueType(popped, Groups) /\ \A d \in Channels, h \in Groups : popped[d][h] =
                IF d = "respBack" /\ h = g THEN Tail(q["respBack"][g]) ELSE q[d][h]
    BY <1>1, PopQueue
  <1>3. q' = IF settings.streaming THEN both ELSE answered
    BY DEF WaitForTermination
  <1> HIDE DEF popped
  <1>4. QueueType(answered, Groups) /\ \A d \in Channels, h \in Groups : answered[d][h] =
                IF d = "respComm" /\ h = g THEN Append(popped["respComm"][g], Term) ELSE popped[d][h]
    BY <1>1, <1>2, PushQueue
  <1> HIDE DEF answered
  <1>5. QueueType(both, Groups) /\ \A d \in Channels, h \in Groups : both[d][h] =
                IF d = "firstComm" /\ h = g THEN Append(answered["firstComm"][g], Term) ELSE answered[d][h]
    BY <1>1, <1>4, PushQueue
  <1> HIDE DEF both
  <1>6. \A d \in Channels, h \in Groups : answered[d][h] =
                IF d = "respBack" /\ h = g THEN Tail(q[d][h])
                ELSE IF d = "respComm" /\ h = g THEN Append(q[d][h], Term) ELSE q[d][h]
    BY <1>1, <1>2, <1>4
  <1>7. \A d \in Channels, h \in Groups : both[d][h] =
                IF d = "firstComm" /\ h = g THEN Append(q[d][h], Term) ELSE answered[d][h]
    BY <1>1, <1>5, <1>6
  <1>8. /\ UNCHANGED <<local, deferred, handled, bufferVars, core, tracker, routeVars,
                       main, exits, stopLoadGen, loadgenVars>>
        /\ ended' = ended \cup {<<"waitTerm", g>>}
        /\ stopWorker' = [stopWorker EXCEPT ![g] = TRUE]
        /\ Notify(WorkerThreads \X {g})
    BY DEF WaitForTermination
  <1>9. Groups' = Groups /\ Threads' = Threads
    BY <1>8, SameGroups
  <1>10. missed' \subseteq Threads \X Groups
    BY <1>8, <1>9, NotifyType DEF AllThreads
  <1>11. ThreadType'
    BY <1>8, <1>9, <1>10, TypeParts DEF ThreadType
  <1>12. RestType'
    BY <1>8, <1>9, TypeParts DEF RestType
  <1>13. QueueType(q', Groups)
    BY <1>3, <1>4, <1>5
  <1>14. TypeInv'
    BY <1>8, <1>11, <1>12, <1>13, TypeSame, TypeStep
  <1>15. ASSUME NEW d \in Channels, NEW h \in Groups
         PROVE  IF h = g /\ d = "respBack" THEN q'[d][h] = Tail(q[d][h])
                ELSE IF h = g /\ (d = "respComm" \/ (d = "firstComm" /\ settings.streaming))
                THEN q'[d][h] = Append(q[d][h], Term)
                ELSE q'[d][h] = q[d][h]
    <2>1. CASE settings.streaming
      BY <1>3, <1>6, <1>7, <2>1, ZenonT(40)
    <2>2. CASE ~settings.streaming
      BY <1>3, <1>6, <2>2
    <2> QED  BY <2>1, <2>2
  <1> QED  BY <1>1, <1>14, <1>15

\* The steps of the threads keep the types.
LEMMA ThreadStepType ==
  ASSUME TypeInv, CountInv, NEW g \in Groups, NEW t \in Threads, ThreadStep(t, g)
  PROVE  TypeInv'
  <1>1. CASE t \in Sleepers /\ (Drain(t, g) \/ Quit(t, g))
    BY <1>1, DrainType, QuitType
  <1>2. CASE t = "send" /\ Forward(t, "reqComm", g)
    BY <1>2, ForwardType DEF Sleepers, SleepsOn, Channels
  <1>3. CASE t = "wSend" /\ Forward(t, "respComm", g)
    BY <1>3, ForwardType DEF Sleepers, SleepsOn, Channels
  <1>4. CASE t = "wFirst" /\ Forward(t, "firstComm", g)
    BY <1>4, ForwardType DEF Sleepers, SleepsOn, Channels
  <1>5. CASE t = "recvReq" /\ (RecvRequest(g) \/ RecvRequestEnds(g))
    BY <1>5, RecvRequestType, RecvRequestEndsType
  <1>6. CASE t = "recvResp" /\ (RecvResponse(g) \/ LoadGenReceiverEnds(t, "respComm", g))
    BY <1>6, RecvResponseType, ReceiverEndsType DEF Channels
  <1>7. CASE t = "recvFirst" /\ (RecvFirstToken(g) \/ LoadGenReceiverEnds(t, "firstComm", g))
    BY <1>7, RecvFirstTokenType, ReceiverEndsType DEF Channels
  <1>8. CASE t = "complete" /\ (Complete(g) \/ CountDown(g))
    BY <1>8, CompleteType, CountDownType
  <1>9. CASE t = "report" /\ ReportFirst(g)
    BY <1>9, ReportFirstType
  <1>10. CASE t = "reclaim" /\ Reclaim(g)
    BY <1>10, ReclaimType
  <1>11. CASE t = "waitTerm" /\ WaitForTermination(g)
    BY <1>11, WaitForTerminationType
  <1> QED  BY <1>1, <1>2, <1>3, <1>4, <1>5, <1>6, <1>7, <1>8, <1>9, <1>10, <1>11 DEF ThreadStep

\* Every step keeps the types, given that no counter is subtracted from below what it
\* counts.
LEMMA TypeNext == TypeInv /\ CountInv /\ [Next]_vars => TypeInv'
  <1> SUFFICES ASSUME TypeInv, CountInv, [Next]_vars PROVE TypeInv'
    OBVIOUS
  <1>1. CASE Main
    BY <1>1, ReadCounterType, TestEndsType, SendTerminateType, IssueType DEF Main
  <1>2. ASSUME NEW g \in Groups, NEW t \in Threads, ThreadStep(t, g) PROVE TypeInv'
    BY <1>2, ThreadStepType
  <1>3. ASSUME NEW g \in Groups, GetInferenceRequest(g) PROVE TypeInv'
    BY <1>3, GetRequestType
  <1>4. ASSUME NEW s \in Samples, Core(s) \/ Age(s) PROVE TypeInv'
    BY <1>4, CoreType, AgeType
  <1>5. CASE Finished \/ UNCHANGED vars
    BY <1>5, TypeSame, TypeStep DEF Finished, vars
  <1> QED  BY <1>1, <1>2, <1>3, <1>4, <1>5 DEF Next

\* The types of the initial states.
LEMMA TypeInit == Init => TypeInv
  <1> SUFFICES ASSUME Init PROVE TypeInv
    OBVIOUS
  <1>1. settings \in Settings
    BY DEF Init
  <1>2. settings.groups \in Nat \ {0} /\ 0 \in Groups
    BY <1>1, SettingTypes
  <1>3. QueueType(q, Groups)
    BY EmptySeqType DEF Init, QueueType
  <1>4. MainType
    BY DEF Init, MainType
  <1>5. ThreadType
    BY EmptySeqType DEF Init, ThreadType
  <1>6. RestType
    BY DEF Init, RestType
  <1>7. RouteType
    <2>1. scan \in Seq(Nat) /\ Len(scan) = 0
      BY DEF Init
    <2> QED  BY <1>1, <1>2, <2>1 DEF Init, RouteType
  <1>8. inFlight \in [Groups -> Nat]
    BY DEF Init
  <1> QED  BY <1>3, <1>4, <1>5, <1>6, <1>7, <1>8, TypeParts

-----------------------------------------------------------------------------
(***************************************************************************)
(* Where the samples go. Moves(s, g, f, t): the sample s leaves place f of *)
(* group g and arrives at place t, either of which may be no place.        *)
(***************************************************************************)
Moves(s, g, f, t) ==
    \A p \in Places, h \in Groups :
        /\ Unrepeated(Line(p, h)')
        /\ \A r : r \in At(p, h)' <=>
            \/ r \in At(p, h) /\ ~(r = s /\ h = g /\ p = f)
            \/ r = s /\ h = g /\ p = t

Stays ==
    \A p \in Places, h \in Groups :
        /\ Unrepeated(Line(p, h)')
        /\ \A r : r \in At(p, h)' <=> r \in At(p, h)

\* The line of a place is a list of messages: the deferred responses, the local list of
\* a thread or a channel.
LEMMA LineType ==
  ASSUME TypeInv, NEW p \in Places, NEW h \in Groups
  PROVE  /\ Line(p, h) \in Seq(Messages)
         /\ \/ p = "deferred" /\ Line(p, h) = deferred[h]
            \/ p \in Sleepers /\ p # "deferred" /\ Line(p, h) = local[p][h]
            \/ p \in Channels /\ p # "deferred" /\ p \notin Sleepers /\ Line(p, h) = q[p][h]
  <1>1. QueueType(q, Groups) /\ ThreadType
    BY TypeParts
  <1>2. p = "deferred" \/ p \in Sleepers \/ p \in Channels
    BY DEF Places, RequestPlaces, ResponsePlaces, TokenPlaces, SpentPlaces, Sleepers, SleepsOn, Channels
  <1>3. \A x \in Seq(Samples) : x \in Seq(Messages)
    BY DEF Messages
  <1> QED  BY <1>1, <1>2, <1>3 DEF Line, QueueType, ThreadType

\* A step that takes a sample off the head of one line and puts it at the end of
\* another moves that sample and no other, f or t being no place if it comes from or
\* goes nowhere.
LEMMA MoveLine ==
  ASSUME TypeInv, PlaceInv, NEW g \in Groups, NEW s \in Samples, NEW f, NEW t, f # t,
         \A p \in Places, h \in Groups :
            Line(p, h)' = IF h = g /\ p = f THEN Tail(Line(p, h))
                          ELSE IF h = g /\ p = t THEN Append(Line(p, h), s)
                          ELSE Line(p, h),
         f \in Places => Line(f, g) # <<>> /\ Head(Line(f, g)) = s,
         t \in Places => s \notin At(t, g)
  PROVE  Moves(s, g, f, t) /\ (f \in Places => s \in At(f, g))
  <1>0. s # Term /\ s \in Messages
    BY ConstantsAssumption DEF Messages
  <1>1. ASSUME NEW p \in Places, NEW h \in Groups
        PROVE  /\ Unrepeated(Line(p, h)')
               /\ \A r : r \in Held(Line(p, h)') <=>
                    \/ r \in Held(Line(p, h)) /\ ~(r = s /\ h = g /\ p = f)
                    \/ r = s /\ h = g /\ p = t
    <2> DEFINE old == Line(p, h)
    <2>1. old \in Seq(Messages) /\ Unrepeated(old)
      BY LineType DEF PlaceInv
    <2>2. CASE h = g /\ p = f
      <3>1. Line(p, h)' = Tail(old) /\ old # <<>> /\ Head(old) = s
        BY <2>2
      <3> HIDE DEF old
      <3>2. Unrepeated(Tail(old)) /\ Held(Tail(old)) = Held(old) \ {s}
        BY <2>1, <3>1, LineTail
      <3>3. \A r : r \in Held(Line(p, h)') <=> r \in Held(old) /\ r # s
        BY <3>1, <3>2
      <3> QED  BY <2>2, <3>1, <3>2, <3>3 DEF old
    <2>3. CASE h = g /\ p = t
      <3>1. Line(p, h)' = Append(old, s) /\ s \notin Held(old)
        BY <2>3 DEF At
      <3> HIDE DEF old
      <3>2. Unrepeated(Append(old, s)) /\ Held(Append(old, s)) = Held(old) \cup ({s} \ {Term})
        BY <1>0, <2>1, <3>1, LineAppend
      <3>3. \A r : r \in Held(Line(p, h)') <=> r \in Held(old) \/ r = s
        BY <1>0, <3>1, <3>2
      <3> QED  BY <2>3, <3>1, <3>2, <3>3 DEF old
    <2>4. CASE ~(h = g /\ p = f) /\ ~(h = g /\ p = t)
      <3>1. Line(p, h)' = old
        BY <2>4
      <3> QED  BY <2>1, <2>4, <3>1
    <2> QED  BY <2>2, <2>3, <2>4
  <1>2. f \in Places => s \in At(f, g)
    <2> SUFFICES ASSUME f \in Places PROVE s \in At(f, g)
      OBVIOUS
    <2>1. Line(f, g) \in Seq(Messages) /\ Unrepeated(Line(f, g)) /\ Line(f, g) # <<>>
          /\ Head(Line(f, g)) = s
      BY LineType DEF PlaceInv
    <2> QED  BY <1>0, <2>1, LineTail DEF At
  <1> QED  BY <1>1, <1>2 DEF Moves, At

\* Steps that only send or receive the termination key leave the samples where they
\* are.
LEMMA StayLine ==
  ASSUME TypeInv, PlaceInv,
         \A p \in Places, h \in Groups :
            \/ Line(p, h)' = Line(p, h)
            \/ Line(p, h) # <<>> /\ Head(Line(p, h)) = Term /\ Line(p, h)' = Tail(Line(p, h))
            \/ Line(p, h)' = Append(Line(p, h), Term)
  PROVE  Stays
  <1>1. ASSUME NEW p \in Places, NEW h \in Groups
        PROVE  /\ Unrepeated(Line(p, h)')
               /\ \A r : r \in Held(Line(p, h)') <=> r \in Held(Line(p, h))
    <2> DEFINE old == Line(p, h)
    <2>1. old \in Seq(Messages) /\ Unrepeated(old) /\ Term \in Messages
      BY LineType DEF PlaceInv, Messages
    <2>2. CASE old # <<>> /\ Head(old) = Term /\ Line(p, h)' = Tail(old)
      <3> HIDE DEF old
      <3>1. Unrepeated(Tail(old)) /\ Held(Tail(old)) = Held(old) \ {Term}
        BY <2>1, <2>2, LineTail
      <3>2. Held(Tail(old)) = Held(old)
        BY <3>1 DEF Held
      <3>3. Unrepeated(Line(p, h)') /\ Held(Line(p, h)') = Held(old)
        BY <2>2, <3>1, <3>2
      <3> QED  BY <3>3 DEF old
    <2>3. CASE Line(p, h)' = Append(old, Term)
      <3> HIDE DEF old
      <3>1. Unrepeated(Append(old, Term)) /\ Held(Append(old, Term)) = Held(old) \cup ({Term} \ {Term})
        BY <2>1, LineAppend
      <3>2. Unrepeated(Line(p, h)') /\ Held(Line(p, h)') = Held(old)
        BY <2>3, <3>1
      <3> QED  BY <3>2 DEF old
    <2>4. CASE Line(p, h)' = old
      BY <2>1, <2>4
    <2> QED  BY <2>2, <2>3, <2>4
  <1> QED  BY <1>1 DEF Stays, At

\* A sample in one place of a path is in no other place of it.
LEMMA PathFree ==
  ASSUME PlaceInv, NEW g \in Groups, NEW s, NEW p1 \in Places, NEW p2 \in Places, p1 # p2,
         SamePath(p1, p2), s \in At(p1, g)
  PROVE  s \notin At(p2, g)
  BY DEF PlaceInv

\* The lines, by the variable they are kept in.
LEMMA LinesAfter ==
  ASSUME TypeInv, settings' = settings
  PROVE  \A p \in Places, h \in Groups :
            /\ p = "deferred" => Line(p, h)' = deferred'[h] /\ Line(p, h) = deferred[h]
            /\ p \in Sleepers => Line(p, h)' = local'[p][h] /\ Line(p, h) = local[p][h]
            /\ p \in Channels => Line(p, h)' = q'[p][h] /\ Line(p, h) = q[p][h]
            /\ p = "deferred" \/ p \in Sleepers \/ p \in Channels
  <1>1. Sleepers \cap Channels = {} /\ "deferred" \notin Sleepers /\ "deferred" \notin Channels
    BY DEF Sleepers, SleepsOn, Channels
  <1>2. \A p \in Places : p = "deferred" \/ p \in Sleepers \/ p \in Channels
    BY DEF Places, RequestPlaces, ResponsePlaces, TokenPlaces, SpentPlaces, Sleepers, SleepsOn, Channels
  <1> QED  BY <1>1, <1>2 DEF Line

\* The same, by the variables the lines are kept in.
QueueMoves(s, g, f, t) ==
    \A d \in Channels, h \in Groups :
        q'[d][h] = IF h = g /\ d = f THEN Tail(q[d][h])
                   ELSE IF h = g /\ d = t THEN Append(q[d][h], s) ELSE q[d][h]
LocalMoves(g, f) ==
    \A u \in Sleepers, h \in Groups :
        local'[u][h] = IF h = g /\ u = f THEN Tail(local[u][h]) ELSE local[u][h]
DeferredMoves(s, g, t) ==
    \A h \in Groups :
        deferred'[h] = IF h = g /\ t = "deferred" THEN Append(deferred[h], s) ELSE deferred[h]

\* The lines after a step that moves a sample, from what it does to the channels, the
\* local lists and the deferred responses.
LEMMA LineMove ==
  ASSUME TypeInv, settings' = settings, NEW g \in Groups, NEW s, NEW f, NEW t,
         f # "deferred", t \notin Sleepers,
         QueueMoves(s, g, f, t), LocalMoves(g, f), DeferredMoves(s, g, t)
  PROVE  \A p \in Places, h \in Groups :
            Line(p, h)' = IF h = g /\ p = f THEN Tail(Line(p, h))
                          ELSE IF h = g /\ p = t THEN Append(Line(p, h), s)
                          ELSE Line(p, h)
  <1> TAKE p \in Places, h \in Groups
  <1>1. CASE p \in Sleepers
    <2>1. Line(p, h)' = local'[p][h] /\ Line(p, h) = local[p][h] /\ p # t
      BY <1>1, LinesAfter
    <2>2. local'[p][h] = IF h = g /\ p = f THEN Tail(local[p][h]) ELSE local[p][h]
      BY <1>1 DEF LocalMoves
    <2> QED  BY <2>1, <2>2
  <1>2. CASE p \in Channels
    <2>1. Line(p, h)' = q'[p][h] /\ Line(p, h) = q[p][h]
      BY <1>2, LinesAfter
    <2>2. q'[p][h] = IF h = g /\ p = f THEN Tail(q[p][h])
                     ELSE IF h = g /\ p = t THEN Append(q[p][h], s) ELSE q[p][h]
      BY <1>2 DEF QueueMoves
    <2> QED  BY <2>1, <2>2
  <1>3. CASE p = "deferred"
    <2>1. Line(p, h)' = deferred'[h] /\ Line(p, h) = deferred[h]
      BY <1>3, LinesAfter
    <2> QED  BY <1>3, <2>1 DEF DeferredMoves
  <1> QED  BY <1>1, <1>2, <1>3, LinesAfter

\* One lemma for each action that moves a sample.
IssueMove(s) == Moves(s, NextQueueIdx, "none", "request")

\* A sample that is issued was in no place, and is now in the queue that its policy
\* chose.
LEMMA IssueMoves ==
  ASSUME TypeInv, PlaceInv, NEW s \in Samples, Issue(s)
  PROVE  IssueMove(s) /\ \A p \in Places, h \in Groups : s \notin At(p, h)
  <1> DEFINE g == NextQueueIdx
  <1>1. g \in Groups /\ s \notin issued
    BY IssueType
  <1>2. \A p \in Places, h \in Groups : s \notin At(p, h)
    BY <1>1 DEF PlaceInv
  <1>3. settings' = settings /\ local' = local /\ deferred' = deferred /\ q' = Push(q, "request", g, s)
    BY DEF Issue
  <1>4. QueueType(q, Groups) /\ "request" \in Channels
    BY TypeParts DEF Channels
  <1> HIDE DEF g
  <1>5. \A d \in Channels, h \in Groups : q'[d][h] =
            IF d = "request" /\ h = g THEN Append(q["request"][g], s) ELSE q[d][h]
    BY <1>1, <1>3, <1>4, PushQueue
  <1>6. \A p \in Places, h \in Groups : Line(p, h)' =
            IF h = g /\ p = "none" THEN Tail(Line(p, h))
            ELSE IF h = g /\ p = "request" THEN Append(Line(p, h), s) ELSE Line(p, h)
    <2>1. QueueMoves(s, g, "none", "request")
      BY <1>1, <1>3, <1>5 DEF QueueMoves, Channels
    <2>2. LocalMoves(g, "none")
      BY <1>1, <1>3, <1>5 DEF LocalMoves, Sleepers, SleepsOn
    <2>3. DeferredMoves(s, g, "request")
      BY <1>1, <1>3, <1>5 DEF DeferredMoves, Sleepers, SleepsOn, Channels
    <2>4. "none" # "deferred" /\ "request" \notin Sleepers
      BY <1>1, <1>3, <1>5 DEF Sleepers, SleepsOn, Channels
    <2> QED  BY <1>1, <1>3, <2>1, <2>2, <2>3, <2>4, LineMove
  <1>7. "none" \notin Places
    BY DEF Places, RequestPlaces, ResponsePlaces, TokenPlaces, SpentPlaces
  <1>8. Moves(s, g, "none", "request")
    BY <1>1, <1>2, <1>6, <1>7, MoveLine
  <1> QED  BY <1>2, <1>8 DEF IssueMove, g

\* What Forward takes from the thread t it gives to the communicator c.
LEMMA ForwardMoves ==
  ASSUME TypeInv, PlaceInv, NEW g \in Groups, NEW t, NEW c,
         <<t, c>> \in {<<"send", "reqComm">>, <<"wSend", "respComm">>, <<"wFirst", "firstComm">>},
         Forward(t, c, g)
  PROVE  /\ Moves(Head(local[t][g]), g, t, c)
         /\ Head(local[t][g]) \in At(t, g) /\ Head(local[t][g]) \in Samples
  <1> DEFINE s == Head(local[t][g])
  <1>1. t \in Sleepers /\ c \in Channels /\ t \in Places /\ c \in Places /\ t # c /\ SamePath(t, c)
    BY DEF Sleepers, SleepsOn, Channels, Places, RequestPlaces, ResponsePlaces, TokenPlaces, SamePath
  <1>2. /\ local[t][g] \in Seq(Samples) /\ local[t][g] # <<>> /\ s \in Samples
        /\ \A d \in Channels, h \in Groups : q'[d][h] =
                IF d = c /\ h = g THEN Append(q[c][g], s) ELSE q[d][h]
        /\ \A u \in Sleepers, h \in Groups : local'[u][h] =
                IF u = t /\ h = g THEN Tail(local[t][g]) ELSE local[u][h]
    BY <1>1, ForwardType
  <1>3. settings' = settings /\ deferred' = deferred
    BY DEF Forward
  <1>4. Line(t, g) = local[t][g]
    BY <1>1, <1>3, LinesAfter
  <1>5. Head(Line(t, g)) = s /\ Line(t, g) # <<>>
    BY <1>2, <1>4
  <1> HIDE DEF s
  <1>6. \A p \in Places, h \in Groups : Line(p, h)' =
            IF h = g /\ p = t THEN Tail(Line(p, h))
            ELSE IF h = g /\ p = c THEN Append(Line(p, h), s) ELSE Line(p, h)
    <2>1. QueueMoves(s, g, t, c)
      BY <1>1, <1>2, <1>3 DEF QueueMoves, Channels
    <2>2. LocalMoves(g, t)
      BY <1>1, <1>2, <1>3 DEF LocalMoves, Sleepers, SleepsOn
    <2>3. DeferredMoves(s, g, c)
      BY <1>1, <1>2, <1>3 DEF DeferredMoves, Sleepers, SleepsOn, Channels
    <2>4. t # "deferred" /\ c \notin Sleepers
      BY <1>1, <1>2, <1>3 DEF Sleepers, SleepsOn, Channels
    <2> QED  BY <1>2, <1>3, <2>1, <2>2, <2>3, <2>4, LineMove
  <1>7. s \in At(t, g)
    <2>1. Line(t, g) \in Seq(Messages) /\ Unrepeated(Line(t, g)) /\ s # Term
      BY <1>1, <1>2, LineType, ConstantsAssumption DEF PlaceInv
    <2> QED  BY <1>5, <2>1, LineTail DEF At
  <1>8. s \notin At(c, g)
    BY <1>1, <1>7, PathFree
  <1>9. Moves(s, g, t, c)
    BY <1>1, <1>2, <1>5, <1>6, <1>8, MoveLine
  <1> QED  BY <1>2, <1>7, <1>9 DEF s

\* What a receiver takes from the communicator c it gives to the queue d.
LEMMA AcceptMoves ==
  ASSUME TypeInv, PlaceInv, NEW g \in Groups, NEW c, NEW d,
         <<c, d>> \in {<<"reqComm", "work">>, <<"respComm", "response">>, <<"firstComm", "first">>},
         Accept(c, d, g)
  PROVE  /\ Moves(Head(q[c][g]), g, c, d)
         /\ Head(q[c][g]) \in At(c, g) /\ Head(q[c][g]) \in Samples
  <1> DEFINE s == Head(q[c][g])
  <1>1. c \in Channels /\ d \in Channels /\ c \in Places /\ d \in Places /\ c # d /\ SamePath(c, d)
    BY DEF Channels, Places, RequestPlaces, ResponsePlaces, TokenPlaces, SamePath
  <1>2. /\ q[c][g] # <<>> /\ s \in Samples
        /\ \A e \in Channels, h \in Groups : q'[e][h] =
                IF e = c /\ h = g THEN Tail(q[c][g])
                ELSE IF e = d /\ h = g THEN Append(q[d][g], s) ELSE q[e][h]
    BY <1>1, AcceptQueue
  <1>3. settings' = settings /\ deferred' = deferred /\ local' = local
    BY DEF Accept
  <1>4. Line(c, g) = q[c][g]
    BY <1>1, <1>3, LinesAfter
  <1>5. Head(Line(c, g)) = s /\ Line(c, g) # <<>>
    BY <1>2, <1>4
  <1> HIDE DEF s
  <1>6. \A p \in Places, h \in Groups : Line(p, h)' =
            IF h = g /\ p = c THEN Tail(Line(p, h))
            ELSE IF h = g /\ p = d THEN Append(Line(p, h), s) ELSE Line(p, h)
    <2>1. QueueMoves(s, g, c, d)
      BY <1>1, <1>2, <1>3 DEF QueueMoves, Channels
    <2>2. LocalMoves(g, c)
      BY <1>1, <1>2, <1>3 DEF LocalMoves, Sleepers, SleepsOn
    <2>3. DeferredMoves(s, g, d)
      BY <1>1, <1>2, <1>3 DEF DeferredMoves, Sleepers, SleepsOn, Channels
    <2>4. c # "deferred" /\ d \notin Sleepers
      BY <1>1, <1>2, <1>3 DEF Sleepers, SleepsOn, Channels
    <2> QED  BY <1>2, <1>3, <2>1, <2>2, <2>3, <2>4, LineMove
  <1>7. s \in At(c, g)
    <2>1. Line(c, g) \in Seq(Messages) /\ Unrepeated(Line(c, g)) /\ s # Term
      BY <1>1, <1>2, LineType, ConstantsAssumption DEF PlaceInv
    <2> QED  BY <1>5, <2>1, LineTail DEF At
  <1>8. s \notin At(d, g)
    BY <1>1, <1>7, PathFree
  <1>9. Moves(s, g, c, d)
    BY <1>1, <1>2, <1>5, <1>6, <1>8, MoveLine
  <1> QED  BY <1>2, <1>7, <1>9 DEF s

\* A report or a release takes its sample off the thread t.
LEMMA DoneMoves ==
  ASSUME TypeInv, PlaceInv, NEW g \in Groups, NEW t \in {"report", "reclaim", "complete"},
         HasItem(t, g), Done(t, g), settings' = settings, q' = q, NEW d \in {"none", "deferred"},
         d = "deferred" => t = "complete" /\ deferred \in [Groups -> Seq(Samples)]
                           /\ deferred' = [deferred EXCEPT ![g] = Append(@, Head(local[t][g]))],
         d = "none" => deferred' = deferred
  PROVE  /\ Moves(Head(local[t][g]), g, t, d)
         /\ Head(local[t][g]) \in At(t, g) /\ Head(local[t][g]) \in Samples
  <1> DEFINE s == Head(local[t][g])
  <1>1. t \in Sleepers /\ t \in Places /\ t # d /\ t # "deferred" /\ d \notin Channels /\ d \notin Sleepers
    BY DEF Sleepers, SleepsOn, Places, ResponsePlaces, TokenPlaces, SpentPlaces, Channels
  <1>2. /\ local[t][g] # <<>> /\ s \in Samples
        /\ \A u \in Sleepers, h \in Groups : local'[u][h] =
                IF u = t /\ h = g THEN Tail(local[t][g]) ELSE local[u][h]
    BY <1>1, DoneStep
  <1>3. \A h \in Groups : deferred'[h] =
            IF d = "deferred" /\ h = g THEN Append(deferred[h], s) ELSE deferred[h]
    <2>1. CASE d = "none"  BY <2>1
    <2>2. CASE d = "deferred"  BY <2>2
    <2> QED  BY <2>1, <2>2
  <1>4. Line(t, g) = local[t][g]
    BY <1>1, LinesAfter
  <1>5. Head(Line(t, g)) = s /\ Line(t, g) # <<>>
    BY <1>2, <1>4
  <1> HIDE DEF s
  <1>6. \A p \in Places, h \in Groups : Line(p, h)' =
            IF h = g /\ p = t THEN Tail(Line(p, h))
            ELSE IF h = g /\ p = d THEN Append(Line(p, h), s) ELSE Line(p, h)
    <2>1. QueueMoves(s, g, t, d)
      BY <1>1, <1>2, <1>3 DEF QueueMoves, Channels
    <2>2. LocalMoves(g, t)
      BY <1>1, <1>2, <1>3 DEF LocalMoves, Sleepers, SleepsOn
    <2>3. DeferredMoves(s, g, d)
      BY <1>1, <1>2, <1>3 DEF DeferredMoves, Sleepers, SleepsOn, Channels
    <2>4. t # "deferred" /\ d \notin Sleepers
      BY <1>1, <1>2, <1>3 DEF Sleepers, SleepsOn, Channels
    <2>5. TypeInv /\ settings' = settings
      OBVIOUS
    <2> QED  BY ONLY <2>1, <2>2, <2>3, <2>4, <2>5, LineMove
  <1>7. s \in At(t, g)
    <2>1. Line(t, g) \in Seq(Messages) /\ Unrepeated(Line(t, g)) /\ s # Term
      BY <1>1, <1>2, LineType, ConstantsAssumption DEF PlaceInv
    <2> QED  BY <1>5, <2>1, LineTail DEF At
  <1>8. d \in Places => s \notin At(d, g)
    <2>1. d \in Places => SamePath(t, d) /\ d \in Places
      BY DEF SamePath, Places, RequestPlaces, ResponsePlaces, TokenPlaces, SpentPlaces
    <2> QED  BY <1>1, <1>7, <2>1, PathFree
  <1>9. Moves(s, g, t, d)
    BY <1>1, <1>2, <1>5, <1>6, <1>8, MoveLine
  <1> QED  BY <1>2, <1>7, <1>9 DEF s

\* The core takes a sample out of the work queue.
LEMMA GetRequestMoves ==
  ASSUME TypeInv, PlaceInv, NEW g \in Groups, GetInferenceRequest(g)
  PROVE  /\ Moves(Head(q["work"][g]), g, "work", "none")
         /\ Head(q["work"][g]) \in At("work", g) /\ Head(q["work"][g]) \in Samples
  <1> DEFINE s == Head(q["work"][g])
  <1>1. /\ q["work"][g] # <<>> /\ s \in Samples
        /\ \A d \in Channels, h \in Groups : q'[d][h] =
                IF d = "work" /\ h = g THEN Tail(q["work"][g]) ELSE q[d][h]
    BY GetRequestType
  <1>2. settings' = settings /\ deferred' = deferred /\ local' = local
    BY DEF GetInferenceRequest
  <1>3. "work" \in Places /\ "work" \in Channels /\ "none" \notin Places
    BY DEF Places, RequestPlaces, ResponsePlaces, TokenPlaces, SpentPlaces, Channels
  <1>4. Head(Line("work", g)) = s /\ Line("work", g) # <<>>
    BY <1>1, <1>2, <1>3, LinesAfter
  <1> HIDE DEF s
  <1>5. \A p \in Places, h \in Groups : Line(p, h)' =
            IF h = g /\ p = "work" THEN Tail(Line(p, h))
            ELSE IF h = g /\ p = "none" THEN Append(Line(p, h), s) ELSE Line(p, h)
    <2>1. QueueMoves(s, g, "work", "none")
      BY <1>1, <1>2, <1>3 DEF QueueMoves, Channels
    <2>2. LocalMoves(g, "work")
      BY <1>1, <1>2, <1>3 DEF LocalMoves, Sleepers, SleepsOn
    <2>3. DeferredMoves(s, g, "none")
      BY <1>1, <1>2, <1>3 DEF DeferredMoves, Sleepers, SleepsOn, Channels
    <2>4. "work" # "deferred" /\ "none" \notin Sleepers
      BY <1>1, <1>2, <1>3 DEF Sleepers, SleepsOn, Channels
    <2> QED  BY <1>2, <2>1, <2>2, <2>3, <2>4, LineMove
  <1>6. Moves(s, g, "work", "none") /\ s \in At("work", g)
    BY <1>1, <1>3, <1>4, <1>5, MoveLine
  <1> QED  BY <1>1, <1>6 DEF s

\* The core puts s into a queue, or nowhere.
LEMMA CoreMoves ==
  ASSUME TypeInv, PlaceInv, NEW s \in Samples, NEW from,
         NEW to \in {"run", "streamed", "answered", "gone"},
         NEW c \in {"token", "result", "spent", "none"}, CoreStep(s, from, to, c),
         c \in Places => s \notin At(c, route[s])
  PROVE  Moves(s, route[s], "nowhere", c) /\ route[s] \in Groups
  <1>1. route[s] \in Groups /\ \A d \in Channels, h \in Groups : q'[d][h] =
                IF d = c /\ h = route[s] THEN Append(q[d][h], s) ELSE q[d][h]
    BY CoreStepType DEF Channels
  <1>2. settings' = settings /\ deferred' = deferred /\ local' = local
    BY DEF CoreStep
  <1>3. "nowhere" \notin Places
    BY DEF Places, RequestPlaces, ResponsePlaces, TokenPlaces, SpentPlaces
  <1>4. \A p \in Places, h \in Groups : Line(p, h)' =
            IF h = route[s] /\ p = "nowhere" THEN Tail(Line(p, h))
            ELSE IF h = route[s] /\ p = c THEN Append(Line(p, h), s) ELSE Line(p, h)
    <2>1. QueueMoves(s, route[s], "nowhere", c)
      BY <1>1, <1>2 DEF QueueMoves, Channels
    <2>2. LocalMoves(route[s], "nowhere")
      BY <1>1, <1>2 DEF LocalMoves, Sleepers, SleepsOn
    <2>3. DeferredMoves(s, route[s], c)
      BY <1>1, <1>2 DEF DeferredMoves, Sleepers, SleepsOn, Channels
    <2>4. "nowhere" # "deferred" /\ c \notin Sleepers
      BY <1>1, <1>2 DEF Sleepers, SleepsOn, Channels
    <2> QED  BY <1>1, <1>2, <2>1, <2>2, <2>3, <2>4, LineMove
  <1>5. Moves(s, route[s], "nowhere", c)
    BY <1>1, <1>3, <1>4, MoveLine
  <1> QED  BY <1>1, <1>5

\* The termination key is no sample: where it goes, nothing moves.
LEMMA QueueStays ==
  ASSUME TypeInv, PlaceInv, settings' = settings, local' = local, deferred' = deferred,
         \A d \in Channels, h \in Groups :
            \/ q'[d][h] = q[d][h]
            \/ q[d][h] # <<>> /\ Head(q[d][h]) = Term /\ q'[d][h] = Tail(q[d][h])
            \/ q'[d][h] = Append(q[d][h], Term)
  PROVE  Stays
  <1>1. ASSUME NEW p \in Places, NEW h \in Groups
        PROVE  \/ Line(p, h)' = Line(p, h)
               \/ Line(p, h) # <<>> /\ Head(Line(p, h)) = Term /\ Line(p, h)' = Tail(Line(p, h))
               \/ Line(p, h)' = Append(Line(p, h), Term)
    <2>1. CASE p \in Channels
      <3>1. Line(p, h)' = q'[p][h] /\ Line(p, h) = q[p][h]
        BY <2>1, LinesAfter
      <3> QED  BY <2>1, <3>1
    <2>2. CASE p \in Sleepers
      <3>1. Line(p, h)' = local'[p][h] /\ Line(p, h) = local[p][h]
        BY <2>2, LinesAfter
      <3> QED  BY <3>1
    <2>3. CASE p = "deferred"
      <3>1. Line(p, h)' = deferred'[h] /\ Line(p, h) = deferred[h]
        BY <2>3, LinesAfter
      <3> QED  BY <3>1
    <2> QED  BY <2>1, <2>2, <2>3, LinesAfter
  <1> QED  BY <1>1, StayLine

\* A thread that ends moves no sample.
LEMMA EndsStays ==
  ASSUME TypeInv, PlaceInv, NEW g \in Groups, NEW t \in Threads, NEW c \in Channels, Ends(t, c, g)
  PROVE  Stays
  <1>1. /\ q[c][g] # <<>> /\ Head(q[c][g]) = Term
        /\ \A d \in Channels, h \in Groups : q'[d][h] =
                IF d = c /\ h = g THEN Tail(q[d][h]) ELSE q[d][h]
    BY EndsType
  <1>2. settings' = settings /\ local' = local /\ deferred' = deferred
    BY DEF Ends
  <1>3. \A d \in Channels, h \in Groups :
            \/ q'[d][h] = q[d][h]
            \/ q[d][h] # <<>> /\ Head(q[d][h]) = Term /\ q'[d][h] = Tail(q[d][h])
    BY <1>1
  <1> QED  BY <1>2, <1>3, QueueStays

\* A worker process that is told to terminate moves no sample.
LEMMA WaitForTerminationStays ==
  ASSUME TypeInv, PlaceInv, NEW g \in Groups, "waitTerm" \in Threads, WaitForTermination(g)
  PROVE  Stays
  <1>1. /\ q["respBack"][g] # <<>> /\ Head(q["respBack"][g]) = Term
        /\ settings' = settings /\ local' = local /\ deferred' = deferred
    BY DEF WaitForTermination, EndsNext
  <1>2. ASSUME NEW d \in Channels, NEW h \in Groups
        PROVE  \/ q'[d][h] = q[d][h]
               \/ q[d][h] # <<>> /\ Head(q[d][h]) = Term /\ q'[d][h] = Tail(q[d][h])
               \/ q'[d][h] = Append(q[d][h], Term)
    <2>1. IF h = g /\ d = "respBack" THEN q'[d][h] = Tail(q[d][h])
          ELSE IF h = g /\ (d = "respComm" \/ (d = "firstComm" /\ settings.streaming))
          THEN q'[d][h] = Append(q[d][h], Term)
          ELSE q'[d][h] = q[d][h]
      BY WaitForTerminationType
    <2> QED  BY <1>1, <2>1
  <1> QED  BY <1>1, <1>2, QueueStays

\* Sending the key moves no sample.
LEMMA SendTerminateStays ==
  ASSUME TypeInv, PlaceInv, SendTerminate
  PROVE  Stays
  <1>1. \A d \in Channels, h \in Groups :
            \/ q'[d][h] = q[d][h]
            \/ q'[d][h] = Append(q[d][h], Term)
    BY SendTerminateType
  <1>2. settings' = settings /\ local' = local /\ deferred' = deferred
    BY DEF SendTerminate
  <1> QED  BY <1>1, <1>2, QueueStays

\* Steps that touch no list and no channel move no sample.
LEMMA NothingMoves ==
  ASSUME TypeInv, PlaceInv, UNCHANGED <<settings, q, local, deferred>>
  PROVE  Stays
  BY QueueStays

-----------------------------------------------------------------------------
\* Drain: what waits for the thread t, and for a thread of responses what was
\* put off, becomes what the thread has at hand.
Sources(t) == {SleepsOn[t]} \cup (IF t = "complete" THEN {"deferred"} ELSE {})

Drains(t, g) ==
    \A p \in Places, h \in Groups :
        /\ Unrepeated(Line(p, h)')
        /\ \A r : r \in At(p, h)' <=>
            IF h = g /\ p = t THEN \E p2 \in Sources(t) : r \in At(p2, g)
            ELSE r \in At(p, h) /\ ~(h = g /\ p \in Sources(t))

\* What a thread drains are places of the path of its local list.
LEMMA SourcePlaces ==
  ASSUME NEW t \in Sleepers
  PROVE  /\ t \in Places /\ t \notin Channels /\ t # "deferred"
         /\ SleepsOn[t] \in Channels \ TermChannels /\ SleepsOn[t] \notin Sleepers
         /\ SleepsOn[t] # "deferred" /\ SleepsOn[t] \in Places
         /\ SamePath(SleepsOn[t], t)
         /\ t = "complete" => SleepsOn[t] = "response" /\ SamePath("deferred", t)
                              /\ SamePath("response", "deferred") /\ "deferred" \in Places
  BY DEF Sleepers, SleepsOn, Channels, TermChannels, Places, RequestPlaces, ResponsePlaces,
         TokenPlaces, SpentPlaces, SamePath

\* Draining moves the samples from the places a thread waits on to its local list, and
\* no other sample.
LEMMA DrainMoves ==
  ASSUME TypeInv, PlaceInv, NEW g \in Groups, NEW t \in Sleepers, Drain(t, g)
  PROVE  Drains(t, g)
  <1> DEFINE c == SleepsOn[t]
  <1>1. /\ \A d \in Channels, h \in Groups : q'[d][h] = IF d = c /\ h = g THEN <<>> ELSE q[d][h]
        /\ \A u \in Sleepers, h \in Groups : local'[u][h] =
                IF u = t /\ h = g THEN Waiting(t, g) ELSE local[u][h]
        /\ \A h \in Groups : deferred'[h] =
                IF t = "complete" /\ h = g THEN <<>> ELSE deferred[h]
    BY DrainType
  <1>2. settings' = settings
    BY DEF Drain
  <1>3. Waiting(t, g) = IF t = "complete" THEN q[c][g] \o deferred[g] ELSE q[c][g]
    BY DEF Waiting
  <1>4. c \in Channels /\ c \notin Sleepers /\ c # "deferred" /\ c \in Places /\ t \in Places
        /\ t \notin Channels /\ t # "deferred"
    BY SourcePlaces
  <1>5. Sources(t) = {c} \cup IF t = "complete" THEN {"deferred"} ELSE {}
    BY DEF Sources
  <1>6. Line(c, g) = q[c][g]
    BY <1>2, <1>4, LinesAfter
  <1>c. t = "complete" => c = "response"
    BY SourcePlaces
  <1> HIDE DEF c
  <1>7. Unrepeated(Waiting(t, g)) /\ Held(Waiting(t, g)) = UNION {At(p2, g) : p2 \in Sources(t)}
    <2>1. CASE t # "complete"
      <3>1. Waiting(t, g) = Line(c, g) /\ Sources(t) = {c}
        BY <1>3, <1>5, <1>6, <2>1
      <3>2. UNION {At(p2, g) : p2 \in Sources(t)} = At(c, g)
        BY <3>1
      <3> QED  BY <1>4, <3>1, <3>2 DEF PlaceInv, At
    <2>2. CASE t = "complete"
      <3>1. c = "response" /\ "deferred" \in Places /\ SamePath(c, "deferred")
        BY <2>2, <1>c, SourcePlaces
      <3>2. Line("deferred", g) = deferred[g]
        BY <1>2, <3>1, LinesAfter
      <3>3. Waiting(t, g) = Line(c, g) \o Line("deferred", g) /\ Sources(t) = {c, "deferred"}
        BY <1>3, <1>5, <1>6, <2>2, <3>2
      <3>4. Line(c, g) \in Seq(Messages) /\ Line("deferred", g) \in Seq(Messages)
        BY <1>4, <3>1, LineType
      <3>5. /\ Unrepeated(Line(c, g)) /\ Unrepeated(Line("deferred", g))
            /\ Held(Line(c, g)) \cap Held(Line("deferred", g)) = {}
        BY <1>4, <3>1 DEF PlaceInv, At
      <3> DEFINE front == Line(c, g)
                 back == Line("deferred", g)
      <3> HIDE DEF front, back
      <3>6. Unrepeated(front \o back) /\ Held(front \o back) = Held(front) \cup Held(back)
        BY <3>4, <3>5, LineConcat DEF front, back
      <3>7. UNION {At(p2, g) : p2 \in Sources(t)} = At(c, g) \cup At("deferred", g)
        BY <3>3
      <3> QED  BY <3>3, <3>6, <3>7 DEF front, back, At
    <2> QED  BY <2>1, <2>2
  <1>8. ASSUME NEW p \in Places, NEW h \in Groups
        PROVE  Line(p, h)' = IF h = g /\ p = t THEN Waiting(t, g)
                             ELSE IF h = g /\ p \in Sources(t) THEN <<>> ELSE Line(p, h)
    <2>1. CASE p \in Channels
      <3>1. Line(p, h)' = q'[p][h] /\ Line(p, h) = q[p][h] /\ p # t /\ p # "deferred"
        BY <1>2, <1>4, <2>1, LinesAfter DEF Channels
      <3>2. q'[p][h] = IF p = c /\ h = g THEN <<>> ELSE q[p][h]
        BY <1>1, <2>1
      <3> QED  BY <1>5, <3>1, <3>2
    <2>2. CASE p \in Sleepers
      <3>1. Line(p, h)' = local'[p][h] /\ Line(p, h) = local[p][h] /\ p # c /\ p # "deferred"
        BY <1>2, <1>4, <2>2, LinesAfter DEF Sleepers, SleepsOn
      <3>2. local'[p][h] = IF p = t /\ h = g THEN Waiting(t, g) ELSE local[p][h]
        BY <1>1, <2>2
      <3> QED  BY <1>5, <3>1, <3>2
    <2>3. CASE p = "deferred"
      <3>1. Line(p, h)' = deferred'[h] /\ Line(p, h) = deferred[h] /\ p # c /\ p # t
        BY <1>2, <1>4, <2>3, LinesAfter
      <3>2. deferred'[h] = IF t = "complete" /\ h = g THEN <<>> ELSE deferred[h]
        BY <1>1
      <3> QED  BY <1>5, <2>3, <3>1, <3>2
    <2> QED  BY <1>2, <2>1, <2>2, <2>3, LinesAfter
  <1>9. ASSUME NEW p \in Places, NEW h \in Groups
        PROVE  /\ Unrepeated(Line(p, h)')
               /\ \A r : r \in Held(Line(p, h)') <=>
                    IF h = g /\ p = t THEN \E p2 \in Sources(t) : r \in At(p2, g)
                    ELSE r \in At(p, h) /\ ~(h = g /\ p \in Sources(t))
    <2>1. CASE h = g /\ p = t
      <3>1. Line(p, h)' = Waiting(t, g)
        BY <1>8, <2>1
      <3>2. Unrepeated(Line(p, h)') /\ Held(Line(p, h)') = UNION {At(p2, g) : p2 \in Sources(t)}
        BY <1>7, <3>1
      <3> QED  BY <2>1, <3>2
    <2>2. CASE h = g /\ p # t /\ p \in Sources(t)
      <3>1. Line(p, h)' = <<>>
        BY <1>8, <2>2
      <3>2. Unrepeated(Line(p, h)') /\ Held(Line(p, h)') = {}
        BY <3>1, LineEmpty
      <3> QED  BY <2>2, <3>2
    <2>3. CASE ~(h = g /\ p = t) /\ ~(h = g /\ p \in Sources(t))
      <3>1. Line(p, h)' = Line(p, h)
        BY <1>8, <2>3
      <3>2. Unrepeated(Line(p, h)') /\ Held(Line(p, h)') = At(p, h)
        BY <3>1 DEF PlaceInv, At
      <3> QED  BY <2>3, <3>2
    <2> QED  BY <2>1, <2>2, <2>3
  <1> QED  BY <1>9 DEF Drains, At

-----------------------------------------------------------------------------
(***************************************************************************)
(* The kinds of steps: those that move a sample, those that move many, and *)
(* those that change nothing but how threads end.                          *)
(***************************************************************************)
Quiet ==
    /\ Stays
    /\ UNCHANGED <<settings, local, deferred, handled, bufferVars, core, tracker, inFlight,
                   route, loadgenVars>>

Forwards(g) ==
    \E t, c : /\ <<t, c>> \in {<<"send", "reqComm">>, <<"wSend", "respComm">>, <<"wFirst", "firstComm">>}
              /\ Forward(t, c, g)

\* The steps of a thread, by what they do to the samples.
LEMMA ThreadKinds ==
  ASSUME TypeInv, PlaceInv, NEW g \in Groups, NEW t \in Threads, ThreadStep(t, g)
  PROVE  \/ t \in Sleepers /\ Drain(t, g)
         \/ Forwards(g) \/ RecvRequest(g) \/ RecvResponse(g) \/ RecvFirstToken(g)
         \/ Complete(g) \/ CountDown(g) \/ ReportFirst(g) \/ Reclaim(g) \/ Quiet
  <1>1. CASE Quit(t, g)
    BY <1>1, NothingMoves DEF Quit, Quiet
  <1>2. CASE RecvRequestEnds(g) /\ t = "recvReq"
    <2>1. Stays
      BY <1>2, EndsStays DEF RecvRequestEnds, Channels
    <2> QED  BY <1>2, <2>1 DEF RecvRequestEnds, Ends, Quiet
  <1>3. ASSUME NEW c \in Channels, LoadGenReceiverEnds(t, c, g) PROVE Quiet
    <2>1. Stays
      BY <1>3, EndsStays DEF LoadGenReceiverEnds
    <2> QED  BY <1>3, <2>1 DEF LoadGenReceiverEnds, Ends, Quiet
  <1>4. CASE WaitForTermination(g) /\ t = "waitTerm"
    BY <1>4, WaitForTerminationStays DEF WaitForTermination, Quiet
  <1>5. "respComm" \in Channels /\ "firstComm" \in Channels
    BY DEF Channels
  <1>6. t = "send" /\ Forward(t, "reqComm", g) => Forwards(g)
    BY DEF Forwards
  <1>7. t = "wSend" /\ Forward(t, "respComm", g) => Forwards(g)
    BY DEF Forwards
  <1>8. t = "wFirst" /\ Forward(t, "firstComm", g) => Forwards(g)
    BY DEF Forwards
  <1> QED  BY <1>1, <1>2, <1>3, <1>4, <1>5, <1>6, <1>7, <1>8 DEF ThreadStep

\* All steps, by what they do to the samples.
LEMMA StepKinds ==
  ASSUME TypeInv, PlaceInv, [Next]_vars
  PROVE  \/ Quiet
         \/ \E s \in Samples : Issue(s) \/ SendFirst(s) \/ SendFinal(s) \/ SendReclaim(s) \/ Age(s)
         \/ \E g \in Groups :
                \/ \E t \in Sleepers : Drain(t, g)
                \/ Forwards(g) \/ RecvRequest(g) \/ RecvResponse(g) \/ RecvFirstToken(g)
                \/ Complete(g) \/ CountDown(g) \/ ReportFirst(g) \/ Reclaim(g)
                \/ GetInferenceRequest(g)
  <1>1. CASE ReadCounter \/ TestEnds \/ Finished \/ UNCHANGED vars
    <2>1. UNCHANGED <<settings, q, local, deferred>>
      BY <1>1 DEF ReadCounter, TestEnds, Finished, vars
    <2> QED  BY <1>1, <2>1, NothingMoves DEF ReadCounter, TestEnds, Finished, vars, Quiet
  <1>2. CASE SendTerminate
    BY <1>2, SendTerminateStays DEF SendTerminate, Quiet
  <1>3. ASSUME NEW g \in Groups, NEW t \in Threads, ThreadStep(t, g)
        PROVE  \/ t \in Sleepers /\ Drain(t, g)
               \/ Forwards(g) \/ RecvRequest(g) \/ RecvResponse(g) \/ RecvFirstToken(g)
               \/ Complete(g) \/ CountDown(g) \/ ReportFirst(g) \/ Reclaim(g) \/ Quiet
    BY <1>3, ThreadKinds
  <1>4. CASE \E s \in Samples : Issue(s) \/ Core(s) \/ Age(s)
    BY <1>4 DEF Core
  <1> QED  BY <1>1, <1>2, <1>3, <1>4 DEF Next, Main

\* To be on one path is symmetric and transitive.
LEMMA PathLaws ==
  /\ \A p1, p2 : SamePath(p1, p2) => SamePath(p2, p1)
  /\ \A p1, p2, p3 : SamePath(p1, p2) /\ SamePath(p2, p3) => SamePath(p1, p3)
  <1>1. \A p \in RequestPlaces \cup ResponsePlaces : p \notin TokenPlaces /\ p \notin SpentPlaces
    BY DEF RequestPlaces, ResponsePlaces, TokenPlaces, SpentPlaces
  <1>2. \A p : p \notin TokenPlaces \/ p \notin SpentPlaces
    BY DEF TokenPlaces, SpentPlaces
  <1> QED  BY <1>1, <1>2 DEF SamePath

\* Where everything is after a step of each kind.
LEMMA PlaceMoves ==
  ASSUME PlaceInv, settings' = settings, NEW g \in Groups, NEW s, NEW f, NEW t, Moves(s, g, f, t),
         issued \subseteq issued', \A r \in issued : route'[r] = route[r],
         t \in Places => s \in issued' /\ route'[s] = g,
         t \in Places => \A p \in Places : p # f /\ SamePath(p, t) => s \notin At(p, g)
  PROVE  PlaceInv'
  <1>1. Groups' = Groups
    BY SameGroups
  <1>2. ASSUME NEW p \in Places, NEW h \in Groups
        PROVE  /\ Unrepeated(Line(p, h)')
               /\ \A r \in At(p, h)' : r \in issued' /\ route'[r] = h
    BY DEF Moves, PlaceInv
  <1>3. ASSUME NEW p1 \in Places, NEW p2 \in Places, NEW h \in Groups, p1 # p2, SamePath(p1, p2)
        PROVE  At(p1, h)' \cap At(p2, h)' = {}
    <2> SUFFICES ASSUME NEW r, r \in At(p1, h)', r \in At(p2, h)' PROVE FALSE
      OBVIOUS
    <2>1. SamePath(p2, p1)
      BY <1>3 DEF SamePath
    <2>2. ~(r \in At(p1, h) /\ r \in At(p2, h))
      BY <1>3 DEF PlaceInv
    <2>3. /\ (r \in At(p1, h) /\ ~(r = s /\ h = g /\ p1 = f)) \/ (r = s /\ h = g /\ p1 = t)
          /\ (r \in At(p2, h) /\ ~(r = s /\ h = g /\ p2 = f)) \/ (r = s /\ h = g /\ p2 = t)
      BY DEF Moves
    <2> QED  BY <1>3, <2>1, <2>2, <2>3
  <1>4. \A p \in Places, h \in Groups :
            Unrepeated(Line(p, h)') /\ \A r \in At(p, h)' : r \in issued' /\ route'[r] = h
    BY <1>2
  <1>5. \A p1, p2 \in Places, h \in Groups :
            p1 # p2 /\ SamePath(p1, p2) => At(p1, h)' \cap At(p2, h)' = {}
    BY <1>3
  <1> QED  BY <1>1, <1>4, <1>5 DEF PlaceInv

\* PlaceInv, when no sample moves.
LEMMA PlaceStays ==
  ASSUME PlaceInv, Stays, settings' = settings, issued' = issued, route' = route
  PROVE  PlaceInv'
  <1>1. Groups' = Groups
    BY SameGroups
  <1>2. \A p \in Places, h \in Groups :
            Unrepeated(Line(p, h)') /\ \A r \in At(p, h)' : r \in issued' /\ route'[r] = h
    BY DEF Stays, PlaceInv
  <1>3. \A p1, p2 \in Places, h \in Groups :
            p1 # p2 /\ SamePath(p1, p2) => At(p1, h)' \cap At(p2, h)' = {}
    BY DEF Stays, PlaceInv
  <1> QED  BY <1>1, <1>2, <1>3 DEF PlaceInv

\* PlaceInv, when a thread drains.
LEMMA PlaceDrains ==
  ASSUME PlaceInv, NEW g \in Groups, NEW t \in Sleepers, Drains(t, g),
         settings' = settings, issued' = issued, route' = route
  PROVE  PlaceInv'
  <1>1. Groups' = Groups
    BY SameGroups
  <1>2. t \in Places /\ \A p \in Sources(t) : p \in Places /\ p # t /\ SamePath(p, t)
    BY SourcePlaces DEF Sources
  <1>3. ASSUME NEW p \in Places, NEW h \in Groups
        PROVE  /\ Unrepeated(Line(p, h)')
               /\ \A r \in At(p, h)' : r \in issued' /\ route'[r] = h
    <2>1. \A p2 \in Sources(t) : \A r \in At(p2, g) : r \in issued /\ route[r] = g
      BY <1>2 DEF PlaceInv
    <2> QED  BY <2>1 DEF Drains, PlaceInv
  <1>4. ASSUME NEW p1 \in Places, NEW p2 \in Places, NEW h \in Groups, p1 # p2, SamePath(p1, p2)
        PROVE  At(p1, h)' \cap At(p2, h)' = {}
    <2> SUFFICES ASSUME NEW r, r \in At(p1, h)', r \in At(p2, h)' PROVE FALSE
      OBVIOUS
    <2>1. \A p \in Sources(t) : p1 = t => SamePath(p, p2)
      BY <1>2, <1>4, PathLaws
    <2>2. \A p \in Sources(t) : p2 = t => SamePath(p1, p)
      BY <1>2, <1>4, PathLaws
    <2>3. \A p, p0 \in Places : p # p0 /\ SamePath(p, p0) => ~(r \in At(p, h) /\ r \in At(p0, h))
      BY DEF PlaceInv
    <2>4. IF h = g /\ p1 = t THEN \E p0 \in Sources(t) : r \in At(p0, g)
          ELSE r \in At(p1, h) /\ ~(h = g /\ p1 \in Sources(t))
      BY DEF Drains
    <2>5. IF h = g /\ p2 = t THEN \E p0 \in Sources(t) : r \in At(p0, g)
          ELSE r \in At(p2, h) /\ ~(h = g /\ p2 \in Sources(t))
      BY DEF Drains
    <2>6. CASE h = g /\ p1 = t
      BY <1>2, <1>4, <2>1, <2>3, <2>4, <2>5, <2>6
    <2>7. CASE h = g /\ p2 = t
      BY <1>2, <1>4, <2>2, <2>3, <2>4, <2>5, <2>7
    <2>8. CASE ~(h = g /\ p1 = t) /\ ~(h = g /\ p2 = t)
      BY <1>4, <2>3, <2>4, <2>5, <2>8
    <2> QED  BY <2>6, <2>7, <2>8
  <1>5. \A p \in Places, h \in Groups :
            Unrepeated(Line(p, h)') /\ \A r \in At(p, h)' : r \in issued' /\ route'[r] = h
    BY <1>3
  <1>6. \A p1, p2 \in Places, h \in Groups :
            p1 # p2 /\ SamePath(p1, p2) => At(p1, h)' \cap At(p2, h)' = {}
    BY <1>4
  <1> QED  BY <1>1, <1>5, <1>6 DEF PlaceInv

\* What the place says of a sample, after a step of each kind.
LEMMA StageMoves ==
  ASSUME StageInv, settings' = settings, NEW g \in Groups, NEW s, NEW f, NEW t, Moves(s, g, f, t),
         \A p \in Places, h \in Groups : \A r \in At(p, h) :
            (p = f /\ h = g /\ r = s) \/ Fits(p, r)',
         t \in Places => Fits(t, s)',
         \A r \in Samples : Stage(r)'
  PROVE  StageInv'
  <1>1. Groups' = Groups
    BY SameGroups
  <1>2. \A p \in Places, h \in Groups : \A r \in At(p, h)' : Fits(p, r)'
    BY DEF Moves
  <1> QED  BY <1>1, <1>2 DEF StageInv

\* What a place asks of a sample's state depends on that state only.
LEMMA FitsSame ==
  ASSUME UNCHANGED <<settings, core, completions, firstTokens>>
  PROVE  /\ \A p, r : Fits(p, r)' <=> Fits(p, r)
         /\ issued \subseteq issued' => \A r : Stage(r) => Stage(r)'
  BY DEF Fits, Stage

\* StageInv, when no sample moves.
LEMMA StageStays ==
  ASSUME StageInv, Stays, UNCHANGED <<settings, core, completions, firstTokens, issued>>
  PROVE  StageInv'
  <1>1. Groups' = Groups
    BY SameGroups
  <1>2. \A p \in Places, h \in Groups : \A r \in At(p, h)' : Fits(p, r)'
    BY FitsSame DEF Stays, StageInv
  <1>3. \A r \in Samples : Stage(r)'
    BY FitsSame DEF StageInv
  <1> QED  BY <1>1, <1>2, <1>3 DEF StageInv

\* A move within a path that changes no report and no core.
LEMMA StageFollows ==
  ASSUME StageInv, NEW g \in Groups, NEW s, NEW f, NEW t, Moves(s, g, f, t),
         f \in Places => s \in At(f, g),
         UNCHANGED <<settings, core, completions, firstTokens>>, issued \subseteq issued',
         t \in Places => Fits(t, s)
  PROVE  StageInv'
  <1>1. \A p \in Places, h \in Groups : \A r \in At(p, h) : Fits(p, r)'
    BY FitsSame DEF StageInv
  <1>2. t \in Places => Fits(t, s)'
    BY FitsSame
  <1>3. \A r \in Samples : Stage(r)'
    BY FitsSame DEF StageInv
  <1> QED  BY <1>1, <1>2, <1>3, StageMoves

\* StageInv, when a thread drains: the places it drains ask the same of a sample as its
\* list.
LEMMA StageDrains ==
  ASSUME StageInv, NEW g \in Groups, NEW t \in Sleepers, Drains(t, g),
         UNCHANGED <<settings, core, completions, firstTokens, issued>>
  PROVE  StageInv'
  <1>1. Groups' = Groups
    BY SameGroups
  <1>2. \A p \in Sources(t) : \A r : Fits(p, r) => Fits(t, r)
    BY DEF Sources, Fits, Sleepers, SleepsOn, RequestPlaces, ResponsePlaces, TokenPlaces, SpentPlaces
  <1>3. \A p \in Sources(t) : p \in Places
    BY SourcePlaces DEF Sources
  <1>4. ASSUME NEW p \in Places, NEW h \in Groups, NEW r, r \in At(p, h)' PROVE Fits(p, r)'
    <2>1. IF h = g /\ p = t THEN \E p2 \in Sources(t) : r \in At(p2, g)
          ELSE r \in At(p, h) /\ ~(h = g /\ p \in Sources(t))
      BY <1>4 DEF Drains
    <2>2. Fits(p, r)
      BY <1>2, <1>3, <2>1 DEF StageInv
    <2> QED  BY <2>2, FitsSame
  <1>5. \A r \in Samples : Stage(r)'
    BY FitsSame DEF StageInv
  <1> QED  BY <1>1, <1>4, <1>5 DEF StageInv

\* A sample is at a place of a group only.
LEMMA OneGroup ==
  ASSUME PlaceInv, NEW g \in Groups, NEW h \in Groups, NEW p1 \in Places, NEW p2 \in Places, NEW s,
         s \in At(p1, g), s \in At(p2, h)
  PROVE  g = h /\ s \in issued
  BY DEF PlaceInv

-----------------------------------------------------------------------------
\* The steps, one by one.
Known == TypeInv /\ PlaceInv /\ StageInv

\* PlaceInv and StageInv, when a sample is issued.
LEMMA IssueStage ==
  ASSUME Known, NEW s \in Samples, Issue(s)
  PROVE  PlaceInv' /\ StageInv'
  <1> DEFINE g == NextQueueIdx
  <1>1. g \in Groups /\ s \notin issued
    BY IssueType DEF Known
  <1>2. Moves(s, g, "none", "request") /\ \A p \in Places, h \in Groups : s \notin At(p, h)
    BY IssueMoves DEF IssueMove, Known
  <1>3. /\ issued' = issued \cup {s} /\ route' = [route EXCEPT ![s] = g]
        /\ UNCHANGED <<settings, core, completions, firstTokens>>
    BY DEF Issue
  <1> HIDE DEF g
  <1>4. route \in [Samples -> Groups] /\ issued \subseteq Samples
    BY TypeParts DEF Known, RouteType
  <1>5. route'[s] = g /\ \A r \in issued : route'[r] = route[r]
    BY <1>1, <1>3, <1>4
  <1>6. PlaceInv'
    BY <1>1, <1>2, <1>3, <1>5, PlaceMoves DEF Known
  <1>7. Fits("request", s) /\ "none" \notin Places
    BY <1>1 DEF Known, StageInv, Stage, Fits, Places, RequestPlaces, ResponsePlaces, TokenPlaces, SpentPlaces
  <1>8. StageInv'
    BY <1>1, <1>2, <1>3, <1>7, StageFollows DEF Known
  <1> QED  BY <1>6, <1>8

\* A move from f to t on the same path, by which no sample changes.
LEMMA FollowStage ==
  ASSUME Known, NEW g \in Groups, NEW s, NEW f \in Places, NEW t, Moves(s, g, f, t), s \in At(f, g),
         UNCHANGED <<settings, core, completions, firstTokens, issued, route>>,
         t \in Places => SamePath(f, t) /\ (Fits(f, s) => Fits(t, s))
  PROVE  PlaceInv' /\ StageInv'
  <1>1. s \in issued /\ route[s] = g /\ Fits(f, s)
    BY DEF Known, PlaceInv, StageInv
  <1>2. t \in Places => \A p \in Places : p # f /\ SamePath(p, t) => s \notin At(p, g)
    <2> SUFFICES ASSUME t \in Places, NEW p \in Places, p # f, SamePath(p, t) PROVE s \notin At(p, g)
      OBVIOUS
    <2>1. SamePath(f, p)
      BY PathLaws
    <2> QED  BY <2>1, PathFree DEF Known
  <1>3. PlaceInv'
    BY <1>1, <1>2, PlaceMoves DEF Known
  <1>4. StageInv'
    BY <1>1, StageFollows DEF Known
  <1> QED  BY <1>3, <1>4

\* PlaceInv and StageInv, when a thread passes a sample on.
LEMMA ForwardStage ==
  ASSUME Known, NEW g \in Groups, Forwards(g)
  PROVE  PlaceInv' /\ StageInv'
  <1>1. PICK t, c : /\ <<t, c>> \in {<<"send", "reqComm">>, <<"wSend", "respComm">>, <<"wFirst", "firstComm">>}
                    /\ Forward(t, c, g)
    BY DEF Forwards
  <1> DEFINE s == Head(local[t][g])
  <1>2. Moves(s, g, t, c) /\ s \in At(t, g)
    BY <1>1, ForwardMoves DEF Known
  <1>3. UNCHANGED <<settings, core, completions, firstTokens, issued, route>>
    BY <1>1 DEF Forward
  <1> HIDE DEF s
  <1>4. t \in Places /\ SamePath(t, c) /\ (Fits(t, s) => Fits(c, s))
    BY <1>1 DEF Places, RequestPlaces, ResponsePlaces, TokenPlaces, SpentPlaces, SamePath, Fits
  <1> QED  BY <1>2, <1>3, <1>4, FollowStage

\* PlaceInv and StageInv, when a receiver accepts a message and gives it a buffer
\* entry.
LEMMA AcceptStage ==
  ASSUME Known, NEW g \in Groups, NEW c, NEW d,
         <<c, d>> \in {<<"reqComm", "work">>, <<"respComm", "response">>, <<"firstComm", "first">>},
         Accept(c, d, g)
  PROVE  PlaceInv' /\ StageInv'
  <1> DEFINE s == Head(q[c][g])
  <1>2. Moves(s, g, c, d) /\ s \in At(c, g)
    BY AcceptMoves DEF Known
  <1>3. UNCHANGED <<settings, core, completions, firstTokens, issued, route>>
    BY DEF Accept
  <1> HIDE DEF s
  <1>4. c \in Places /\ SamePath(c, d) /\ (Fits(c, s) => Fits(d, s))
    BY DEF Places, RequestPlaces, ResponsePlaces, TokenPlaces, SpentPlaces, SamePath, Fits
  <1> QED  BY <1>2, <1>3, <1>4, FollowStage

\* PlaceInv and StageInv, when a spent buffer is taken back.
LEMMA ReclaimStage ==
  ASSUME Known, NEW g \in Groups, Reclaim(g)
  PROVE  PlaceInv' /\ StageInv'
  <1> DEFINE s == Head(local["reclaim"][g])
  <1>1. Moves(s, g, "reclaim", "none") /\ s \in At("reclaim", g)
    BY DoneMoves DEF Known, Reclaim
  <1>2. UNCHANGED <<settings, core, completions, firstTokens, issued, route>>
    BY DEF Reclaim
  <1> HIDE DEF s
  <1>3. "reclaim" \in Places /\ "none" \notin Places
    BY DEF Places, RequestPlaces, ResponsePlaces, TokenPlaces, SpentPlaces
  <1> QED  BY <1>1, <1>2, <1>3, FollowStage

\* The core takes s: it was nowhere but in the work queue.
LEMMA GetRequestStage ==
  ASSUME Known, NEW g \in Groups, GetInferenceRequest(g)
  PROVE  PlaceInv' /\ StageInv'
  <1> DEFINE s == Head(q["work"][g])
  <1>1. Moves(s, g, "work", "none") /\ s \in At("work", g) /\ s \in Samples
    BY GetRequestMoves DEF Known
  <1>2. /\ UNCHANGED <<settings, completions, firstTokens, issued, route>>
        /\ core' = [core EXCEPT ![s] = "run"]
    BY DEF GetInferenceRequest
  <1> HIDE DEF s
  <1>3. /\ "work" \in RequestPlaces /\ "work" \in Places /\ "none" \notin Places
        /\ core \in [Samples -> {"none", "run", "streamed", "answered", "gone"}]
    BY TypeParts DEF Known, RestType, Places, RequestPlaces, ResponsePlaces, TokenPlaces, SpentPlaces
  <1>4. core[s] = "none" /\ s \in issued /\ route[s] = g
    BY <1>1, <1>3 DEF Known, StageInv, PlaceInv, Fits
  <1>5. ASSUME NEW p \in Places, NEW h \in Groups, NEW r, r \in At(p, h)
        PROVE  (p = "work" /\ h = g /\ r = s) \/ Fits(p, r)'
    <2>1. Fits(p, r) /\ r \in issued /\ issued \subseteq Samples
      BY <1>5, TypeParts DEF Known, StageInv, PlaceInv, RouteType
    <2>2. CASE r # s
      <3>1. core'[r] = core[r]
        BY <1>2, <1>3, <2>1, <2>2
      <3> QED  BY <1>2, <2>1, <3>1 DEF Fits
    <2>3. CASE r = s
      <3>1. h = g
        BY <1>1, <1>3, <1>5, <2>3, OneGroup DEF Known
      <3>2. p \in RequestPlaces
        BY <1>4, <2>1, <2>3 DEF Fits, Places
      <3>3. SamePath("work", p)
        BY <1>3, <3>2 DEF SamePath
      <3>4. p = "work"
        BY <1>1, <1>3, <1>5, <2>3, <3>1, <3>3, PathFree DEF Known
      <3> QED  BY <2>3, <3>1, <3>4
    <2> QED  BY <2>2, <2>3
  <1>6. ASSUME NEW r \in Samples PROVE Stage(r)'
    <2>1. Stage(r)
      BY DEF Known, StageInv
    <2>2. core'[r] = IF r = s THEN "run" ELSE core[r]
      BY <1>1, <1>2, <1>3
    <2> QED  BY <1>2, <1>4, <2>1, <2>2 DEF Stage
  <1>7. PlaceInv'
    BY <1>1, <1>2, <1>3, PlaceMoves DEF Known
  <1>8. StageInv'
    BY <1>1, <1>2, <1>3, <1>5, <1>6, StageMoves DEF Known
  <1> QED  BY <1>7, <1>8

\* The core sends: what it puts into the queue c was not on the path of c.
LEMMA CoreStage ==
  ASSUME Known, NEW s \in Samples, NEW from \in {"run", "streamed", "answered"},
         NEW to \in {"streamed", "answered", "gone"}, NEW c \in {"token", "result", "spent", "none"},
         CoreStep(s, from, to, c),
         \/ from = "run" /\ to = "streamed" /\ c = "token" /\ settings.streaming
         \/ from \in {"run", "streamed"} /\ to = "answered" /\ c = "result"
            /\ (settings.streaming => from = "streamed")
         \/ from = "answered" /\ to = "gone" /\ c \in {"spent", "none"}
  PROVE  /\ PlaceInv' /\ StageInv' /\ route[s] \in Groups /\ s \in issued
         /\ Moves(s, route[s], "nowhere", c)
  <1> DEFINE g == route[s]
  <1>1. /\ core[s] = from /\ core' = [core EXCEPT ![s] = to]
        /\ UNCHANGED <<settings, completions, firstTokens, issued, route>>
    BY DEF CoreStep
  <1>2. /\ core \in [Samples -> {"none", "run", "streamed", "answered", "gone"}]
        /\ g \in Groups /\ issued \subseteq Samples
        /\ settings.streaming \in BOOLEAN
    BY TypeParts, SettingTypes DEF Known, RestType, RouteType
  <1>3. Stage(s) /\ s \in issued
    BY <1>1 DEF Known, StageInv, Stage
  <1>4. ASSUME NEW p \in Places, NEW h \in Groups, s \in At(p, h)
        PROVE  Fits(p, s)' /\ (c \in Places => ~SamePath(p, c))
    <2>1. Fits(p, s)
      BY <1>4 DEF Known, StageInv
    <2>2. core'[s] = to
      BY <1>1, <1>2
    <2>3. p \notin RequestPlaces
      BY <1>1, <2>1 DEF Fits
    <2>4. p \in ResponsePlaces => from = "answered"
      BY <1>1, <2>1 DEF Fits
    <2>5. p \in TokenPlaces => settings.streaming /\ from # "run"
      BY <1>1, <2>1 DEF Fits
    <2>6. p \notin SpentPlaces
      BY <1>1, <2>1 DEF Fits
    <2>7. Fits(p, s)'
      BY <1>1, <2>1, <2>2, <2>3, <2>4, <2>5, <2>6 DEF Fits
    <2>8. /\ c = "token" => c \notin RequestPlaces \cup ResponsePlaces /\ c \notin SpentPlaces
          /\ c = "result" => c \notin TokenPlaces /\ c \notin SpentPlaces
          /\ c = "spent" => c \notin RequestPlaces \cup ResponsePlaces /\ c \notin TokenPlaces
          /\ c = "none" => c \notin Places
      BY DEF Places, RequestPlaces, ResponsePlaces, TokenPlaces, SpentPlaces
    <2>9. c \in Places => ~SamePath(p, c)
      BY <2>3, <2>4, <2>5, <2>6, <2>8 DEF SamePath
    <2> QED  BY <2>7, <2>9
  <1>5. c \in Places => s \notin At(c, g)
    <2>1. c \in Places => SamePath(c, c)
      BY DEF Places, SamePath
    <2> QED  BY <1>2, <1>4, <2>1
  <1>6. Moves(s, g, "nowhere", c)
    BY <1>5, CoreMoves DEF Known
  <1> HIDE DEF g
  <1>7. route[s] = g
    BY DEF g
  <1>8. PlaceInv'
    BY <1>1, <1>2, <1>3, <1>4, <1>6, <1>7, PlaceMoves DEF Known
  <1>9. ASSUME NEW p \in Places, NEW h \in Groups, NEW r, r \in At(p, h) PROVE Fits(p, r)'
    <2>1. CASE r # s
      <3>1. Fits(p, r) /\ r \in issued
        BY <1>9 DEF Known, StageInv, PlaceInv
      <3>2. core'[r] = core[r]
        BY <1>1, <1>2, <2>1, <3>1
      <3> QED  BY <1>1, <3>1, <3>2 DEF Fits
    <2> QED  BY <1>4, <1>9, <2>1
  <1>10. c \in Places => Fits(c, s)'
    <2>1. core'[s] = to
      BY <1>1, <1>2
    <2>2. /\ c = "token" => c \notin RequestPlaces \cup ResponsePlaces /\ c \notin SpentPlaces
          /\ c = "result" => c \notin RequestPlaces /\ c \notin TokenPlaces /\ c \notin SpentPlaces
          /\ c = "spent" => c \notin RequestPlaces \cup ResponsePlaces /\ c \notin TokenPlaces
          /\ c = "none" => c \notin Places
      BY DEF Places, RequestPlaces, ResponsePlaces, TokenPlaces, SpentPlaces
    <2>3. CASE c = "token"
      <3>1. from = "run" /\ to = "streamed" /\ settings.streaming
        BY <2>3
      <3>2. firstTokens[s] = 0
        BY <1>1, <1>3, <3>1 DEF Stage
      <3> QED  BY <1>1, <2>1, <2>2, <2>3, <3>1, <3>2 DEF Fits
    <2>4. CASE c = "result"
      <3>1. from \in {"run", "streamed"} /\ to = "answered"
        BY <2>4
      <3>2. completions[s] = 0
        BY <1>1, <1>3, <3>1 DEF Stage
      <3> QED  BY <1>1, <2>1, <2>2, <2>4, <3>1, <3>2 DEF Fits
    <2>5. CASE c = "spent"
      <3>1. to = "gone"
        BY <2>5
      <3> QED  BY <2>1, <2>2, <2>5, <3>1 DEF Fits
    <2> QED  BY <2>2, <2>3, <2>4, <2>5
  <1>11. ASSUME NEW r \in Samples PROVE Stage(r)'
    <2>1. Stage(r) /\ core'[r] = IF r = s THEN to ELSE core[r]
      BY <1>1, <1>2 DEF Known, StageInv
    <2>2. CASE r = s
      BY <1>1, <1>3, <2>1, <2>2 DEF Stage
    <2>3. CASE r # s
      BY <1>1, <2>1, <2>3 DEF Stage
    <2> QED  BY <2>2, <2>3
  <1>12. StageInv'
    BY <1>1, <1>2, <1>6, <1>9, <1>10, <1>11, StageMoves DEF Known
  <1> QED  BY <1>2, <1>3, <1>6, <1>7, <1>8, <1>12

\* One report for the sample at hand, which is not on that path elsewhere.
LEMMA ReportFirstStage ==
  ASSUME Known, NEW g \in Groups, ReportFirst(g)
  PROVE  PlaceInv' /\ StageInv'
  <1> DEFINE s == Head(local["report"][g])
  <1>1. Moves(s, g, "report", "none") /\ s \in At("report", g) /\ s \in Samples
    BY DoneMoves DEF Known, ReportFirst
  <1>2. /\ UNCHANGED <<settings, completions, core, issued, route>>
        /\ firstTokens' = [firstTokens EXCEPT ![s] = @ + 1]
    BY DEF ReportFirst
  <1> HIDE DEF s
  <1>3. /\ "report" \in TokenPlaces /\ "report" \in Places /\ "none" \notin Places
        /\ firstTokens \in [Samples -> Nat]
    BY TypeParts DEF Known, RestType, Places, RequestPlaces, ResponsePlaces, TokenPlaces, SpentPlaces
  <1>4. s \in issued /\ route[s] = g /\ core[s] \notin {"none", "run"}
    BY <1>1, <1>3 DEF Known, StageInv, PlaceInv, Fits
  <1>5. ASSUME NEW p \in Places, NEW h \in Groups, NEW r, r \in At(p, h)
        PROVE  (p = "report" /\ h = g /\ r = s) \/ Fits(p, r)'
    <2>1. Fits(p, r) /\ r \in issued /\ issued \subseteq Samples
      BY <1>5, TypeParts DEF Known, StageInv, PlaceInv, RouteType
    <2>2. CASE r # s
      <3>1. firstTokens'[r] = firstTokens[r]
        BY <1>2, <1>3, <2>1, <2>2
      <3> QED  BY <1>2, <2>1, <3>1 DEF Fits
    <2>3. CASE r = s /\ p \notin TokenPlaces
      BY <1>2, <2>1, <2>3 DEF Fits
    <2>4. CASE r = s /\ p \in TokenPlaces
      <3>1. h = g /\ SamePath("report", p)
        BY <1>1, <1>3, <1>5, <2>4, OneGroup DEF Known, SamePath
      <3>2. p = "report"
        BY <1>1, <1>3, <1>5, <2>4, <3>1, PathFree DEF Known
      <3> QED  BY <2>4, <3>1, <3>2
    <2> QED  BY <2>2, <2>3, <2>4
  <1>6. ASSUME NEW r \in Samples PROVE Stage(r)'
    <2>1. Stage(r)
      BY DEF Known, StageInv
    <2>2. r # s => firstTokens'[r] = firstTokens[r]
      BY <1>2, <1>3
    <2> QED  BY <1>2, <1>4, <2>1, <2>2 DEF Stage
  <1>7. PlaceInv'
    BY <1>1, <1>2, <1>3, PlaceMoves DEF Known
  <1>8. StageInv'
    BY <1>1, <1>2, <1>3, <1>5, <1>6, StageMoves DEF Known
  <1> QED  BY <1>7, <1>8

\* A response whose sample may be completed leaves the system, another one is deferred.
LEMMA CompleteMoves ==
  ASSUME TypeInv, PlaceInv, NEW g \in Groups, Complete(g)
  PROVE  LET s == Head(local["complete"][g])
         IN  /\ s \in At("complete", g) /\ s \in Samples
             /\ MayComplete(s) => Moves(s, g, "complete", "none")
             /\ ~MayComplete(s) => Moves(s, g, "complete", "deferred")
  <1> DEFINE s == Head(local["complete"][g])
  <1>1. HasItem("complete", g) /\ Done("complete", g) /\ settings' = settings /\ q' = q
    BY DEF Complete
  <1>2. deferred \in [Groups -> Seq(Samples)]
    BY TypeParts DEF ThreadType
  <1>3. CASE MayComplete(s)
    <2>1. deferred' = deferred
      BY <1>3 DEF Complete
    <2> QED  BY <1>1, <1>3, <2>1, DoneMoves
  <1>4. CASE ~MayComplete(s)
    <2>1. deferred' = [deferred EXCEPT ![g] = Append(@, s)]
      BY <1>4 DEF Complete
    <2> QED  BY <1>1, <1>2, <1>4, <2>1, DoneMoves
  <1> QED  BY <1>3, <1>4

\* PlaceInv and StageInv, when a response is completed or deferred.
LEMMA CompleteStage ==
  ASSUME Known, NEW g \in Groups, Complete(g)
  PROVE  PlaceInv' /\ StageInv'
  <1> DEFINE s == Head(local["complete"][g])
  <1>1. /\ s \in At("complete", g) /\ s \in Samples
        /\ MayComplete(s) => Moves(s, g, "complete", "none")
        /\ ~MayComplete(s) => Moves(s, g, "complete", "deferred")
    BY CompleteMoves DEF Known
  <1>2. /\ UNCHANGED <<settings, firstTokens, core, issued, route>>
        /\ completions' = IF MayComplete(s) THEN [completions EXCEPT ![s] = @ + 1] ELSE completions
    BY DEF Complete
  <1> HIDE DEF s
  <1>3. /\ "complete" \in ResponsePlaces /\ "complete" \in Places /\ "none" \notin Places
        /\ completions \in [Samples -> Nat]
    BY TypeParts DEF Known, RestType, Places, RequestPlaces, ResponsePlaces, TokenPlaces, SpentPlaces
  <1>4. s \in issued /\ route[s] = g /\ core[s] \in {"answered", "gone"}
    BY <1>1, <1>3 DEF Known, StageInv, PlaceInv, Fits
  <1>5. CASE ~MayComplete(s)
    <2>1. Moves(s, g, "complete", "deferred") /\ completions' = completions
      BY <1>1, <1>2, <1>5
    <2>2. SamePath("complete", "deferred") /\ (Fits("complete", s) => Fits("deferred", s))
      BY DEF SamePath, Fits, RequestPlaces, ResponsePlaces, TokenPlaces, SpentPlaces
    <2> QED  BY <1>1, <1>2, <1>3, <2>1, <2>2, FollowStage
  <1>6. CASE MayComplete(s)
    <2>1. Moves(s, g, "complete", "none") /\ completions' = [completions EXCEPT ![s] = @ + 1]
      BY <1>1, <1>2, <1>6
    <2>2. ASSUME NEW p \in Places, NEW h \in Groups, NEW r, r \in At(p, h)
          PROVE  (p = "complete" /\ h = g /\ r = s) \/ Fits(p, r)'
      <3>1. Fits(p, r) /\ r \in issued /\ issued \subseteq Samples
        BY <2>2, TypeParts DEF Known, StageInv, PlaceInv, RouteType
      <3>2. CASE r # s
        <4>1. completions'[r] = completions[r]
          BY <1>3, <2>1, <3>1, <3>2
        <4> QED  BY <1>2, <3>1, <4>1 DEF Fits
      <3>3. CASE r = s /\ p \notin ResponsePlaces
        BY <1>2, <3>1, <3>3 DEF Fits
      <3>4. CASE r = s /\ p \in ResponsePlaces
        <4>1. h = g /\ SamePath("complete", p)
          BY <1>1, <1>3, <2>2, <3>4, OneGroup DEF Known, SamePath
        <4>2. p = "complete"
          BY <1>1, <1>3, <2>2, <3>4, <4>1, PathFree DEF Known
        <4> QED  BY <3>4, <4>1, <4>2
      <3> QED  BY <3>2, <3>3, <3>4
    <2>3. ASSUME NEW r \in Samples PROVE Stage(r)'
      <3>1. Stage(r)
        BY DEF Known, StageInv
      <3>2. r # s => completions'[r] = completions[r]
        BY <1>3, <2>1
      <3> QED  BY <1>2, <1>4, <3>1, <3>2 DEF Stage
    <2>4. PlaceInv'
      BY <1>2, <1>3, <2>1, PlaceMoves DEF Known
    <2>5. StageInv'
      BY <1>1, <1>2, <1>3, <2>1, <2>2, <2>3, StageMoves DEF Known
    <2> QED  BY <2>4, <2>5
  <1> QED  BY <1>5, <1>6

\* What the core sends of a sample goes to the sample's own group: a first token, a
\* result or a spent buffer.
LEMMA SendMoves ==
  ASSUME Known, NEW s \in Samples
  PROVE  /\ SendFirst(s) =>
                PlaceInv' /\ StageInv' /\ route[s] \in Groups /\ Moves(s, route[s], "nowhere", "token")
         /\ SendFinal(s) =>
                PlaceInv' /\ StageInv' /\ route[s] \in Groups /\ Moves(s, route[s], "nowhere", "result")
         /\ SendReclaim(s) =>
                /\ PlaceInv' /\ StageInv' /\ route[s] \in Groups
                /\ Moves(s, route[s], "nowhere", IF SessionSize > 1 THEN "spent" ELSE "none")
  <1> DEFINE After(c) == /\ PlaceInv' /\ StageInv' /\ route[s] \in Groups
                         /\ Moves(s, route[s], "nowhere", c)
  <1>1. ASSUME SendFirst(s) PROVE After("token")
    BY <1>1, CoreStage DEF SendFirst
  <1>2. ASSUME SendFinal(s) PROVE After("result")
    <2> DEFINE from == IF settings.streaming THEN "streamed" ELSE "run"
    <2>1. CoreStep(s, from, "answered", "result") /\ from \in {"run", "streamed"}
          /\ (settings.streaming => from = "streamed")
      BY <1>2 DEF SendFinal
    <2> HIDE DEF from
    <2> QED  BY <2>1, CoreStage
  <1>3. ASSUME SendReclaim(s) PROVE After(IF SessionSize > 1 THEN "spent" ELSE "none")
    <2> DEFINE c == IF SessionSize > 1 THEN "spent" ELSE "none"
    <2>1. CoreStep(s, "answered", "gone", c) /\ c \in {"spent", "none"}
      BY <1>3 DEF SendReclaim
    <2> HIDE DEF c
    <2>2. After(c)
      BY <2>1, CoreStage
    <2> QED  BY <2>2 DEF c
  <1> QED  BY <1>1, <1>2, <1>3

\* Every step keeps PlaceInv and StageInv.
LEMMA PlaceStageNext ==
  ASSUME Known, [Next]_vars
  PROVE  PlaceInv' /\ StageInv'
  <1>0. TypeInv /\ PlaceInv /\ StageInv
    BY DEF Known
  <1>1. CASE Quiet
    BY <1>0, <1>1, PlaceStays, StageStays DEF Quiet
  <1>2. ASSUME NEW s \in Samples, Issue(s) PROVE PlaceInv' /\ StageInv'
    BY <1>2, IssueStage
  <1>3. ASSUME NEW s \in Samples, SendFirst(s) \/ SendFinal(s) \/ SendReclaim(s)
        PROVE  PlaceInv' /\ StageInv'
    BY <1>3, SendMoves
  <1>4. ASSUME NEW s \in Samples, Age(s) PROVE PlaceInv' /\ StageInv'
    <2>1. UNCHANGED <<q, local, deferred, settings, core, completions, firstTokens, issued, route>>
      BY <1>4 DEF Age
    <2> QED  BY <1>0, <2>1, NothingMoves, PlaceStays, StageStays
  <1>5. ASSUME NEW g \in Groups, NEW t \in Sleepers, Drain(t, g) PROVE PlaceInv' /\ StageInv'
    <2>1. UNCHANGED <<settings, core, completions, firstTokens, issued, route>>
      BY <1>5 DEF Drain
    <2>2. Drains(t, g)
      BY <1>0, <1>5, DrainMoves
    <2> QED  BY <1>0, <2>1, <2>2, PlaceDrains, StageDrains
  <1>6. ASSUME NEW g \in Groups, Forwards(g) PROVE PlaceInv' /\ StageInv'
    BY <1>6, ForwardStage
  <1>7. ASSUME NEW g \in Groups, RecvRequest(g) \/ RecvResponse(g) \/ RecvFirstToken(g)
        PROVE  PlaceInv' /\ StageInv'
    BY <1>7, AcceptStage DEF RecvRequest, RecvResponse, RecvFirstToken
  <1>8. ASSUME NEW g \in Groups, CountDown(g) PROVE PlaceInv' /\ StageInv'
    <2>1. UNCHANGED <<q, local, deferred, settings, core, completions, firstTokens, issued, route>>
      BY <1>8 DEF CountDown, CountDownBy
    <2> QED  BY <1>0, <2>1, NothingMoves, PlaceStays, StageStays
  <1>9. ASSUME NEW g \in Groups, Complete(g) \/ ReportFirst(g) \/ Reclaim(g) \/ GetInferenceRequest(g)
        PROVE  PlaceInv' /\ StageInv'
    BY <1>9, CompleteStage, ReportFirstStage, ReclaimStage, GetRequestStage
  <1> QED  BY <1>0, <1>1, <1>2, <1>3, <1>4, <1>5, <1>6, <1>7, <1>8, <1>9, StepKinds

-----------------------------------------------------------------------------
(***************************************************************************)
(* Reports, entries and the end.                                           *)
(***************************************************************************)
LEMMA ReportSame ==
  ASSUME ReportInv, UNCHANGED <<settings, tracker, firstTokens, completions>>
  PROVE  ReportInv'
  BY DEF ReportInv

\* A sample at hand for a report has not had it.
LEMMA ReportFirstFacts ==
  ASSUME Known, ReportInv, NEW g \in Groups, ReportFirst(g)
  PROVE  LET s == Head(local["report"][g])
         IN  /\ s \in Samples /\ s \in issued /\ settings.streaming
             /\ firstTokens[s] = 0 /\ completions[s] = 0 /\ tracker[s] = "out"
             /\ firstTokens' = [firstTokens EXCEPT ![s] = 1]
             /\ UNCHANGED <<issued, completions>>
  <1> DEFINE s == Head(local["report"][g])
  <1>1. s \in At("report", g) /\ s \in Samples
    BY DoneMoves DEF Known, ReportFirst
  <1>2. "report" \in TokenPlaces /\ "report" \in Places
    BY DEF Places, TokenPlaces
  <1>3. firstTokens' = [firstTokens EXCEPT ![s] = @ + 1] /\ UNCHANGED <<issued, completions>>
    BY DEF ReportFirst
  <1> HIDE DEF s
  <1>4. s \in issued /\ settings.streaming /\ firstTokens[s] = 0
    BY <1>1, <1>2 DEF Known, PlaceInv, StageInv, Fits
  <1>5. completions[s] = 0 /\ tracker[s] = "out"
    BY <1>1, <1>4 DEF ReportInv
  <1>6. firstTokens' = [firstTokens EXCEPT ![s] = 1]
    BY <1>3, <1>4
  <1> QED  BY <1>1, <1>3, <1>4, <1>5, <1>6 DEF s

\* A response that is completed belongs to an issued sample of the group that was not
\* completed before, and with streaming its first token has been reported.
LEMMA CompleteFacts ==
  ASSUME Known, ReportInv, NEW g \in Groups, Complete(g)
  PROVE  LET s == Head(local["complete"][g])
         IN  /\ s \in Samples /\ s \in issued /\ route[s] = g /\ completions[s] = 0
             /\ settings.streaming /\ MayComplete(s) => firstTokens[s] = 1
             /\ MayComplete(s) => completions' = [completions EXCEPT ![s] = 1]
             /\ ~MayComplete(s) => completions' = completions
             /\ UNCHANGED <<issued, firstTokens>>
  <1> DEFINE s == Head(local["complete"][g])
  <1>1. s \in At("complete", g) /\ s \in Samples
    BY CompleteMoves DEF Known
  <1>2. "complete" \in ResponsePlaces /\ "complete" \in Places
    BY DEF Places, ResponsePlaces
  <1>3. /\ MayComplete(s) => completions' = [completions EXCEPT ![s] = @ + 1]
        /\ ~MayComplete(s) => completions' = completions
        /\ UNCHANGED <<issued, firstTokens>>
    BY DEF Complete
  <1> HIDE DEF s
  <1>4. s \in issued /\ route[s] = g /\ completions[s] = 0
    BY <1>1, <1>2 DEF Known, PlaceInv, StageInv, Fits
  <1>5. settings.streaming /\ MayComplete(s) => firstTokens[s] = 1
    BY <1>1 DEF ReportInv, MayComplete
  <1>6. MayComplete(s) => completions' = [completions EXCEPT ![s] = 1]
    BY <1>3, <1>4
  <1> QED  BY <1>1, <1>3, <1>4, <1>5, <1>6 DEF s

\* Every step keeps ReportInv.
LEMMA ReportNext ==
  ASSUME Known, ReportInv, [Next]_vars
  PROVE  ReportInv'
  <1>0. /\ TypeInv /\ PlaceInv /\ tracker \in [Samples -> {"out", "young", "due"}]
        /\ firstTokens \in [Samples -> Nat] /\ completions \in [Samples -> Nat]
    BY TypeParts DEF Known, RestType
  <1>1. ASSUME NEW g \in Groups, ReportFirst(g) PROVE ReportInv'
    <2> DEFINE s == Head(local["report"][g])
    <2>1. /\ s \in Samples /\ completions[s] = 0
          /\ firstTokens' = [firstTokens EXCEPT ![s] = 1] /\ completions' = completions
      BY <1>1, ReportFirstFacts
    <2>2. tracker' = [tracker EXCEPT ![s] = "young"] /\ settings' = settings
      BY <1>1 DEF ReportFirst
    <2> HIDE DEF s
    <2> QED  BY <1>0, <2>1, <2>2 DEF ReportInv
  <1>2. ASSUME NEW g \in Groups, Complete(g) PROVE ReportInv'
    <2> DEFINE s == Head(local["complete"][g])
    <2>1. /\ s \in Samples /\ completions[s] = 0 /\ firstTokens' = firstTokens
          /\ settings.streaming /\ MayComplete(s) => firstTokens[s] = 1
          /\ MayComplete(s) => completions' = [completions EXCEPT ![s] = 1]
          /\ ~MayComplete(s) => completions' = completions
      BY <1>2, CompleteFacts
    <2>2. /\ MayComplete(s) => tracker' = [tracker EXCEPT ![s] = "out"]
          /\ ~MayComplete(s) => tracker' = tracker
          /\ settings' = settings
      BY <1>2 DEF Complete
    <2> HIDE DEF s
    <2>3. CASE MayComplete(s)
      BY <1>0, <2>1, <2>2, <2>3 DEF ReportInv
    <2>4. CASE ~MayComplete(s)
      BY <2>1, <2>2, <2>4, ReportSame
    <2> QED  BY <2>3, <2>4
  <1>3. ASSUME NEW s \in Samples, Age(s) PROVE ReportInv'
    BY <1>0, <1>3 DEF Age, ReportInv
  <1>4. ASSUME NEW s \in Samples, Issue(s) \/ SendFirst(s) \/ SendFinal(s) \/ SendReclaim(s)
        PROVE  ReportInv'
    BY <1>4, ReportSame DEF Issue, SendFirst, SendFinal, SendReclaim, CoreStep
  <1>5. ASSUME NEW g \in Groups,
               \/ \E t \in Sleepers : Drain(t, g)
               \/ Forwards(g) \/ RecvRequest(g) \/ RecvResponse(g) \/ RecvFirstToken(g)
               \/ CountDown(g) \/ Reclaim(g) \/ GetInferenceRequest(g)
        PROVE  ReportInv'
    BY <1>5, ReportSame DEF Drain, Forwards, Forward, RecvRequest, RecvResponse, RecvFirstToken,
                            Accept, CountDown, CountDownBy, Reclaim, GetInferenceRequest
  <1>6. CASE Quiet
    BY <1>6, ReportSame DEF Quiet
  <1> QED  BY <1>0, <1>1, <1>2, <1>3, <1>4, <1>5, <1>6, StepKinds

\* Every step keeps EntryInv.
LEMMA EntryNext ==
  ASSUME Known, EntryInv, [Next]_vars
  PROVE  EntryInv'
  <1>0. /\ TypeInv /\ PlaceInv /\ route \in [Samples -> Groups] /\ issued \subseteq Samples
        /\ reqBuf \in [Groups -> SUBSET Samples]
    BY TypeParts DEF Known, RestType, RouteType
  <1>s. settings' = settings /\ Groups' = Groups
    BY SettingsStay, SameGroups
  <1>1. ASSUME NEW s \in Samples, Issue(s) PROVE EntryInv'
    <2> DEFINE g == NextQueueIdx
    <2>1. s \notin issued
      BY <1>1, IssueType DEF Known
    <2>2. reqBuf' = reqBuf /\ issued' = issued \cup {s} /\ route' = [route EXCEPT ![s] = g]
      BY <1>1 DEF Issue
    <2> HIDE DEF g
    <2>3. \A r \in issued : r \in issued' /\ route'[r] = route[r]
      BY <1>0, <2>1, <2>2
    <2> QED  BY <1>s, <2>2, <2>3 DEF EntryInv
  <1>2. ASSUME NEW g \in Groups, RecvRequest(g) PROVE EntryInv'
    <2> DEFINE s == Head(q["reqComm"][g])
    <2>1. s \in At("reqComm", g) /\ "reqComm" \in Places
      BY <1>2, AcceptMoves DEF Known, RecvRequest, Places, RequestPlaces
    <2>2. reqBuf' = [reqBuf EXCEPT ![g] = @ \cup {s}] /\ UNCHANGED <<issued, route>>
      BY <1>2 DEF RecvRequest, Accept
    <2> HIDE DEF s
    <2>3. s \in issued /\ route[s] = g
      BY <1>0, <2>1 DEF PlaceInv
    <2> QED  BY <1>0, <1>s, <2>2, <2>3 DEF EntryInv
  <1>3. ASSUME NEW g \in Groups, Reclaim(g) PROVE EntryInv'
    <2>1. UNCHANGED <<issued, route>> /\ \A h \in Groups : reqBuf'[h] \subseteq reqBuf[h]
      BY <1>0, <1>3 DEF Reclaim, CleanBuffer
    <2> QED  BY <1>s, <2>1 DEF EntryInv
  <1>4. UNCHANGED <<reqBuf, issued, route>> => EntryInv'
    BY <1>s DEF EntryInv
  <1>5. ASSUME NEW s \in Samples, Age(s) \/ SendFirst(s) \/ SendFinal(s) \/ SendReclaim(s)
        PROVE  EntryInv'
    BY <1>4, <1>5 DEF Age, SendFirst, SendFinal, SendReclaim, CoreStep
  <1>6. ASSUME NEW g \in Groups,
               \/ \E t \in Sleepers : Drain(t, g)
               \/ Forwards(g) \/ RecvResponse(g) \/ RecvFirstToken(g)
               \/ Complete(g) \/ CountDown(g) \/ ReportFirst(g) \/ GetInferenceRequest(g)
        PROVE  EntryInv'
    BY <1>4, <1>6 DEF Drain, Forwards, Forward, RecvResponse, RecvFirstToken, Accept, Complete,
                      CountDown, CountDownBy, ReportFirst, GetInferenceRequest
  <1>7. CASE Quiet
    BY <1>4, <1>7 DEF Quiet
  <1> QED  BY <1>0, <1>1, <1>2, <1>3, <1>5, <1>6, <1>7, StepKinds

-----------------------------------------------------------------------------
\* What the counters say about the places, and what a report does to them.
LEMMA OutTypes ==
  ASSUME TypeInv, NEW g
  PROVE  Out(g) \subseteq Samples /\ IsFiniteSet(Out(g)) /\ Cardinality(Out(g)) \in Nat
  <1>1. Out(g) \subseteq Samples /\ IsFiniteSet(Samples)
    BY TypeParts, ConstantsAssumption DEF Out, RouteType
  <1> QED  BY <1>1, FS_Subset, FS_CardinalityType

\* Every step keeps CountInv: a counter goes up with an issue, and down after a batch
\* of completions has been handled.
LEMMA CountNext ==
  ASSUME Known, CountInv, ReportInv, [Next]_vars
  PROVE  CountInv'
  <1>0. /\ TypeInv /\ PlaceInv /\ StageInv /\ route \in [Samples -> Groups] /\ issued \subseteq Samples
        /\ inFlight \in [Groups -> Nat] /\ handled \in [Groups -> Nat]
        /\ completions \in [Samples -> Nat]
    BY TypeParts DEF Known, RestType, RouteType, ThreadType
  <1>s. settings' = settings /\ Groups' = Groups
    BY SettingsStay, SameGroups
  <1>1. ASSUME NEW s \in Samples, Issue(s) PROVE CountInv'
    <2> DEFINE g == NextQueueIdx
    <2>1. s \notin issued /\ g \in Groups
      BY <1>1, IssueType DEF Known
    <2>2. /\ issued' = issued \cup {s} /\ route' = [route EXCEPT ![s] = g]
          /\ inFlight' = [inFlight EXCEPT ![g] = @ + 1] /\ UNCHANGED <<handled, completions>>
      BY <1>1 DEF Issue, Counted
    <2> HIDE DEF g
    <2>3. completions[s] = 0
      BY <2>1 DEF Known, StageInv, Stage
    <2>4. \A r \in Samples : route'[r] = IF r = s THEN g ELSE route[r]
      BY <1>0, <2>2
    <2>5. \A h, r : r \in Out(h)' <=> r \in Out(h) \/ (r = s /\ h = g)
      BY <1>0, <2>1, <2>2, <2>3, <2>4 DEF Out
    <2>6. ASSUME NEW h \in Groups PROVE inFlight'[h] = handled'[h] + Cardinality(Out(h)')
      <3>1. inFlight[h] = handled[h] + Cardinality(Out(h))
        BY DEF CountInv
      <3>2. IsFiniteSet(Out(h)) /\ Cardinality(Out(h)) \in Nat /\ s \notin Out(h)
        BY <1>0, <2>1, OutTypes DEF Out
      <3>3. CASE h = g
        <4>1. Out(h)' = Out(h) \cup {s}
          BY <2>5, <3>3
        <4>2. Cardinality(Out(h)') = Cardinality(Out(h)) + 1
          BY <3>2, <4>1, FS_AddElement
        <4>3. inFlight'[h] = inFlight[h] + 1 /\ handled'[h] = handled[h]
          BY <1>0, <2>2, <3>3
        <4> QED  BY <1>0, <3>1, <3>2, <4>2, <4>3
      <3>4. CASE h # g
        <4>1. Out(h)' = Out(h)
          BY <2>5, <3>4
        <4> QED  BY <1>0, <2>2, <3>1, <3>4, <4>1
      <3> QED  BY <3>3, <3>4
    <2> QED  BY <1>s, <2>6 DEF CountInv
  <1>2. ASSUME NEW g \in Groups, Complete(g) PROVE CountInv'
    <2> DEFINE s == Head(local["complete"][g])
    <2>1. /\ s \in issued /\ route[s] = g /\ completions[s] = 0 /\ issued' = issued
          /\ MayComplete(s) => completions' = [completions EXCEPT ![s] = 1]
          /\ ~MayComplete(s) => completions' = completions
      BY <1>2, CompleteFacts
    <2>2. /\ MayComplete(s) => handled' = [handled EXCEPT ![g] = @ + 1]
          /\ ~MayComplete(s) => handled' = handled
          /\ inFlight' = inFlight /\ route' = route
      BY <1>2 DEF Complete
    <2> HIDE DEF s
    <2>3. CASE ~MayComplete(s)
      <3>1. \A h : Out(h)' = Out(h)
        BY <2>1, <2>2, <2>3 DEF Out
      <3> QED  BY <1>s, <2>2, <2>3, <3>1 DEF CountInv
    <2>4. CASE MayComplete(s)
      <3>1. \A r \in Samples : completions'[r] = IF r = s THEN 1 ELSE completions[r]
        BY <1>0, <2>1, <2>4
      <3>2. \A h, r : r \in Out(h)' <=> r \in Out(h) /\ r # s
        BY <1>0, <2>1, <2>2, <3>1 DEF Out
      <3>3. ASSUME NEW h \in Groups PROVE inFlight'[h] = handled'[h] + Cardinality(Out(h)')
        <4>1. inFlight[h] = handled[h] + Cardinality(Out(h))
          BY DEF CountInv
        <4>2. IsFiniteSet(Out(h)) /\ Cardinality(Out(h)) \in Nat
          BY <1>0, OutTypes
        <4>3. CASE h = g
          <5>1. Out(h)' = Out(h) \ {s} /\ s \in Out(h)
            BY <2>1, <3>2, <4>3 DEF Out
          <5>2. Cardinality(Out(h)') = Cardinality(Out(h)) - 1
            BY <4>2, <5>1, FS_RemoveElement
          <5>3. handled'[h] = handled[h] + 1 /\ inFlight'[h] = inFlight[h]
            BY <1>0, <2>2, <2>4, <4>3
          <5> QED  BY <1>0, <4>1, <4>2, <5>2, <5>3
        <4>4. CASE h # g
          <5>1. Out(h)' = Out(h)
            BY <2>1, <3>2, <4>4 DEF Out
          <5> QED  BY <1>0, <2>2, <2>4, <4>1, <4>4, <5>1
        <4> QED  BY <4>3, <4>4
      <3> QED  BY <1>s, <3>3 DEF CountInv
    <2> QED  BY <2>3, <2>4
  <1>3. ASSUME NEW g \in Groups, CountDown(g) PROVE CountInv'
    <2>1. /\ inFlight' = [inFlight EXCEPT ![g] = @ - handled[g]]
          /\ handled' = [handled EXCEPT ![g] = 0]
          /\ UNCHANGED <<issued, route, completions>>
      BY <1>3 DEF CountDown, CountDownBy
    <2>2. \A h : Out(h)' = Out(h)
      BY <2>1 DEF Out
    <2>3. ASSUME NEW h \in Groups PROVE inFlight'[h] = handled'[h] + Cardinality(Out(h))
      <3>1. inFlight[h] = handled[h] + Cardinality(Out(h)) /\ Cardinality(Out(h)) \in Nat
        BY <1>0, OutTypes DEF CountInv
      <3>2. CASE h = g
        <4>1. inFlight'[h] = inFlight[h] - handled[h] /\ handled'[h] = 0
          BY <1>0, <2>1, <3>2
        <4> QED  BY <1>0, <3>1, <4>1
      <3>3. CASE h # g
        BY <1>0, <2>1, <3>1, <3>3
      <3> QED  BY <3>2, <3>3
    <2> QED  BY <1>s, <2>2, <2>3 DEF CountInv
  <1>4. UNCHANGED <<inFlight, handled, issued, route, completions>> => CountInv'
    <2> SUFFICES ASSUME UNCHANGED <<inFlight, handled, issued, route, completions>> PROVE CountInv'
      OBVIOUS
    <2>1. \A h : Out(h)' = Out(h)
      BY DEF Out
    <2> QED  BY <1>s, <2>1 DEF CountInv
  <1>5. ASSUME NEW s \in Samples, Age(s) \/ SendFirst(s) \/ SendFinal(s) \/ SendReclaim(s)
        PROVE  CountInv'
    BY <1>4, <1>5 DEF Age, SendFirst, SendFinal, SendReclaim, CoreStep
  <1>6. ASSUME NEW g \in Groups,
               \/ \E t \in Sleepers : Drain(t, g)
               \/ Forwards(g) \/ RecvRequest(g) \/ RecvResponse(g) \/ RecvFirstToken(g)
               \/ Reclaim(g) \/ ReportFirst(g) \/ GetInferenceRequest(g)
        PROVE  CountInv'
    BY <1>4, <1>6 DEF Drain, Forwards, Forward, RecvRequest, RecvResponse, RecvFirstToken, Accept,
                      Reclaim, ReportFirst, GetInferenceRequest
  <1>7. CASE Quiet
    BY <1>4, <1>7 DEF Quiet
  <1> QED  BY <1>0, <1>1, <1>2, <1>3, <1>5, <1>6, <1>7, StepKinds

-----------------------------------------------------------------------------
\* A step keeps what is known of the end.
LEMMA EndStep ==
  ASSUME EndInv, settings' = settings,
         main' = main \/ \A s \in Samples : completions[s] > 0,
         \A s \in Samples : completions[s] > 0 => completions'[s] > 0,
         \A h \in Groups : <<"complete", h>> \in ended' =>
            /\ \/ <<"complete", h>> \in ended
               \/ local["complete"][h] = <<>> /\ handled[h] = 0
            /\ local["complete"][h] = <<>> /\ handled[h] = 0 =>
                    local'["complete"][h] = <<>> /\ handled'[h] = 0
  PROVE  EndInv'
  <1>1. Groups' = Groups
    BY SameGroups
  <1>2. main' = <<"test">> \/ \A s \in Samples : completions'[s] > 0
    BY DEF EndInv
  <1>3. \A h \in Groups : <<"complete", h>> \in ended' =>
            local'["complete"][h] = <<>> /\ handled'[h] = 0
    BY DEF EndInv
  <1> QED  BY <1>1, <1>2, <1>3 DEF EndInv

\* EndInv, when a thread takes a step.
LEMMA EndThread ==
  ASSUME Known, ReportInv, EndInv, NEW g \in Groups, NEW t \in Threads, ThreadStep(t, g)
  PROVE  EndInv'
  <1>0. /\ TypeInv /\ local \in [Sleepers -> [Groups -> Seq(Samples)]] /\ handled \in [Groups -> Nat]
        /\ completions \in [Samples -> Nat] /\ "complete" \in Sleepers
    BY TypeParts DEF Known, ThreadType, RestType, Sleepers, SleepsOn
  <1>1. CASE t \in Sleepers /\ Drain(t, g)
    <2>1. <<t, g>> \notin ended /\ UNCHANGED <<settings, main, completions, ended, handled>>
      BY <1>1 DEF Drain, AtLoop
    <2>2. \A h \in Groups : <<"complete", h>> \in ended => local'["complete"][h] = local["complete"][h]
      <3>1. \A u \in Sleepers, h \in Groups : local'[u][h] =
                IF u = t /\ h = g THEN Waiting(t, g) ELSE local[u][h]
        BY <1>0, <1>1, DrainType
      <3> QED  BY <1>0, <2>1, <3>1
    <2> QED  BY <2>1, <2>2, EndStep
  <1>2. CASE Quit(t, g)
    <2>1. /\ UNCHANGED <<settings, main, completions, local, handled>> /\ ended' = ended \cup {<<t, g>>}
          /\ local[t][g] = <<>> /\ (t = "complete" => handled[g] = 0)
      BY <1>2 DEF Quit, AtLoop
    <2>2. \A h \in Groups : <<"complete", h>> \in ended' =>
            <<"complete", h>> \in ended \/ (local["complete"][h] = <<>> /\ handled[h] = 0)
      BY <2>1
    <2> QED  BY <2>1, <2>2, EndStep
  <1>3. CASE Complete(g)
    <2> DEFINE s == Head(local["complete"][g])
    <2>1. /\ s \in Samples
          /\ MayComplete(s) => completions' = [completions EXCEPT ![s] = 1]
          /\ ~MayComplete(s) => completions' = completions
      BY <1>3, CompleteFacts
    <2>2. /\ UNCHANGED <<settings, main, ended>> /\ HasItem("complete", g) /\ Done("complete", g)
          /\ \A h \in Groups : h # g => handled'[h] = handled[h]
      BY <1>0, <1>3 DEF Complete
    <2> HIDE DEF s
    <2>3. \A r \in Samples : completions[r] > 0 => completions'[r] > 0
      <3>1. CASE MayComplete(s)
        <4>1. \A r \in Samples : completions'[r] = IF r = s THEN 1 ELSE completions[r]
          BY <1>0, <2>1, <3>1
        <4> QED  BY <4>1
      <3>2. CASE ~MayComplete(s)
        BY <2>1, <3>2
      <3> QED  BY <3>1, <3>2
    <2>4. \A u \in Sleepers, h \in Groups : local'[u][h] =
                IF u = "complete" /\ h = g THEN Tail(local["complete"][g]) ELSE local[u][h]
      BY <1>0, <2>2, DoneStep
    <2>5. local["complete"][g] # <<>> /\
          \A h \in Groups : h # g => local'["complete"][h] = local["complete"][h]
      BY <1>0, <2>2, <2>4 DEF HasItem
    <2> QED  BY <2>2, <2>3, <2>5, EndStep
  <1>4. CASE CountDown(g)
    <2>1. /\ UNCHANGED <<settings, main, ended, completions, local>>
          /\ \A h \in Groups : handled[h] = 0 => handled'[h] = 0
      BY <1>0, <1>4 DEF CountDown, CountDownBy
    <2> QED  BY <2>1, EndStep
  <1>5. ASSUME NEW u \in Sleepers \ {"complete"}, HasItem(u, g), Done(u, g),
               UNCHANGED <<settings, main, ended, completions, handled>>
        PROVE  EndInv'
    <2>1. \A v \in Sleepers, h \in Groups : local'[v][h] =
                IF v = u /\ h = g THEN Tail(local[u][g]) ELSE local[v][h]
      BY <1>0, <1>5, DoneStep
    <2>2. \A h \in Groups : local'["complete"][h] = local["complete"][h]
      BY <1>0, <2>1
    <2> QED  BY <1>5, <2>2, EndStep
  <1>6. CASE ReportFirst(g)
    BY <1>5, <1>6 DEF ReportFirst, Sleepers, SleepsOn
  <1>7. CASE Reclaim(g)
    BY <1>5, <1>7 DEF Reclaim, Sleepers, SleepsOn
  <1>8. ASSUME NEW u \in Sleepers \ {"complete"}, NEW c, Forward(u, c, g) PROVE EndInv'
    BY <1>5, <1>8 DEF Forward
  <1>9. CASE RecvRequest(g) \/ RecvResponse(g) \/ RecvFirstToken(g)
    <2>1. UNCHANGED <<settings, main, ended, completions, handled, local>>
      BY <1>9 DEF RecvRequest, RecvResponse, RecvFirstToken, Accept
    <2> QED  BY <2>1, EndStep
  <1>10. ASSUME NEW u, u # "complete", ended' = ended \cup {<<u, g>>},
                UNCHANGED <<settings, main, completions, handled, local>>
         PROVE  EndInv'
    <2>1. \A h \in Groups : <<"complete", h>> \in ended' => <<"complete", h>> \in ended
      BY <1>10
    <2> QED  BY <1>10, <2>1, EndStep
  <1>11. CASE t = "recvReq" /\ RecvRequestEnds(g)
    BY <1>10, <1>11 DEF RecvRequestEnds, Ends
  <1>12. ASSUME NEW c, t # "complete", LoadGenReceiverEnds(t, c, g) PROVE EndInv'
    BY <1>10, <1>12 DEF LoadGenReceiverEnds, Ends
  <1>13. CASE WaitForTermination(g)
    BY <1>10, <1>13 DEF WaitForTermination
  <1>14. "send" \in Sleepers \ {"complete"} /\ "wSend" \in Sleepers \ {"complete"}
         /\ "wFirst" \in Sleepers \ {"complete"}
    BY DEF Sleepers, SleepsOn
  <1> QED  BY <1>1, <1>2, <1>3, <1>4, <1>6, <1>7, <1>8, <1>9, <1>11, <1>12, <1>13, <1>14 DEF ThreadStep

\* Every step keeps EndInv.
LEMMA EndNext ==
  ASSUME Known, ReportInv, EndInv, [Next]_vars
  PROVE  EndInv'
  <1>1. UNCHANGED <<settings, main, completions, ended, handled, local>> => EndInv'
    BY EndStep
  <1>2. CASE ReadCounter \/ Finished \/ UNCHANGED vars
    BY <1>1, <1>2 DEF ReadCounter, Finished, vars
  <1>3. ASSUME NEW s \in Samples, Issue(s) PROVE EndInv'
    BY <1>1, <1>3 DEF Issue
  <1>4. CASE TestEnds
    <2>1. UNCHANGED <<settings, completions, ended, handled, local>> /\ \A s \in Samples : completions[s] > 0
      BY <1>4 DEF TestEnds
    <2> QED  BY <2>1, EndStep
  <1>5. CASE SendTerminate
    <2>1. UNCHANGED <<settings, completions, ended, handled, local>> /\ main # <<"test">>
      BY <1>5 DEF SendTerminate
    <2>2. \A s \in Samples : completions[s] > 0
      BY <2>1 DEF EndInv
    <2> QED  BY <2>1, <2>2, EndStep
  <1>6. ASSUME NEW g \in Groups, NEW t \in Threads, ThreadStep(t, g) PROVE EndInv'
    BY <1>6, EndThread
  <1>7. ASSUME NEW g \in Groups, GetInferenceRequest(g) PROVE EndInv'
    BY <1>1, <1>7 DEF GetInferenceRequest
  <1>8. ASSUME NEW s \in Samples, Core(s) \/ Age(s) PROVE EndInv'
    BY <1>1, <1>8 DEF Core, SendFirst, SendFinal, SendReclaim, CoreStep, Age
  <1> QED  BY <1>2, <1>3, <1>4, <1>5, <1>6, <1>7, <1>8 DEF Next, Main

-----------------------------------------------------------------------------
(***************************************************************************)
(* Buffers.                                                                *)
(***************************************************************************)
LEMMA InMoves ==
  ASSUME PlaceInv, settings' = settings, NEW g \in Groups, NEW s, NEW f, NEW t, Moves(s, g, f, t),
         f \in Places => s \in At(f, g),
         NEW P, P \subseteq Places, \A p1, p2 \in P : SamePath(p1, p2)
  PROVE  \A r : In(P, r)' <=> (In(P, r) /\ ~(r = s /\ f \in P)) \/ (r = s /\ t \in P)
  <1>1. Groups' = Groups
    BY SameGroups
  <1>2. ASSUME NEW r, NEW p \in P, NEW h \in Groups, r \in At(p, h)'
        PROVE  (In(P, r) /\ ~(r = s /\ f \in P)) \/ (r = s /\ t \in P)
    <2>1. \/ r \in At(p, h) /\ ~(r = s /\ h = g /\ p = f)
          \/ r = s /\ h = g /\ p = t
      BY <1>2 DEF Moves
    <2>2. CASE r = s /\ f \in P /\ r \in At(p, h) /\ ~(h = g /\ p = f)
      <3>1. h = g
        BY <2>2, OneGroup
      <3>2. p # f /\ SamePath(f, p)
        BY <2>2, <3>1
      <3> QED  BY <2>2, <3>1, <3>2, PathFree
    <2> QED  BY <2>1, <2>2 DEF In
  <1>3. ASSUME NEW r, In(P, r), ~(r = s /\ f \in P) PROVE In(P, r)'
    <2>1. PICK h \in Groups, p \in P : r \in At(p, h)
      BY <1>3 DEF In
    <2>2. r \in At(p, h)'
      BY <1>3, <2>1 DEF Moves
    <2> QED  BY <1>1, <2>2 DEF In
  <1>4. ASSUME t \in P PROVE In(P, s)'
    <2>1. s \in At(t, g)'
      BY <1>4 DEF Moves
    <2> QED  BY <1>1, <1>4, <2>1 DEF In
  <1>5. \A r : In(P, r)' => \E p \in P, h \in Groups : r \in At(p, h)'
    BY <1>1 DEF In
  <1> QED  BY <1>2, <1>3, <1>4, <1>5

\* The places that refer to a buffer entry, and the paths they are on.
LEMMA BufferPlaces ==
  /\ Answering \subseteq Places /\ Reporting \subseteq Places
  /\ \A p1, p2 \in Answering : SamePath(p1, p2)
  /\ \A p1, p2 \in Reporting : SamePath(p1, p2)
  /\ "work" \in Places /\ "spent" \in Places /\ "reclaim" \in Places
  /\ "none" \notin Places /\ "nowhere" \notin Places
  /\ Answering \subseteq ResponsePlaces /\ Reporting \subseteq TokenPlaces
  BY DEF Answering, Reporting, Places, RequestPlaces, ResponsePlaces, TokenPlaces, SpentPlaces, SamePath

\* OwnInv, when a sample moves and the entries are taken and freed with it.
LEMMA OwnMoves ==
  ASSUME PlaceInv, OwnInv, settings' = settings, NEW g \in Groups, NEW s, NEW f, NEW t,
         Moves(s, g, f, t), f \in Places => s \in At(f, g),
         \A r : r \in respBuf' <=> (r \in respBuf /\ ~(r = s /\ f \in Answering)) \/ (r = s /\ t \in Answering),
         \A r : r \in firstBuf' <=>
            (r \in firstBuf /\ ~(r = s /\ f \in Reporting)) \/ (r = s /\ t \in Reporting),
         \A h \in Groups : \A r \in At("work", h) :
            r \in reqBuf'[h] \/ (r = s /\ h = g /\ f = "work"),
         t = "work" => s \in reqBuf'[g]
  PROVE  OwnInv'
  <1>1. Groups' = Groups
    BY SameGroups
  <1>2. \A r : In(Answering, r)' <=> (In(Answering, r) /\ ~(r = s /\ f \in Answering)) \/ (r = s /\ t \in Answering)
    BY BufferPlaces, InMoves
  <1>3. \A r : In(Reporting, r)' <=> (In(Reporting, r) /\ ~(r = s /\ f \in Reporting)) \/ (r = s /\ t \in Reporting)
    BY BufferPlaces, InMoves
  <1>4. \A r : r \in respBuf' <=> In(Answering, r)'
    BY <1>2 DEF OwnInv
  <1>5. \A r : r \in firstBuf' <=> In(Reporting, r)'
    BY <1>3 DEF OwnInv
  <1>6. \A h \in Groups : At("work", h)' \subseteq reqBuf'[h]
    BY BufferPlaces DEF Moves
  <1> QED  BY <1>1, <1>4, <1>5, <1>6 DEF OwnInv

\* OwnInv, when no sample moves and no entry changes.
LEMMA OwnStays ==
  ASSUME OwnInv, Stays, UNCHANGED <<settings, bufferVars>>
  PROVE  OwnInv'
  <1>1. Groups' = Groups
    BY SameGroups
  <1>2. Answering \subseteq Places /\ Reporting \subseteq Places /\ "work" \in Places
    BY BufferPlaces
  <1>3. \A P \in {Answering, Reporting} : \A r : In(P, r)' <=> In(P, r)
    BY <1>1, <1>2 DEF In, Stays
  <1>4. \A g \in Groups : At("work", g)' \subseteq At("work", g)
    BY <1>2 DEF Stays
  <1> QED  BY <1>1, <1>3, <1>4 DEF OwnInv, bufferVars

\* A move between places that own no buffer entry.
LEMMA OwnFollows ==
  ASSUME PlaceInv, OwnInv, UNCHANGED <<settings, bufferVars>>,
         NEW g \in Groups, NEW s, NEW f, NEW t,
         Moves(s, g, f, t), f \in Places => s \in At(f, g),
         f \notin Answering \cup Reporting, t \notin Answering \cup Reporting, t # "work"
  PROVE  OwnInv'
  <1>1. UNCHANGED <<reqBuf, respBuf, firstBuf>>
    BY DEF bufferVars
  <1>2. \A h \in Groups : \A r \in At("work", h) : r \in reqBuf[h]
    BY DEF OwnInv
  <1> QED  BY <1>1, <1>2, OwnMoves

\* A thread drains only into an empty list.
LEMMA DrainEmpty ==
  ASSUME TypeInv, NEW g \in Groups, NEW t \in Sleepers, Drain(t, g)
  PROVE  At(t, g) = {}
  <1>1. local[t][g] = <<>>
    BY DEF Drain, AtLoop
  <1>2. t # "deferred"
    BY DEF Sleepers, SleepsOn
  <1> QED  BY <1>1, <1>2, LineEmpty DEF At, Line

\* Draining changes nothing of which samples are in a set of places, if what is drained
\* and where it goes are both in the set, or neither is.
LEMMA InDrains ==
  ASSUME settings' = settings, NEW g \in Groups, NEW t, Drains(t, g), At(t, g) = {},
         NEW P, P \subseteq Places,
         t \in P => Sources(t) \subseteq P,
         t \notin P => Sources(t) \cap P = {}
  PROVE  \A r : In(P, r)' <=> In(P, r)
  <1>1. Groups' = Groups
    BY SameGroups
  <1>2. \A p \in P, h \in Groups : \A r : r \in At(p, h)' <=>
            IF h = g /\ p = t THEN \E p2 \in Sources(t) : r \in At(p2, g)
            ELSE r \in At(p, h) /\ ~(h = g /\ p \in Sources(t))
    BY DEF Drains
  <1>3. ASSUME NEW r, NEW p \in P, NEW h \in Groups, r \in At(p, h)' PROVE In(P, r)
    <2>1. CASE h = g /\ p = t
      BY <1>2, <1>3, <2>1 DEF In
    <2>2. CASE ~(h = g /\ p = t)
      BY <1>2, <1>3, <2>2 DEF In
    <2> QED  BY <2>1, <2>2
  <1>4. ASSUME NEW r, NEW p \in P, NEW h \in Groups, r \in At(p, h)
        PROVE  \E p2 \in P : r \in At(p2, h)'
    <2>1. CASE h = g /\ p \in Sources(t)
      <3>1. t \in P
        BY <2>1
      <3>2. r \in At(t, h)'
        BY <1>2, <1>4, <2>1, <3>1
      <3> QED  BY <3>1, <3>2
    <2>2. CASE ~(h = g /\ p \in Sources(t))
      <3>1. ~(h = g /\ p = t)
        BY <1>4
      <3> QED  BY <1>2, <1>4, <2>2, <3>1
    <2> QED  BY <2>1, <2>2
  <1> QED  BY <1>1, <1>3, <1>4 DEF In

\* OwnInv, when a thread drains.
LEMMA OwnDrains ==
  ASSUME TypeInv, PlaceInv, OwnInv, NEW g \in Groups, NEW t \in Sleepers, Drain(t, g)
  PROVE  OwnInv'
  <1>1. settings' = settings /\ UNCHANGED <<reqBuf, respBuf, firstBuf>>
    BY DEF Drain, routeVars, bufferVars
  <1>2. Groups' = Groups
    BY <1>1, SameGroups
  <1>3. Drains(t, g) /\ At(t, g) = {}
    BY DrainMoves, DrainEmpty
  <1>4. /\ t \in Answering => Sources(t) \subseteq Answering
        /\ t \notin Answering => Sources(t) \cap Answering = {}
        /\ t \in Reporting => Sources(t) \subseteq Reporting
        /\ t \notin Reporting => Sources(t) \cap Reporting = {}
    BY DEF Answering, Reporting, Sources, Sleepers, SleepsOn
  <1>5. Answering \subseteq Places /\ Reporting \subseteq Places /\ "work" \in Places
    BY BufferPlaces
  <1>6. \A r : In(Answering, r)' <=> In(Answering, r)
    BY <1>1, <1>3, <1>4, <1>5, InDrains
  <1>7. \A r : In(Reporting, r)' <=> In(Reporting, r)
    BY <1>1, <1>3, <1>4, <1>5, InDrains
  <1>8. "work" # t
    BY DEF Sleepers, SleepsOn
  <1>9. \A h \in Groups : At("work", h)' \subseteq At("work", h)
    BY <1>3, <1>5, <1>8 DEF Drains
  <1> QED  BY <1>1, <1>2, <1>6, <1>7, <1>9 DEF OwnInv

\* OwnInv, when the core sends.
LEMMA OwnSends ==
  ASSUME Known, OwnInv, NEW s \in Samples, SendFirst(s) \/ SendFinal(s) \/ SendReclaim(s)
  PROVE  OwnInv'
  <1>1. PlaceInv /\ UNCHANGED <<settings, bufferVars>> /\ route[s] \in Groups
    BY SendMoves DEF Known, SendFirst, SendFinal, SendReclaim, CoreStep, routeVars
  <1>2. ASSUME NEW c \in {"token", "result", "spent", "none"}, Moves(s, route[s], "nowhere", c)
        PROVE  OwnInv'
    <2>1. "nowhere" \notin Places /\ "nowhere" \notin Answering \cup Reporting
          /\ c \notin Answering \cup Reporting /\ c # "work"
      BY BufferPlaces DEF Answering, Reporting
    <2> DEFINE g == route[s]
    <2>2. g \in Groups /\ Moves(s, g, "nowhere", c)
      BY <1>1, <1>2
    <2> HIDE DEF g
    <2> QED  BY <1>1, <2>1, <2>2, OwnFollows
  <1>3. \E c \in {"token", "result", "spent", "none"} : Moves(s, route[s], "nowhere", c)
    BY SendMoves
  <1> QED  BY <1>2, <1>3

\* OwnInv, when a receiver accepts a message: a new entry for a new pointer to it.
LEMMA OwnAccept ==
  ASSUME Known, OwnInv, NEW g \in Groups,
         RecvRequest(g) \/ RecvResponse(g) \/ RecvFirstToken(g)
  PROVE  OwnInv'
  <1>0. TypeInv /\ PlaceInv /\ reqBuf \in [Groups -> SUBSET Samples]
        /\ \A h \in Groups : \A r \in At("work", h) : r \in reqBuf[h]
    BY TypeParts DEF Known, RestType, OwnInv
  <1>1. ASSUME NEW c, NEW d,
               <<c, d>> \in {<<"reqComm", "work">>, <<"respComm", "response">>, <<"firstComm", "first">>},
               Accept(c, d, g)
        PROVE  /\ Moves(Head(q[c][g]), g, c, d) /\ Head(q[c][g]) \in At(c, g)
               /\ settings' = settings
    BY <1>0, <1>1, AcceptMoves DEF Accept, routeVars
  <1>2. CASE RecvRequest(g)
    <2> DEFINE s == Head(q["reqComm"][g])
    <2>1. Moves(s, g, "reqComm", "work") /\ s \in At("reqComm", g) /\ settings' = settings
      BY <1>1, <1>2 DEF RecvRequest
    <2>2. reqBuf' = [reqBuf EXCEPT ![g] = @ \cup {s}] /\ UNCHANGED <<respBuf, firstBuf>>
      BY <1>2 DEF RecvRequest
    <2> HIDE DEF s
    <2>3. (\A h \in Groups : \A r \in At("work", h) : r \in reqBuf'[h]) /\ s \in reqBuf'[g]
      BY <1>0, <2>2
    <2>4. "reqComm" \notin Answering \cup Reporting /\ "work" \notin Answering \cup Reporting
      BY DEF Answering, Reporting
    <2> QED  BY <1>0, <2>1, <2>2, <2>3, <2>4, OwnMoves
  <1>3. CASE RecvResponse(g)
    <2> DEFINE s == Head(q["respComm"][g])
    <2>1. Moves(s, g, "respComm", "response") /\ s \in At("respComm", g) /\ settings' = settings
      BY <1>1, <1>3 DEF RecvResponse
    <2>2. respBuf' = respBuf \cup {s} /\ UNCHANGED <<reqBuf, firstBuf>>
      BY <1>3 DEF RecvResponse
    <2> HIDE DEF s
    <2>3. "respComm" \notin Answering \cup Reporting /\ "response" \in Answering
          /\ "response" \notin Reporting /\ "response" # "work"
      BY DEF Answering, Reporting
    <2> QED  BY <1>0, <2>1, <2>2, <2>3, OwnMoves
  <1>4. CASE RecvFirstToken(g)
    <2> DEFINE s == Head(q["firstComm"][g])
    <2>1. Moves(s, g, "firstComm", "first") /\ s \in At("firstComm", g) /\ settings' = settings
      BY <1>1, <1>4 DEF RecvFirstToken
    <2>2. firstBuf' = firstBuf \cup {s} /\ UNCHANGED <<reqBuf, respBuf>>
      BY <1>4 DEF RecvFirstToken
    <2> HIDE DEF s
    <2>3. "firstComm" \notin Answering \cup Reporting /\ "first" \in Reporting
          /\ "first" \notin Answering /\ "first" # "work"
      BY DEF Answering, Reporting
    <2> QED  BY <1>0, <2>1, <2>2, <2>3, OwnMoves
  <1> QED  BY <1>2, <1>3, <1>4

\* OwnInv, when an entry is freed after its report.
LEMMA OwnReports ==
  ASSUME Known, OwnInv, NEW g \in Groups, ReportFirst(g) \/ Complete(g) \/ Reclaim(g)
  PROVE  OwnInv'
  <1>0. TypeInv /\ PlaceInv /\ reqBuf \in [Groups -> SUBSET Samples]
        /\ \A h \in Groups : \A r \in At("work", h) : r \in reqBuf[h]
    BY TypeParts DEF Known, RestType, OwnInv
  <1>1. CASE ReportFirst(g)
    <2> DEFINE s == Head(local["report"][g])
    <2>1. /\ settings' = settings /\ UNCHANGED <<q, deferred, reqBuf, respBuf>>
          /\ firstBuf' = firstBuf \ {s} /\ HasItem("report", g) /\ Done("report", g)
      BY <1>1 DEF ReportFirst, CleanBuffer, routeVars
    <2>2. Moves(s, g, "report", "none") /\ s \in At("report", g)
      BY <1>0, <2>1, DoneMoves
    <2> HIDE DEF s
    <2>3. "report" \in Reporting /\ "report" \notin Answering /\ "none" # "work"
          /\ "none" \notin Answering \cup Reporting /\ "report" # "work"
      BY DEF Answering, Reporting
    <2> QED  BY <1>0, <2>1, <2>2, <2>3, OwnMoves
  <1>2. CASE Reclaim(g)
    <2> DEFINE s == Head(local["reclaim"][g])
    <2>1. /\ settings' = settings /\ UNCHANGED <<q, deferred, firstBuf, respBuf>>
          /\ reqBuf' = [reqBuf EXCEPT ![g] = @ \ {s}] /\ HasItem("reclaim", g) /\ Done("reclaim", g)
      BY <1>2 DEF Reclaim, CleanBuffer, routeVars
    <2>2. Moves(s, g, "reclaim", "none") /\ s \in At("reclaim", g)
      BY <1>0, <2>1, DoneMoves
    <2> HIDE DEF s
    <2>3. core[s] = "gone"
      BY <2>2 DEF Known, StageInv, Fits, Places, SpentPlaces
    <2>4. \A h \in Groups : \A r \in At("work", h) : core[r] = "none"
      BY DEF Known, StageInv, Fits, Places, RequestPlaces
    <2>5. \A h \in Groups : \A r \in At("work", h) : r \in reqBuf'[h]
      BY <1>0, <2>1, <2>3, <2>4
    <2>6. "reclaim" \notin Answering \cup Reporting /\ "none" # "work"
          /\ "none" \notin Answering \cup Reporting /\ "reclaim" # "work"
      BY DEF Answering, Reporting
    <2> QED  BY <1>0, <2>1, <2>2, <2>5, <2>6, OwnMoves
  <1>3. CASE Complete(g)
    <2> DEFINE s == Head(local["complete"][g])
    <2>1. /\ s \in At("complete", g)
          /\ MayComplete(s) => Moves(s, g, "complete", "none")
          /\ ~MayComplete(s) => Moves(s, g, "complete", "deferred")
      BY <1>0, <1>3, CompleteMoves
    <2>2. /\ settings' = settings /\ UNCHANGED <<reqBuf, firstBuf>>
          /\ MayComplete(s) => respBuf' = respBuf \ {s}
          /\ ~MayComplete(s) => respBuf' = respBuf
      BY <1>3 DEF Complete, CleanBuffer, routeVars
    <2> HIDE DEF s
    <2>3. "complete" \in Answering /\ "complete" \notin Reporting /\ "deferred" \in Answering
          /\ "deferred" \notin Reporting /\ "none" \notin Answering \cup Reporting
          /\ "complete" # "work" /\ "deferred" # "work" /\ "none" # "work"
      BY DEF Answering, Reporting
    <2>4. s \in respBuf
      BY <2>1, <2>3 DEF OwnInv, In
    <2>5. CASE MayComplete(s)
      BY <1>0, <2>1, <2>2, <2>3, <2>5, OwnMoves
    <2>6. CASE ~MayComplete(s)
      BY <1>0, <2>1, <2>2, <2>3, <2>4, <2>6, OwnMoves
    <2> QED  BY <2>5, <2>6
  <1> QED  BY <1>1, <1>2, <1>3

\* Every step keeps OwnInv.
LEMMA OwnNext ==
  ASSUME Known, OwnInv, [Next]_vars
  PROVE  OwnInv'
  <1>0. TypeInv /\ PlaceInv
    BY DEF Known
  <1>1. ASSUME NEW s \in Samples, Issue(s) PROVE OwnInv'
    <2> DEFINE g == NextQueueIdx
    <2>1. g \in Groups /\ UNCHANGED <<settings, bufferVars>> /\ Moves(s, g, "none", "request")
      BY <1>0, <1>1, IssueType, IssueMoves DEF Issue, IssueMove
    <2> HIDE DEF g
    <2>2. "none" \notin Places /\ "none" \notin Answering \cup Reporting
          /\ "request" \notin Answering \cup Reporting /\ "request" # "work"
      BY BufferPlaces DEF Answering, Reporting
    <2> QED  BY <1>0, <2>1, <2>2, OwnFollows
  <1>2. ASSUME NEW g \in Groups, Forwards(g) PROVE OwnInv'
    <2>1. PICK t, c : /\ <<t, c>> \in {<<"send", "reqComm">>, <<"wSend", "respComm">>, <<"wFirst", "firstComm">>}
                      /\ Forward(t, c, g)
      BY <1>2 DEF Forwards
    <2> DEFINE s == Head(local[t][g])
    <2>2. Moves(s, g, t, c) /\ s \in At(t, g) /\ UNCHANGED <<settings, bufferVars>>
      BY <1>0, <2>1, ForwardMoves DEF Forward, routeVars
    <2> HIDE DEF s
    <2>3. t \notin Answering \cup Reporting /\ c \notin Answering \cup Reporting /\ c # "work"
      BY <2>1 DEF Answering, Reporting
    <2> QED  BY <1>0, <2>2, <2>3, OwnFollows
  <1>3. ASSUME NEW g \in Groups, GetInferenceRequest(g) PROVE OwnInv'
    <2> DEFINE s == Head(q["work"][g])
    <2>1. Moves(s, g, "work", "none") /\ s \in At("work", g) /\ UNCHANGED <<settings, bufferVars>>
      BY <1>0, <1>3, GetRequestMoves DEF GetInferenceRequest, routeVars
    <2> HIDE DEF s
    <2>2. "work" \notin Answering \cup Reporting /\ "none" \notin Answering \cup Reporting
          /\ "none" # "work"
      BY DEF Answering, Reporting
    <2> QED  BY <1>0, <2>1, <2>2, OwnFollows
  <1>4. ASSUME UNCHANGED <<q, local, deferred, settings, bufferVars>> PROVE OwnInv'
    BY <1>0, <1>4, NothingMoves, OwnStays
  <1>5. ASSUME NEW s \in Samples, Age(s) PROVE OwnInv'
    BY <1>4, <1>5 DEF Age, threadVars, routeVars
  <1>6. ASSUME NEW g \in Groups, CountDown(g) PROVE OwnInv'
    BY <1>4, <1>6 DEF CountDown, CountDownBy
  <1>7. CASE Quiet
    BY <1>7, OwnStays DEF Quiet
  <1>8. ASSUME NEW g \in Groups, NEW t \in Sleepers, Drain(t, g) PROVE OwnInv'
    BY <1>0, <1>8, OwnDrains
  <1> QED  BY <1>0, <1>1, <1>2, <1>3, <1>5, <1>6, <1>7, <1>8, StepKinds, OwnSends, OwnAccept, OwnReports

-----------------------------------------------------------------------------
\* Buffers that a served request still holds.
LEMMA FreedMoves ==
  ASSUME FreedInv, settings' = settings, NEW g \in Groups, NEW s, NEW f, NEW t, Moves(s, g, f, t),
         f \notin {"spent", "reclaim"},
         SessionSize > 1 => \A h \in Groups, r \in Samples :
            core'[r] = "gone" /\ r \in reqBuf'[h] =>
                \/ core[r] = "gone" /\ r \in reqBuf[h]
                \/ r = s /\ h = g /\ t = "spent"
  PROVE  FreedInv'
  <1>1. Groups' = Groups
    BY SameGroups
  <1>2. "spent" \in Places /\ "reclaim" \in Places
    BY BufferPlaces
  <1>3. ASSUME SessionSize > 1, NEW h \in Groups, NEW r \in Samples,
               core'[r] = "gone", r \in reqBuf'[h]
        PROVE  r \in At("spent", h)' \/ r \in At("reclaim", h)'
    <2>1. CASE core[r] = "gone" /\ r \in reqBuf[h]
      <3>1. r \in At("spent", h) \/ r \in At("reclaim", h)
        BY <1>3, <2>1 DEF FreedInv
      <3> QED  BY <1>2, <3>1 DEF Moves
    <2>2. CASE r = s /\ h = g /\ t = "spent"
      BY <1>2, <2>2 DEF Moves
    <2> QED  BY <1>3, <2>1, <2>2
  <1> QED  BY <1>1, <1>3 DEF FreedInv

\* FreedInv, when no sample moves.
LEMMA FreedStays ==
  ASSUME FreedInv, Stays, UNCHANGED <<settings, reqBuf, core>>
  PROVE  FreedInv'
  <1>1. Groups' = Groups
    BY SameGroups
  <1>2. "spent" \in Places /\ "reclaim" \in Places
    BY BufferPlaces
  <1>3. \A g \in Groups : \A r :
            /\ r \in At("spent", g)' <=> r \in At("spent", g)
            /\ r \in At("reclaim", g)' <=> r \in At("reclaim", g)
    BY <1>2 DEF Stays
  <1> QED  BY <1>1, <1>3 DEF FreedInv

\* FreedInv, when a thread drains.
LEMMA FreedDrains ==
  ASSUME TypeInv, PlaceInv, FreedInv, NEW g \in Groups, NEW t \in Sleepers, Drain(t, g)
  PROVE  FreedInv'
  <1>1. UNCHANGED <<settings, reqBuf, core>>
    BY DEF Drain, routeVars, bufferVars
  <1>2. Groups' = Groups
    BY <1>1, SameGroups
  <1>3. Drains(t, g) /\ At(t, g) = {}
    BY DrainMoves, DrainEmpty
  <1>4. "spent" \in Places /\ "reclaim" \in Places
    BY BufferPlaces
  <1>5. "spent" # t /\ ("spent" \in Sources(t) <=> t = "reclaim") /\ "reclaim" \notin Sources(t)
    BY DEF Sources, Sleepers, SleepsOn
  <1>6. ASSUME NEW h \in Groups, NEW r, r \in At("spent", h) \/ r \in At("reclaim", h)
        PROVE  r \in At("spent", h)' \/ r \in At("reclaim", h)'
    <2>1. CASE h = g /\ t = "reclaim"
      <3>1. r \in At("spent", g)
        BY <1>3, <1>6, <2>1
      <3>2. r \in At("reclaim", g)' <=> \E p2 \in Sources(t) : r \in At(p2, g)
        BY <1>3, <1>4, <2>1 DEF Drains
      <3> QED  BY <1>5, <2>1, <3>1, <3>2
    <2>2. CASE ~(h = g /\ t = "reclaim")
      <3>1. r \in At("spent", h)' <=> r \in At("spent", h)
        BY <1>3, <1>4, <1>5, <2>2 DEF Drains
      <3>2. r \in At("reclaim", h)' <=> r \in At("reclaim", h)
        BY <1>3, <1>4, <1>5, <2>2 DEF Drains
      <3> QED  BY <1>6, <3>1, <3>2
    <2> QED  BY <2>1, <2>2
  <1> QED  BY <1>1, <1>2, <1>6 DEF FreedInv

\* FreedInv, when the core sends: what ends a request sends its buffer back.
LEMMA FreedSends ==
  ASSUME Known, EntryInv, FreedInv, NEW s \in Samples, SendFirst(s) \/ SendFinal(s) \/ SendReclaim(s)
  PROVE  FreedInv'
  <1>0. TypeInv /\ core \in [Samples -> {"none", "run", "streamed", "answered", "gone"}]
    BY TypeParts DEF Known, RestType
  <1>1. settings' = settings /\ reqBuf' = reqBuf /\ route[s] \in Groups
    BY SendMoves DEF Known, SendFirst, SendFinal, SendReclaim, CoreStep, routeVars, bufferVars
  <1> DEFINE g == route[s]
  <1>2. "nowhere" \notin {"spent", "reclaim"}
    OBVIOUS
  <1>3. ASSUME NEW c, Moves(s, g, "nowhere", c), NEW to, to # "gone", core' = [core EXCEPT ![s] = to]
        PROVE  FreedInv'
    <2>1. \A r \in Samples : core'[r] = "gone" => core[r] = "gone"
      BY <1>0, <1>3
    <2>2. g \in Groups
      BY <1>1
    <2> HIDE DEF g
    <2> QED  BY <1>1, <1>2, <1>3, <2>1, <2>2, FreedMoves
  <1>4. CASE SendFirst(s)
    BY <1>3, <1>4, SendMoves DEF SendFirst, CoreStep
  <1>5. CASE SendFinal(s)
    BY <1>3, <1>5, SendMoves DEF SendFinal, CoreStep
  <1>6. CASE SendReclaim(s)
    <2> DEFINE c == IF SessionSize > 1 THEN "spent" ELSE "none"
    <2>1. Moves(s, g, "nowhere", c) /\ g \in Groups
      BY <1>1, <1>6, SendMoves
    <2>2. core' = [core EXCEPT ![s] = "gone"]
      BY <1>6 DEF SendReclaim, CoreStep
    <2>3. \A r \in Samples : core'[r] = "gone" => core[r] = "gone" \/ r = s
      BY <1>0, <2>2
    <2>4. \A h \in Groups : s \in reqBuf[h] => h = g
      BY DEF EntryInv
    <2>5. SessionSize > 1 => c = "spent"
      OBVIOUS
    <2> HIDE DEF g, c
    <2>6. SessionSize > 1 => \A h \in Groups, r \in Samples :
            core'[r] = "gone" /\ r \in reqBuf'[h] =>
                \/ core[r] = "gone" /\ r \in reqBuf[h]
                \/ r = s /\ h = g /\ c = "spent"
      BY <1>1, <2>3, <2>4, <2>5
    <2> QED  BY <1>1, <1>2, <2>1, <2>6, FreedMoves
  <1> QED  BY <1>4, <1>5, <1>6

\* FreedInv, when a receiver accepts a message.
LEMMA FreedAccept ==
  ASSUME Known, FreedInv, NEW g \in Groups,
         RecvRequest(g) \/ RecvResponse(g) \/ RecvFirstToken(g)
  PROVE  FreedInv'
  <1>0. TypeInv /\ PlaceInv /\ reqBuf \in [Groups -> SUBSET Samples]
    BY TypeParts DEF Known, RestType
  <1>1. ASSUME NEW c, NEW d,
               <<c, d>> \in {<<"reqComm", "work">>, <<"respComm", "response">>, <<"firstComm", "first">>},
               Accept(c, d, g)
        PROVE  /\ Moves(Head(q[c][g]), g, c, d) /\ Head(q[c][g]) \in At(c, g)
               /\ settings' = settings /\ core' = core /\ c \notin {"spent", "reclaim"}
    BY <1>0, <1>1, AcceptMoves DEF Accept, routeVars
  <1>2. ASSUME NEW s, NEW c, NEW d, Moves(s, g, c, d), c \notin {"spent", "reclaim"},
               settings' = settings, core' = core,
               \A h \in Groups, r \in Samples :
                    r \in reqBuf'[h] => r \in reqBuf[h] \/ core[r] = "none"
        PROVE  FreedInv'
    <2>1. \A h \in Groups, r \in Samples :
            core'[r] = "gone" /\ r \in reqBuf'[h] => core[r] = "gone" /\ r \in reqBuf[h]
      BY <1>2
    <2> QED  BY <1>2, <2>1, FreedMoves
  <1>3. CASE RecvRequest(g)
    <2> DEFINE s == Head(q["reqComm"][g])
    <2>1. Moves(s, g, "reqComm", "work") /\ s \in At("reqComm", g) /\ settings' = settings
          /\ core' = core
      BY <1>1, <1>3 DEF RecvRequest
    <2>2. reqBuf' = [reqBuf EXCEPT ![g] = @ \cup {s}]
      BY <1>3 DEF RecvRequest
    <2> HIDE DEF s
    <2>3. core[s] = "none"
      BY <2>1 DEF Known, StageInv, Fits, Places, RequestPlaces
    <2>4. \A h \in Groups, r \in Samples : r \in reqBuf'[h] => r \in reqBuf[h] \/ core[r] = "none"
      BY <1>0, <2>2, <2>3
    <2> QED  BY <1>2, <2>1, <2>4
  <1>4. CASE RecvResponse(g)
    BY <1>1, <1>2, <1>4 DEF RecvResponse
  <1>5. CASE RecvFirstToken(g)
    BY <1>1, <1>2, <1>5 DEF RecvFirstToken
  <1> QED  BY <1>3, <1>4, <1>5

\* FreedInv, when the spent buffer is taken back.
LEMMA FreedReclaim ==
  ASSUME Known, FreedInv, NEW g \in Groups, Reclaim(g)
  PROVE  FreedInv'
  <1>0. TypeInv /\ PlaceInv /\ reqBuf \in [Groups -> SUBSET Samples]
    BY TypeParts DEF Known, RestType
  <1> DEFINE s == Head(local["reclaim"][g])
  <1>1. /\ settings' = settings /\ UNCHANGED <<q, deferred, core>>
        /\ reqBuf' = [reqBuf EXCEPT ![g] = @ \ {s}] /\ HasItem("reclaim", g) /\ Done("reclaim", g)
    BY DEF Reclaim, CleanBuffer, routeVars
  <1>2. Moves(s, g, "reclaim", "none")
    BY <1>0, <1>1, DoneMoves
  <1> HIDE DEF s
  <1>3. "spent" \in Places /\ "reclaim" \in Places /\ Groups' = Groups
    BY <1>1, SameGroups, BufferPlaces
  <1>4. \A h \in Groups : \A r : r \in reqBuf'[h] => r \in reqBuf[h] /\ ~(r = s /\ h = g)
    BY <1>0, <1>1
  <1>5. \A h \in Groups : \A r :
            /\ r \in At("spent", h) => r \in At("spent", h)'
            /\ r \in At("reclaim", h) /\ ~(r = s /\ h = g) => r \in At("reclaim", h)'
    BY <1>2, <1>3 DEF Moves
  <1> QED  BY <1>1, <1>3, <1>4, <1>5 DEF FreedInv

\* Every step keeps FreedInv.
LEMMA FreedNext ==
  ASSUME Known, EntryInv, FreedInv, [Next]_vars
  PROVE  FreedInv'
  <1>0. TypeInv /\ PlaceInv /\ core \in [Samples -> {"none", "run", "streamed", "answered", "gone"}]
    BY TypeParts DEF Known, RestType
  <1>1. ASSUME NEW g \in Groups, NEW s, NEW f, NEW t, Moves(s, g, f, t), f \notin {"spent", "reclaim"},
               UNCHANGED <<settings, reqBuf>>,
               \A r \in Samples : core'[r] = "gone" => core[r] = "gone"
        PROVE  FreedInv'
    BY <1>1, FreedMoves
  <1>2. ASSUME NEW s \in Samples, Issue(s) PROVE FreedInv'
    <2> DEFINE g == NextQueueIdx
    <2>1. g \in Groups /\ UNCHANGED <<settings, reqBuf, core>> /\ Moves(s, g, "none", "request")
      BY <1>0, <1>2, IssueType, IssueMoves DEF Issue, IssueMove, bufferVars
    <2> HIDE DEF g
    <2> QED  BY <1>1, <2>1
  <1>3. ASSUME NEW g \in Groups, Forwards(g) PROVE FreedInv'
    <2>1. PICK t, c : /\ <<t, c>> \in {<<"send", "reqComm">>, <<"wSend", "respComm">>, <<"wFirst", "firstComm">>}
                      /\ Forward(t, c, g)
      BY <1>3 DEF Forwards
    <2>2. Moves(Head(local[t][g]), g, t, c) /\ UNCHANGED <<settings, reqBuf, core>>
      BY <1>0, <2>1, ForwardMoves DEF Forward, routeVars, bufferVars
    <2>3. t \notin {"spent", "reclaim"}
      BY <2>1
    <2> QED  BY <1>1, <2>2, <2>3
  <1>4. ASSUME NEW g \in Groups, GetInferenceRequest(g) PROVE FreedInv'
    <2> DEFINE s == Head(q["work"][g])
    <2>1. Moves(s, g, "work", "none") /\ UNCHANGED <<settings, reqBuf>>
          /\ core' = [core EXCEPT ![s] = "run"]
      BY <1>0, <1>4, GetRequestMoves DEF GetInferenceRequest, routeVars, bufferVars
    <2> HIDE DEF s
    <2>2. \A r \in Samples : core'[r] = "gone" => core[r] = "gone"
      BY <1>0, <2>1
    <2> QED  BY <1>1, <2>1, <2>2
  <1>5. ASSUME NEW g \in Groups, ReportFirst(g) PROVE FreedInv'
    <2>1. Moves(Head(local["report"][g]), g, "report", "none") /\ UNCHANGED <<settings, reqBuf, core>>
      BY <1>0, <1>5, DoneMoves DEF ReportFirst, routeVars
    <2> QED  BY <1>1, <2>1
  <1>6. ASSUME NEW g \in Groups, Complete(g) PROVE FreedInv'
    <2>1. \E t : Moves(Head(local["complete"][g]), g, "complete", t)
      BY <1>0, <1>6, CompleteMoves
    <2>2. UNCHANGED <<settings, reqBuf, core>>
      BY <1>6 DEF Complete, routeVars
    <2> QED  BY <1>1, <2>1, <2>2
  <1>7. ASSUME UNCHANGED <<q, local, deferred, settings, reqBuf, core>> PROVE FreedInv'
    BY <1>0, <1>7, NothingMoves, FreedStays
  <1>8. ASSUME NEW s \in Samples, Age(s) PROVE FreedInv'
    BY <1>7, <1>8 DEF Age, threadVars, routeVars, bufferVars
  <1>9. ASSUME NEW g \in Groups, CountDown(g) PROVE FreedInv'
    BY <1>7, <1>9 DEF CountDown, CountDownBy, bufferVars
  <1>10. CASE Quiet
    BY <1>10, FreedStays DEF Quiet, bufferVars
  <1>11. ASSUME NEW g \in Groups, NEW t \in Sleepers, Drain(t, g) PROVE FreedInv'
    BY <1>0, <1>11, FreedDrains
  <1> QED  BY <1>0, <1>2, <1>3, <1>4, <1>5, <1>6, <1>8, <1>9, <1>10, <1>11, StepKinds,
              FreedSends, FreedAccept, FreedReclaim

-----------------------------------------------------------------------------
\* The invariant holds in the beginning and is kept.
LEMMA NowhereInit ==
  ASSUME Init
  PROVE  /\ \A p \in Places, g \in Groups : Unrepeated(Line(p, g)) /\ At(p, g) = {}
         /\ \A P \in {Answering, Reporting} : \A s : ~In(P, s)
  <1>1. TypeInv
    BY TypeInit
  <1>2. \A p \in Places, g \in Groups : Line(p, g) = <<>>
    <2>1. ASSUME NEW p \in Places, NEW g \in Groups PROVE Line(p, g) = <<>>
      <3>1. CASE Line(p, g) = deferred[g]
        BY <3>1 DEF Init
      <3>2. CASE p \in Sleepers /\ Line(p, g) = local[p][g]
        BY <3>2 DEF Init
      <3>3. CASE p \in Channels /\ Line(p, g) = q[p][g]
        BY <3>3 DEF Init
      <3> QED  BY <1>1, <3>1, <3>2, <3>3, LineType
    <2> QED  BY <2>1
  <1>3. \A p \in Places, g \in Groups : Unrepeated(Line(p, g)) /\ At(p, g) = {}
    BY <1>2, LineEmpty DEF At
  <1>4. Answering \subseteq Places /\ Reporting \subseteq Places
    BY BufferPlaces
  <1> QED  BY <1>3, <1>4 DEF In

\* The invariant holds initially.
LEMMA InvInit == Init => IInv
  <1> SUFFICES ASSUME Init PROVE IInv
    OBVIOUS
  <1>1. TypeInv
    BY TypeInit
  <1>2. PlaceInv /\ StageInv
    <2>1. \A s \in Samples : Stage(s)
      BY DEF Init, Stage
    <2> QED  BY <2>1, NowhereInit DEF PlaceInv, StageInv
  <1>3. CountInv
    <2>1. \A g \in Groups : Out(g) = {} /\ inFlight[g] = 0 /\ handled[g] = 0
      BY DEF Init, Out
    <2> QED  BY <2>1, FS_EmptySet DEF CountInv
  <1>4. ReportInv /\ EntryInv /\ EndInv
    BY DEF Init, ReportInv, EntryInv, EndInv
  <1>5. OwnInv
    <2>1. respBuf = {} /\ firstBuf = {}
      BY DEF Init
    <2>2. \A s : ~In(Answering, s) /\ ~In(Reporting, s)
      BY NowhereInit
    <2>3. \A g \in Groups : At("work", g) = {}
      BY NowhereInit, BufferPlaces
    <2> QED  BY <2>1, <2>2, <2>3 DEF OwnInv
  <1>6. FreedInv
    BY DEF Init, FreedInv
  <1> QED  BY <1>1, <1>2, <1>3, <1>4, <1>5, <1>6 DEF IInv

\* Every step keeps the invariant.
LEMMA InvNext == IInv /\ [Next]_vars => IInv'
  <1> SUFFICES ASSUME IInv, [Next]_vars PROVE IInv'
    OBVIOUS
  <1>1. Known /\ TypeInv /\ CountInv /\ ReportInv /\ EntryInv /\ EndInv /\ OwnInv /\ FreedInv
    BY DEF IInv, Known
  <1>2. TypeInv'
    BY <1>1, TypeNext
  <1>3. PlaceInv' /\ StageInv'
    BY <1>1, PlaceStageNext
  <1>4. CountInv' /\ ReportInv' /\ EntryInv' /\ EndInv'
    BY <1>1, CountNext, ReportNext, EntryNext, EndNext
  <1>5. OwnInv' /\ FreedInv'
    BY <1>1, OwnNext, FreedNext
  <1> QED  BY <1>2, <1>3, <1>4, <1>5 DEF IInv

\* The invariant always holds.
LEMMA InvAlways == Spec => []IInv
  BY InvInit, InvNext, PTL DEF Spec

-----------------------------------------------------------------------------
\* Every variable keeps its type: the queue IssueQuery picks exists under all
\* three policies (llm_server.cc distributes by mLastUsedQueueIdx, by share or
\* by the least busy counter), and an unsigned counter never runs below zero.
THEOREM TypeCorrect == Spec => []TypeOK
  <1>1. IInv => TypeOK
    BY DEF IInv, TypeInv
  <1> QED  BY <1>1, InvAlways, PTL

\* When every thread has ended, every sample has been completed.
LEMMA EndedCompleted ==
  ASSUME EndInv, AllEnded
  PROVE  \A s \in Samples : completions[s] > 0
  <1>1. Len(<<"test">>) = 1 /\ Len(<<>>) = 0
    OBVIOUS
  <1>2. main # <<"test">>
    BY <1>1 DEF AllEnded
  <1> QED  BY <1>2 DEF EndInv

\* mNumInFlightTransactions of a group is what it has been sent and has not
\* answered, plus the batch about to be subtracted; and when every thread has
\* ended it is zero, as the assertion at llm_server.cc:1448-1451 demands.
THEOREM InFlightCorrect == Spec => []InFlightIsOutstanding
  <1>1. ASSUME IInv PROVE InFlightIsOutstanding
    <2>1. TypeInv /\ CountInv /\ EndInv
      BY <1>1 DEF IInv
    <2>2. ASSUME AllEnded, NEW g \in Groups PROVE inFlight[g] = 0
      <3>1. \A s \in Samples : completions[s] > 0
        BY <2>1, <2>2, EndedCompleted
      <3>2. handled[g] = 0
        <4>1. <<"complete", g>> \in ended
          BY <2>2 DEF AllEnded, Threads, AllThreads, LoadGenThreads
        <4> QED  BY <2>1, <4>1 DEF EndInv
      <3>3. Out(g) = {}
        <4>1. issued \subseteq Samples /\ completions \in [Samples -> Nat]
          BY <2>1, TypeParts DEF RouteType, RestType
        <4> QED  BY <3>1, <4>1 DEF Out
      <3> QED  BY <2>1, <3>2, <3>3, FS_EmptySet DEF CountInv
    <2>3. \A g \in Groups : inFlight[g] = handled[g] +
            Cardinality({s \in issued : route[s] = g /\ completions[s] = 0})
      BY <2>1 DEF CountInv, Out
    <2> QED  BY <2>2, <2>3 DEF InFlightIsOutstanding
  <1> QED  BY <1>1, InvAlways, PTL

\* The lines that only samples go through hold them and nothing else.
LEMMA SampleLines ==
  ASSUME TypeInv, NEW g \in Groups
  PROVE  /\ At("response", g) = Elements(q["response"][g])
         /\ At("complete", g) = Elements(local["complete"][g])
         /\ At("deferred", g) = Elements(deferred[g])
         /\ At("first", g) = Elements(q["first"][g])
         /\ At("report", g) = Elements(local["report"][g])
         /\ At("work", g) = Elements(q["work"][g])
         /\ At("spent", g) = Elements(q["spent"][g])
         /\ At("reclaim", g) = Elements(local["reclaim"][g])
  <1>1. \A c \in {"response", "first", "work", "spent"} :
            q[c][g] \in Seq(Samples) /\ Line(c, g) = q[c][g]
    <2>1. \A c \in {"response", "first", "work", "spent"} :
            c \in Channels \ TermChannels /\ c \notin Sleepers /\ c # "deferred"
      BY DEF Channels, TermChannels, Sleepers, SleepsOn
    <2> QED  BY <2>1, TypeParts DEF Line, QueueType
  <1>2. \A t \in {"complete", "report", "reclaim"} :
            local[t][g] \in Seq(Samples) /\ Line(t, g) = local[t][g]
    <2>1. \A t \in {"complete", "report", "reclaim"} : t \in Sleepers /\ t # "deferred"
      BY DEF Sleepers, SleepsOn
    <2> QED  BY <2>1, TypeParts DEF Line, ThreadType
  <1>3. deferred[g] \in Seq(Samples) /\ Line("deferred", g) = deferred[g]
    BY TypeParts DEF Line, ThreadType
  <1> QED  BY <1>1, <1>2, <1>3, HeldSamples DEF At

\* A response or first token that LoadGen's process has received and not yet
\* reported owns its entry of the commBuffer, nothing else does, and a request
\* the core has yet to read has its entry (comm_buffer.h).
THEOREM OwnershipCorrect == Spec => []BuffersAreOwned
  <1>1. ASSUME IInv PROVE BuffersAreOwned
    <2>1. TypeInv /\ OwnInv
      BY <1>1 DEF IInv
    <2>2. \A s : In(Answering, s) <=> \E g \in Groups :
            s \in At("response", g) \/ s \in At("complete", g) \/ s \in At("deferred", g)
      BY DEF In, Answering
    <2>3. \A s : In(Reporting, s) <=> \E g \in Groups : s \in At("first", g) \/ s \in At("report", g)
      BY DEF In, Reporting
    <2>4. \A s : s \in respBuf <=> \E g \in Groups :
            s \in Elements(q["response"][g]) \cup Elements(local["complete"][g])
                    \cup Elements(deferred[g])
      BY <2>1, <2>2, SampleLines DEF OwnInv
    <2>5. \A s : s \in firstBuf <=> \E g \in Groups :
            s \in Elements(q["first"][g]) \cup Elements(local["report"][g])
      BY <2>1, <2>3, SampleLines DEF OwnInv
    <2>6. \A g \in Groups : Elements(q["work"][g]) \subseteq reqBuf[g]
      BY <2>1, SampleLines DEF OwnInv
    <2> QED  BY <2>4, <2>5, <2>6 DEF BuffersAreOwned
  <1> QED  BY <1>1, InvAlways, PTL

\* With more than one rank in a session, sendResponse hands every buffer entry
\* of a served request to reclaimResources (llm_core.cc:502), which has it or
\* has freed it for as long as its thread runs; with one rank it does not, which
\* the run mpi_reclaim shows. LoadGen's process ends with its own buffers and its
\* tracker empty, although its two receivers and reporters run apart. That the
\* leader's process ends so as well is false: the run mpi_missing_index.
THEOREM ReclaimCorrect ==
  ASSUME SessionSize > 1
  PROVE  Spec => []BuffersAreReclaimed
  <1>1. ASSUME IInv PROVE BuffersAreReclaimed
    <2>1. TypeInv /\ PlaceInv /\ StageInv /\ ReportInv /\ EndInv /\ OwnInv /\ FreedInv
      BY <1>1 DEF IInv
    <2>2. ASSUME NEW g \in Groups, NEW s \in Samples, core[s] = "gone", s \in reqBuf[g]
          PROVE  s \in Elements(q["spent"][g]) \cup Elements(local["reclaim"][g])
      <3>1. s \in At("spent", g) \cup At("reclaim", g)
        BY <2>1, <2>2 DEF FreedInv
      <3> QED  BY <2>1, <3>1, SampleLines
    <2>3. ASSUME AllEnded
          PROVE  /\ respBuf = {} /\ firstBuf = {}
                 /\ \A s \in Samples : tracker[s] = "out"
      <3>1. \A s \in Samples : completions[s] > 0
        BY <2>1, <2>3, EndedCompleted
      <3>2. ASSUME NEW p \in Places, NEW g \in Groups, NEW s \in At(p, g)
            PROVE  s \in Samples /\ Fits(p, s)
        <4>1. s \in issued /\ issued \subseteq Samples
          BY <2>1, TypeParts DEF PlaceInv, RouteType
        <4> QED  BY <2>1, <4>1 DEF StageInv
      <3>3. \A s : ~In(Answering, s)
        <4> SUFFICES ASSUME NEW s, NEW p \in Answering, NEW g \in Groups, s \in At(p, g)
                     PROVE  FALSE
          BY DEF In
        <4>1. s \in Samples /\ completions[s] = 0
          BY <3>2, BufferPlaces DEF Fits
        <4> QED  BY <3>1, <4>1
      <3>4. \A s : ~In(Reporting, s)
        <4> SUFFICES ASSUME NEW s, NEW p \in Reporting, NEW g \in Groups, s \in At(p, g)
                     PROVE  FALSE
          BY DEF In
        <4>1. s \in Samples /\ settings.streaming /\ firstTokens[s] = 0
          BY <3>2, BufferPlaces DEF Fits
        <4>2. completions[s] > 0 /\ completions[s] \in {0, 1}
          BY <2>1, <3>1, <4>1 DEF ReportInv
        <4>3. firstTokens[s] = 1
          BY <2>1, <4>1, <4>2 DEF ReportInv
        <4> QED  BY <4>1, <4>3
      <3>5. respBuf = {} /\ firstBuf = {}
        BY <2>1, <3>3, <3>4 DEF OwnInv
      <3>6. \A s \in Samples : tracker[s] = "out"
        BY <2>1, <3>1 DEF ReportInv
      <3> QED  BY <3>5, <3>6
    <2> QED  BY <2>2, <2>3 DEF BuffersAreReclaimed
  <1> QED  BY <1>1, InvAlways, PTL

\* The initial states of the server are initial states of the contract.
LEMMA ContractInit == Init => Contract!Init
  BY DEF Init, Contract!Init

\* Every step is a step of the contract or leaves what LoadGen sees alone.
LEMMA ContractStep == IInv /\ [Next]_vars => [Contract!Next]_(Contract!vars)
  <1> SUFFICES ASSUME IInv, [Next]_vars PROVE [Contract!Next]_(Contract!vars)
    OBVIOUS
  <1>0. Known /\ TypeInv /\ PlaceInv /\ ReportInv
    BY DEF IInv, Known
  <1>1. ASSUME NEW s \in Samples, Issue(s) PROVE Contract!Next
    <2>1. Contract!Issue(s)
      BY <1>0, <1>1, IssueType DEF Issue, Contract!Issue
    <2> QED  BY <2>1 DEF Contract!Next
  <1>2. ASSUME NEW g \in Groups, ReportFirst(g) PROVE Contract!Next
    <2> DEFINE s == Head(local["report"][g])
    <2>1. /\ s \in Samples /\ s \in issued /\ firstTokens[s] = 0 /\ completions[s] = 0
          /\ firstTokens' = [firstTokens EXCEPT ![s] = 1] /\ UNCHANGED <<issued, completions>>
      BY <1>0, <1>2, ReportFirstFacts
    <2> HIDE DEF s
    <2>2. Contract!FirstToken(s)
      BY <2>1 DEF Contract!FirstToken
    <2> QED  BY <2>1, <2>2 DEF Contract!Next
  <1>3. ASSUME NEW g \in Groups, Complete(g) PROVE [Contract!Next]_(Contract!vars)
    <2> DEFINE s == Head(local["complete"][g])
    <2>1. /\ s \in Samples /\ s \in issued /\ completions[s] = 0
          /\ MayComplete(s) => completions' = [completions EXCEPT ![s] = 1]
          /\ ~MayComplete(s) => completions' = completions
          /\ UNCHANGED <<issued, firstTokens>>
      BY <1>0, <1>3, CompleteFacts
    <2> HIDE DEF s
    <2>2. CASE MayComplete(s)
      <3>1. Contract!Complete(s)
        BY <2>1, <2>2 DEF Contract!Complete
      <3> QED  BY <2>1, <3>1 DEF Contract!Next
    <2>3. CASE ~MayComplete(s)
      BY <2>1, <2>3 DEF Contract!vars
    <2> QED  BY <2>2, <2>3
  <1>4. UNCHANGED loadgenVars => UNCHANGED Contract!vars
    BY DEF loadgenVars, Contract!vars
  <1>5. ASSUME NEW s \in Samples, Age(s) \/ SendFirst(s) \/ SendFinal(s) \/ SendReclaim(s)
        PROVE  UNCHANGED Contract!vars
    BY <1>4, <1>5 DEF Age, SendFirst, SendFinal, SendReclaim, CoreStep
  <1>6. ASSUME NEW g \in Groups,
               \/ \E t \in Sleepers : Drain(t, g)
               \/ Forwards(g) \/ RecvRequest(g) \/ RecvResponse(g) \/ RecvFirstToken(g)
               \/ CountDown(g) \/ Reclaim(g) \/ GetInferenceRequest(g)
        PROVE  UNCHANGED Contract!vars
    BY <1>4, <1>6 DEF Drain, Forwards, Forward, RecvRequest, RecvResponse, RecvFirstToken, Accept,
                      CountDown, CountDownBy, Reclaim, GetInferenceRequest
  <1>7. CASE Quiet
    BY <1>4, <1>7 DEF Quiet
  <1> QED  BY <1>0, <1>1, <1>2, <1>3, <1>5, <1>6, <1>7, StepKinds

\* The safety part of LoadGen's contract: a sample that was issued gets at most
\* one FirstTokenComplete, then exactly one QuerySamplesComplete, although the
\* two travel over separate communicators and threads (responseCompleteThread
\* defers a response until its first token has been reported).
THEOREM ImplementsContract == Spec => Contract!Spec
  BY InvAlways, ContractInit, ContractStep, PTL DEF Spec, Contract!Spec

=============================================================================
