----------------------------- MODULE LwisProofs -----------------------------
(***************************************************************************)
(* What holds of Lwis for any number of devices, streams, completion       *)
(* threads and samples, any batch sizes and any layout of the samples.     *)
(***************************************************************************)
EXTENDS Lwis, CollectionLemmas

-----------------------------------------------------------------------------
(***************************************************************************)
(* The inductive invariant.                                                *)
(***************************************************************************)
\* A batcher takes streams of its device only; it has samples in hand exactly
\* when it has not gone to acquire some.
BatcherOk(b) ==
    /\ b \notin Batchers => bpc[b] = "gone"
    /\ settings.batcherPerDevice => bdev[b] = b
    /\ bpc[b] \in {"front", "pop", "issue"} => hand[b] # <<>>
    /\ bpc[b] \in {"acquire", "gone"} => hand[b] = <<>>
    /\ bpc[b] = "pop" => /\ streamQueue[bdev[b]] # <<>>
                         /\ bstream[b] = Head(streamQueue[bdev[b]])
    /\ bpc[b] = "issue" => bstream[b] \in Streams /\ bstream[b][1] = bdev[b]
Running == {b \in Devices : bpc[b] # "gone"}
BatcherInv == deviceNum = Cardinality(Running) /\ \A b \in Devices : BatcherOk(b)

\* A null sample comes alone, after the test.
WorkInv ==
    \/ workQueue \in Seq(Samples)
    \/ workQueue = <<End>> /\ dpc \notin {"test", "joinCompletion"}

\* What lies in a queue or in the hands of a thread of device d belongs to d.
Fit(batch, d) == batch = NoBatch \/ (batch.stream \in Streams /\ batch.stream[1] = d)
AllFit(queue, d) == \A i \in DOMAIN queue : Fit(queue[i], d)
StreamsFit(queue, d) == \A i \in DOMAIN queue : queue[i][1] = d
HomeInv ==
    /\ \A d \in Devices :
        /\ StreamsFit(streamQueue[d], d) /\ AllFit(issueQueue[d], d)
        /\ AllFit(completionQueue[d], d)
        /\ Fit(ibatch[d], d) /\ (ipc[d] = "issue" <=> ibatch[d] # NoBatch)
    /\ \A c \in Completers :
        Fit(cbatch[c], c[1]) /\ (cpc[c] \in {"sync", "return"} <=> cbatch[c] # NoBatch)

\* The places of a stream.
Carries(queue, s) == \E i \in DOMAIN queue : queue[i].stream = s

Free(s) == Has(streamQueue[s[1]], s)
Picked(s) == \E b \in Devices : bpc[b] = "issue" /\ bstream[b] = s
Queued(s) == Carries(issueQueue[s[1]], s)
Taken(s) == ibatch[s[1]].stream = s
Pending(s) == Carries(completionQueue[s[1]], s)
Busy(s) == \E c \in Completers : cbatch[c].stream = s

PlaceNames == {"free", "picked", "queued", "taken", "pending", "busy"}
LocatedAt(s, p) ==
    /\ p = "free" <=> Free(s)
    /\ p = "picked" <=> Picked(s)
    /\ p = "queued" <=> Queued(s)
    /\ p = "taken" <=> Taken(s)
    /\ p = "pending" <=> Pending(s)
    /\ p = "busy" <=> Busy(s)

PlaceInv == \A s \in Streams : \E p \in PlaceNames : LocatedAt(s, p)

\* A stream is only once where it is.
Single(queue) ==
    \A i, j \in DOMAIN queue :
        queue[i].stream = queue[j].stream /\ queue[i].stream # NoStream => i = j

OnceInv ==
    /\ \A d \in Devices :
        Distinct(streamQueue[d]) /\ Single(issueQueue[d]) /\ Single(completionQueue[d])
    /\ \A b1, b2 \in Devices :
        bpc[b1] = "issue" /\ bpc[b2] = "issue" /\ bstream[b1] = bstream[b2] => b1 = b2
    /\ \A c1, c2 \in Completers :
        cbatch[c1].stream = cbatch[c2].stream /\ cbatch[c1] # NoBatch => c1 = c2

\* Batches that are still to be issued, and those to be answered.
Waiting(e) == \E d \in Devices : ibatch[d] = e \/ Has(issueQueue[d], e)
Launched(e) ==
    \/ \E c \in Completers : cpc[c] = "sync" /\ cbatch[c] = e
    \/ \E d \in Devices : Has(completionQueue[d], e)

\* The inputs of a stream are those of its batch until that is answered.
LoadInv == \A e \in Batch \ {NoBatch} : Launched(e) => loaded[e.stream] = Places(e.samples)

\* Who has each sample: nobody yet, the work queue, a batcher, the batch on a
\* stream, or LoadGen, which has been given its output.
Unissued == <<"none", 0>>
InQueue == <<"queue", 0>>
InHand(b) == <<"hand", b>>
OnStream(s) == <<"stream", s>>
Answered == <<"answered", 0>>

\* A list of different samples that all have the same owner.
OwnedBy(owner, samples, party) ==
    Distinct(samples) /\ \A s \in Samples : Has(samples, s) => owner[s] = party

TellsAnswers(owner) == \A s \in Samples :
    /\ s > issued => owner[s] = Unissued
    /\ answers[s] = IF owner[s] = Answered THEN <<Index[s]>> ELSE <<>>
TellsQueue(owner) == workQueue = <<End>> \/ OwnedBy(owner, workQueue, InQueue)
TellsHands(owner) == \A b \in Devices : OwnedBy(owner, hand[b], InHand(b))
TellsBatches(owner) == \A e \in Batch \ {NoBatch} :
    Waiting(e) \/ Launched(e) => OwnedBy(owner, e.samples, OnStream(e.stream))
Tells(owner) ==
    TellsAnswers(owner) /\ TellsQueue(owner) /\ TellsHands(owner) /\ TellsBatches(owner)

Owners ==
    {Unissued, InQueue, Answered} \cup {InHand(b) : b \in Devices}
        \cup {OnStream(s) : s \in Streams}
OwnerInv == \E owner \in [Samples -> Owners] : Tells(owner)

IInv ==
    /\ TypeOK /\ BatcherInv /\ WorkInv /\ HomeInv /\ PlaceInv /\ OnceInv
    /\ LoadInv /\ OwnerInv

-----------------------------------------------------------------------------
USE DEF batcherVars, issueVars, gpuVars, completionVars

\* What the constants are.
LEMMA ConstantTypes ==
  /\ NumDevices \in Nat \ {0} /\ NumStreams \in Nat \ {0} /\ CompleteThreads \in Nat \ {0}
  /\ IsFiniteSet(Devices) /\ Cardinality(Devices) = NumDevices /\ 1 \in Devices
  /\ \A s \in Streams : s[1] \in Devices /\ s # NoStream
  /\ \A c \in Completers : c[1] \in Devices
  /\ \A d \in Devices : \A i \in 1..NumStreams : <<d, i>> \in Streams /\ <<d, i>>[1] = d
  /\ NoStream \notin Streams /\ NoBatch \in Batch /\ NoBatch.stream = NoStream
  /\ Samples = 1..Len(Index) /\ Len(Index) \in Nat /\ End \notin Samples
  /\ \A s \in Samples : Index[s] \in Nat
  <1>1. NumDevices \in Nat \ {0} /\ NumStreams \in Nat \ {0} /\ CompleteThreads \in Nat \ {0}
        /\ Index \in Seq(Nat)
    BY LwisAssumption
  <1>2. IsFiniteSet(Devices) /\ Cardinality(Devices) = NumDevices /\ 1 \in Devices
    BY <1>1, CardInterval DEF Devices
  <1>3. /\ \A s \in Streams : s[1] \in Devices /\ s # NoStream
        /\ \A c \in Completers : c[1] \in Devices
        /\ \A d \in Devices : \A i \in 1..NumStreams : <<d, i>> \in Streams /\ <<d, i>>[1] = d
        /\ NoStream \notin Streams
    BY <1>1 DEF Devices, Streams, Completers, NoStream
  <1>4. NoBatch \in Batch /\ NoBatch.stream = NoStream
    BY EmptySeqType DEF NoBatch, Batch
  <1>5. Samples = 1..Len(Index) /\ Len(Index) \in Nat /\ End \notin Samples
        /\ \A s \in Samples : Index[s] \in Nat
    BY <1>1 DEF Samples, End
  <1> QED  BY <1>1, <1>2, <1>3, <1>4, <1>5

\* The size of a batch, as the constants give it.
LEMMA SizeType == \A d \in Devices : BatchSize[d] \in Nat /\ BatchSize[d] > 0
  BY LwisAssumption

-----------------------------------------------------------------------------
(***************************************************************************)
(* Queues of batches, and the copies of their samples.                     *)
(***************************************************************************)
LEMMA AppendCarries ==
  ASSUME NEW queue \in Seq(Batch), NEW e \in Batch
  PROVE  /\ Append(queue, e) \in Seq(Batch)
         /\ \A s : Carries(Append(queue, e), s) <=> Carries(queue, s) \/ e.stream = s
         /\ \A i \in DOMAIN Append(queue, e) : Append(queue, e)[i] = e \/ Has(queue, Append(queue, e)[i])
         /\ Single(queue) /\ (e.stream = NoStream \/ ~Carries(queue, e.stream))
                => Single(Append(queue, e))
  <1> DEFINE r == Append(queue, e)
  <1>1. /\ r \in Seq(Batch) /\ DOMAIN queue = 1..Len(queue) /\ DOMAIN r = 1..(Len(queue) + 1)
        /\ Len(queue) \in Nat /\ \A i \in 1..Len(queue) : r[i] = queue[i]
        /\ r[Len(queue) + 1] = e
    OBVIOUS
  <1> HIDE DEF r
  <1>2. /\ \A i \in DOMAIN r : i = Len(queue) + 1 \/ (i \in DOMAIN queue /\ r[i] = queue[i])
        /\ \A i \in DOMAIN queue : i \in DOMAIN r /\ r[i] = queue[i]
        /\ Len(queue) + 1 \in DOMAIN r
    BY <1>1
  <1>3. \A s : Carries(r, s) <=> Carries(queue, s) \/ e.stream = s
    BY <1>1, <1>2 DEF Carries
  <1>4. \A i \in DOMAIN r : r[i] = e \/ Has(queue, r[i])
    BY <1>1, <1>2 DEF Has
  <1>5. ASSUME Single(queue), e.stream = NoStream \/ ~Carries(queue, e.stream) PROVE Single(r)
    BY <1>1, <1>2, <1>5 DEF Single, Carries
  <1> QED  BY <1>1, <1>3, <1>4, <1>5 DEF r

\* Without its head a queue carries the streams of the others.
LEMMA TailCarries ==
  ASSUME NEW queue \in Seq(Batch), queue # <<>>, Single(queue)
  PROVE  /\ Tail(queue) \in Seq(Batch) /\ Head(queue) \in Batch /\ Has(queue, Head(queue))
         /\ Carries(queue, Head(queue).stream)
         /\ \A s \in Streams : Carries(Tail(queue), s) <=> Carries(queue, s) /\ s # Head(queue).stream
         /\ \A i \in DOMAIN Tail(queue) : Has(queue, Tail(queue)[i])
         /\ Single(Tail(queue))
  <1> DEFINE r == Tail(queue)
             h == Head(queue)
  <1>1. /\ h \in Batch /\ h = queue[1] /\ 1 \in DOMAIN queue /\ r \in Seq(Batch)
        /\ \A i \in DOMAIN r : i \in Nat \ {0} /\ i + 1 \in DOMAIN queue /\ r[i] = queue[i + 1]
        /\ \A i \in DOMAIN queue \ {1} : i - 1 \in DOMAIN r /\ r[i - 1] = queue[i]
    <2>1. \A i \in DOMAIN Tail(queue) : i \in Nat \ {0}
      BY HeadTail, ElementType
    <2> QED  BY <2>1, HeadTail
  <1> HIDE DEF r, h
  <1>2. \A s \in Streams : s # NoStream
    BY ConstantTypes
  <1>3. ASSUME NEW s \in Streams, Carries(r, s) PROVE Carries(queue, s) /\ s # h.stream
    <2>1. PICK i \in DOMAIN r : r[i].stream = s
      BY <1>3 DEF Carries
    <2>2. i + 1 \in DOMAIN queue /\ queue[i + 1].stream = s /\ i + 1 # 1
      BY <1>1, <2>1
    <2> QED  BY <1>1, <1>2, <2>2 DEF Carries, Single
  <1>4. ASSUME NEW s \in Streams, Carries(queue, s), s # h.stream PROVE Carries(r, s)
    <2>1. PICK i \in DOMAIN queue : queue[i].stream = s
      BY <1>4 DEF Carries
    <2>2. i # 1
      BY <1>1, <1>4, <2>1
    <2> QED  BY <1>1, <2>1, <2>2 DEF Carries
  <1>5. \A i \in DOMAIN r : Has(queue, r[i])
    BY <1>1 DEF Has
  <1>6. Single(r)
    <2> SUFFICES ASSUME NEW i \in DOMAIN r, NEW j \in DOMAIN r,
                        r[i].stream = r[j].stream, r[i].stream # NoStream
                 PROVE  i = j
      BY DEF Single
    <2>1. i + 1 = j + 1
      BY <1>1 DEF Single
    <2> QED  BY <1>1, <2>1
  <1>7. Has(queue, h) /\ Carries(queue, h.stream)
    BY <1>1 DEF Has, Carries
  <1> QED  BY <1>1, <1>3, <1>4, <1>5, <1>6, <1>7 DEF r, h

\* The null batches of Done are on no stream.
LEMMA NullsCarry ==
  ASSUME NEW queue \in Seq(Batch)
  PROVE  /\ queue \o NullBatches \in Seq(Batch)
         /\ \A s \in Streams : Carries(queue \o NullBatches, s) <=> Carries(queue, s)
         /\ \A i \in DOMAIN (queue \o NullBatches) :
                (queue \o NullBatches)[i] = NoBatch \/ Has(queue, (queue \o NullBatches)[i])
         /\ Single(queue) => Single(queue \o NullBatches)
  <1> DEFINE nulls == NullBatches
             r == queue \o nulls
  <1>1. nulls \in Seq(Batch) /\ Len(nulls) = CompleteThreads
        /\ \A i \in 1..CompleteThreads : nulls[i] = NoBatch
    <2>1. nulls \in [1..CompleteThreads -> Batch] /\ CompleteThreads \in Nat
      BY ConstantTypes DEF NullBatches
    <2> QED  BY <2>1 DEF NullBatches
  <1> HIDE DEF nulls
  <1>2. /\ r \in Seq(Batch) /\ DOMAIN r = 1..(Len(queue) + CompleteThreads) /\ Len(queue) \in Nat
        /\ DOMAIN queue = 1..Len(queue) /\ CompleteThreads \in Nat
        /\ \A i \in 1..Len(queue) : r[i] = queue[i]
    BY <1>1, ConstantTypes
  <1>3. ASSUME NEW i \in DOMAIN r, i \notin DOMAIN queue PROVE r[i] = NoBatch
    <2>1. i - Len(queue) \in 1..CompleteThreads /\ i > Len(queue) /\ i <= Len(queue) + Len(nulls)
      BY <1>1, <1>2, <1>3
    <2>2. r[i] = nulls[i - Len(queue)]
      BY <1>1, <2>1
    <2> QED  BY <1>1, <2>1, <2>2
  <1>4. \A i \in DOMAIN queue : i \in DOMAIN r /\ r[i] = queue[i]
    BY <1>2
  <1> HIDE DEF r
  <1>5. NoBatch.stream = NoStream /\ \A s \in Streams : s # NoStream
    BY ConstantTypes
  <1>6. \A s \in Streams : Carries(r, s) <=> Carries(queue, s)
    BY <1>3, <1>4, <1>5 DEF Carries
  <1>7. \A i \in DOMAIN r : r[i] = NoBatch \/ Has(queue, r[i])
    BY <1>3, <1>4 DEF Has
  <1>8. Single(queue) => Single(r)
    BY <1>3, <1>4, <1>5 DEF Single
  <1> QED  BY <1>2, <1>6, <1>7, <1>8 DEF r, nulls

\* One copy for all samples of a batch brings the same inputs as a copy of each,
\* if each lies behind the one before it.
LEMMA CopiesAreOwn ==
  ASSUME NEW samples \in Seq(Samples)
  PROVE  /\ CopySamples(samples) = Places(samples) /\ Places(samples) \in Seq(Nat)
         /\ DOMAIN Places(samples) = DOMAIN samples
         /\ \A i \in DOMAIN samples : Places(samples)[i] = Index[samples[i]]
  <1> DEFINE places == Places(samples)
  <1>1. DOMAIN places = DOMAIN samples /\ \A i \in DOMAIN samples : places[i] = Index[samples[i]]
    BY DEF Places
  <1>2. DOMAIN samples = 1..Len(samples) /\ Len(samples) \in Nat
        /\ \A i \in DOMAIN samples : Index[samples[i]] \in Nat
    BY ConstantTypes
  <1>3. places \in [1..Len(samples) -> Nat]
    BY <1>2 DEF Places
  <1>4. places \in Seq(Nat) /\ Len(places) = Len(samples)
    BY <1>2, <1>3
  <1> HIDE DEF places
  <1>5. ASSUME Contiguous(places) PROVE \A i \in DOMAIN places : places[i] = Head(places) + i - 1
    <2> DEFINE bad == {i \in DOMAIN places : places[i] # Head(places) + i - 1}
    <2>1. bad \subseteq Nat
      BY <1>1, <1>2
    <2>2. ASSUME bad # {} PROVE FALSE
      <3>1. PICK i \in bad : \A j \in bad : i <= j
        BY <2>1, <2>2, NatMin
      <3>2. /\ i \in 1..Len(places) /\ Head(places) = places[1] /\ places[i] # Head(places) + i - 1
            /\ places[1] \in Nat
        BY <1>1, <1>2, <1>3, <1>4, <3>1
      <3>3. CASE i = 1
        BY <3>2, <3>3
      <3>4. CASE i # 1
        <4>1. i - 1 \in 1..(Len(places) - 1) /\ i - 1 \in DOMAIN places /\ i - 1 + 1 = i /\ i - 1 \notin bad
          BY <1>1, <1>2, <1>4, <3>1, <3>2, <3>4
        <4>2. places[i] = places[i - 1] + 1
          BY <1>5, <4>1 DEF Contiguous
        <4>3. places[i - 1] = Head(places) + (i - 1) - 1
          BY <4>1
        <4> QED  BY <3>2, <4>1, <4>2, <4>3
      <3> QED  BY <3>3, <3>4
    <2> QED  BY <2>2
  <1>6. CopySamples(samples) = IF Contiguous(places) THEN [i \in DOMAIN places |-> Head(places) + i - 1]
                               ELSE places
    BY DEF CopySamples, places
  <1>7. places = [i \in DOMAIN places |-> places[i]]
    BY <1>3
  <1> QED  BY <1>1, <1>4, <1>5, <1>6, <1>7 DEF places

-----------------------------------------------------------------------------
(***************************************************************************)
(* Types.                                                                  *)
(***************************************************************************)
WorkType ==
    /\ settings \in Settings /\ issued \in 0..Len(Index)
    /\ workQueue \in Seq(Samples \cup {End}) /\ answers \in [Samples -> Seq(Nat)]
    /\ dpc \in {"test", "joinCompletion", "drain", "join", "over"}

BatcherPcs == {"device", "acquire", "front", "pop", "issue", "gone"}
BatcherType ==
    /\ deviceNum \in 0..NumDevices /\ deviceIndex \in Devices
    /\ bpc \in [Devices -> BatcherPcs]
    /\ bdev \in [Devices -> Devices] /\ hand \in [Devices -> Seq(Samples)]
    /\ bstream \in [Devices -> Streams \cup {NoStream}]

IssueType ==
    /\ issueQueue \in [Devices -> Seq(Batch)] /\ ibatch \in [Devices -> Batch]
    /\ ipc \in [Devices -> {"wait", "issue", "gone"}]

QueueType ==
    /\ streamQueue \in [Devices -> Seq(Streams)]
    /\ loaded \in [Streams -> Seq(Nat)] /\ computed \in [Streams -> Seq(Nat)]
    /\ completionQueue \in [Devices -> Seq(Batch)]
    /\ cpc \in [Completers -> {"pop", "sync", "return", "gone"}]
    /\ cbatch \in [Completers -> Batch]

\* The type invariant, a group of variables at a time.
LEMMA TypeParts == TypeOK <=> WorkType /\ BatcherType /\ IssueType /\ QueueType
  BY DEF TypeOK, WorkType, BatcherType, BatcherPcs, IssueType, QueueType

\* What does not change keeps its type.
LEMMA TypeSame ==
  /\ WorkType /\ UNCHANGED <<settings, issued, workQueue, answers, dpc>> => WorkType'
  /\ BatcherType /\ UNCHANGED batcherVars => BatcherType'
  /\ IssueType /\ UNCHANGED issueVars => IssueType'
  /\ QueueType /\ UNCHANGED <<streamQueue, gpuVars, completionVars>> => QueueType'
  <1>1. WorkType /\ UNCHANGED <<settings, issued, workQueue, answers, dpc>> => WorkType'
    BY DEF WorkType
  <1>2. BatcherType /\ UNCHANGED batcherVars => BatcherType'
    BY DEF BatcherType
  <1>3. IssueType /\ UNCHANGED issueVars => IssueType'
    BY DEF IssueType
  <1>4. QueueType /\ UNCHANGED <<streamQueue, gpuVars, completionVars>> => QueueType'
    BY DEF QueueType
  <1> QED  BY <1>1, <1>2, <1>3, <1>4

\* The parts of the type after a step.
LEMMA TypeStep == WorkType' /\ BatcherType' /\ IssueType' /\ QueueType' => TypeOK'
  BY TypeParts, PTL

\* A query is a list of samples that were not issued before.
LEMMA QueryType ==
  ASSUME TypeOK, NEW n \in QuerySizes, issued + n <= Len(Index)
  PROVE  LET query == [i \in 1..n |-> issued + i]
         IN  query \in Seq(Samples) /\ Len(query) = n /\ n \in Nat \ {0} /\ issued \in Nat
  <1>1. n \in Nat \ {0} /\ issued \in Nat
    BY LwisAssumption DEF TypeOK
  <1>2. \A i \in 1..n : issued + i \in Samples
    BY <1>1, ConstantTypes
  <1> DEFINE query == [i \in 1..n |-> issued + i]
  <1>3. query \in [1..n -> Samples]
    BY <1>2
  <1> HIDE DEF query
  <1>4. query \in Seq(Samples) /\ Len(query) = n
    BY <1>1, <1>3
  <1> QED  BY <1>1, <1>4 DEF query

\* A batcher that acquires takes the null sample and ends, or some samples.
Ends(b) ==
    /\ workQueue = <<End>> /\ workQueue' = <<>>
    /\ dpc \notin {"test", "joinCompletion"}
    /\ hand' = [hand EXCEPT ![b] = <<>>]
    /\ deviceNum' = deviceNum - 1 /\ bpc' = [bpc EXCEPT ![b] = "gone"]
Gets(b, n) ==
    /\ workQueue \in Seq(Samples) /\ workQueue' = SubSeq(workQueue, n + 1, Len(workQueue))
    /\ hand' = [hand EXCEPT ![b] = SubSeq(workQueue, 1, n)]
    /\ deviceNum' = deviceNum /\ bpc' = [bpc EXCEPT ![b] = "front"]

\* Acquiring from the work queue comes to one of the two.
LEMMA AcquireStep ==
  ASSUME TypeOK, WorkInv, NEW b \in Devices, Acquire(b)
  PROVE  Ends(b) \/ \E n \in 1..Len(workQueue) : Gets(b, n)
  <1> DEFINE size == BatchSize[bdev[b]]
             n == IF Limited /\ Len(workQueue) > size THEN size ELSE Len(workQueue)
             ends == Head(workQueue) = End
  <1>1. workQueue # <<>> /\ workQueue \in Seq(Samples \cup {End}) /\ bdev[b] \in Devices
    BY DEF Acquire, AcquireIf, TypeOK
  <1>2. Len(workQueue) \in Nat /\ Len(workQueue) > 0 /\ size \in Nat /\ size > 0
    BY <1>1, SizeType
  <1>3. n \in 1..Len(workQueue)
    BY <1>2
  <1>4. /\ workQueue' = SubSeq(workQueue, n + 1, Len(workQueue))
        /\ hand' = [hand EXCEPT ![b] = IF ends THEN <<>> ELSE SubSeq(workQueue, 1, n)]
        /\ deviceNum' = (IF ends THEN deviceNum - 1 ELSE deviceNum)
        /\ bpc' = [bpc EXCEPT ![b] = IF ends THEN "gone" ELSE "front"]
    BY DEF Acquire, AcquireIf
  <1> HIDE DEF n
  <1>5. CASE ends
    <2>1. workQueue \notin Seq(Samples)
      BY <1>1, <1>5, HeadTail, ConstantTypes
    <2>2. workQueue = <<End>> /\ dpc \notin {"test", "joinCompletion"}
      BY <2>1 DEF WorkInv
    <2>3. Len(workQueue) = 1 /\ n = 1
      BY <1>3, <2>2
    <2>4. SubSeq(workQueue, n + 1, Len(workQueue)) = <<>>
      BY <2>3, SubSeqEmpty
    <2> QED  BY <1>4, <1>5, <2>2, <2>4 DEF Ends
  <1>6. CASE ~ends
    <2>1. workQueue # <<End>>
      BY <1>6
    <2> QED  BY <1>3, <1>4, <1>6, <2>1 DEF WorkInv, Gets
  <1> QED  BY <1>5, <1>6

\* The next batch: the first n samples in hand, on the stream that was picked.
Cut(b, n) == [samples |-> SubSeq(hand[b], 1, n), stream |-> bstream[b]]
Cuts(b, n) ==
    /\ hand' = [hand EXCEPT ![b] = SubSeq(@, n + 1, Len(@))]
    /\ \/ /\ settings.cudaThread /\ UNCHANGED <<loaded, completionQueue>>
          /\ issueQueue' = [issueQueue EXCEPT ![bdev[b]] = Append(@, Cut(b, n))]
       \/ IssueBatch(Cut(b, n)) /\ UNCHANGED issueQueue

\* The next batch is cut from the front of what the batcher has in hand.
LEMMA NextBatchStep ==
  ASSUME TypeOK, BatcherInv, NEW b \in Devices, NextBatch(b)
  PROVE  \E n \in 1..Len(hand[b]) :
            /\ Cuts(b, n) /\ Cut(b, n) \in Batch
            /\ Cut(b, n).stream = bstream[b] /\ bstream[b] \in Streams /\ bstream[b][1] = bdev[b]
  <1>1. hand[b] \in Seq(Samples) /\ hand[b] # <<>> /\ bdev[b] \in Devices
        /\ bstream[b] \in Streams /\ bstream[b][1] = bdev[b]
    BY DEF NextBatch, TypeOK, BatcherInv, BatcherOk
  <1> DEFINE n == IF Len(hand[b]) < BatchSize[bdev[b]] THEN Len(hand[b]) ELSE BatchSize[bdev[b]]
  <1>2. n \in 1..Len(hand[b])
    <2>1. Len(hand[b]) \in Nat /\ Len(hand[b]) > 0
      BY <1>1
    <2>2. BatchSize[bdev[b]] \in Nat /\ BatchSize[bdev[b]] > 0
      BY <1>1, SizeType
    <2> QED  BY <2>1, <2>2
  <1>3. Cuts(b, n)
    BY DEF NextBatch, Cuts, Cut
  <1> HIDE DEF n
  <1>4. SubSeq(hand[b], 1, n) \in Seq(Samples)
    <2>1. n \in 0..Len(hand[b])
      BY <1>2
    <2> QED  BY <1>1, <2>1, SplitSeq
  <1>5. Cut(b, n) \in Batch /\ Cut(b, n).stream = bstream[b]
    BY <1>1, <1>4 DEF Cut, Batch
  <1> QED  BY <1>1, <1>2, <1>3, <1>5

\* What a batch brings with it when it is issued.
LEMMA IssueBatchType ==
  ASSUME QueueType, NEW batch \in Batch, batch.stream \in Streams, IssueBatch(batch)
  PROVE  /\ loaded' = [loaded EXCEPT ![batch.stream] = Places(batch.samples)]
         /\ loaded' \in [Streams -> Seq(Nat)] /\ completionQueue' \in [Devices -> Seq(Batch)]
         /\ completionQueue' = [completionQueue EXCEPT ![batch.stream[1]] = Append(@, batch)]
  <1>1. batch.samples \in Seq(Samples) /\ batch.stream[1] \in Devices
    BY ConstantTypes DEF Batch
  <1>2. CopySamples(batch.samples) = Places(batch.samples) /\ Places(batch.samples) \in Seq(Nat)
    BY <1>1, CopiesAreOwn
  <1>3. completionQueue[batch.stream[1]] \in Seq(Batch)
    BY <1>1 DEF QueueType
  <1>4. Append(completionQueue[batch.stream[1]], batch) \in Seq(Batch)
    BY <1>3
  <1> QED  BY <1>1, <1>2, <1>4 DEF IssueBatch, QueueType

\* The steps of Done keep the types.
LEMMA TypeDone ==
  ASSUME TypeOK, Done
  PROVE  TypeOK'
  <1>0. WorkType /\ BatcherType /\ IssueType /\ QueueType
    BY TypeParts
  <1>1. BatcherType'
    BY <1>0, TypeSame DEF Done, EndCompletion, JoinCompletion, EndBatcher, Join, DoneStep
  <1>2. WorkType'
    <2>1. <<End>> \in Seq(Samples \cup {End})
      OBVIOUS
    <2>2. /\ UNCHANGED <<settings, issued, answers>> /\ workQueue' \in {workQueue, <<End>>}
          /\ dpc' \in {"joinCompletion", "drain", "join", "over"}
      BY DEF Done, EndCompletion, JoinCompletion, EndBatcher, Join, DoneStep
    <2> QED  BY <1>0, <2>1, <2>2 DEF WorkType
  <1>3. IssueType'
    <2>1. UNCHANGED <<ipc, ibatch>>
          /\ (UNCHANGED issueQueue \/ issueQueue' = [d \in Devices |->
                IF settings.cudaThread THEN Append(issueQueue[d], NoBatch) ELSE issueQueue[d]])
      BY DEF Done, EndCompletion, JoinCompletion, EndBatcher, Join, DoneStep
    <2>2. \A d \in Devices : Append(issueQueue[d], NoBatch) \in Seq(Batch)
      BY <1>0, AppendCarries, ConstantTypes DEF IssueType
    <2> QED  BY <1>0, <2>1, <2>2 DEF IssueType
  <1>4. QueueType'
    <2>1. UNCHANGED <<streamQueue, gpuVars, cpc, cbatch>>
          /\ (UNCHANGED completionQueue
              \/ completionQueue' = [d \in Devices |-> completionQueue[d] \o NullBatches])
      BY DEF Done, EndCompletion, JoinCompletion, EndBatcher, Join, DoneStep
    <2>2. \A d \in Devices : completionQueue[d] \o NullBatches \in Seq(Batch)
      BY <1>0, NullsCarry DEF QueueType
    <2> QED  BY <1>0, <2>1, <2>2 DEF QueueType
  <1> QED  BY <1>1, <1>2, <1>3, <1>4, TypeStep

\* The steps of a batcher keep the types.
LEMMA TypeBatcher ==
  ASSUME TypeOK, BatcherInv, WorkInv, NEW b \in Devices, Batcher(b)
  PROVE  TypeOK'
  <1>0. WorkType /\ BatcherType /\ IssueType /\ QueueType
    BY TypeParts
  <1>1. CASE NextDevice(b)
    <2>1. Candidate(b) \in Devices /\ NextIndex \in Devices
      <3>1. deviceIndex \in 1..NumDevices /\ NumDevices \in Nat \ {0}
        BY <1>0, ConstantTypes DEF BatcherType, Devices
      <3>2. NextIndex \in 1..NumDevices
        BY <3>1 DEF NextIndex
      <3> QED  BY <3>1, <3>2 DEF Candidate, Devices
    <2>2. BatcherType'
      BY <1>0, <1>1, <2>1 DEF NextDevice, BatcherType, BatcherPcs
    <2> QED  BY <1>0, <1>1, <2>2, TypeSame, TypeStep DEF NextDevice
  <1>2. CASE Acquire(b)
    <2>1. workQueue \in Seq(Samples \cup {End})
      BY <1>0 DEF WorkType
    <2>2. CASE Ends(b)
      <3>1. deviceNum - 1 \in 0..NumDevices
        <4>1. b \in Running
          BY <1>2 DEF Acquire, AcquireIf, Running
        <4>2. IsFiniteSet(Running)
          BY ConstantTypes, FS_Subset DEF Running
        <4>3. Cardinality(Running) # 0
          BY <4>1, <4>2, FS_EmptySet
        <4>4. deviceNum = Cardinality(Running) /\ deviceNum \in 0..NumDevices
          BY <1>0 DEF BatcherInv, BatcherType
        <4> QED  BY <4>3, <4>4, ConstantTypes
      <3>2. BatcherType'
        BY <1>0, <1>2, <2>2, <3>1, EmptySeqType DEF Ends, BatcherType, BatcherPcs, Acquire, AcquireIf
      <3>3. WorkType'
        BY <1>0, <1>2, <2>2, EmptySeqType DEF Ends, WorkType, Acquire, AcquireIf
      <3> QED  BY <1>0, <1>2, <3>2, <3>3, TypeSame, TypeStep DEF Acquire, AcquireIf
    <2>3. ASSUME NEW n \in 1..Len(workQueue), Gets(b, n) PROVE TypeOK'
      <3>1. n \in 0..Len(workQueue)
        OBVIOUS
      <3>2. SubSeq(workQueue, 1, n) \in Seq(Samples)
            /\ SubSeq(workQueue, n + 1, Len(workQueue)) \in Seq(Samples \cup {End})
        BY <2>1, <2>3, <3>1, SplitSeq DEF Gets
      <3>3. BatcherType'
        <4>1. /\ hand' = [hand EXCEPT ![b] = SubSeq(workQueue, 1, n)] /\ deviceNum' = deviceNum
              /\ bpc' = [bpc EXCEPT ![b] = "front"] /\ UNCHANGED <<deviceIndex, bdev, bstream>>
          BY <1>2, <2>3 DEF Gets, Acquire, AcquireIf
        <4> QED  BY <1>0, <3>2, <4>1 DEF BatcherType, BatcherPcs
      <3>4. WorkType'
        BY <1>0, <1>2, <2>3, <3>2 DEF Gets, WorkType, Acquire, AcquireIf
      <3> QED  BY <1>0, <1>2, <3>3, <3>4, TypeSame, TypeStep DEF Acquire, AcquireIf
    <2> QED  BY <1>2, <2>2, <2>3, AcquireStep
  <1>3. CASE FrontStream(b)
    <2>1. bdev[b] \in Devices /\ Head(streamQueue[bdev[b]]) \in Streams
      BY <1>0, <1>3, HeadTail DEF FrontStream, BatcherType, QueueType
    <2>2. BatcherType'
      BY <1>0, <1>3, <2>1 DEF FrontStream, BatcherType, BatcherPcs
    <2> QED  BY <1>0, <1>3, <2>2, TypeSame, TypeStep DEF FrontStream
  <1>4. CASE PopStream(b)
    <2>1. bdev[b] \in Devices /\ Tail(streamQueue[bdev[b]]) \in Seq(Streams)
      BY <1>0, <1>4, HeadTail DEF PopStream, BatcherType, QueueType
    <2>2. BatcherType'
      BY <1>0, <1>4 DEF PopStream, BatcherType, BatcherPcs
    <2>3. QueueType'
      BY <1>0, <1>4, <2>1 DEF PopStream, QueueType
    <2> QED  BY <1>0, <1>4, <2>2, <2>3, TypeSame, TypeStep DEF PopStream
  <1>5. CASE NextBatch(b)
    <2>1. PICK n \in 1..Len(hand[b]) : /\ Cuts(b, n) /\ Cut(b, n) \in Batch
                                       /\ Cut(b, n).stream \in Streams
      BY <1>5, NextBatchStep
    <2>2. hand[b] \in Seq(Samples) /\ n \in 0..Len(hand[b]) /\ bdev[b] \in Devices
      BY <1>0, <2>1 DEF BatcherType
    <2>3. SubSeq(hand[b], n + 1, Len(hand[b])) \in Seq(Samples)
      BY <2>2, SplitSeq
    <2>4. BatcherType'
      <3>1. /\ hand' = [hand EXCEPT ![b] = SubSeq(@, n + 1, Len(@))]
            /\ bpc' = [bpc EXCEPT ![b] = "device"] /\ bstream' = [bstream EXCEPT ![b] = NoStream]
            /\ UNCHANGED <<deviceNum, deviceIndex, bdev>>
        BY <1>5, <2>1 DEF Cuts, NextBatch
      <3> QED  BY <1>0, <2>3, <3>1 DEF BatcherType, BatcherPcs
    <2>5. Append(issueQueue[bdev[b]], Cut(b, n)) \in Seq(Batch)
      BY <1>0, <2>1, <2>2, AppendCarries DEF IssueType
    <2>6. IssueType'
      <3>1. UNCHANGED <<ipc, ibatch>>
            /\ (UNCHANGED issueQueue
                \/ issueQueue' = [issueQueue EXCEPT ![bdev[b]] = Append(@, Cut(b, n))])
        BY <1>5, <2>1 DEF Cuts, NextBatch
      <3> QED  BY <1>0, <2>5, <3>1 DEF IssueType
    <2>7. loaded' \in [Streams -> Seq(Nat)] /\ completionQueue' \in [Devices -> Seq(Batch)]
      BY <1>0, <2>1, IssueBatchType DEF Cuts, QueueType
    <2>8. QueueType'
      BY <1>0, <1>5, <2>7 DEF NextBatch, QueueType
    <2> QED  BY <1>0, <1>5, <2>4, <2>6, <2>8, TypeSame, TypeStep DEF NextBatch
  <1> QED  BY <1>1, <1>2, <1>3, <1>4, <1>5 DEF Batcher

\* The steps of an issuing thread keep the types.
LEMMA TypeIssuer ==
  ASSUME TypeOK, HomeInv, NEW d \in Devices, Issuer(d)
  PROVE  TypeOK'
  <1>0. WorkType /\ BatcherType /\ IssueType /\ QueueType
    BY TypeParts
  <1>1. CASE TakeBatch(d)
    <2>1. Head(issueQueue[d]) \in Batch /\ Tail(issueQueue[d]) \in Seq(Batch)
      BY <1>0, <1>1, HeadTail DEF TakeBatch, IssueType
    <2>2. IssueType'
      BY <1>0, <1>1, <2>1 DEF TakeBatch, IssueType
    <2> QED  BY <1>0, <1>1, <2>2, TypeSame, TypeStep DEF TakeBatch
  <1>2. CASE IssueTaken(d)
    <2>1. ibatch[d] \in Batch /\ ibatch[d].stream \in Streams
      BY <1>0, <1>2 DEF IssueTaken, IssueType, HomeInv, Fit
    <2>2. loaded' \in [Streams -> Seq(Nat)] /\ completionQueue' \in [Devices -> Seq(Batch)]
      BY <1>0, <1>2, <2>1, IssueBatchType DEF IssueTaken
    <2>3. IssueType' /\ QueueType'
      BY <1>0, <1>2, <2>2, ConstantTypes DEF IssueTaken, IssueType, QueueType
    <2> QED  BY <1>0, <1>2, <2>3, TypeSame, TypeStep DEF IssueTaken
  <1> QED  BY <1>1, <1>2 DEF Issuer

\* The steps of a completion thread keep the types.
LEMMA TypeCompleter ==
  ASSUME TypeOK, HomeInv, NEW c \in Completers, Completer(c)
  PROVE  TypeOK'
  <1>0. WorkType /\ BatcherType /\ IssueType /\ QueueType /\ c[1] \in Devices
    BY TypeParts, ConstantTypes
  <1>1. CASE PopCompletion(c)
    <2>1. Head(completionQueue[c[1]]) \in Batch /\ Tail(completionQueue[c[1]]) \in Seq(Batch)
      BY <1>0, <1>1, HeadTail DEF PopCompletion, QueueType
    <2>2. QueueType'
      BY <1>0, <1>1, <2>1 DEF PopCompletion, CompletionStep, QueueType
    <2> QED  BY <1>0, <1>1, <2>2, TypeSame, TypeStep DEF PopCompletion, CompletionStep
  <1>2. CASE Complete(c)
    <2> DEFINE batch == cbatch[c]
               outputs == computed[batch.stream]
               Output(s) == LET i == CHOOSE i \in DOMAIN batch.samples : batch.samples[i] = s
                            IN  IF i \in DOMAIN outputs THEN outputs[i] ELSE 0
    <2>1. answers' = [s \in Samples |-> IF \E i \in DOMAIN batch.samples : batch.samples[i] = s
                                        THEN Append(answers[s], Output(s)) ELSE answers[s]]
      BY <1>2 DEF Complete, CompleteWhen
    <2>2. outputs \in Seq(Nat)
      BY <1>0, <1>2 DEF Complete, CompleteWhen, Recorded, QueueType
    <2> HIDE DEF outputs
    <2>3. \A i \in DOMAIN outputs : outputs[i] \in Nat
      BY <2>2
    <2>4. \A s \in Samples : Output(s) \in Nat
      BY <2>3
    <2> HIDE DEF Output, batch
    <2>5. \A s \in Samples : Append(answers[s], Output(s)) \in Seq(Nat)
      BY <1>0, <2>4 DEF WorkType
    <2>6. WorkType'
      <3>1. UNCHANGED <<settings, issued, workQueue, dpc>>
        BY <1>2 DEF Complete, CompleteWhen, CompletionStep
      <3>2. answers \in [Samples -> Seq(Nat)]
        BY <1>0 DEF WorkType
      <3>3. answers' \in [Samples -> Seq(Nat)]
        BY <2>1, <2>5, <3>2
      <3> QED  BY <1>0, <3>1, <3>3 DEF WorkType
    <2>7. QueueType'
      BY <1>0, <1>2 DEF Complete, CompleteWhen, CompletionStep, QueueType
    <2> QED  BY <1>0, <1>2, <2>6, <2>7, TypeSame, TypeStep DEF Complete, CompleteWhen, CompletionStep
  <1>3. CASE ReturnStream(c)
    <2>1. cpc[c] = "return"
      BY <1>3 DEF ReturnStream, CompletionStep
    <2>2. cbatch[c].stream \in Streams
      BY <2>1 DEF HomeInv, Fit
    <2>3. Append(streamQueue[c[1]], cbatch[c].stream) \in Seq(Streams)
      BY <1>0, <2>2, AppendHas DEF QueueType
    <2>4. QueueType'
      BY <1>0, <1>3, <2>3, ConstantTypes DEF ReturnStream, CompletionStep, QueueType
    <2> QED  BY <1>0, <1>3, <2>4, TypeSame, TypeStep DEF ReturnStream, CompletionStep
  <1> QED  BY <1>1, <1>2, <1>3 DEF Completer

\* Every step keeps the types.
LEMMA TypeNext ==
  ASSUME TypeOK, BatcherInv, WorkInv, HomeInv, Next
  PROVE  TypeOK'
  <1>0. WorkType /\ BatcherType /\ IssueType /\ QueueType
    BY TypeParts
  <1>1. CASE IssueQuery
    <2>1. PICK n \in QuerySizes : /\ issued + n <= Len(Index) /\ issued' = issued + n
                                  /\ workQueue' = workQueue \o [i \in 1..n |-> issued + i]
      BY <1>1 DEF IssueQuery
    <2> DEFINE query == [i \in 1..n |-> issued + i]
    <2>2. query \in Seq(Samples) /\ n \in Nat \ {0} /\ issued \in Nat
      BY <2>1, QueryType
    <2> HIDE DEF query
    <2>3. query \in Seq(Samples \cup {End}) /\ workQueue \in Seq(Samples \cup {End})
      BY <1>0, <2>2 DEF WorkType
    <2>4. workQueue \o query \in Seq(Samples \cup {End})
      BY <2>3
    <2>5. issued + n \in 0..Len(Index)
      BY <2>1, <2>2, ConstantTypes
    <2>6. WorkType'
      <3>1. UNCHANGED <<settings, answers, dpc>>
        BY <1>1 DEF IssueQuery
      <3> QED  BY <1>0, <2>1, <2>4, <2>5, <3>1 DEF WorkType, query
    <2> QED  BY <1>0, <1>1, <2>6, TypeSame, TypeStep DEF IssueQuery
  <1>2. CASE Finished
    BY <1>0, <1>2, TypeSame, TypeStep DEF Finished, vars
  <1>3. ASSUME NEW s \in Streams, Compute(s) PROVE TypeOK'
    <2>1. QueueType'
      BY <1>0, <1>3 DEF Compute, QueueType
    <2> QED  BY <1>0, <1>3, <2>1, TypeSame, TypeStep DEF Compute
  <1> QED  BY <1>1, <1>2, <1>3, TypeDone, TypeBatcher, TypeIssuer, TypeCompleter DEF Next

-----------------------------------------------------------------------------
(***************************************************************************)
(* The batchers.                                                           *)
(***************************************************************************)
\* Two batchers that have not ended serve two devices: there is one, or one for
\* each device.
LEMMA OwnDevices ==
  ASSUME BatcherInv, NEW b1 \in Devices, NEW b2 \in Devices,
         bpc[b1] # "gone", bpc[b2] # "gone", bdev[b1] = bdev[b2]
  PROVE  b1 = b2
  BY DEF BatcherInv, BatcherOk, Batchers

\* The batchers that are running, when one changes its state or ends.
LEMMA RunningStep ==
  ASSUME TypeOK, BatcherInv, NEW b \in Devices, bpc[b] # "gone", NEW to,
         bpc' = [bpc EXCEPT ![b] = to],
         deviceNum' = IF to = "gone" THEN deviceNum - 1 ELSE deviceNum
  PROVE  deviceNum' = Cardinality(Running')
  <1>1. bpc \in [Devices -> BatcherPcs] /\ b \in Running /\ IsFiniteSet(Running)
    BY ConstantTypes, FS_Subset DEF TypeOK, BatcherPcs, Running
  <1>2. CASE to = "gone"
    <2>1. Running' = Running \ {b}
      BY <1>1, <1>2 DEF Running
    <2>2. Cardinality(Running \ {b}) = Cardinality(Running) - 1
      BY <1>1, FS_RemoveElement
    <2> QED  BY <1>2, <2>1, <2>2 DEF BatcherInv
  <1>3. CASE to # "gone"
    <2>1. Running' = Running
      BY <1>1, <1>3 DEF Running
    <2> QED  BY <1>3, <2>1 DEF BatcherInv
  <1> QED  BY <1>2, <1>3

\* What another thread leaves of a batcher's invariant.
LEMMA BatcherKeeps ==
  ASSUME NEW b \in Devices, BatcherOk(b), settings' = settings, bpc'[b] = bpc[b],
         bdev'[b] = bdev[b], hand'[b] = hand[b], bstream'[b] = bstream[b],
         bpc[b] = "pop" => /\ streamQueue'[bdev[b]] # <<>>
                           /\ Head(streamQueue'[bdev[b]]) = Head(streamQueue[bdev[b]])
  PROVE  BatcherOk(b)'
  BY DEF BatcherOk, Batchers

\* A stream given back goes to the end: the front stays.
LEMMA AppendHead ==
  ASSUME NEW S, NEW q \in Seq(S), NEW e \in S, q # <<>>
  PROVE  Append(q, e) # <<>> /\ Head(Append(q, e)) = Head(q)
  <1>1. Append(q, e) # <<>> /\ Head(Append(q, e)) = Append(q, e)[1] /\ Head(q) = q[1]
        /\ 1 \in DOMAIN q
    BY HeadTail, AppendHas
  <1> QED  BY <1>1, Extended

\* The step of a batcher keeps the invariant of all of them: what it pops is its own.
LEMMA BatcherBatcher ==
  ASSUME TypeOK, BatcherInv, WorkInv, HomeInv, NEW b \in Devices, Batcher(b)
  PROVE  BatcherInv'
  <1> USE DEF BatcherPcs
  <1>0. /\ bpc \in [Devices -> BatcherPcs] /\ bdev \in [Devices -> Devices]
        /\ hand \in [Devices -> Seq(Samples)] /\ bstream \in [Devices -> Streams \cup {NoStream}]
        /\ streamQueue \in [Devices -> Seq(Streams)]
    BY DEF TypeOK
  <1>1. BatcherOk(b) /\ \A x \in Devices : BatcherOk(x)
    BY DEF BatcherInv
  <1>a. ASSUME streamQueue' = streamQueue, settings' = settings, NEW x \in Devices, x # b,
               bpc'[x] = bpc[x], bdev'[x] = bdev[x], hand'[x] = hand[x], bstream'[x] = bstream[x]
        PROVE  BatcherOk(x)'
    <2>1. bpc[x] = "pop" => /\ streamQueue'[bdev[x]] # <<>>
                            /\ Head(streamQueue'[bdev[x]]) = Head(streamQueue[bdev[x]])
      BY <1>1, <1>a DEF BatcherOk
    <2> QED  BY <1>1, <1>a, <2>1, BatcherKeeps
  <1>2. CASE NextDevice(b)
    <2>1. /\ bpc[b] = "device" /\ bdev' = [bdev EXCEPT ![b] = Candidate(b)]
          /\ bpc' = [bpc EXCEPT ![b] = IF streamQueue[Candidate(b)] = <<>> THEN "device"
                                       ELSE IF hand[b] = <<>> THEN "acquire" ELSE "front"]
          /\ UNCHANGED <<settings, deviceNum, hand, bstream, streamQueue>>
      BY <1>2 DEF NextDevice
    <2>2. deviceNum' = Cardinality(Running')
      BY <2>1, RunningStep
    <2>3. BatcherOk(b)'
      BY <1>0, <1>1, <2>1 DEF BatcherOk, Batchers, Candidate
    <2>4. ASSUME NEW x \in Devices, x # b PROVE BatcherOk(x)'
      BY <1>0, <1>a, <2>1, <2>4
    <2> QED  BY <2>2, <2>3, <2>4 DEF BatcherInv
  <1>3. CASE Acquire(b)
    <2>1. bpc[b] = "acquire" /\ UNCHANGED <<settings, bdev, bstream, streamQueue>>
      BY <1>3 DEF Acquire, AcquireIf
    <2>2. \/ Ends(b)
          \/ \E n \in 1..Len(workQueue) : Gets(b, n)
      BY <1>3, AcquireStep
    <2>3. ASSUME NEW n \in 1..Len(workQueue), Gets(b, n) 
          PROVE  SubSeq(workQueue, 1, n) # <<>> /\ SubSeq(workQueue, 1, n) \in Seq(Samples)
      <3>1. n \in 0..Len(workQueue) /\ n > 0
        OBVIOUS
      <3>2. Len(SubSeq(workQueue, 1, n)) = n /\ SubSeq(workQueue, 1, n) \in Seq(Samples)
        BY <2>3, <3>1, SplitSeq DEF Gets
      <3>3. Len(<<>>) = 0
        OBVIOUS
      <3> QED  BY <3>1, <3>2, <3>3
    <2>4. PICK to \in {"gone", "front"}, mine \in Seq(Samples) :
            /\ hand' = [hand EXCEPT ![b] = mine] /\ bpc' = [bpc EXCEPT ![b] = to]
            /\ deviceNum' = IF to = "gone" THEN deviceNum - 1 ELSE deviceNum
            /\ (to = "gone" <=> mine = <<>>)
      BY <2>2, <2>3, EmptySeqType DEF Ends, Gets
    <2>5. deviceNum' = Cardinality(Running')
      BY <2>1, <2>4, RunningStep
    <2>6. BatcherOk(b)'
      BY <1>0, <1>1, <2>1, <2>4 DEF BatcherOk, Batchers
    <2>7. ASSUME NEW x \in Devices, x # b PROVE BatcherOk(x)'
      BY <1>0, <1>a, <2>1, <2>4, <2>7
    <2> QED  BY <2>5, <2>6, <2>7 DEF BatcherInv
  <1>4. CASE FrontStream(b)
    <2>1. /\ bpc[b] = "front" /\ streamQueue[bdev[b]] # <<>>
          /\ bstream' = [bstream EXCEPT ![b] = Head(streamQueue[bdev[b]])]
          /\ bpc' = [bpc EXCEPT ![b] = "pop"]
          /\ UNCHANGED <<settings, deviceNum, bdev, hand, streamQueue>>
      BY <1>4 DEF FrontStream
    <2>2. deviceNum' = Cardinality(Running')
      BY <2>1, RunningStep
    <2>3. BatcherOk(b)'
      BY <1>0, <1>1, <2>1 DEF BatcherOk, Batchers
    <2>4. ASSUME NEW x \in Devices, x # b PROVE BatcherOk(x)'
      BY <1>0, <1>a, <2>1, <2>4
    <2> QED  BY <2>2, <2>3, <2>4 DEF BatcherInv
  <1>5. CASE PopStream(b)
    <2>1. /\ bpc[b] = "pop" /\ bpc' = [bpc EXCEPT ![b] = "issue"]
          /\ streamQueue' = [streamQueue EXCEPT ![bdev[b]] = Tail(@)]
          /\ UNCHANGED <<settings, deviceNum, bdev, hand, bstream>>
      BY <1>5 DEF PopStream
    <2>2. deviceNum' = Cardinality(Running')
      BY <2>1, RunningStep
    <2>3. BatcherOk(b)'
      <3>1. streamQueue[bdev[b]] \in Seq(Streams) /\ streamQueue[bdev[b]] # <<>>
            /\ bstream[b] = Head(streamQueue[bdev[b]]) /\ StreamsFit(streamQueue[bdev[b]], bdev[b])
        BY <1>0, <1>1, <2>1 DEF BatcherOk, HomeInv
      <3>2. bstream[b] \in Streams /\ bstream[b][1] = bdev[b]
        BY <3>1, HeadTail DEF StreamsFit
      <3> QED  BY <1>0, <1>1, <2>1, <3>2 DEF BatcherOk, Batchers
    <2>4. ASSUME NEW x \in Devices, x # b PROVE BatcherOk(x)'
      <3>1. ASSUME bpc[x] = "pop"
            PROVE  /\ streamQueue'[bdev[x]] # <<>>
                   /\ Head(streamQueue'[bdev[x]]) = Head(streamQueue[bdev[x]])
        <4>1. bdev[x] # bdev[b]
          BY <2>1, <2>4, <3>1, OwnDevices
        <4>2. streamQueue'[bdev[x]] = streamQueue[bdev[x]]
          BY <1>0, <2>1, <4>1
        <4> QED  BY <1>1, <3>1, <4>2 DEF BatcherOk
      <3> QED  BY <1>0, <1>1, <2>1, <2>4, <3>1, BatcherKeeps
    <2> QED  BY <2>2, <2>3, <2>4 DEF BatcherInv
  <1>6. CASE NextBatch(b)
    <2>1. /\ bpc[b] = "issue" /\ bpc' = [bpc EXCEPT ![b] = "device"]
          /\ bstream' = [bstream EXCEPT ![b] = NoStream]
          /\ UNCHANGED <<settings, deviceNum, bdev, streamQueue>>
      BY <1>6 DEF NextBatch
    <2>2. deviceNum' = Cardinality(Running')
      BY <2>1, RunningStep
    <2>3. PICK n \in 1..Len(hand[b]) : hand' = [hand EXCEPT ![b] = SubSeq(@, n + 1, Len(@))]
      BY <1>6, NextBatchStep DEF Cuts
    <2>4. BatcherOk(b)'
      BY <1>0, <1>1, <2>1 DEF BatcherOk, Batchers
    <2>5. ASSUME NEW x \in Devices, x # b PROVE BatcherOk(x)'
      BY <1>0, <1>a, <2>1, <2>3, <2>5
    <2> QED  BY <2>2, <2>4, <2>5 DEF BatcherInv
  <1> QED  BY <1>2, <1>3, <1>4, <1>5, <1>6 DEF Batcher

\* So does every other step: they only add streams at the end of a queue.
LEMMA BatcherNext ==
  ASSUME TypeOK, BatcherInv, WorkInv, HomeInv, Next
  PROVE  BatcherInv'
  <1>1. ASSUME settings' = settings, UNCHANGED batcherVars, streamQueue' = streamQueue
        PROVE  BatcherInv'
    BY <1>1 DEF BatcherInv, BatcherOk, Batchers, Running
  <1>2. CASE IssueQuery \/ Done \/ Finished
    BY <1>1, <1>2 DEF IssueQuery, Done, EndCompletion, JoinCompletion, EndBatcher, Join, DoneStep,
                      Finished, vars
  <1>3. CASE \E s \in Streams : Compute(s)
    BY <1>1, <1>3 DEF Compute
  <1>4. CASE \E d \in Devices : Issuer(d)
    BY <1>1, <1>4 DEF Issuer, TakeBatch, IssueTaken
  <1>5. ASSUME NEW c \in Completers, Completer(c) PROVE BatcherInv'
    <2>1. CASE PopCompletion(c) \/ Complete(c)
      BY <1>1, <2>1 DEF PopCompletion, Complete, CompleteWhen, CompletionStep
    <2>2. CASE ReturnStream(c)
      <3>1. /\ streamQueue' = [streamQueue EXCEPT ![c[1]] = Append(@, cbatch[c].stream)]
            /\ settings' = settings /\ UNCHANGED batcherVars /\ cpc[c] = "return"
        BY <2>2 DEF ReturnStream, CompletionStep
      <3>2. cbatch[c].stream \in Streams /\ streamQueue \in [Devices -> Seq(Streams)]
            /\ bdev \in [Devices -> Devices]
        BY <3>1 DEF HomeInv, Fit, TypeOK
      <3>3. ASSUME NEW d \in Devices, streamQueue[d] # <<>>
            PROVE  streamQueue'[d] # <<>> /\ Head(streamQueue'[d]) = Head(streamQueue[d])
        <4>1. CASE d = c[1]
          BY <3>1, <3>2, <3>3, <4>1, AppendHead
        <4>2. CASE d # c[1]
          BY <3>1, <3>2, <3>3, <4>2
        <4> QED  BY <4>1, <4>2
      <3>4. ASSUME NEW x \in Devices PROVE BatcherOk(x)'
        <4>1. BatcherOk(x) /\ bdev[x] \in Devices
          BY <3>2 DEF BatcherInv
        <4>2. bpc[x] = "pop" => /\ streamQueue'[bdev[x]] # <<>>
                                /\ Head(streamQueue'[bdev[x]]) = Head(streamQueue[bdev[x]])
          BY <3>3, <4>1 DEF BatcherOk
        <4> QED  BY <3>1, <4>1, <4>2, BatcherKeeps
      <3>5. deviceNum' = Cardinality(Running')
        BY <3>1 DEF BatcherInv, Running
      <3> QED  BY <3>4, <3>5 DEF BatcherInv
    <2> QED  BY <1>5, <2>1, <2>2 DEF Completer
  <1> QED  BY <1>2, <1>3, <1>4, <1>5, BatcherBatcher DEF Next

-----------------------------------------------------------------------------
\* The null sample comes when the queue is empty, and is acquired alone.
LEMMA WorkNext ==
  ASSUME TypeOK, WorkInv, Next
  PROVE  WorkInv'
  <1>1. CASE IssueQuery
    <2>1. PICK n \in QuerySizes : /\ issued + n <= Len(Index)
                                  /\ workQueue' = workQueue \o [i \in 1..n |-> issued + i]
      BY <1>1 DEF IssueQuery
    <2>2. workQueue \in Seq(Samples)
      BY <1>1 DEF IssueQuery, WorkInv
    <2> DEFINE query == [i \in 1..n |-> issued + i]
    <2>3. query \in Seq(Samples)
      BY <2>1, QueryType
    <2> HIDE DEF query
    <2>4. workQueue \o query \in Seq(Samples)
      BY <2>2, <2>3
    <2> QED  BY <2>1, <2>4 DEF WorkInv, query
  <1>2. CASE Done
    <2>1. CASE workQueue' = workQueue
      BY <1>2, <2>1 DEF WorkInv, Done, EndCompletion, JoinCompletion, EndBatcher, Join, DoneStep
    <2>2. CASE workQueue' # workQueue
      BY <1>2, <2>2 DEF WorkInv, Done, EndCompletion, JoinCompletion, EndBatcher, Join, DoneStep
    <2> QED  BY <2>1, <2>2
  <1>3. ASSUME NEW b \in Devices, Acquire(b) PROVE WorkInv'
    <2>1. CASE Ends(b)
      <3>1. <<>> \in Seq(Samples)
        BY EmptySeqType
      <3> QED  BY <2>1, <3>1 DEF Ends, WorkInv
    <2>2. ASSUME NEW n \in 1..Len(workQueue), Gets(b, n) PROVE WorkInv'
      <3>1. n \in 0..Len(workQueue)
        OBVIOUS
      <3>2. workQueue' \in Seq(Samples)
        BY <2>2, <3>1, SplitSeq DEF Gets
      <3> QED  BY <3>2 DEF WorkInv
    <2> QED  BY <1>3, <2>1, <2>2, AcquireStep
  <1>4. ASSUME UNCHANGED <<workQueue, dpc>> PROVE WorkInv'
    BY <1>4 DEF WorkInv
  <1>5. ASSUME NEW b \in Devices, Batcher(b) \/ Issuer(b) PROVE WorkInv'
    BY <1>3, <1>4, <1>5 DEF Batcher, NextDevice, FrontStream, PopStream, NextBatch, Issuer,
                            TakeBatch, IssueTaken
  <1>6. ASSUME NEW c \in Completers, Completer(c) PROVE WorkInv'
    BY <1>4, <1>6 DEF Completer, PopCompletion, Complete, CompleteWhen, ReturnStream, CompletionStep
  <1>7. CASE Finished \/ \E s \in Streams : Compute(s)
    BY <1>4, <1>7 DEF Finished, vars, Compute
  <1> QED  BY <1>1, <1>2, <1>5, <1>6, <1>7 DEF Next

-----------------------------------------------------------------------------
(***************************************************************************)
(* The steps that move no stream, and the null batches.                    *)
(***************************************************************************)
Holds(c) == cpc[c] \in {"sync", "return"}
Picks(b) == bpc[b] = "issue"
Rests ==
    /\ UNCHANGED <<streamQueue, issueQueue, ipc, ibatch, completionQueue, cbatch, loaded>>
    /\ \A c \in Completers : (Holds(c)' <=> Holds(c)) /\ (cpc'[c] = "sync" => cpc[c] = "sync")
    /\ \A b \in Devices : (Picks(b)' <=> Picks(b)) /\ (Picks(b) => bstream'[b] = bstream[b])

\* At the end of the test every queue of batches gets null ones.
Nulls ==
    /\ UNCHANGED <<streamQueue, ipc, ibatch, cpc, cbatch, bpc, bstream, loaded>>
    /\ \/ UNCHANGED issueQueue
       \/ issueQueue' = [d \in Devices |->
            IF settings.cudaThread THEN Append(issueQueue[d], NoBatch) ELSE issueQueue[d]]
    /\ \/ UNCHANGED completionQueue
       \/ completionQueue' = [d \in Devices |-> completionQueue[d] \o NullBatches]

\* What a step may do to the streams and the batches.
LEMMA RestStep ==
  ASSUME TypeOK, WorkInv, Next
  PROVE  \/ Rests \/ Nulls
         \/ \E b \in Devices : PopStream(b) \/ NextBatch(b)
         \/ \E d \in Devices : Issuer(d)
         \/ \E c \in Completers : PopCompletion(c) \/ ReturnStream(c)
  <1>0. bpc \in [Devices -> BatcherPcs] /\ bstream \in [Devices -> Streams \cup {NoStream}]
        /\ cpc \in [Completers -> {"pop", "sync", "return", "gone"}]
    BY DEF TypeOK, BatcherPcs
  <1>a. ASSUME UNCHANGED <<streamQueue, issueVars, completionVars, bpc, bstream, loaded>>
        PROVE  Rests
    BY <1>a DEF Rests, Holds, Picks
  <1>b. ASSUME NEW b \in Devices, NEW from \in BatcherPcs, NEW to \in BatcherPcs,
               bpc[b] = from, bpc' = [bpc EXCEPT ![b] = to], from # "issue", to # "issue",
               \A x \in Devices \ {b} : bstream'[x] = bstream[x],
               UNCHANGED <<streamQueue, issueVars, completionVars, loaded>>
        PROVE  Rests
    BY <1>0, <1>b DEF Rests, Holds, Picks
  <1>1. CASE IssueQuery \/ Finished \/ \E s \in Streams : Compute(s)
    BY <1>a, <1>1 DEF IssueQuery, Finished, vars, Compute
  <1>2. CASE Done
    <2>1. CASE EndCompletion
      BY <2>1 DEF EndCompletion, DoneStep, Nulls
    <2>2. CASE JoinCompletion
      BY <1>a, <2>2 DEF JoinCompletion, DoneStep
    <2>3. CASE EndBatcher
      BY <2>3 DEF EndBatcher, DoneStep, Nulls
    <2>4. CASE Join
      BY <1>a, <2>4 DEF Join, DoneStep
    <2> QED  BY <1>2, <2>1, <2>2, <2>3, <2>4 DEF Done
  <1>3. ASSUME NEW b \in Devices, NextDevice(b) PROVE Rests
    <2>1. PICK to \in {"device", "acquire", "front"} : bpc' = [bpc EXCEPT ![b] = to]
      BY <1>3 DEF NextDevice
    <2>2. to \in BatcherPcs /\ "device" \in BatcherPcs /\ to # "issue"
      BY DEF BatcherPcs
    <2>3. bpc[b] = "device" /\ UNCHANGED <<bstream, streamQueue, issueVars, completionVars, loaded>>
      BY <1>3 DEF NextDevice
    <2> QED  BY <1>b, <2>1, <2>2, <2>3
  <1>4. ASSUME NEW b \in Devices, Acquire(b) PROVE Rests
    <2>1. PICK to \in {"gone", "front"} : bpc' = [bpc EXCEPT ![b] = to]
      BY <1>4 DEF Acquire, AcquireIf
    <2>2. to \in BatcherPcs /\ "acquire" \in BatcherPcs /\ to # "issue"
      BY DEF BatcherPcs
    <2>3. bpc[b] = "acquire" /\ UNCHANGED <<bstream, streamQueue, issueVars, completionVars, loaded>>
      BY <1>4 DEF Acquire, AcquireIf
    <2> QED  BY <1>b, <2>1, <2>2, <2>3
  <1>5. ASSUME NEW b \in Devices, FrontStream(b) PROVE Rests
    <2>1. /\ bpc[b] = "front" /\ bpc' = [bpc EXCEPT ![b] = "pop"]
          /\ \A x \in Devices \ {b} : bstream'[x] = bstream[x]
          /\ UNCHANGED <<streamQueue, issueVars, completionVars, loaded>>
      BY <1>0, <1>5 DEF FrontStream
    <2>2. "front" \in BatcherPcs /\ "pop" \in BatcherPcs
      BY DEF BatcherPcs
    <2> QED  BY <1>b, <2>1, <2>2
  <1>6. ASSUME NEW c \in Completers, Complete(c) PROVE Rests
    <2>1. /\ cpc[c] = "sync" /\ cpc' = [cpc EXCEPT ![c] = "return"]
          /\ UNCHANGED <<streamQueue, issueVars, completionQueue, cbatch, loaded, bpc, bstream>>
      BY <1>6 DEF Complete, CompleteWhen, CompletionStep
    <2>2. \A x \in Completers : (Holds(x)' <=> Holds(x)) /\ (cpc'[x] = "sync" => cpc[x] = "sync")
      BY <1>0, <2>1 DEF Holds
    <2> QED  BY <2>1, <2>2 DEF Rests, Picks
  <1> QED  BY <1>1, <1>2, <1>3, <1>4, <1>5, <1>6 DEF Next, Batcher, Issuer, Completer

\* The null batches are the only ones that come to a queue.
LEMMA NullsStep ==
  ASSUME TypeOK, Nulls, NEW d \in Devices
  PROVE  /\ \A i \in DOMAIN issueQueue'[d] :
                issueQueue'[d][i] = NoBatch \/ Has(issueQueue[d], issueQueue'[d][i])
         /\ \A i \in DOMAIN completionQueue'[d] :
                completionQueue'[d][i] = NoBatch \/ Has(completionQueue[d], completionQueue'[d][i])
         /\ \A s \in Streams : (Carries(issueQueue'[d], s) <=> Carries(issueQueue[d], s))
                /\ (Carries(completionQueue'[d], s) <=> Carries(completionQueue[d], s))
         /\ Single(issueQueue[d]) => Single(issueQueue'[d])
         /\ Single(completionQueue[d]) => Single(completionQueue'[d])
  <1>1. issueQueue[d] \in Seq(Batch) /\ completionQueue[d] \in Seq(Batch)
    BY DEF TypeOK
  <1>2. issueQueue'[d] = issueQueue[d] \/ issueQueue'[d] = Append(issueQueue[d], NoBatch)
    BY DEF Nulls
  <1>3. completionQueue'[d] = completionQueue[d] \/ completionQueue'[d] = completionQueue[d] \o NullBatches
    BY DEF Nulls
  <1>4. NoBatch \in Batch /\ NoBatch.stream = NoStream /\ NoStream \notin Streams
    BY ConstantTypes
  <1>5. \A i \in DOMAIN issueQueue'[d] :
            issueQueue'[d][i] = NoBatch \/ Has(issueQueue[d], issueQueue'[d][i])
    <2>1. CASE issueQueue'[d] = issueQueue[d]
      BY <2>1 DEF Has
    <2>2. CASE issueQueue'[d] = Append(issueQueue[d], NoBatch)
      BY <1>1, <1>4, <2>2, AppendCarries
    <2> QED  BY <1>2, <2>1, <2>2
  <1>6. /\ \A s \in Streams : Carries(issueQueue'[d], s) <=> Carries(issueQueue[d], s)
        /\ Single(issueQueue[d]) => Single(issueQueue'[d])
    <2>1. CASE issueQueue'[d] = issueQueue[d]
      BY <2>1
    <2>2. CASE issueQueue'[d] = Append(issueQueue[d], NoBatch)
      BY <1>1, <1>4, <2>2, AppendCarries
    <2> QED  BY <1>2, <2>1, <2>2
  <1>7. /\ \A i \in DOMAIN completionQueue'[d] :
                completionQueue'[d][i] = NoBatch \/ Has(completionQueue[d], completionQueue'[d][i])
        /\ \A s \in Streams : Carries(completionQueue'[d], s) <=> Carries(completionQueue[d], s)
        /\ Single(completionQueue[d]) => Single(completionQueue'[d])
    <2>1. CASE completionQueue'[d] = completionQueue[d]
      BY <2>1 DEF Has
    <2>2. CASE completionQueue'[d] = completionQueue[d] \o NullBatches
      BY <1>1, <2>2, NullsCarry
    <2> QED  BY <1>3, <2>1, <2>2
  <1> QED  BY <1>5, <1>6, <1>7

\* What one batch more, or the head off, means for a queue's home.
LEMMA FitStep ==
  ASSUME NEW d \in Devices, NEW queue \in Seq(Batch), AllFit(queue, d)
  PROVE  /\ \A e \in Batch : Fit(e, d) => AllFit(Append(queue, e), d)
         /\ queue # <<>> => Fit(Head(queue), d) /\ AllFit(Tail(queue), d)
  <1>1. ASSUME NEW e \in Batch, Fit(e, d) PROVE AllFit(Append(queue, e), d)
    BY <1>1, Extended DEF AllFit
  <1>2. ASSUME queue # <<>> PROVE Fit(Head(queue), d) /\ AllFit(Tail(queue), d)
    BY <1>2, HeadTail DEF AllFit
  <1> QED  BY <1>1, <1>2

\* Batches and streams stay with their device.
LEMMA HomeNext ==
  ASSUME TypeOK, BatcherInv, WorkInv, HomeInv, Next
  PROVE  HomeInv'
  <1> DEFINE HomeD(d) == /\ StreamsFit(streamQueue[d], d) /\ AllFit(issueQueue[d], d)
                         /\ AllFit(completionQueue[d], d)
                         /\ Fit(ibatch[d], d) /\ (ipc[d] = "issue" <=> ibatch[d] # NoBatch)
             HomeC(c) == Fit(cbatch[c], c[1]) /\ (cpc[c] \in {"sync", "return"} <=> cbatch[c] # NoBatch)
  <1>0. /\ streamQueue \in [Devices -> Seq(Streams)] /\ issueQueue \in [Devices -> Seq(Batch)]
        /\ ibatch \in [Devices -> Batch] /\ ipc \in [Devices -> {"wait", "issue", "gone"}]
        /\ completionQueue \in [Devices -> Seq(Batch)] /\ cbatch \in [Completers -> Batch]
        /\ cpc \in [Completers -> {"pop", "sync", "return", "gone"}]
    BY DEF TypeOK
  <1>1. (\A d \in Devices : HomeD(d)) /\ (\A c \in Completers : HomeC(c))
    BY DEF HomeInv
  <1>2. (\A d \in Devices : HomeD(d)') /\ (\A c \in Completers : HomeC(c)') => HomeInv'
    BY DEF HomeInv
  <1>3. CASE Rests
    BY <1>3 DEF Rests, Holds, HomeInv
  <1>4. CASE Nulls
    <2>1. ASSUME NEW d \in Devices PROVE HomeD(d)'
      <3>1. AllFit(issueQueue[d], d)' /\ AllFit(completionQueue[d], d)'
        BY <1>1, <1>4, NullsStep DEF AllFit, Fit, Has
      <3> QED  BY <1>1, <1>4, <3>1 DEF Nulls
    <2>2. ASSUME NEW c \in Completers PROVE HomeC(c)'
      BY <1>1, <1>4 DEF Nulls
    <2> HIDE DEF HomeD, HomeC
    <2> QED  BY <1>2, <2>1, <2>2
  <1>5. ASSUME NEW b \in Devices, PopStream(b) PROVE HomeInv'
    <2>1. /\ streamQueue' = [streamQueue EXCEPT ![bdev[b]] = Tail(@)]
          /\ UNCHANGED <<issueVars, completionVars>>
          /\ streamQueue[bdev[b]] # <<>> /\ bdev[b] \in Devices
      BY <1>5 DEF PopStream, TypeOK
    <2>2. ASSUME NEW d \in Devices PROVE HomeD(d)'
      <3>1. StreamsFit(streamQueue[d], d)'
        <4>1. CASE d = bdev[b]
          BY <1>0, <1>1, <2>1, <4>1, HeadTail DEF StreamsFit
        <4>2. CASE d # bdev[b]
          BY <1>0, <1>1, <2>1, <4>2 DEF StreamsFit
        <4> QED  BY <4>1, <4>2
      <3> QED  BY <1>1, <2>1, <3>1
    <2>3. ASSUME NEW c \in Completers PROVE HomeC(c)'
      BY <1>1, <2>1
    <2> HIDE DEF HomeD, HomeC
    <2> QED  BY <1>2, <2>2, <2>3
  <1>6. ASSUME NEW b \in Devices, NextBatch(b) PROVE HomeInv'
    <2>1. PICK n \in 1..Len(hand[b]) :
            /\ Cuts(b, n) /\ Cut(b, n) \in Batch
            /\ Cut(b, n).stream = bstream[b] /\ bstream[b] \in Streams /\ bstream[b][1] = bdev[b]
      BY <1>6, NextBatchStep
    <2>2. PICK e \in Batch : e = Cut(b, n)
      BY <2>1
    <2>3. Fit(e, bdev[b]) /\ e.stream[1] = bdev[b] /\ bdev[b] \in Devices
      BY <2>1, <2>2 DEF Fit, TypeOK
    <2>4. UNCHANGED <<streamQueue, ipc, ibatch, cpc, cbatch>>
      BY <1>6 DEF NextBatch
    <2>5. /\ \/ UNCHANGED issueQueue
             \/ issueQueue' = [issueQueue EXCEPT ![bdev[b]] = Append(@, e)]
          /\ \/ UNCHANGED completionQueue
             \/ completionQueue' = [completionQueue EXCEPT ![bdev[b]] = Append(@, e)]
      BY <2>1, <2>2, <2>3 DEF Cuts, IssueBatch
    <2>6. ASSUME NEW d \in Devices PROVE HomeD(d)'
      <3>0. /\ AllFit(issueQueue[d], d) /\ AllFit(completionQueue[d], d)
            /\ issueQueue[d] \in Seq(Batch) /\ completionQueue[d] \in Seq(Batch)
        BY <1>0, <1>1
      <3>a. d = bdev[b] => /\ AllFit(Append(issueQueue[d], e), d)
                           /\ AllFit(Append(completionQueue[d], e), d)
        BY <2>3, <3>0, FitStep
      <3>b. /\ issueQueue'[d] = issueQueue[d]
               \/ (d = bdev[b] /\ issueQueue'[d] = Append(issueQueue[d], e))
            /\ completionQueue'[d] = completionQueue[d]
               \/ (d = bdev[b] /\ completionQueue'[d] = Append(completionQueue[d], e))
        BY <1>0, <2>5
      <3>1. AllFit(issueQueue[d], d)'
        BY <3>0, <3>a, <3>b
      <3>2. AllFit(completionQueue[d], d)'
        BY <3>0, <3>a, <3>b
      <3> QED  BY <1>1, <2>4, <3>1, <3>2
    <2>7. ASSUME NEW c \in Completers PROVE HomeC(c)'
      BY <1>1, <2>4
    <2> HIDE DEF HomeD, HomeC
    <2> QED  BY <1>2, <2>6, <2>7
  <1>7. ASSUME NEW x \in Devices, TakeBatch(x) PROVE HomeInv'
    <2>1. /\ issueQueue[x] # <<>> /\ ibatch' = [ibatch EXCEPT ![x] = Head(issueQueue[x])]
          /\ issueQueue' = [issueQueue EXCEPT ![x] = Tail(@)]
          /\ ipc' = [ipc EXCEPT ![x] = IF ibatch'[x] = NoBatch THEN "gone" ELSE "issue"]
          /\ UNCHANGED <<streamQueue, completionVars>>
      BY <1>7 DEF TakeBatch
    <2>2. Fit(Head(issueQueue[x]), x) /\ AllFit(Tail(issueQueue[x]), x)
      BY <1>0, <1>1, <2>1, FitStep
    <2>3. ASSUME NEW d \in Devices PROVE HomeD(d)'
      <3>1. CASE d = x
        BY <1>0, <1>1, <2>1, <2>2, <3>1
      <3>2. CASE d # x
        BY <1>0, <1>1, <2>1, <3>2
      <3> QED  BY <3>1, <3>2
    <2>4. ASSUME NEW c \in Completers PROVE HomeC(c)'
      BY <1>1, <2>1
    <2> HIDE DEF HomeD, HomeC
    <2> QED  BY <1>2, <2>3, <2>4
  <1>8. ASSUME NEW x \in Devices, IssueTaken(x) PROVE HomeInv'
    <2>1. /\ ipc[x] = "issue" /\ IssueBatch(ibatch[x])
          /\ ibatch' = [ibatch EXCEPT ![x] = NoBatch] /\ ipc' = [ipc EXCEPT ![x] = "wait"]
          /\ UNCHANGED <<streamQueue, issueQueue, cpc, cbatch>>
      BY <1>8 DEF IssueTaken
    <2>2. Fit(ibatch[x], x) /\ ibatch[x] \in Batch /\ ibatch[x].stream[1] = x
      BY <1>0, <1>1, <2>1 DEF Fit
    <2>3. completionQueue' = [completionQueue EXCEPT ![x] = Append(@, ibatch[x])]
      BY <2>1, <2>2 DEF IssueBatch
    <2>4. AllFit(Append(completionQueue[x], ibatch[x]), x)
      BY <1>0, <1>1, <2>2, FitStep
    <2>5. ASSUME NEW d \in Devices PROVE HomeD(d)'
      <3>1. CASE d = x
        BY <1>0, <1>1, <2>1, <2>3, <2>4, <3>1 DEF Fit
      <3>2. CASE d # x
        BY <1>0, <1>1, <2>1, <2>3, <3>2
      <3> QED  BY <3>1, <3>2
    <2>6. ASSUME NEW c \in Completers PROVE HomeC(c)'
      BY <1>1, <2>1
    <2> HIDE DEF HomeD, HomeC
    <2> QED  BY <1>2, <2>5, <2>6
  <1>9. ASSUME NEW x \in Completers, PopCompletion(x) PROVE HomeInv'
    <2>1. /\ completionQueue[x[1]] # <<>> /\ x[1] \in Devices
          /\ cpc' = [cpc EXCEPT ![x] = IF Head(completionQueue[x[1]]) = NoBatch THEN "gone" ELSE "sync"]
          /\ cbatch' = [cbatch EXCEPT ![x] = Head(completionQueue[x[1]])]
          /\ completionQueue' = [completionQueue EXCEPT ![x[1]] = Tail(completionQueue[x[1]])]
          /\ UNCHANGED <<streamQueue, issueVars>>
      BY <1>9, ConstantTypes DEF PopCompletion, CompletionStep
    <2>2. Fit(Head(completionQueue[x[1]]), x[1]) /\ AllFit(Tail(completionQueue[x[1]]), x[1])
      BY <1>0, <1>1, <2>1, FitStep
    <2>3. ASSUME NEW d \in Devices PROVE HomeD(d)'
      <3>1. AllFit(completionQueue[d], d)'
        BY <1>0, <1>1, <2>1, <2>2
      <3> QED  BY <1>1, <2>1, <3>1
    <2>4. ASSUME NEW c \in Completers PROVE HomeC(c)'
      <3>1. CASE c = x
        BY <1>0, <2>1, <2>2, <3>1
      <3>2. CASE c # x
        BY <1>0, <1>1, <2>1, <3>2
      <3> QED  BY <3>1, <3>2
    <2> HIDE DEF HomeD, HomeC
    <2> QED  BY <1>2, <2>3, <2>4
  <1>10. ASSUME NEW x \in Completers, ReturnStream(x) PROVE HomeInv'
    <2>1. /\ x[1] \in Devices /\ cpc[x] = "return" /\ cpc' = [cpc EXCEPT ![x] = "pop"]
          /\ cbatch' = [cbatch EXCEPT ![x] = NoBatch]
          /\ streamQueue' = [streamQueue EXCEPT ![x[1]] = Append(@, cbatch[x].stream)]
          /\ UNCHANGED <<issueVars, completionQueue>>
      BY <1>10, ConstantTypes DEF ReturnStream, CompletionStep
    <2>2. cbatch[x].stream \in Streams /\ cbatch[x].stream[1] = x[1]
      BY <1>1, <2>1 DEF Fit
    <2>3. ASSUME NEW d \in Devices PROVE HomeD(d)'
      <3>1. StreamsFit(streamQueue[d], d)'
        <4>1. CASE d = x[1]
          BY <1>0, <1>1, <2>1, <2>2, <4>1, Extended, SMTT(30) DEF StreamsFit
        <4>2. CASE d # x[1]
          BY <1>0, <1>1, <2>1, <4>2
        <4> QED  BY <4>1, <4>2
      <3> QED  BY <1>1, <2>1, <3>1
    <2>4. ASSUME NEW c \in Completers PROVE HomeC(c)'
      <3>1. CASE c = x
        BY <1>0, <2>1, <3>1 DEF Fit
      <3>2. CASE c # x
        BY <1>0, <1>1, <2>1, <3>2
      <3> QED  BY <3>1, <3>2
    <2> HIDE DEF HomeD, HomeC
    <2> QED  BY <1>2, <2>3, <2>4
  <1> HIDE DEF HomeD, HomeC
  <1> QED  BY <1>3, <1>4, <1>5, <1>6, <1>7, <1>8, <1>9, <1>10, RestStep DEF Issuer

-----------------------------------------------------------------------------
(***************************************************************************)
(* The places of the streams.                                              *)
(***************************************************************************)
LEMMA SamePlaces ==
  ASSUME NEW s \in Streams
  PROVE  /\ UNCHANGED streamQueue => (Free(s)' <=> Free(s))
         /\ UNCHANGED <<bpc, bstream>> => (Picked(s)' <=> Picked(s))
         /\ UNCHANGED issueQueue => (Queued(s)' <=> Queued(s))
         /\ UNCHANGED ibatch => (Taken(s)' <=> Taken(s))
         /\ UNCHANGED completionQueue => (Pending(s)' <=> Pending(s))
         /\ UNCHANGED cbatch => (Busy(s)' <=> Busy(s))
  BY DEF Free, Picked, Queued, Taken, Pending, Busy

Stays(s) ==
    /\ Free(s)' <=> Free(s)
    /\ Picked(s)' <=> Picked(s)
    /\ Queued(s)' <=> Queued(s)
    /\ Taken(s)' <=> Taken(s)
    /\ Pending(s)' <=> Pending(s)
    /\ Busy(s)' <=> Busy(s)

\* Every stream stays where it is, or one moves.
LEMMA Moves ==
  ASSUME PlaceInv,
         \/ \A s \in Streams : Stays(s)
         \/ \E s0 \in Streams : \E to \in PlaceNames :
                LocatedAt(s0, to)' /\ \A s \in Streams \ {s0} : Stays(s)
  PROVE  PlaceInv'
  <1>1. ASSUME NEW s \in Streams, Stays(s)
        PROVE  \E p \in PlaceNames : LocatedAt(s, p)'
    <2>1. PICK p \in PlaceNames : LocatedAt(s, p)
      BY DEF PlaceInv
    <2>2. LocatedAt(s, p)'
      BY <1>1, <2>1 DEF LocatedAt, Stays
    <2> QED  BY <2>2
  <1>2. ASSUME NEW s \in Streams, NEW to \in PlaceNames, LocatedAt(s, to)'
        PROVE  \E p \in PlaceNames : LocatedAt(s, p)'
    BY <1>2
  <1>3. \A s \in Streams : \E p \in PlaceNames : LocatedAt(s, p)'
    BY <1>1, <1>2
  <1> QED  BY <1>3 DEF PlaceInv

\* A stream that is in a place is in no other.
LEMMA Alone ==
  ASSUME PlaceInv, NEW s \in Streams
  PROVE  /\ Free(s) => ~Picked(s) /\ ~Queued(s) /\ ~Taken(s) /\ ~Pending(s) /\ ~Busy(s)
         /\ Picked(s) => ~Queued(s) /\ ~Taken(s) /\ ~Pending(s) /\ ~Busy(s)
         /\ Queued(s) => ~Taken(s) /\ ~Pending(s) /\ ~Busy(s)
         /\ Taken(s) => ~Pending(s) /\ ~Busy(s)
         /\ Pending(s) => ~Busy(s)
  <1>1. PICK p \in PlaceNames : LocatedAt(s, p)
    BY DEF PlaceInv
  <1>2. \/ p = "free"
        \/ p = "picked"
        \/ p = "queued"
        \/ p = "taken"
        \/ p = "pending"
        \/ p = "busy"
    BY DEF PlaceNames
  <1> QED  BY <1>1, <1>2 DEF LocatedAt

PlacesType ==
    /\ streamQueue \in [Devices -> Seq(Streams)] /\ issueQueue \in [Devices -> Seq(Batch)]
    /\ ibatch \in [Devices -> Batch] /\ completionQueue \in [Devices -> Seq(Batch)]
    /\ cbatch \in [Completers -> Batch]
    /\ bpc \in [Devices -> BatcherPcs] /\ bdev \in [Devices -> Devices]
    /\ bstream \in [Devices -> Streams \cup {NoStream}]
\* The variables that say where the streams are have their types.
LEMMA PlacesTyped == TypeOK => PlacesType
  BY DEF TypeOK, PlacesType, BatcherPcs

\* A batcher takes a free stream into its hands.
LEMMA PlacePop ==
  ASSUME TypeOK, BatcherInv, HomeInv, PlaceInv, OnceInv, NEW b \in Devices, PopStream(b)
  PROVE  PlaceInv' /\ OnceInv'
  <1>0. PlacesType
    BY PlacesTyped
  <1>1. /\ bpc[b] = "pop" /\ bpc' = [bpc EXCEPT ![b] = "issue"]
        /\ streamQueue' = [streamQueue EXCEPT ![bdev[b]] = Tail(@)]
        /\ UNCHANGED <<bstream, issueQueue, ibatch, completionQueue, cbatch>>
    BY DEF PopStream
  <1>2. PICK d \in Devices : d = bdev[b]
    BY <1>0 DEF PlacesType
  <1>3. /\ streamQueue[d] # <<>> /\ bstream[b] = Head(streamQueue[d])
        /\ streamQueue[d] \in Seq(Streams) /\ Distinct(streamQueue[d]) /\ StreamsFit(streamQueue[d], d)
    BY <1>0, <1>1, <1>2 DEF BatcherInv, BatcherOk, PlacesType, OnceInv, HomeInv
  <1>4. PICK s0 \in Streams : s0 = Head(streamQueue[d])
    BY <1>3, HeadTail
  <1>5. /\ Distinct(Tail(streamQueue[d])) /\ Has(streamQueue[d], s0)
        /\ \A s : Has(Tail(streamQueue[d]), s) <=> Has(streamQueue[d], s) /\ s # s0
    BY <1>3, <1>4, TailHas
  <1>6. s0[1] = d /\ Free(s0)
    <2>1. s0[1] = d
      BY <1>5, <1>3 DEF Has, StreamsFit
    <2> QED  BY <1>5, <2>1 DEF Free
  <1>7. ASSUME NEW s \in Streams PROVE Free(s)' <=> Free(s) /\ s # s0
    <2>1. s[1] \in Devices
      BY ConstantTypes
    <2>2. CASE s[1] = d
      BY <1>0, <1>1, <1>2, <1>5, <2>2 DEF Free, PlacesType
    <2>3. CASE s[1] # d
      BY <1>0, <1>1, <1>2, <1>6, <2>1, <2>3 DEF Free, PlacesType
    <2> QED  BY <2>2, <2>3
  <1>8. ASSUME NEW s \in Streams PROVE Picked(s)' <=> Picked(s) \/ s = s0
    BY <1>0, <1>1, <1>3, <1>4 DEF Picked, PlacesType
  <1>9. \A s \in Streams \ {s0} : Stays(s)
    BY <1>1, <1>7, <1>8, SamePlaces DEF Stays
  <1>10. LocatedAt(s0, "picked")'
    <2>1. ~Queued(s0)' /\ ~Taken(s0)' /\ ~Pending(s0)' /\ ~Busy(s0)'
      BY <1>1, <1>6, Alone, SamePlaces
    <2> QED  BY <1>7, <1>8, <2>1 DEF LocatedAt
  <1>11. PlaceInv'
    BY <1>9, <1>10, Moves DEF PlaceNames
  <1>12. OnceInv'
    <2>1. ASSUME NEW x \in Devices PROVE Distinct(streamQueue'[x])
      BY <1>0, <1>1, <1>2, <1>5 DEF OnceInv, PlacesType
    <2>2. ASSUME NEW x \in Devices, bpc[x] = "issue" PROVE bstream[x] # s0
      BY <1>6, <2>2, Alone DEF Picked
    <2>3. \A b1, b2 \in Devices :
            bpc'[b1] = "issue" /\ bpc'[b2] = "issue" /\ bstream'[b1] = bstream'[b2] => b1 = b2
      BY <1>0, <1>1, <1>3, <1>4, <2>2 DEF OnceInv, PlacesType
    <2> QED  BY <1>1, <2>1, <2>3 DEF OnceInv
  <1> QED  BY <1>11, <1>12

\* It puts it into the issue queue with a batch, or launches the batch itself.
LEMMA PlaceCut ==
  ASSUME TypeOK, BatcherInv, HomeInv, PlaceInv, OnceInv, NEW b \in Devices, NextBatch(b)
  PROVE  PlaceInv' /\ OnceInv'
  <1>0. PlacesType
    BY PlacesTyped
  <1>1. /\ bpc[b] = "issue" /\ bpc' = [bpc EXCEPT ![b] = "device"]
        /\ bstream' = [bstream EXCEPT ![b] = NoStream]
        /\ UNCHANGED <<streamQueue, ibatch, cbatch>>
    BY DEF NextBatch
  <1>2. PICK n \in 1..Len(hand[b]) :
            /\ Cuts(b, n) /\ Cut(b, n) \in Batch
            /\ Cut(b, n).stream = bstream[b] /\ bstream[b] \in Streams /\ bstream[b][1] = bdev[b]
    BY NextBatchStep
  <1>3. PICK e \in Batch : e = Cut(b, n)
    BY <1>2
  <1>4. PICK s0 \in Streams : s0 = bstream[b]
    BY <1>2
  <1>5. PICK d \in Devices : d = s0[1]
    BY ConstantTypes
  <1>6. e.stream = s0 /\ Picked(s0) /\ bdev[b] = d
    BY <1>1, <1>2, <1>3, <1>4, <1>5 DEF Picked
  <1>7. \/ /\ UNCHANGED completionQueue
           /\ issueQueue' = [issueQueue EXCEPT ![d] = Append(@, e)]
        \/ /\ UNCHANGED issueQueue
           /\ completionQueue' = [completionQueue EXCEPT ![d] = Append(@, e)]
    BY <1>2, <1>3, <1>5, <1>6 DEF Cuts, IssueBatch
  <1>8. ASSUME NEW s \in Streams PROVE Picked(s)' <=> Picked(s) /\ s # s0
    BY <1>0, <1>1, <1>4 DEF Picked, PlacesType, OnceInv
  <1>9. ~Free(s0) /\ ~Queued(s0) /\ ~Taken(s0) /\ ~Pending(s0) /\ ~Busy(s0)
    BY <1>6, Alone
  <1>10. issueQueue[d] \in Seq(Batch) /\ completionQueue[d] \in Seq(Batch)
         /\ Single(issueQueue[d]) /\ Single(completionQueue[d])
    BY <1>0 DEF PlacesType, OnceInv
  <1>11. \A b1, b2 \in Devices :
            bpc'[b1] = "issue" /\ bpc'[b2] = "issue" /\ bstream'[b1] = bstream'[b2] => b1 = b2
    BY <1>0, <1>1 DEF PlacesType, OnceInv
  <1>12. CASE /\ UNCHANGED completionQueue
              /\ issueQueue' = [issueQueue EXCEPT ![d] = Append(@, e)]
    <2>1. /\ \A s : Carries(Append(issueQueue[d], e), s) <=> Carries(issueQueue[d], s) \/ s0 = s
          /\ Single(Append(issueQueue[d], e))
      BY <1>5, <1>6, <1>9, <1>10, AppendCarries DEF Queued
    <2>2. ASSUME NEW s \in Streams PROVE Queued(s)' <=> Queued(s) \/ s = s0
      <3>1. CASE s[1] = d
        BY <1>0, <1>12, <2>1, <3>1 DEF Queued, PlacesType
      <3>2. CASE s[1] # d
        BY <1>0, <1>5, <1>12, <3>2, ConstantTypes DEF Queued, PlacesType
      <3> QED  BY <3>1, <3>2
    <2>3. \A s \in Streams \ {s0} : Stays(s)
      BY <1>1, <1>8, <1>12, <2>2, SamePlaces DEF Stays
    <2>4. LocatedAt(s0, "queued")'
      BY <1>1, <1>8, <1>9, <1>12, <2>2, SamePlaces DEF LocatedAt
    <2>5. \A x \in Devices : Single(issueQueue'[x])
      BY <1>0, <1>12, <2>1 DEF OnceInv, PlacesType
    <2>6. OnceInv'
      BY <1>1, <1>11, <1>12, <2>5 DEF OnceInv
    <2> QED  BY <2>3, <2>4, <2>6, Moves DEF PlaceNames
  <1>13. CASE /\ UNCHANGED issueQueue
              /\ completionQueue' = [completionQueue EXCEPT ![d] = Append(@, e)]
    <2>1. /\ \A s : Carries(Append(completionQueue[d], e), s) <=> Carries(completionQueue[d], s) \/ s0 = s
          /\ Single(Append(completionQueue[d], e))
      BY <1>5, <1>6, <1>9, <1>10, AppendCarries DEF Pending
    <2>2. ASSUME NEW s \in Streams PROVE Pending(s)' <=> Pending(s) \/ s = s0
      <3>1. CASE s[1] = d
        BY <1>0, <1>13, <2>1, <3>1 DEF Pending, PlacesType
      <3>2. CASE s[1] # d
        BY <1>0, <1>5, <1>13, <3>2, ConstantTypes DEF Pending, PlacesType
      <3> QED  BY <3>1, <3>2
    <2>3. \A s \in Streams \ {s0} : Stays(s)
      BY <1>1, <1>8, <1>13, <2>2, SamePlaces DEF Stays
    <2>4. LocatedAt(s0, "pending")'
      BY <1>1, <1>8, <1>9, <1>13, <2>2, SamePlaces DEF LocatedAt
    <2>5. \A x \in Devices : Single(completionQueue'[x])
      BY <1>0, <1>13, <2>1 DEF OnceInv, PlacesType
    <2>6. OnceInv'
      BY <1>1, <1>11, <1>13, <2>5 DEF OnceInv
    <2> QED  BY <2>3, <2>4, <2>6, Moves DEF PlaceNames
  <1> QED  BY <1>7, <1>12, <1>13

\* An issuing thread takes a batch from its queue.
LEMMA PlaceTake ==
  ASSUME TypeOK, HomeInv, PlaceInv, OnceInv, NEW d \in Devices, TakeBatch(d)
  PROVE  PlaceInv' /\ OnceInv'
  <1>0. PlacesType
    BY PlacesTyped
  <1>1. /\ issueQueue[d] # <<>> /\ ibatch' = [ibatch EXCEPT ![d] = Head(issueQueue[d])]
        /\ issueQueue' = [issueQueue EXCEPT ![d] = Tail(@)] /\ ibatch[d] = NoBatch
        /\ UNCHANGED <<bpc, bstream, streamQueue, completionQueue, cbatch>>
    BY DEF TakeBatch, HomeInv
  <1>2. issueQueue[d] \in Seq(Batch) /\ Single(issueQueue[d]) /\ AllFit(issueQueue[d], d)
    BY <1>0 DEF PlacesType, OnceInv, HomeInv
  <1>3. PICK e \in Batch : e = Head(issueQueue[d])
    BY <1>1, <1>2, HeadTail
  <1>4. /\ Carries(issueQueue[d], e.stream) /\ Single(Tail(issueQueue[d]))
        /\ \A s \in Streams : Carries(Tail(issueQueue[d]), s) <=> Carries(issueQueue[d], s) /\ s # e.stream
    BY <1>1, <1>2, <1>3, TailCarries
  <1>5. Fit(e, d)
    BY <1>1, <1>2, <1>3, FitStep
  <1>6. \A s \in Streams : s # NoStream /\ s[1] \in Devices
    BY ConstantTypes
  <1>7. NoBatch.stream = NoStream
    BY ConstantTypes
  <1>8. ASSUME NEW s \in Streams PROVE Queued(s)' <=> Queued(s) /\ s # e.stream
    <2>1. CASE s[1] = d
      BY <1>0, <1>1, <1>4, <2>1 DEF Queued, PlacesType
    <2>2. CASE s[1] # d
      <3>1. s # e.stream
        BY <1>5, <1>6, <1>7, <2>2 DEF Fit
      <3> QED  BY <1>0, <1>1, <1>6, <2>2, <3>1 DEF Queued, PlacesType
    <2> QED  BY <2>1, <2>2
  <1>9. ASSUME NEW s \in Streams PROVE Taken(s)' <=> Taken(s) \/ s = e.stream
    <2>1. CASE s[1] = d
      BY <1>0, <1>1, <1>3, <1>6, <1>7, <2>1 DEF Taken, PlacesType
    <2>2. CASE s[1] # d
      <3>1. s # e.stream
        BY <1>5, <1>6, <1>7, <2>2 DEF Fit
      <3> QED  BY <1>0, <1>1, <1>6, <2>2, <3>1 DEF Taken, PlacesType
    <2> QED  BY <2>1, <2>2
  <1>10. \A s \in Streams : s # e.stream => Stays(s)
    BY <1>1, <1>8, <1>9, SamePlaces DEF Stays
  <1>11. PlaceInv'
    <2>1. CASE e = NoBatch
      <3>1. \A s \in Streams : s # e.stream
        BY <1>6, <1>7, <2>1
      <3> QED  BY <1>10, <3>1, Moves
    <2>2. CASE e # NoBatch
      <3>1. PICK s0 \in Streams : s0 = e.stream
        BY <1>5, <2>2 DEF Fit
      <3>2. Queued(s0)
        BY <1>4, <1>5, <2>2, <3>1 DEF Fit, Queued
      <3>3. ~Free(s0) /\ ~Picked(s0) /\ ~Pending(s0) /\ ~Busy(s0)
        BY <3>2, Alone
      <3>4. LocatedAt(s0, "taken")'
        BY <1>1, <1>8, <1>9, <3>1, <3>3, SamePlaces DEF LocatedAt
      <3> QED  BY <1>10, <3>1, <3>4, Moves DEF PlaceNames
    <2> QED  BY <2>1, <2>2
  <1>12. OnceInv'
    <2>1. \A x \in Devices : Single(issueQueue'[x])
      BY <1>0, <1>1, <1>4 DEF OnceInv, PlacesType
    <2> QED  BY <1>1, <2>1 DEF OnceInv
  <1> QED  BY <1>11, <1>12

\* It launches the batch, which is then pending.
LEMMA PlaceIssue ==
  ASSUME TypeOK, HomeInv, PlaceInv, OnceInv, NEW d \in Devices, IssueTaken(d)
  PROVE  PlaceInv' /\ OnceInv'
  <1>0. PlacesType
    BY PlacesTyped
  <1>1. PICK e \in Batch : e = ibatch[d]
    BY <1>0 DEF PlacesType
  <1>2. /\ IssueBatch(e) /\ e # NoBatch /\ ibatch' = [ibatch EXCEPT ![d] = NoBatch]
        /\ UNCHANGED <<bpc, bstream, streamQueue, issueQueue, cbatch>> /\ Fit(e, d)
    BY <1>1 DEF IssueTaken, HomeInv
  <1>3. PICK s0 \in Streams : s0 = e.stream
    BY <1>2 DEF Fit
  <1>4. s0[1] = d /\ Taken(s0)
    BY <1>1, <1>2, <1>3 DEF Fit, Taken
  <1>5. completionQueue' = [completionQueue EXCEPT ![d] = Append(@, e)]
    BY <1>2, <1>3, <1>4 DEF IssueBatch
  <1>6. ~Free(s0) /\ ~Picked(s0) /\ ~Queued(s0) /\ ~Pending(s0) /\ ~Busy(s0)
    BY <1>4, Alone
  <1>7. /\ \A s : Carries(Append(completionQueue[d], e), s) <=> Carries(completionQueue[d], s) \/ s0 = s
        /\ Single(Append(completionQueue[d], e))
    <2>1. completionQueue[d] \in Seq(Batch) /\ Single(completionQueue[d])
      BY <1>0 DEF PlacesType, OnceInv
    <2>2. ~Carries(completionQueue[d], s0)
      BY <1>4, <1>6 DEF Pending
    <2> QED  BY <1>3, <2>1, <2>2, AppendCarries
  <1>8. \A s \in Streams : s # NoStream /\ s[1] \in Devices
    BY ConstantTypes
  <1>9. ASSUME NEW s \in Streams PROVE Pending(s)' <=> Pending(s) \/ s = s0
    <2>1. CASE s[1] = d
      BY <1>0, <1>5, <1>7, <2>1 DEF Pending, PlacesType
    <2>2. CASE s[1] # d
      BY <1>0, <1>4, <1>5, <1>8, <2>2 DEF Pending, PlacesType
    <2> QED  BY <2>1, <2>2
  <1>10. ASSUME NEW s \in Streams PROVE Taken(s)' <=> Taken(s) /\ s # s0
    <2>1. CASE s[1] = d
      BY <1>0, <1>1, <1>2, <1>3, <1>8, <2>1, ConstantTypes DEF Taken, PlacesType
    <2>2. CASE s[1] # d
      BY <1>0, <1>2, <1>4, <1>8, <2>2 DEF Taken, PlacesType
    <2> QED  BY <2>1, <2>2
  <1>11. \A s \in Streams \ {s0} : Stays(s)
    BY <1>2, <1>9, <1>10, SamePlaces DEF Stays
  <1>12. LocatedAt(s0, "pending")'
    BY <1>2, <1>6, <1>9, <1>10, SamePlaces DEF LocatedAt
  <1>13. OnceInv'
    <2>1. \A x \in Devices : Single(completionQueue'[x])
      BY <1>0, <1>5, <1>7 DEF OnceInv, PlacesType
    <2> QED  BY <1>2, <2>1 DEF OnceInv
  <1> QED  BY <1>11, <1>12, <1>13, Moves DEF PlaceNames

\* A completion thread takes a pending batch.
LEMMA PlaceComplete ==
  ASSUME TypeOK, HomeInv, PlaceInv, OnceInv, NEW c \in Completers, PopCompletion(c)
  PROVE  PlaceInv' /\ OnceInv'
  <1>0. PlacesType
    BY PlacesTyped
  <1>1. PICK d \in Devices : d = c[1]
    BY ConstantTypes
  <1>2. /\ completionQueue[d] # <<>> /\ cbatch' = [cbatch EXCEPT ![c] = Head(completionQueue[d])]
        /\ completionQueue' = [completionQueue EXCEPT ![d] = Tail(completionQueue[d])]
        /\ cbatch[c] = NoBatch
        /\ UNCHANGED <<bpc, bstream, streamQueue, issueQueue, ibatch>>
    BY <1>1 DEF PopCompletion, CompletionStep, HomeInv
  <1>3. completionQueue[d] \in Seq(Batch) /\ Single(completionQueue[d]) /\ AllFit(completionQueue[d], d)
    BY <1>0 DEF PlacesType, OnceInv, HomeInv
  <1>4. PICK e \in Batch : e = Head(completionQueue[d])
    BY <1>2, <1>3, HeadTail
  <1>5. /\ Carries(completionQueue[d], e.stream) /\ Single(Tail(completionQueue[d]))
        /\ \A s \in Streams :
                Carries(Tail(completionQueue[d]), s) <=> Carries(completionQueue[d], s) /\ s # e.stream
    BY <1>2, <1>3, <1>4, TailCarries
  <1>6. Fit(e, d)
    BY <1>2, <1>3, <1>4, FitStep
  <1>7. \A s \in Streams : s # NoStream /\ s[1] \in Devices
    BY ConstantTypes
  <1>8. NoBatch.stream = NoStream
    BY ConstantTypes
  <1>9. ASSUME NEW s \in Streams PROVE Pending(s)' <=> Pending(s) /\ s # e.stream
    <2>1. CASE s[1] = d
      BY <1>0, <1>2, <1>5, <2>1 DEF Pending, PlacesType
    <2>2. CASE s[1] # d
      <3>1. s # e.stream
        BY <1>6, <1>7, <1>8, <2>2 DEF Fit
      <3> QED  BY <1>0, <1>2, <1>7, <2>2, <3>1 DEF Pending, PlacesType
    <2> QED  BY <2>1, <2>2
  <1>10. ASSUME NEW s \in Streams PROVE Busy(s)' <=> Busy(s) \/ s = e.stream
    <2>1. cbatch'[c] = e /\ \A x \in Completers \ {c} : cbatch'[x] = cbatch[x]
      BY <1>0, <1>2, <1>4 DEF PlacesType
    <2>2. cbatch[c].stream # s
      BY <1>2, <1>7, <1>8
    <2> QED  BY <2>1, <2>2 DEF Busy
  <1>11. \A s \in Streams : s # e.stream => Stays(s)
    BY <1>2, <1>9, <1>10, SamePlaces DEF Stays
  <1>12. \A x \in Devices : Single(completionQueue'[x])
    BY <1>0, <1>2, <1>5 DEF OnceInv, PlacesType
  <1>13. cbatch'[c] = e /\ \A x \in Completers \ {c} : cbatch'[x] = cbatch[x]
    BY <1>0, <1>2, <1>4 DEF PlacesType
  <1>14. CASE e = NoBatch
    <2>1. \A s \in Streams : s # e.stream
      BY <1>7, <1>8, <1>14
    <2>2. PlaceInv'
      BY <1>11, <2>1, Moves
    <2>3. cbatch' = cbatch
      BY <1>0, <1>2, <1>4, <1>14 DEF PlacesType
    <2>4. OnceInv'
      BY <1>2, <1>12, <2>3 DEF OnceInv
    <2> QED  BY <2>2, <2>4
  <1>15. CASE e # NoBatch
    <2>1. PICK s0 \in Streams : s0 = e.stream
      BY <1>6, <1>15 DEF Fit
    <2>2. Pending(s0)
      BY <1>5, <1>6, <1>15, <2>1 DEF Fit, Pending
    <2>3. ~Free(s0) /\ ~Picked(s0) /\ ~Queued(s0) /\ ~Taken(s0) /\ ~Busy(s0)
      BY <2>2, Alone
    <2>4. LocatedAt(s0, "busy")'
      BY <1>2, <1>9, <1>10, <2>1, <2>3, SamePlaces DEF LocatedAt
    <2>5. PlaceInv'
      BY <1>11, <2>1, <2>4, Moves DEF PlaceNames
    <2>6. \A x \in Completers : cbatch[x].stream # s0
      BY <2>3 DEF Busy
    <2>7. \A c1, c2 \in Completers :
            cbatch'[c1].stream = cbatch'[c2].stream /\ cbatch'[c1] # NoBatch => c1 = c2
      BY <1>13, <2>1, <2>6 DEF OnceInv
    <2>8. OnceInv'
      BY <1>2, <1>12, <2>7 DEF OnceInv
    <2> QED  BY <2>5, <2>8
  <1> QED  BY <1>14, <1>15

\* It gives the stream back when the batch is answered.
LEMMA PlaceReturn ==
  ASSUME TypeOK, HomeInv, PlaceInv, OnceInv, NEW c \in Completers, ReturnStream(c)
  PROVE  PlaceInv' /\ OnceInv'
  <1>0. PlacesType
    BY PlacesTyped
  <1>1. PICK d \in Devices : d = c[1]
    BY ConstantTypes
  <1>2. /\ cbatch' = [cbatch EXCEPT ![c] = NoBatch] /\ cbatch[c] # NoBatch
        /\ streamQueue' = [streamQueue EXCEPT ![d] = Append(@, cbatch[c].stream)]
        /\ UNCHANGED <<bpc, bstream, issueQueue, ibatch, completionQueue>>
    BY <1>1 DEF ReturnStream, CompletionStep, HomeInv
  <1>3. PICK s0 \in Streams : s0 = cbatch[c].stream
    BY <1>2 DEF HomeInv, Fit
  <1>4. s0[1] = d /\ Busy(s0)
    BY <1>1, <1>2, <1>3 DEF HomeInv, Fit, Busy
  <1>5. ~Free(s0) /\ ~Picked(s0) /\ ~Queued(s0) /\ ~Taken(s0) /\ ~Pending(s0)
    BY <1>4, Alone
  <1>6. /\ \A s : Has(Append(streamQueue[d], s0), s) <=> Has(streamQueue[d], s) \/ s = s0
        /\ Distinct(Append(streamQueue[d], s0))
    <2>1. streamQueue[d] \in Seq(Streams) /\ Distinct(streamQueue[d])
      BY <1>0 DEF PlacesType, OnceInv
    <2>2. ~Has(streamQueue[d], s0)
      BY <1>4, <1>5 DEF Free
    <2> QED  BY <2>1, <2>2, AppendHas
  <1>7. \A s \in Streams : s # NoStream /\ s[1] \in Devices
    BY ConstantTypes
  <1>8. ASSUME NEW s \in Streams PROVE Free(s)' <=> Free(s) \/ s = s0
    <2>1. CASE s[1] = d
      BY <1>0, <1>2, <1>3, <1>6, <2>1 DEF Free, PlacesType
    <2>2. CASE s[1] # d
      BY <1>0, <1>2, <1>4, <1>7, <2>2 DEF Free, PlacesType
    <2> QED  BY <2>1, <2>2
  <1>9. cbatch'[c] = NoBatch /\ \A x \in Completers \ {c} : cbatch'[x] = cbatch[x]
    BY <1>0, <1>2 DEF PlacesType
  <1>10. ASSUME NEW s \in Streams PROVE Busy(s)' <=> Busy(s) /\ s # s0
    <2>1. cbatch'[c].stream # s
      BY <1>7, <1>9, ConstantTypes
    <2>2. \A x \in Completers \ {c} : cbatch[x].stream # s0
      BY <1>2, <1>3 DEF OnceInv
    <2> QED  BY <1>3, <1>9, <2>1, <2>2 DEF Busy
  <1>11. \A s \in Streams \ {s0} : Stays(s)
    BY <1>2, <1>8, <1>10, SamePlaces DEF Stays
  <1>12. LocatedAt(s0, "free")'
    BY <1>2, <1>5, <1>8, <1>10, SamePlaces DEF LocatedAt
  <1>13. OnceInv'
    <2>1. \A x \in Devices : Distinct(streamQueue'[x])
      BY <1>0, <1>2, <1>3, <1>6 DEF OnceInv, PlacesType
    <2>2. \A c1, c2 \in Completers :
            cbatch'[c1].stream = cbatch'[c2].stream /\ cbatch'[c1] # NoBatch => c1 = c2
      <3> SUFFICES ASSUME NEW c1 \in Completers, NEW c2 \in Completers,
                          cbatch'[c1].stream = cbatch'[c2].stream, cbatch'[c1] # NoBatch
                   PROVE  c1 = c2
        OBVIOUS
      <3>1. c1 # c /\ cbatch'[c1].stream # NoStream
        BY <1>7, <1>9 DEF HomeInv, Fit
      <3>2. c2 # c
        BY <1>9, <3>1, ConstantTypes
      <3> QED  BY <1>9, <3>1, <3>2 DEF OnceInv
    <2> QED  BY <1>2, <2>1, <2>2 DEF OnceInv
  <1> QED  BY <1>11, <1>12, <1>13, Moves DEF PlaceNames

\* A stream is in one place, once.
LEMMA PlaceNext ==
  ASSUME TypeOK, BatcherInv, WorkInv, HomeInv, PlaceInv, OnceInv, Next
  PROVE  PlaceInv' /\ OnceInv'
  <1>1. CASE Rests
    <2>1. \A s \in Streams : Picked(s)' <=> Picked(s)
      BY <1>1 DEF Rests, Picks, Picked
    <2>2. UNCHANGED <<streamQueue, issueQueue, ibatch, completionQueue, cbatch>>
      BY <1>1 DEF Rests
    <2>3. \A s \in Streams : Stays(s)
      BY <2>1, <2>2, SamePlaces DEF Stays
    <2>4. \A b1, b2 \in Devices :
            bpc'[b1] = "issue" /\ bpc'[b2] = "issue" /\ bstream'[b1] = bstream'[b2] => b1 = b2
      BY <1>1 DEF Rests, Picks, OnceInv
    <2>5. OnceInv'
      BY <2>2, <2>4 DEF OnceInv
    <2> QED  BY <2>3, <2>5, Moves
  <1>2. CASE Nulls
    <2>1. UNCHANGED <<streamQueue, ibatch, cbatch, bpc, bstream>>
      BY <1>2 DEF Nulls
    <2>2. ASSUME NEW s \in Streams PROVE (Queued(s)' <=> Queued(s)) /\ (Pending(s)' <=> Pending(s))
      BY <1>2, NullsStep, ConstantTypes DEF Queued, Pending
    <2>3. \A s \in Streams : Stays(s)
      BY <2>1, <2>2, SamePlaces DEF Stays
    <2>4. \A d \in Devices : Single(issueQueue'[d]) /\ Single(completionQueue'[d])
      BY <1>2, NullsStep DEF OnceInv
    <2>5. OnceInv'
      BY <2>1, <2>4 DEF OnceInv
    <2> QED  BY <2>3, <2>5, Moves
  <1> QED  BY <1>1, <1>2, RestStep, PlacePop, PlaceCut, PlaceTake, PlaceIssue, PlaceComplete,
              PlaceReturn DEF Issuer

-----------------------------------------------------------------------------
(***************************************************************************)
(* The batches on their way, and the inputs they find on their streams.    *)
(***************************************************************************)
LEMMA HasStep ==
  ASSUME NEW queue \in Seq(Batch), NEW x
  PROVE  /\ \A e \in Batch : Has(Append(queue, e), x) => Has(queue, x) \/ x = e
         /\ queue # <<>> => Has(queue, Head(queue)) /\ (Has(Tail(queue), x) => Has(queue, x))
  <1>1. \A e \in Batch : Has(Append(queue, e), x) => Has(queue, x) \/ x = e
    BY AppendHas
  <1>2. ASSUME queue # <<>> PROVE Has(queue, Head(queue)) /\ (Has(Tail(queue), x) => Has(queue, x))
    BY <1>2, HeadTail DEF Has
  <1> QED  BY <1>1, <1>2

\* No batch is new, and the inputs stay.
NoneNew(e) == (Launched(e)' => Launched(e)) /\ (Waiting(e)' => Waiting(e))

\* The batch that is issued is new to the completion threads; it was waiting or
\* has just been cut.
IssuesNow(e0) ==
    /\ e0.stream \in Streams /\ (Picked(e0.stream) \/ Taken(e0.stream))
    /\ loaded' = [loaded EXCEPT ![e0.stream] = Places(e0.samples)]
    /\ \A e \in Batch \ {NoBatch, e0} : NoneNew(e)

\* The steps that bring no batch to be issued or to be answered.
LEMMA NoneNewStep ==
  ASSUME TypeOK, HomeInv, NEW e \in Batch \ {NoBatch},
         \/ Rests \/ Nulls
         \/ \E b \in Devices : PopStream(b)
         \/ \E d \in Devices : TakeBatch(d)
         \/ \E c \in Completers : PopCompletion(c) \/ ReturnStream(c)
  PROVE  NoneNew(e) /\ loaded' = loaded
  <1>0. PlacesType /\ cpc \in [Completers -> {"pop", "sync", "return", "gone"}]
    BY PlacesTyped DEF TypeOK
  <1>1. CASE Rests
    BY <1>1 DEF Rests, NoneNew, Launched, Waiting
  <1>2. CASE Nulls
    <2>1. \A d \in Devices : /\ Has(issueQueue'[d], e) => Has(issueQueue[d], e)
                             /\ Has(completionQueue'[d], e) => Has(completionQueue[d], e)
      BY <1>2, NullsStep DEF Has
    <2>2. UNCHANGED <<ibatch, cpc, cbatch, loaded>>
      BY <1>2 DEF Nulls
    <2> QED  BY <2>1, <2>2 DEF NoneNew, Launched, Waiting
  <1>3. ASSUME NEW b \in Devices, PopStream(b) PROVE NoneNew(e) /\ loaded' = loaded
    BY <1>3 DEF PopStream, NoneNew, Launched, Waiting
  <1>4. ASSUME NEW d \in Devices, TakeBatch(d) PROVE NoneNew(e) /\ loaded' = loaded
    <2>1. /\ issueQueue[d] # <<>> /\ ibatch' = [ibatch EXCEPT ![d] = Head(issueQueue[d])]
          /\ issueQueue' = [issueQueue EXCEPT ![d] = Tail(@)] /\ UNCHANGED <<loaded, completionVars>>
      BY <1>4 DEF TakeBatch
    <2>2. Has(issueQueue[d], Head(issueQueue[d])) /\ (Has(Tail(issueQueue[d]), e) => Has(issueQueue[d], e))
      BY <1>0, <2>1, HasStep DEF PlacesType
    <2>3. Waiting(e)' => Waiting(e)
      BY <1>0, <2>1, <2>2 DEF Waiting, PlacesType
    <2>4. Launched(e)' => Launched(e)
      BY <2>1 DEF Launched
    <2> QED  BY <2>1, <2>3, <2>4 DEF NoneNew
  <1>5. ASSUME NEW c \in Completers, PopCompletion(c) PROVE NoneNew(e) /\ loaded' = loaded
    <2>1. PICK d \in Devices : d = c[1]
      BY ConstantTypes
    <2>2. /\ completionQueue[d] # <<>> /\ cbatch' = [cbatch EXCEPT ![c] = Head(completionQueue[d])]
          /\ completionQueue' = [completionQueue EXCEPT ![d] = Tail(completionQueue[d])]
          /\ \A x \in Completers \ {c} : cpc'[x] = cpc[x]
          /\ UNCHANGED <<loaded, issueVars>>
      BY <1>0, <1>5, <2>1 DEF PopCompletion, CompletionStep
    <2>3. /\ Has(completionQueue[d], Head(completionQueue[d]))
          /\ Has(Tail(completionQueue[d]), e) => Has(completionQueue[d], e)
      BY <1>0, <2>2, HasStep DEF PlacesType
    <2>4. ASSUME NEW x \in Completers, cpc'[x] = "sync", cbatch'[x] = e PROVE Launched(e)
      <3>1. CASE x = c
        BY <1>0, <2>2, <2>3, <2>4, <3>1 DEF Launched, PlacesType
      <3>2. CASE x # c
        BY <1>0, <2>2, <2>4, <3>2 DEF Launched, PlacesType
      <3> QED  BY <3>1, <3>2
    <2>5. ASSUME NEW x \in Devices, Has(completionQueue'[x], e) PROVE Launched(e)
      BY <1>0, <2>2, <2>3, <2>5 DEF Launched, PlacesType
    <2>6. Launched(e)' => Launched(e)
      BY <2>4, <2>5 DEF Launched
    <2>7. Waiting(e)' => Waiting(e)
      BY <2>2 DEF Waiting
    <2> QED  BY <2>2, <2>6, <2>7 DEF NoneNew
  <1>6. ASSUME NEW c \in Completers, ReturnStream(c) PROVE NoneNew(e) /\ loaded' = loaded
    <2>1. /\ cpc' = [cpc EXCEPT ![c] = "pop"] /\ cbatch' = [cbatch EXCEPT ![c] = NoBatch]
          /\ UNCHANGED <<loaded, completionQueue, issueVars>>
      BY <1>6 DEF ReturnStream, CompletionStep
    <2>2. ASSUME NEW x \in Completers, cpc'[x] = "sync", cbatch'[x] = e PROVE Launched(e)
      <3>1. x # c
        BY <1>0, <2>1, <2>2
      <3> QED  BY <1>0, <2>1, <2>2, <3>1 DEF Launched, PlacesType
    <2>3. Launched(e)' => Launched(e)
      BY <2>1, <2>2 DEF Launched
    <2>4. Waiting(e)' => Waiting(e)
      BY <2>1 DEF Waiting
    <2> QED  BY <2>1, <2>3, <2>4 DEF NoneNew
  <1> QED  BY <1>1, <1>2, <1>3, <1>4, <1>5, <1>6

\* The batch an issuing thread has taken.
LEMMA IssueTakenStep ==
  ASSUME TypeOK, HomeInv, NEW d \in Devices, IssueTaken(d)
  PROVE  \E e0 \in Batch : e0 # NoBatch /\ Waiting(e0) /\ IssuesNow(e0)
  <1>0. PlacesType /\ QueueType
    BY PlacesTyped, TypeParts
  <1>1. PICK e0 \in Batch : e0 = ibatch[d]
    BY <1>0 DEF PlacesType
  <1>2. /\ IssueBatch(e0) /\ e0 # NoBatch /\ ibatch' = [ibatch EXCEPT ![d] = NoBatch]
        /\ UNCHANGED <<issueQueue, cpc, cbatch>> /\ e0.stream \in Streams /\ e0.stream[1] = d
    BY <1>1 DEF IssueTaken, HomeInv, Fit
  <1>3. /\ loaded' = [loaded EXCEPT ![e0.stream] = Places(e0.samples)]
        /\ completionQueue' = [completionQueue EXCEPT ![d] = Append(@, e0)]
    BY <1>0, <1>2, IssueBatchType
  <1>4. Taken(e0.stream) /\ Waiting(e0)
    BY <1>1, <1>2 DEF Taken, Waiting
  <1>5. ASSUME NEW e \in Batch \ {NoBatch, e0} PROVE NoneNew(e)
    <2>1. \A x \in Devices : Has(completionQueue'[x], e) => Has(completionQueue[x], e)
      BY <1>0, <1>3, HasStep DEF PlacesType
    <2>2. Launched(e)' => Launched(e)
      BY <1>2, <2>1 DEF Launched
    <2>3. Waiting(e)' => Waiting(e)
      BY <1>0, <1>2 DEF Waiting, PlacesType
    <2> QED  BY <2>2, <2>3 DEF NoneNew
  <1> QED  BY <1>2, <1>3, <1>4, <1>5 DEF IssuesNow

\* The batch a batcher cuts is issued, or waits.
LEMMA CutStep ==
  ASSUME TypeOK, BatcherInv, NEW b \in Devices, NEW n \in 1..Len(hand[b]), NextBatch(b),
         Cuts(b, n), NEW e0 \in Batch, e0 = Cut(b, n), e0.stream = bstream[b], bstream[b] \in Streams
  PROVE  /\ Picked(e0.stream) /\ \A e \in Batch \ {NoBatch, e0} : NoneNew(e)
         /\ IssuesNow(e0) \/ (loaded' = loaded /\ \A e \in Batch : Launched(e)' => Launched(e))
  <1>0. PlacesType /\ QueueType
    BY PlacesTyped, TypeParts
  <1>1. Picked(e0.stream) /\ UNCHANGED <<ibatch, cpc, cbatch>>
    BY DEF NextBatch, Picked
  <1>2. CASE /\ settings.cudaThread /\ UNCHANGED <<loaded, completionQueue>>
             /\ issueQueue' = [issueQueue EXCEPT ![bdev[b]] = Append(@, e0)]
    <2>1. \A e \in Batch : Launched(e)' => Launched(e)
      BY <1>1, <1>2 DEF Launched
    <2>2. ASSUME NEW e \in Batch \ {NoBatch, e0} PROVE Waiting(e)' => Waiting(e)
      <3>1. \A x \in Devices : Has(issueQueue'[x], e) => Has(issueQueue[x], e)
        BY <1>0, <1>2, HasStep DEF PlacesType
      <3> QED  BY <1>1, <3>1 DEF Waiting
    <2> QED  BY <1>1, <1>2, <2>1, <2>2 DEF NoneNew
  <1>3. CASE IssueBatch(e0) /\ UNCHANGED issueQueue
    <2>1. /\ loaded' = [loaded EXCEPT ![e0.stream] = Places(e0.samples)]
          /\ completionQueue' = [completionQueue EXCEPT ![e0.stream[1]] = Append(@, e0)]
      BY <1>0, <1>3, IssueBatchType
    <2>2. ASSUME NEW e \in Batch \ {NoBatch, e0} PROVE NoneNew(e)
      <3>1. \A x \in Devices : Has(completionQueue'[x], e) => Has(completionQueue[x], e)
        BY <1>0, <2>1, HasStep DEF PlacesType
      <3>2. Launched(e)' => Launched(e)
        BY <1>1, <3>1 DEF Launched
      <3>3. Waiting(e)' => Waiting(e)
        BY <1>1, <1>3 DEF Waiting
      <3> QED  BY <3>2, <3>3 DEF NoneNew
    <2> QED  BY <1>1, <2>1, <2>2 DEF IssuesNow
  <1> QED  BY <1>2, <1>3 DEF Cuts

\* Where the stream of a batch on its way is.
LEMMA OnWayPlaces ==
  ASSUME TypeOK, HomeInv, NEW e \in Batch \ {NoBatch}
  PROVE  /\ Launched(e) => /\ e.stream \in Streams /\ (Pending(e.stream) \/ Busy(e.stream))
                           /\ Pending(e.stream) \/ \E c \in Completers : cpc[c] = "sync" /\ cbatch[c] = e
         /\ Waiting(e) => e.stream \in Streams /\ (Queued(e.stream) \/ Taken(e.stream))
  <1>1. ASSUME NEW c \in Completers, cbatch[c] = e PROVE e.stream \in Streams /\ Busy(e.stream)
    BY <1>1 DEF HomeInv, Fit, Busy
  <1>2. ASSUME NEW d \in Devices, Has(completionQueue[d], e)
        PROVE  e.stream \in Streams /\ Pending(e.stream)
    BY <1>2 DEF HomeInv, AllFit, Fit, Pending, Has, Carries
  <1>3. ASSUME NEW d \in Devices, Has(issueQueue[d], e)
        PROVE  e.stream \in Streams /\ Queued(e.stream)
    BY <1>3 DEF HomeInv, AllFit, Fit, Queued, Has, Carries
  <1>4. ASSUME NEW d \in Devices, ibatch[d] = e PROVE e.stream \in Streams /\ Taken(e.stream)
    BY <1>4 DEF HomeInv, Fit, Taken
  <1>5. Launched(e) => /\ e.stream \in Streams /\ (Pending(e.stream) \/ Busy(e.stream))
                       /\ Pending(e.stream) \/ \E c \in Completers : cpc[c] = "sync" /\ cbatch[c] = e
    BY <1>1, <1>2 DEF Launched
  <1>6. Waiting(e) => e.stream \in Streams /\ (Queued(e.stream) \/ Taken(e.stream))
    BY <1>3, <1>4 DEF Waiting
  <1> QED  BY <1>5, <1>6

\* No stream is loaded again while a batch on it is unanswered.
LEMMA LoadNext ==
  ASSUME TypeOK, BatcherInv, WorkInv, HomeInv, PlaceInv, LoadInv, Next
  PROVE  LoadInv'
  <1>1. ASSUME loaded' = loaded, \A e \in Batch \ {NoBatch} : Launched(e)' => Launched(e)
        PROVE  LoadInv'
    BY <1>1 DEF LoadInv
  <1>2. ASSUME NEW e0 \in Batch, IssuesNow(e0) PROVE LoadInv'
    <2> SUFFICES ASSUME NEW e \in Batch \ {NoBatch}, Launched(e)'
                 PROVE  loaded'[e.stream] = Places(e.samples)
      BY DEF LoadInv, Places
    <2>1. loaded \in [Streams -> Seq(Nat)]
      BY DEF TypeOK
    <2>2. CASE e = e0
      BY <1>2, <2>1, <2>2 DEF IssuesNow
    <2>3. CASE e # e0
      <3>1. Launched(e)
        BY <1>2, <2>3 DEF IssuesNow, NoneNew
      <3>2. e.stream \in Streams /\ (Pending(e.stream) \/ Busy(e.stream))
        BY <3>1, OnWayPlaces
      <3>3. e.stream # e0.stream
        BY <1>2, <3>2, Alone DEF IssuesNow
      <3> QED  BY <1>2, <2>1, <3>1, <3>2, <3>3 DEF IssuesNow, LoadInv
    <2> QED  BY <2>2, <2>3
  <1>3. ASSUME NEW b \in Devices, NextBatch(b) PROVE LoadInv'
    <2>1. PICK n \in 1..Len(hand[b]) :
            /\ Cuts(b, n) /\ Cut(b, n) \in Batch
            /\ Cut(b, n).stream = bstream[b] /\ bstream[b] \in Streams /\ bstream[b][1] = bdev[b]
      BY <1>3, NextBatchStep
    <2>2. PICK e0 \in Batch : e0 = Cut(b, n)
      BY <2>1
    <2>3. IssuesNow(e0) \/ (loaded' = loaded /\ \A e \in Batch : Launched(e)' => Launched(e))
      BY <1>3, <2>1, <2>2, CutStep
    <2> QED  BY <1>1, <1>2, <2>3
  <1>4. ASSUME NEW d \in Devices, IssueTaken(d) PROVE LoadInv'
    BY <1>2, <1>4, IssueTakenStep
  <1>5. ASSUME \/ Rests \/ Nulls
               \/ \E b \in Devices : PopStream(b)
               \/ \E d \in Devices : TakeBatch(d)
               \/ \E c \in Completers : PopCompletion(c) \/ ReturnStream(c)
        PROVE  LoadInv'
    <2>1. loaded' = loaded
      BY <1>5 DEF Rests, Nulls, PopStream, TakeBatch, PopCompletion, ReturnStream, CompletionStep
    <2>2. \A e \in Batch \ {NoBatch} : Launched(e)' => Launched(e)
      BY <1>5, NoneNewStep DEF NoneNew
    <2> QED  BY <1>1, <2>1, <2>2
  <1> QED  BY <1>3, <1>4, <1>5, RestStep DEF Issuer

-----------------------------------------------------------------------------
(***************************************************************************)
(* Who has each sample.                                                    *)
(***************************************************************************)
LEMMA Parties ==
  /\ Unissued # InQueue /\ Unissued # Answered /\ InQueue # Answered
  /\ \A b \in Devices : InHand(b) # Unissued /\ InHand(b) # InQueue /\ InHand(b) # Answered
  /\ \A b1, b2 \in Devices : InHand(b1) = InHand(b2) => b1 = b2
  /\ \A s \in Streams : OnStream(s) # Unissued /\ OnStream(s) # InQueue /\ OnStream(s) # Answered
  /\ \A s1, s2 \in Streams : OnStream(s1) = OnStream(s2) => s1 = s2
  /\ \A b \in Devices : \A s \in Streams : InHand(b) # OnStream(s)
  BY DEF Unissued, InQueue, Answered, InHand, OnStream

\* The samples of a list pass to another party.
Passes(owner, samples, party) == [s \in Samples |-> IF Has(samples, s) THEN party ELSE owner[s]]

\* The samples that pass to a party are its own afterwards.
LEMMA PassesStep ==
  ASSUME NEW owner \in [Samples -> Owners], NEW samples, NEW party \in Owners
  PROVE  /\ Passes(owner, samples, party) \in [Samples -> Owners]
         /\ Distinct(samples) => OwnedBy(Passes(owner, samples, party), samples, party)
  BY DEF Passes, OwnedBy

\* The others keep what they have: their samples have another owner than the
\* samples that pass.
LEMMA OthersKeep ==
  ASSUME NEW owner \in [Samples -> Owners], NEW samples, NEW party, NEW from,
         \A s \in Samples : Has(samples, s) => owner[s] = from
  PROVE  \A theirs, other : OwnedBy(owner, theirs, other) /\ other # from
                                => OwnedBy(Passes(owner, samples, party), theirs, other)
  BY DEF Passes, OwnedBy

\* A query at the end of the queue.
LEMMA ConcatHas ==
  ASSUME NEW S, NEW p \in Seq(S), NEW q \in Seq(S), Distinct(p), Distinct(q),
         \A x : ~(Has(p, x) /\ Has(q, x))
  PROVE  /\ p \o q \in Seq(S) /\ Distinct(p \o q)
         /\ \A x : Has(p \o q, x) => Has(p, x) \/ Has(q, x)
  <1> DEFINE r == p \o q
  <1>1. /\ r \in Seq(S) /\ Len(p) \in Nat /\ Len(q) \in Nat /\ DOMAIN r = 1..(Len(p) + Len(q))
        /\ DOMAIN p = 1..Len(p) /\ DOMAIN q = 1..Len(q)
        /\ \A i \in 1..Len(p) : r[i] = p[i]
        /\ \A i \in 1..(Len(p) + Len(q)) : i > Len(p) => r[i] = q[i - Len(p)]
    OBVIOUS
  <1> HIDE DEF r
  <1>2. \A i \in DOMAIN r : \/ i \in DOMAIN p /\ r[i] = p[i]
                            \/ i - Len(p) \in DOMAIN q /\ r[i] = q[i - Len(p)] /\ i > Len(p) /\ i \in Nat
    BY <1>1
  <1>3. Distinct(r)
    <2> SUFFICES ASSUME NEW i \in DOMAIN r, NEW j \in DOMAIN r, r[i] = r[j]
                 PROVE  i = j
      BY DEF Distinct
    <2>1. CASE i \in DOMAIN p /\ j \in DOMAIN p /\ r[i] = p[i] /\ r[j] = p[j]
      BY <2>1 DEF Distinct
    <2>2. CASE /\ i - Len(p) \in DOMAIN q /\ r[i] = q[i - Len(p)] /\ i \in Nat
               /\ j - Len(p) \in DOMAIN q /\ r[j] = q[j - Len(p)] /\ j \in Nat
      <3>1. i - Len(p) = j - Len(p)
        BY <2>2 DEF Distinct
      <3> QED  BY <1>1, <2>2, <3>1
    <2>3. CASE i \in DOMAIN p /\ r[i] = p[i] /\ j - Len(p) \in DOMAIN q /\ r[j] = q[j - Len(p)]
      BY <2>3 DEF Has
    <2>4. CASE j \in DOMAIN p /\ r[j] = p[j] /\ i - Len(p) \in DOMAIN q /\ r[i] = q[i - Len(p)]
      BY <2>4 DEF Has
    <2> QED  BY <1>2, <2>1, <2>2, <2>3, <2>4
  <1>4. \A x : Has(r, x) => Has(p, x) \/ Has(q, x)
    BY <1>2 DEF Has
  <1> QED  BY <1>1, <1>3, <1>4 DEF r

\* A query of n samples: nobody has had one of them before.
LEMMA OwnerQuery ==
  ASSUME TypeOK, WorkInv, OwnerInv, HomeInv, IssueQuery
  PROVE  OwnerInv'
  <1>1. PICK n \in QuerySizes : /\ issued + n <= Len(Index) /\ issued' = issued + n
                                /\ workQueue' = workQueue \o [i \in 1..n |-> issued + i]
    BY DEF IssueQuery
  <1>2. PICK query \in Seq(Samples) : /\ query = [i \in 1..n |-> issued + i]
                                      /\ n \in Nat \ {0} /\ issued \in Nat
    BY <1>1, QueryType
  <1>3. PICK owner \in [Samples -> Owners] : Tells(owner)
    BY DEF OwnerInv
  <1>4. PICK owner2 \in [Samples -> Owners] : owner2 = Passes(owner, query, InQueue)
    BY PassesStep DEF Owners
  <1>5. Distinct(query) /\ \A s \in Samples : Has(query, s) => s > issued /\ s <= issued + n
    BY <1>2 DEF Distinct, Has
  <1>6. \A s \in Samples : Has(query, s) => owner[s] = Unissued
    BY <1>3, <1>5 DEF Tells, TellsAnswers
  <1>k. \A theirs, other : OwnedBy(owner, theirs, other) /\ other # Unissued
                                => OwnedBy(owner2, theirs, other)
    BY <1>4, <1>6, OthersKeep
  <1>7. UNCHANGED <<hand, answers>> /\ \A e \in Batch : NoneNew(e)
    BY DEF IssueQuery, NoneNew, Waiting, Launched
  <1>8. TellsQueue(owner2)'
    <2>1. workQueue \in Seq(Samples) /\ workQueue # <<End>>
      <3>1. workQueue \in Seq(Samples)
        BY DEF IssueQuery, WorkInv
      <3>2. ASSUME workQueue = <<End>> PROVE FALSE
        <4>1. 1 \in DOMAIN workQueue /\ workQueue[1] = End
          BY <3>2
        <4> QED  BY <3>1, <4>1, ConstantTypes, ElementType
      <3> QED  BY <3>1, <3>2
    <2>2. OwnedBy(owner, workQueue, InQueue)
      BY <1>3, <2>1 DEF Tells, TellsQueue
    <2>3. OwnedBy(owner2, workQueue, InQueue) /\ OwnedBy(owner2, query, InQueue)
      <3>1. InQueue \in Owners /\ InQueue # Unissued
        BY Parties DEF Owners
      <3>2. OwnedBy(owner2, workQueue, InQueue)
        BY <1>k, <2>2, <3>1
      <3> QED  BY <1>4, <1>5, <3>1, <3>2, PassesStep
    <2>4. \A x : ~(Has(workQueue, x) /\ Has(query, x))
      <3> SUFFICES ASSUME NEW x, Has(workQueue, x), Has(query, x) PROVE FALSE
        OBVIOUS
      <3>1. x \in Samples
        BY <1>2, ElementType, SMTT(30) DEF Has
      <3> QED  BY <1>6, <2>2, <3>1, Parties DEF OwnedBy
    <2>5. Distinct(workQueue \o query) /\ \A x : Has(workQueue \o query, x) => Has(workQueue, x) \/ Has(query, x)
      BY <1>5, <2>1, <2>2, <2>4, ConcatHas DEF OwnedBy
    <2>6. OwnedBy(owner2, workQueue', InQueue)
      BY <1>1, <1>2, <2>3, <2>5 DEF OwnedBy
    <2> QED  BY <2>6 DEF TellsQueue, OwnedBy, Distinct, Has, InQueue
  <1>9. TellsAnswers(owner2)'
    <2> SUFFICES ASSUME NEW s \in Samples
                 PROVE  /\ s > issued' => owner2[s] = Unissued
                        /\ answers'[s] = IF owner2[s] = Answered THEN <<Index[s]>> ELSE <<>>
      BY DEF TellsAnswers, Unissued, Answered
    <2>1. s \in Nat
      BY ConstantTypes
    <2>2. /\ s > issued => owner[s] = Unissued
          /\ answers[s] = IF owner[s] = Answered THEN <<Index[s]>> ELSE <<>>
      BY <1>3 DEF Tells, TellsAnswers
    <2>3. CASE Has(query, s)
      <3>1. owner2[s] = InQueue /\ ~(s > issued + n) /\ owner[s] = Unissued
        BY <1>2, <1>4, <1>5, <1>6, <2>1, <2>3 DEF Passes
      <3> QED  BY <1>1, <1>7, <2>2, <3>1, Parties
    <2>4. CASE ~Has(query, s)
      <3>1. owner2[s] = owner[s] /\ (s > issued + n => s > issued)
        BY <1>2, <1>4, <2>1, <2>4 DEF Passes
      <3> QED  BY <1>1, <1>7, <2>2, <3>1
    <2> QED  BY <2>3, <2>4
  <1>10. TellsHands(owner2)'
    <2>1. ASSUME NEW b \in Devices PROVE OwnedBy(owner2, hand[b], InHand(b))
      <3>1. OwnedBy(owner, hand[b], InHand(b)) /\ InHand(b) # Unissued
        BY <1>3, Parties DEF Tells, TellsHands
      <3> QED  BY <1>k, <3>1
    <2> QED  BY <1>7, <2>1 DEF TellsHands, OwnedBy, Distinct, Has, InHand
  <1>11. TellsBatches(owner2)'
    <2>1. ASSUME NEW e \in Batch \ {NoBatch}, Waiting(e) \/ Launched(e)
          PROVE  OwnedBy(owner2, e.samples, OnStream(e.stream))
      <3>1. OwnedBy(owner, e.samples, OnStream(e.stream)) /\ OnStream(e.stream) # Unissued
        BY <1>3, <2>1, Parties, OnWayPlaces DEF Tells, TellsBatches
      <3> QED  BY <1>k, <3>1
    <2>2. ASSUME NEW e \in Batch \ {NoBatch}, Waiting(e)' \/ Launched(e)'
          PROVE  OwnedBy(owner2, e.samples, OnStream(e.stream))
      BY <1>7, <2>1, <2>2 DEF NoneNew
    <2> QED  BY <2>2 DEF TellsBatches, NoBatch, Batch, OwnedBy, Distinct, Has, OnStream
  <1> QED  BY <1>8, <1>9, <1>10, <1>11 DEF Tells, OwnerInv

\* A step in which owner2 tells, given what it does to each part.
LEMMA OwnerPrimes ==
  ASSUME NEW owner2 \in [Samples -> Owners],
         \A s \in Samples : /\ s > issued' => owner2[s] = Unissued
                            /\ answers'[s] = IF owner2[s] = Answered THEN <<Index[s]>> ELSE <<>>,
         workQueue' = <<End>> \/ OwnedBy(owner2, workQueue', InQueue),
         \A b \in Devices : OwnedBy(owner2, hand'[b], InHand(b)),
         \A e \in Batch \ {NoBatch} :
            Waiting(e)' \/ Launched(e)' => OwnedBy(owner2, e.samples, OnStream(e.stream))
  PROVE  OwnerInv'
  <1>1. TellsAnswers(owner2)'
    BY DEF TellsAnswers, Unissued, Answered
  <1>2. TellsQueue(owner2)'
    BY DEF TellsQueue, OwnedBy, Distinct, Has, InQueue
  <1>3. TellsHands(owner2)'
    BY DEF TellsHands, OwnedBy, Distinct, Has, InHand
  <1>4. TellsBatches(owner2)'
    BY DEF TellsBatches, NoBatch, Batch, OwnedBy, Distinct, Has, OnStream
  <1> QED  BY <1>1, <1>2, <1>3, <1>4 DEF OwnerInv, Tells

\* Acquired samples pass from the work queue to the batcher.
LEMMA OwnerAcquire ==
  ASSUME TypeOK, BatcherInv, WorkInv, OwnerInv, HomeInv, NEW b \in Devices, Acquire(b)
  PROVE  OwnerInv'
  <1>0. hand \in [Devices -> Seq(Samples)] /\ UNCHANGED <<issued, answers>>
        /\ \A e \in Batch : NoneNew(e)
    BY DEF TypeOK, Acquire, AcquireIf, NoneNew, Waiting, Launched
  <1>1. PICK owner \in [Samples -> Owners] : Tells(owner)
    BY DEF OwnerInv
  <1>2. CASE Ends(b)
    <2>1. Distinct(<<>>) /\ \A s : ~Has(<<>>, s)
      BY DEF Distinct, Has
    <2>2. \A x \in Devices : OwnedBy(owner, hand'[x], InHand(x))
      BY <1>0, <1>1, <1>2, <2>1 DEF Tells, TellsHands, Ends, OwnedBy
    <2>3. OwnedBy(owner, workQueue', InQueue)
      BY <1>2, <2>1 DEF Ends, OwnedBy
    <2>4. \A s \in Samples : /\ s > issued' => owner[s] = Unissued
                             /\ answers'[s] = IF owner[s] = Answered THEN <<Index[s]>> ELSE <<>>
      BY <1>0, <1>1 DEF Tells, TellsAnswers
    <2>5. \A e \in Batch \ {NoBatch} :
            Waiting(e)' \/ Launched(e)' => OwnedBy(owner, e.samples, OnStream(e.stream))
      BY <1>0, <1>1 DEF Tells, TellsBatches, NoneNew
    <2> QED  BY <2>2, <2>3, <2>4, <2>5, OwnerPrimes
  <1>3. ASSUME NEW n \in 1..Len(workQueue), Gets(b, n) PROVE OwnerInv'
    <2>1. n \in 0..Len(workQueue) /\ workQueue \in Seq(Samples) /\ workQueue # <<End>>
      <3>1. workQueue \in Seq(Samples)
        BY <1>3 DEF Gets
      <3>2. ASSUME workQueue = <<End>> PROVE FALSE
        <4>1. 1 \in DOMAIN workQueue /\ workQueue[1] = End
          BY <3>2
        <4> QED  BY <3>1, <4>1, ConstantTypes, ElementType
      <3> QED  BY <3>1, <3>2
    <2>2. PICK front \in Seq(Samples) : front = SubSeq(workQueue, 1, n)
      BY <2>1, SplitSeq
    <2>3. PICK back \in Seq(Samples) : back = SubSeq(workQueue, n + 1, Len(workQueue))
      BY <2>1, SplitSeq
    <2>4. OwnedBy(owner, workQueue, InQueue)
      BY <1>1, <2>1 DEF Tells, TellsQueue
    <2>5. /\ Distinct(front) /\ Distinct(back) /\ \A x : ~(Has(front, x) /\ Has(back, x))
          /\ \A x : (Has(front, x) => Has(workQueue, x)) /\ (Has(back, x) => Has(workQueue, x))
      BY <2>1, <2>2, <2>3, <2>4, SplitHas DEF OwnedBy
    <2>6. \A s \in Samples : Has(front, s) => owner[s] = InQueue
      BY <2>4, <2>5 DEF OwnedBy
    <2>7. InHand(b) \in Owners
      BY DEF Owners
    <2>8. PICK owner2 \in [Samples -> Owners] : owner2 = Passes(owner, front, InHand(b))
      BY <2>7, PassesStep
    <2>k. \A theirs, other : OwnedBy(owner, theirs, other) /\ other # InQueue
                                => OwnedBy(owner2, theirs, other)
      BY <2>6, <2>8, OthersKeep
    <2>9. workQueue' = back /\ hand' = [hand EXCEPT ![b] = front]
      BY <1>3, <2>2, <2>3 DEF Gets
    <2>10. OwnedBy(owner2, workQueue', InQueue)
      BY <2>4, <2>5, <2>8, <2>9 DEF OwnedBy, Passes
    <2>11. ASSUME NEW x \in Devices PROVE OwnedBy(owner2, hand'[x], InHand(x))
      <3>1. CASE x = b
        <4>1. OwnedBy(owner2, front, InHand(b))
          BY <2>5, <2>7, <2>8, PassesStep
        <4> QED  BY <1>0, <2>9, <3>1, <4>1
      <3>2. CASE x # b
        <4>1. OwnedBy(owner, hand[x], InHand(x)) /\ InHand(x) # InQueue
          BY <1>1, Parties DEF Tells, TellsHands
        <4>2. OwnedBy(owner2, hand[x], InHand(x))
          BY <2>k, <4>1
        <4> QED  BY <1>0, <2>9, <3>2, <4>2
      <3> QED  BY <3>1, <3>2
    <2>12. ASSUME NEW e \in Batch \ {NoBatch}, Waiting(e)' \/ Launched(e)'
           PROVE  OwnedBy(owner2, e.samples, OnStream(e.stream))
      <3>1. Waiting(e) \/ Launched(e)
        BY <1>0, <2>12 DEF NoneNew
      <3>2. OwnedBy(owner, e.samples, OnStream(e.stream)) /\ OnStream(e.stream) # InQueue
        BY <1>1, <3>1, Parties, OnWayPlaces DEF Tells, TellsBatches
      <3> QED  BY <2>k, <3>2
    <2>13. ASSUME NEW s \in Samples
           PROVE  /\ s > issued' => owner2[s] = Unissued
                  /\ answers'[s] = IF owner2[s] = Answered THEN <<Index[s]>> ELSE <<>>
      <3>1. /\ s > issued => owner[s] = Unissued
            /\ answers[s] = IF owner[s] = Answered THEN <<Index[s]>> ELSE <<>>
        BY <1>1 DEF Tells, TellsAnswers
      <3>2. CASE Has(front, s)
        <4>1. owner2[s] = InHand(b) /\ owner[s] = InQueue
          BY <2>6, <2>8, <3>2 DEF Passes
        <4> QED  BY <1>0, <3>1, <4>1, Parties
      <3>3. CASE ~Has(front, s)
        BY <1>0, <2>8, <3>1, <3>3 DEF Passes
      <3> QED  BY <3>2, <3>3
    <2> QED  BY <2>10, <2>11, <2>12, <2>13, OwnerPrimes
  <1> QED  BY <1>2, <1>3, AcquireStep

\* The samples of a batch pass from the batcher to the stream of the batch.
LEMMA OwnerCut ==
  ASSUME TypeOK, BatcherInv, HomeInv, PlaceInv, OwnerInv, NEW b \in Devices, NextBatch(b)
  PROVE  OwnerInv'
  <1>0. hand \in [Devices -> Seq(Samples)] /\ UNCHANGED <<issued, answers, workQueue>>
    BY DEF TypeOK, NextBatch
  <1>1. PICK owner \in [Samples -> Owners] : Tells(owner)
    BY DEF OwnerInv
  <1>2. PICK n \in 1..Len(hand[b]) :
            /\ Cuts(b, n) /\ Cut(b, n) \in Batch
            /\ Cut(b, n).stream = bstream[b] /\ bstream[b] \in Streams /\ bstream[b][1] = bdev[b]
    BY NextBatchStep
  <1>3. PICK e0 \in Batch : e0 = Cut(b, n)
    BY <1>2
  <1>4. e0.stream \in Streams /\ Picked(e0.stream) /\ \A e \in Batch \ {NoBatch, e0} : NoneNew(e)
    BY <1>2, <1>3, CutStep
  <1>5. n \in 0..Len(hand[b]) /\ hand[b] \in Seq(Samples)
    BY <1>0
  <1>6. PICK front \in Seq(Samples) : front = SubSeq(hand[b], 1, n)
    BY <1>5, SplitSeq
  <1>7. PICK back \in Seq(Samples) : back = SubSeq(hand[b], n + 1, Len(hand[b]))
    BY <1>5, SplitSeq
  <1>8. OwnedBy(owner, hand[b], InHand(b))
    BY <1>1 DEF Tells, TellsHands
  <1>9. /\ Distinct(front) /\ Distinct(back) /\ \A x : ~(Has(front, x) /\ Has(back, x))
        /\ \A x : (Has(front, x) => Has(hand[b], x)) /\ (Has(back, x) => Has(hand[b], x))
    BY <1>5, <1>6, <1>7, <1>8, SplitHas DEF OwnedBy
  <1>10. \A s \in Samples : Has(front, s) => owner[s] = InHand(b)
    BY <1>8, <1>9 DEF OwnedBy
  <1>11. OnStream(e0.stream) \in Owners
    BY <1>4 DEF Owners
  <1>12. PICK owner2 \in [Samples -> Owners] : owner2 = Passes(owner, front, OnStream(e0.stream))
    BY <1>11, PassesStep
  <1>k. \A theirs, other : OwnedBy(owner, theirs, other) /\ other # InHand(b)
                                => OwnedBy(owner2, theirs, other)
    BY <1>10, <1>12, OthersKeep
  <1>13. hand' = [hand EXCEPT ![b] = back] /\ e0.samples = front
    BY <1>2, <1>3, <1>6, <1>7 DEF Cuts, Cut
  <1>14. workQueue' = <<End>> \/ OwnedBy(owner2, workQueue', InQueue)
    <2>1. workQueue = <<End>> \/ OwnedBy(owner, workQueue, InQueue)
      BY <1>1 DEF Tells, TellsQueue
    <2>2. InQueue # InHand(b)
      BY Parties
    <2>3. OwnedBy(owner, workQueue, InQueue) => OwnedBy(owner2, workQueue, InQueue)
      BY <1>k, <2>2
    <2> QED  BY <1>0, <2>1, <2>3
  <1>15. ASSUME NEW x \in Devices PROVE OwnedBy(owner2, hand'[x], InHand(x))
    <2>1. CASE x = b
      <3>1. OwnedBy(owner2, back, InHand(b))
        BY <1>8, <1>9, <1>12 DEF OwnedBy, Passes
      <3> QED  BY <1>0, <1>13, <2>1, <3>1
    <2>2. CASE x # b
      <3>1. OwnedBy(owner, hand[x], InHand(x)) /\ InHand(x) # InHand(b)
        BY <1>1, <2>2, Parties DEF Tells, TellsHands
      <3>2. OwnedBy(owner2, hand[x], InHand(x))
        BY <1>k, <3>1
      <3> QED  BY <1>0, <1>13, <2>2, <3>2
    <2> QED  BY <2>1, <2>2
  <1>16. ASSUME NEW e \in Batch \ {NoBatch}, Waiting(e)' \/ Launched(e)'
         PROVE  OwnedBy(owner2, e.samples, OnStream(e.stream))
    <2>1. CASE e = e0
      BY <1>9, <1>11, <1>12, <1>13, <2>1, PassesStep
    <2>2. CASE e # e0
      <3>1. Waiting(e) \/ Launched(e)
        BY <1>4, <1>16, <2>2 DEF NoneNew
      <3>2. OwnedBy(owner, e.samples, OnStream(e.stream)) /\ OnStream(e.stream) # InHand(b)
        BY <1>1, <3>1, Parties, OnWayPlaces DEF Tells, TellsBatches
      <3> QED  BY <1>k, <3>2
    <2> QED  BY <2>1, <2>2
  <1>17. ASSUME NEW s \in Samples
         PROVE  /\ s > issued' => owner2[s] = Unissued
                /\ answers'[s] = IF owner2[s] = Answered THEN <<Index[s]>> ELSE <<>>
    <2>1. /\ s > issued => owner[s] = Unissued
          /\ answers[s] = IF owner[s] = Answered THEN <<Index[s]>> ELSE <<>>
      BY <1>1 DEF Tells, TellsAnswers
    <2>2. CASE Has(front, s)
      <3>1. owner2[s] = OnStream(e0.stream) /\ owner[s] = InHand(b)
        BY <1>10, <1>12, <2>2 DEF Passes
      <3> QED  BY <1>0, <1>4, <2>1, <3>1, Parties
    <2>3. CASE ~Has(front, s)
      BY <1>0, <1>12, <2>1, <2>3 DEF Passes
    <2> QED  BY <2>2, <2>3
  <1> QED  BY <1>14, <1>15, <1>16, <1>17, OwnerPrimes

\* The outputs of a batch whose event has come: each of its samples gets its own.
LEMMA CompleteStep ==
  ASSUME TypeOK, HomeInv, LoadInv, NEW c \in Completers, Complete(c)
  PROVE  \E e0 \in Batch \ {NoBatch} :
            /\ e0 = cbatch[c] /\ e0.stream \in Streams /\ Launched(e0) /\ Busy(e0.stream)
            /\ Distinct(e0.samples) =>
                \A s \in Samples : answers'[s] = IF Has(e0.samples, s) THEN Append(answers[s], Index[s])
                                                 ELSE answers[s]
  <1>1. PICK e0 \in Batch : e0 = cbatch[c]
    BY DEF TypeOK
  <1>2. cpc[c] = "sync" /\ e0 # NoBatch /\ e0.stream \in Streams /\ Launched(e0) /\ Busy(e0.stream)
        /\ computed[e0.stream] = loaded[e0.stream]
    BY <1>1 DEF Complete, CompleteWhen, CompletionStep, HomeInv, Fit, Launched, Busy, Recorded
  <1>3. e0.samples \in Seq(Samples)
    BY DEF Batch
  <1>4. PICK outputs \in Seq(Nat) : outputs = computed[e0.stream]
    BY <1>2 DEF TypeOK
  <1>5. outputs = Places(e0.samples)
    BY <1>2, <1>4 DEF LoadInv
  <1>6. DOMAIN outputs = DOMAIN e0.samples /\ \A i \in DOMAIN e0.samples : outputs[i] = Index[e0.samples[i]]
    BY <1>3, <1>5, CopiesAreOwn
  <1>7. ASSUME Distinct(e0.samples), NEW s \in Samples
        PROVE  answers'[s] = IF Has(e0.samples, s) THEN Append(answers[s], Index[s]) ELSE answers[s]
    <2> DEFINE j == CHOOSE i \in DOMAIN e0.samples : e0.samples[i] = s
    <2>1. answers'[s] = IF Has(e0.samples, s)
                        THEN Append(answers[s], IF j \in DOMAIN outputs THEN outputs[j] ELSE 0)
                        ELSE answers[s]
      BY <1>1, <1>4 DEF Complete, CompleteWhen, Has
    <2>2. ASSUME Has(e0.samples, s) PROVE j \in DOMAIN e0.samples /\ e0.samples[j] = s
      BY <2>2 DEF Has
    <2> HIDE DEF j
    <2> QED  BY <1>6, <2>1, <2>2
  <1> QED  BY <1>1, <1>2, <1>7

\* Answered samples were on the stream of the batch, and their outputs are on it too.
LEMMA OwnerComplete ==
  ASSUME TypeOK, WorkInv, HomeInv, PlaceInv, OnceInv, LoadInv, OwnerInv,
         NEW c \in Completers, Complete(c)
  PROVE  OwnerInv'
  <1>1. PICK owner \in [Samples -> Owners] : Tells(owner)
    BY DEF OwnerInv
  <1>2. PICK e0 \in Batch \ {NoBatch} :
            /\ e0 = cbatch[c] /\ e0.stream \in Streams /\ Launched(e0) /\ Busy(e0.stream)
            /\ Distinct(e0.samples) =>
                \A s \in Samples : answers'[s] = IF Has(e0.samples, s) THEN Append(answers[s], Index[s])
                                                 ELSE answers[s]
    BY CompleteStep
  <1>3. OwnedBy(owner, e0.samples, OnStream(e0.stream))
    BY <1>1, <1>2 DEF Tells, TellsBatches
  <1>4. \A s \in Samples : answers'[s] = IF Has(e0.samples, s) THEN Append(answers[s], Index[s])
                                         ELSE answers[s]
    BY <1>2, <1>3 DEF OwnedBy
  <1>5. \A s \in Samples : Has(e0.samples, s) => owner[s] = OnStream(e0.stream)
    BY <1>3 DEF OwnedBy
  <1>6. Answered \in Owners
    BY DEF Owners
  <1>7. PICK owner2 \in [Samples -> Owners] : owner2 = Passes(owner, e0.samples, Answered)
    BY <1>6, PassesStep
  <1>k. \A theirs, other : OwnedBy(owner, theirs, other) /\ other # OnStream(e0.stream)
                                => OwnedBy(owner2, theirs, other)
    BY <1>5, <1>7, OthersKeep
  <1>8. /\ cpc[c] = "sync" /\ cpc' = [cpc EXCEPT ![c] = "return"]
        /\ cpc \in [Completers -> {"pop", "sync", "return", "gone"}]
        /\ UNCHANGED <<issued, workQueue, hand, issueQueue, ibatch, completionQueue, cbatch>>
    BY DEF Complete, CompleteWhen, CompletionStep, TypeOK
  <1>9. workQueue' = <<End>> \/ OwnedBy(owner2, workQueue', InQueue)
    <2>1. workQueue = <<End>> \/ OwnedBy(owner, workQueue, InQueue)
      BY <1>1 DEF Tells, TellsQueue
    <2>2. InQueue # OnStream(e0.stream)
      BY <1>2, Parties
    <2>3. OwnedBy(owner, workQueue, InQueue) => OwnedBy(owner2, workQueue, InQueue)
      BY <1>k, <2>2
    <2> QED  BY <1>8, <2>1, <2>3
  <1>10. ASSUME NEW x \in Devices PROVE OwnedBy(owner2, hand'[x], InHand(x))
    <2>1. OwnedBy(owner, hand[x], InHand(x)) /\ InHand(x) # OnStream(e0.stream)
      BY <1>1, <1>2, Parties DEF Tells, TellsHands
    <2>2. OwnedBy(owner2, hand[x], InHand(x))
      BY <1>k, <2>1
    <2> QED  BY <1>8, <2>2
  <1>11. ASSUME NEW e \in Batch \ {NoBatch}, Waiting(e)' \/ Launched(e)'
         PROVE  OwnedBy(owner2, e.samples, OnStream(e.stream))
    <2>1. /\ Waiting(e) \/ Launched(e)
          /\ Waiting(e) \/ (\E d \in Devices : Has(completionQueue[d], e))
                \/ \E x \in Completers \ {c} : cpc[x] = "sync" /\ cbatch[x] = e
      BY <1>8, <1>11 DEF Waiting, Launched
    <2>2. e.stream \in Streams
      BY <2>1, OnWayPlaces
    <2>3. ASSUME e.stream = e0.stream PROVE FALSE
      <3>1. ~Queued(e.stream) /\ ~Taken(e.stream) /\ ~Pending(e.stream)
        BY <1>2, <2>3, Alone
      <3>2. ~Waiting(e)
        BY <3>1, OnWayPlaces
      <3>3. ~\E d \in Devices : Has(completionQueue[d], e)
        BY <3>1, <2>2 DEF HomeInv, AllFit, Fit, Pending, Has, Carries
      <3>4. PICK x \in Completers \ {c} : cbatch[x] = e
        BY <2>1, <3>2, <3>3
      <3> QED  BY <1>2, <2>3, <3>4 DEF OnceInv
    <2>4. OwnedBy(owner, e.samples, OnStream(e.stream)) /\ OnStream(e.stream) # OnStream(e0.stream)
      BY <1>1, <1>2, <2>1, <2>2, <2>3, Parties DEF Tells, TellsBatches
    <2> QED  BY <1>k, <2>4
  <1>12. ASSUME NEW s \in Samples
         PROVE  /\ s > issued' => owner2[s] = Unissued
                /\ answers'[s] = IF owner2[s] = Answered THEN <<Index[s]>> ELSE <<>>
    <2>1. /\ s > issued => owner[s] = Unissued
          /\ answers[s] = IF owner[s] = Answered THEN <<Index[s]>> ELSE <<>>
      BY <1>1 DEF Tells, TellsAnswers
    <2>2. CASE Has(e0.samples, s)
      <3>1. owner2[s] = Answered /\ owner[s] = OnStream(e0.stream)
        BY <1>5, <1>7, <2>2 DEF Passes
      <3>2. ~(s > issued) /\ answers[s] = <<>>
        BY <1>2, <2>1, <3>1, Parties
      <3>3. Append(<<>>, Index[s]) = <<Index[s]>>
        OBVIOUS
      <3> QED  BY <1>4, <1>8, <2>2, <3>1, <3>2, <3>3
    <2>3. CASE ~Has(e0.samples, s)
      BY <1>4, <1>7, <1>8, <2>1, <2>3 DEF Passes
    <2> QED  BY <2>2, <2>3
  <1> QED  BY <1>9, <1>10, <1>11, <1>12, OwnerPrimes

\* No other step hands a sample on.
LEMMA OwnerNext ==
  ASSUME TypeOK, BatcherInv, WorkInv, HomeInv, PlaceInv, OnceInv, LoadInv, OwnerInv, Next
  PROVE  OwnerInv'
  <1>1. ASSUME UNCHANGED <<issued, answers, hand>>, workQueue' = workQueue \/ workQueue' = <<End>>,
               \A e \in Batch \ {NoBatch} :
                    Waiting(e)' \/ Launched(e)' => Waiting(e) \/ Launched(e)
        PROVE  OwnerInv'
    <2>1. PICK owner \in [Samples -> Owners] : Tells(owner)
      BY DEF OwnerInv
    <2>2. workQueue' = <<End>> \/ OwnedBy(owner, workQueue', InQueue)
      BY <1>1, <2>1 DEF Tells, TellsQueue
    <2>3. \A s \in Samples : /\ s > issued' => owner[s] = Unissued
                             /\ answers'[s] = IF owner[s] = Answered THEN <<Index[s]>> ELSE <<>>
      BY <1>1, <2>1 DEF Tells, TellsAnswers
    <2>4. \A b \in Devices : OwnedBy(owner, hand'[b], InHand(b))
      BY <1>1, <2>1 DEF Tells, TellsHands
    <2>5. \A e \in Batch \ {NoBatch} :
            Waiting(e)' \/ Launched(e)' => OwnedBy(owner, e.samples, OnStream(e.stream))
      BY <1>1, <2>1 DEF Tells, TellsBatches
    <2> QED  BY <2>2, <2>3, <2>4, <2>5, OwnerPrimes
  <1>2. CASE Done
    <2>1. UNCHANGED <<issued, answers, hand>> /\ (workQueue' = workQueue \/ workQueue' = <<End>>)
      BY <1>2 DEF Done, EndCompletion, JoinCompletion, EndBatcher, Join, DoneStep
    <2>2. Rests \/ Nulls
      <3>1. UNCHANGED <<streamQueue, ipc, ibatch, cpc, cbatch, bpc, bstream, loaded>>
        BY <1>2 DEF Done, EndCompletion, JoinCompletion, EndBatcher, Join, DoneStep
      <3> QED  BY <1>2, <3>1 DEF Done, EndCompletion, JoinCompletion, EndBatcher, Join, Nulls
    <2>3. \A e \in Batch \ {NoBatch} : NoneNew(e)
      BY <2>2, NoneNewStep
    <2> QED  BY <1>1, <2>1, <2>3 DEF NoneNew
  <1>3. ASSUME NEW b \in Devices, NextDevice(b) \/ FrontStream(b) \/ PopStream(b) PROVE OwnerInv'
    BY <1>1, <1>3 DEF NextDevice, FrontStream, PopStream, Waiting, Launched
  <1>4. ASSUME NEW d \in Devices, TakeBatch(d) PROVE OwnerInv'
    <2>1. UNCHANGED <<issued, answers, hand, workQueue>>
      BY <1>4 DEF TakeBatch
    <2>2. \A e \in Batch \ {NoBatch} : NoneNew(e)
      BY <1>4, NoneNewStep
    <2> QED  BY <1>1, <2>1, <2>2 DEF NoneNew
  <1>5. ASSUME NEW d \in Devices, IssueTaken(d) PROVE OwnerInv'
    <2>1. UNCHANGED <<issued, answers, hand, workQueue>>
      BY <1>5 DEF IssueTaken
    <2>2. PICK e0 \in Batch : Waiting(e0) /\ IssuesNow(e0)
      BY <1>5, IssueTakenStep
    <2>3. \A e \in Batch \ {NoBatch} : Waiting(e)' \/ Launched(e)' => Waiting(e) \/ Launched(e)
      BY <2>2 DEF IssuesNow, NoneNew
    <2> QED  BY <1>1, <2>1, <2>3
  <1>6. ASSUME NEW c \in Completers, PopCompletion(c) \/ ReturnStream(c) PROVE OwnerInv'
    <2>1. UNCHANGED <<issued, answers, hand, workQueue>>
      BY <1>6 DEF PopCompletion, ReturnStream, CompletionStep
    <2>2. \A e \in Batch \ {NoBatch} : NoneNew(e)
      BY <1>6, NoneNewStep
    <2> QED  BY <1>1, <2>1, <2>2 DEF NoneNew
  <1>7. CASE Finished \/ \E s \in Streams : Compute(s)
    BY <1>1, <1>7 DEF Finished, vars, Compute, Waiting, Launched
  <1> QED  BY <1>2, <1>3, <1>4, <1>5, <1>6, <1>7, OwnerQuery, OwnerAcquire, OwnerCut, OwnerComplete
           DEF Next, Batcher, Issuer, Completer

-----------------------------------------------------------------------------
(***************************************************************************)
(* The start, and every step.                                              *)
(***************************************************************************)
LEMMA InitBatchers ==
  ASSUME Init
  PROVE  BatcherInv /\ deviceNum \in 0..NumDevices
  <1>1. Batchers \subseteq Devices
    BY ConstantTypes DEF Batchers
  <1>2. Running = Batchers
    BY <1>1 DEF Init, Running
  <1>3. deviceNum = Cardinality(Running)
    BY <1>2 DEF Init
  <1>4. deviceNum \in 0..NumDevices
    <2>1. Cardinality(Running) <= Cardinality(Devices) /\ IsFiniteSet(Running)
      BY <1>1, <1>2, ConstantTypes, FS_Subset
    <2>2. Cardinality(Running) \in Nat
      BY <2>1, FS_CardinalityType
    <2> QED  BY <1>3, <2>1, <2>2, ConstantTypes
  <1>5. \A b \in Devices : BatcherOk(b)
    <2>1. \A b \in Devices : /\ bpc[b] = IF b \in Batchers THEN "device" ELSE "gone"
                             /\ bdev[b] = b /\ hand[b] = <<>>
      BY DEF Init
    <2> QED  BY <2>1 DEF BatcherOk
  <1> QED  BY <1>3, <1>4, <1>5 DEF BatcherInv

\* At the start every stream of a device is in its queue, once.
LEMMA InitStreams ==
  ASSUME Init, NEW d \in Devices
  PROVE  /\ streamQueue[d] = [i \in 1..NumStreams |-> <<d, i>>]
         /\ streamQueue[d] \in Seq(Streams) /\ DOMAIN streamQueue[d] = 1..NumStreams
         /\ Distinct(streamQueue[d]) /\ StreamsFit(streamQueue[d], d)
  <1>1. streamQueue[d] = [i \in 1..NumStreams |-> <<d, i>>]
    BY DEF Init
  <1>2. NumStreams \in Nat /\ \A i \in 1..NumStreams : <<d, i>> \in Streams /\ <<d, i>>[1] = d
    BY ConstantTypes
  <1>3. streamQueue[d] \in [1..NumStreams -> Streams]
    BY <1>1, <1>2
  <1>4. streamQueue[d] \in Seq(Streams)
    BY <1>2, <1>3
  <1>5. Distinct(streamQueue[d]) /\ StreamsFit(streamQueue[d], d)
    BY <1>1, <1>2 DEF Distinct, StreamsFit
  <1> QED  BY <1>1, <1>3, <1>4, <1>5

\* The invariant holds at the start, with no sample issued.
LEMMA InitInv == Init => IInv
  <1> SUFFICES ASSUME Init PROVE IInv
    OBVIOUS
  <1>1. BatcherInv
    BY InitBatchers
  <1>2. /\ \A S : <<>> \in Seq(S)
        /\ \A x : ~Has(<<>>, x) /\ ~Carries(<<>>, x)
        /\ Distinct(<<>>) /\ Single(<<>>) /\ \A d : AllFit(<<>>, d)
    BY DEF Has, Carries, Distinct, Single, AllFit
  <1>3. /\ settings \in Settings /\ issued = 0 /\ workQueue = <<>> /\ deviceIndex = 1
        /\ bpc = [b \in Devices |-> IF b \in Batchers THEN "device" ELSE "gone"]
        /\ bdev = [b \in Devices |-> b] /\ hand = [b \in Devices |-> <<>>]
        /\ bstream = [b \in Devices |-> NoStream]
        /\ issueQueue = [d \in Devices |-> <<>>] /\ ibatch = [d \in Devices |-> NoBatch]
        /\ ipc = [d \in Devices |-> IF settings.cudaThread THEN "wait" ELSE "gone"]
        /\ loaded = [s \in Streams |-> <<>>] /\ computed = [s \in Streams |-> <<>>]
        /\ completionQueue = [d \in Devices |-> <<>>]
        /\ cpc = [c \in Completers |-> "pop"] /\ cbatch = [c \in Completers |-> NoBatch]
        /\ answers = [i \in Samples |-> <<>>] /\ dpc = "test"
    BY DEF Init
  <1>4. TypeOK
    <2>1. WorkType
      BY <1>2, <1>3, ConstantTypes DEF WorkType
    <2>2. BatcherType
      BY <1>2, <1>3, InitBatchers, ConstantTypes DEF BatcherType, BatcherPcs
    <2>3. IssueType
      BY <1>2, <1>3, ConstantTypes DEF IssueType
    <2>4. streamQueue \in [Devices -> Seq(Streams)]
      <3>1. DOMAIN streamQueue = Devices /\ streamQueue = [d \in DOMAIN streamQueue |-> streamQueue[d]]
        BY DEF Init
      <3>2. \A d \in Devices : streamQueue[d] \in Seq(Streams)
        BY InitStreams
      <3> QED  BY <3>1, <3>2
    <2>5. QueueType
      BY <1>2, <1>3, <2>4, ConstantTypes DEF QueueType
    <2> QED  BY <2>1, <2>2, <2>3, <2>5, TypeParts
  <1>5. WorkInv
    BY <1>2, <1>3 DEF WorkInv
  <1>6. HomeInv
    <2>1. \A d \in Devices : /\ issueQueue[d] = <<>> /\ completionQueue[d] = <<>>
                             /\ ibatch[d] = NoBatch /\ ipc[d] # "issue"
      BY <1>3
    <2>2. \A c \in Completers : cbatch[c] = NoBatch /\ cpc[c] \notin {"sync", "return"}
      BY <1>3
    <2>3. \A d \in Devices : StreamsFit(streamQueue[d], d)
      BY InitStreams
    <2> QED  BY <1>2, <2>1, <2>2, <2>3 DEF HomeInv, Fit
  <1>7. PlaceInv
    <2> SUFFICES ASSUME NEW s \in Streams PROVE LocatedAt(s, "free")
      BY DEF PlaceInv, PlaceNames
    <2>1. s[1] \in Devices /\ s[2] \in 1..NumStreams /\ s = <<s[1], s[2]>>
      BY DEF Streams
    <2>2. Free(s)
      <3>1. PICK d \in Devices, i \in 1..NumStreams : s = <<d, i>> /\ s[1] = d
        BY <2>1
      <3>2. streamQueue[d][i] = s /\ i \in DOMAIN streamQueue[d]
        BY <3>1, InitStreams
      <3> QED  BY <3>1, <3>2 DEF Free, Has
    <2>3. ~Picked(s) /\ ~Queued(s) /\ ~Taken(s) /\ ~Pending(s) /\ ~Busy(s)
      <3>1. ~Picked(s)
        BY <1>3 DEF Picked
      <3>2. ~Queued(s) /\ ~Pending(s)
        BY <1>2, <1>3, <2>1 DEF Queued, Pending
      <3>3. ~Taken(s) /\ ~Busy(s)
        BY <1>3, <2>1, ConstantTypes DEF Taken, Busy
      <3> QED  BY <3>1, <3>2, <3>3
    <2> QED  BY <2>2, <2>3 DEF LocatedAt
  <1>8. OnceInv
    <2>1. \A d \in Devices : Distinct(streamQueue[d]) /\ Single(issueQueue[d]) /\ Single(completionQueue[d])
      BY <1>2, <1>3, InitStreams
    <2>2. \A b \in Devices : bpc[b] # "issue"
      BY <1>3
    <2>3. \A c \in Completers : cbatch[c] = NoBatch
      BY <1>3
    <2> QED  BY <2>1, <2>2, <2>3 DEF OnceInv
  <1>9. \A e \in Batch \ {NoBatch} : ~Waiting(e) /\ ~Launched(e)
    BY <1>2, <1>3 DEF Waiting, Launched
  <1>10. LoadInv
    BY <1>9 DEF LoadInv
  <1>11. OwnerInv
    <2>1. PICK owner \in [Samples -> Owners] : owner = [s \in Samples |-> Unissued]
      BY DEF Owners
    <2>2. TellsAnswers(owner)
      BY <1>3, <2>1, Parties DEF TellsAnswers
    <2>3. TellsQueue(owner) /\ TellsHands(owner)
      BY <1>2, <1>3 DEF TellsQueue, TellsHands, OwnedBy
    <2>4. TellsBatches(owner)
      BY <1>9 DEF TellsBatches
    <2> QED  BY <2>2, <2>3, <2>4 DEF Tells, OwnerInv
  <1> QED  BY <1>1, <1>4, <1>5, <1>6, <1>7, <1>8, <1>10, <1>11 DEF IInv

\* Every step, and every stutter, keeps the invariant.
LEMMA StepInv == IInv /\ [Next]_vars => IInv'
  <1>1. ASSUME IInv, Next PROVE IInv'
    <2>1. TypeOK /\ BatcherInv /\ WorkInv /\ HomeInv /\ PlaceInv /\ OnceInv /\ LoadInv /\ OwnerInv
      BY <1>1 DEF IInv
    <2>2. TypeOK' /\ BatcherInv' /\ WorkInv' /\ HomeInv'
      BY <1>1, <2>1, TypeNext, BatcherNext, WorkNext, HomeNext
    <2>3. PlaceInv' /\ OnceInv' /\ LoadInv' /\ OwnerInv'
      BY <1>1, <2>1, PlaceNext, LoadNext, OwnerNext
    <2> QED  BY <2>2, <2>3 DEF IInv
  <1>2. ASSUME IInv, UNCHANGED vars PROVE IInv'
    <2>1. /\ WorkType' /\ BatcherType' /\ IssueType' /\ QueueType'
      BY <1>2, TypeParts, TypeSame DEF IInv, vars
    <2>2. TypeOK'
      BY <2>1, TypeStep
    <2>3. BatcherInv'
      BY <1>2 DEF IInv, vars, BatcherInv, BatcherOk, Batchers, Running
    <2>4. WorkInv' /\ HomeInv'
      BY <1>2 DEF IInv, vars, WorkInv, HomeInv
    <2>5. Rests
      BY <1>2 DEF vars, Rests, Holds, Picks
    <2>6. /\ TypeOK /\ HomeInv /\ PlaceInv /\ OnceInv /\ LoadInv /\ OwnerInv
          /\ \A e \in Batch \ {NoBatch} : NoneNew(e)
      BY <1>2, <2>5, NoneNewStep DEF IInv
    <2>7. PlaceInv' /\ OnceInv'
      <3>1. \A s \in Streams : Stays(s)
        BY <1>2, SamePlaces DEF Stays, vars
      <3>2. OnceInv'
        BY <1>2, <2>6 DEF OnceInv, vars
      <3> QED  BY <2>6, <3>1, <3>2, Moves
    <2>8. LoadInv'
      BY <1>2, <2>6 DEF LoadInv, NoneNew, vars
    <2>9. OwnerInv'
      <3>1. PICK owner \in [Samples -> Owners] : Tells(owner)
        BY <2>6 DEF OwnerInv
      <3>2. Tells(owner)'
        BY <1>2, <3>1 DEF vars, Tells, TellsAnswers, TellsQueue, TellsHands, TellsBatches,
                          Waiting, Launched
      <3> QED  BY <3>2 DEF OwnerInv
    <2> QED  BY <2>2, <2>3, <2>4, <2>7, <2>8, <2>9 DEF IInv
  <1> QED  BY <1>1, <1>2

\* The inductive invariant always holds.
THEOREM Invariance == Spec => []IInv
  BY InitInv, StepInv, PTL DEF Spec

-----------------------------------------------------------------------------
(***************************************************************************)
(* The theorems.                                                           *)
(***************************************************************************)
\* Every variable keeps its type.
THEOREM TypeCorrect == Spec => []TypeOK
  <1>1. IInv => TypeOK
    BY DEF IInv
  <1> QED  BY <1>1, Invariance, PTL

\* Every answer is the output for its own sample, given once, whatever the sizes
\* of the queries and of the batches, the layout of the samples, the threads and
\* streams of a device, and the settings.
THEOREM OwnAnswers == Spec => []AnswerIsOwn
  <1>1. ASSUME IInv PROVE AnswerIsOwn
    <2>1. OwnerInv
      BY <1>1 DEF IInv
    <2>2. PICK owner \in [Samples -> Owners] : Tells(owner)
      BY <2>1 DEF OwnerInv
    <2> QED  BY <2>2 DEF Tells, TellsAnswers, AnswerIsOwn
  <1> QED  BY <1>1, Invariance, PTL

\* A set of at most one element, by its size.
LEMMA AtMostOne ==
  ASSUME NEW T, \A x, y \in T : x = y
  PROVE  Cardinality(T) = IF T = {} THEN 0 ELSE 1
  <1>1. CASE T = {}
    BY <1>1, FS_EmptySet
  <1>2. ASSUME T # {} PROVE Cardinality(T) = 1
    <2>1. PICK x \in T : TRUE
      BY <1>2
    <2>2. T = {x}
      BY <2>1
    <2> QED  BY <2>2, FS_Singleton
  <1> QED  BY <1>1, <1>2

\* A copy stream is free, picked, or in one batch that waits, is launched or is
\* completed, and that once: no two batches are ever on the same stream.
THEOREM StreamOnePlace == Spec => []StreamInOnePlace
  <1>1. ASSUME IInv PROVE StreamInOnePlace
    <2>0. TypeOK /\ PlaceInv /\ OnceInv /\ PlacesType
      BY <1>1, PlacesTyped DEF IInv
    <2> SUFFICES ASSUME NEW s \in Streams
                 PROVE  LET d == s[1]
                            free == Cardinality({i \in DOMAIN streamQueue[d] : streamQueue[d][i] = s})
                            picked == Cardinality({b \in Devices : bpc[b] = "issue" /\ bstream[b] = s})
                            busy == Cardinality({c \in Completers : cbatch[c].stream = s})
                        IN free + picked + UsesIn(issueQueue[d], s) + Uses(ibatch[d], s)
                               + UsesIn(completionQueue[d], s) + busy = 1
      BY DEF StreamInOnePlace
    <2>1. PICK d \in Devices : d = s[1]
      BY ConstantTypes
    <2>2. s # NoStream /\ NoBatch.stream = NoStream
      BY ConstantTypes
    <2> DEFINE free == {i \in DOMAIN streamQueue[d] : streamQueue[d][i] = s}
               picked == {b \in Devices : bpc[b] = "issue" /\ bstream[b] = s}
               busy == {c \in Completers : cbatch[c].stream = s}
               queued == {i \in DOMAIN issueQueue[d] : issueQueue[d][i].stream = s}
               pending == {i \in DOMAIN completionQueue[d] : completionQueue[d][i].stream = s}
    <2>3. Cardinality(free) = IF Free(s) THEN 1 ELSE 0
      <3>1. \A x, y \in free : x = y
        BY <2>0 DEF OnceInv, Distinct
      <3>2. free # {} <=> Free(s)
        BY <2>1 DEF Free, Has
      <3> HIDE DEF free
      <3> QED  BY <3>1, <3>2, AtMostOne
    <2>4. Cardinality(picked) = IF Picked(s) THEN 1 ELSE 0
      <3>1. \A x, y \in picked : x = y
        BY <2>0 DEF OnceInv
      <3>2. picked # {} <=> Picked(s)
        BY DEF Picked
      <3> HIDE DEF picked
      <3> QED  BY <3>1, <3>2, AtMostOne
    <2>5. Cardinality(queued) = IF Queued(s) THEN 1 ELSE 0
      <3>1. \A x, y \in queued : x = y
        BY <2>0, <2>2 DEF OnceInv, Single
      <3>2. queued # {} <=> Queued(s)
        BY <2>1 DEF Queued, Carries
      <3> HIDE DEF queued
      <3> QED  BY <3>1, <3>2, AtMostOne
    <2>6. Uses(ibatch[d], s) = IF Taken(s) THEN 1 ELSE 0
      BY <2>1 DEF Uses, Taken
    <2>7. Cardinality(pending) = IF Pending(s) THEN 1 ELSE 0
      <3>1. \A x, y \in pending : x = y
        BY <2>0, <2>2 DEF OnceInv, Single
      <3>2. pending # {} <=> Pending(s)
        BY <2>1 DEF Pending, Carries
      <3> HIDE DEF pending
      <3> QED  BY <3>1, <3>2, AtMostOne
    <2>8. Cardinality(busy) = IF Busy(s) THEN 1 ELSE 0
      <3>1. \A x, y \in busy : x = y
        BY <2>0, <2>2 DEF OnceInv
      <3>2. busy # {} <=> Busy(s)
        BY DEF Busy
      <3> HIDE DEF busy
      <3> QED  BY <3>1, <3>2, AtMostOne
    <2>9. UsesIn(issueQueue[d], s) = Cardinality(queued)
          /\ UsesIn(completionQueue[d], s) = Cardinality(pending)
      BY DEF UsesIn
    <2>10. PICK p \in PlaceNames : LocatedAt(s, p)
      BY <2>0 DEF PlaceInv
    <2> HIDE DEF free, picked, queued, pending, busy
    <2>11. Cardinality(free) + Cardinality(picked) + Cardinality(queued) + Uses(ibatch[d], s)
              + Cardinality(pending) + Cardinality(busy) = 1
      <3>1. \/ p = "free"
            \/ p = "picked"
            \/ p = "queued"
            \/ p = "taken"
            \/ p = "pending"
            \/ p = "busy"
        BY DEF PlaceNames
      <3> QED  BY <2>3, <2>4, <2>5, <2>6, <2>7, <2>8, <2>10, <3>1 DEF LocatedAt
    <2> QED  BY <2>1, <2>9, <2>11 DEF free, picked, queued, pending, busy
  <1> QED  BY <1>1, Invariance, PTL

=============================================================================
