-------------------------- MODULE BatchMakerProofs --------------------------
(***************************************************************************)
(* What holds of BatchMaker for any number of staging threads, batches,    *)
(* consumers and samples, in the executions in which FlushQueries meets no *)
(* critical section.                                                       *)
(***************************************************************************)
EXTENDS BatchMaker, CollectionLemmas

-----------------------------------------------------------------------------
(***************************************************************************)
(* The inductive invariant.                                                *)
(***************************************************************************)
\* Who is inside a critical section.
InFlush == {"mark", "ready", "unstage", "flag"}

MutexInv ==
    /\ \A t \in Threads : mutex = t <=> tpc[t] \in {"commit", "committed"}
    /\ \A c \in Consumers : mutex = c <=> cpc[c] \in {"check", "take"}
    /\ mutex = "issuer" <=> ipc \in InFlush

Waiters == {c \in Consumers : cpc[c] \in {"check", "sleep", "woken"}}

\* mWaitingBatches counts the consumers that wait, and a consumer that takes a
\* batch finds one.
WaitInv ==
    /\ waiting = Cardinality(Waiters)
    /\ \A c \in Consumers : /\ cpc[c] = "take" /\ ~stopWork => ready # <<>>
                            /\ cpc[c] = "got" <=> got[c] # NoBatch

Staged == IF ipc = "unstage" THEN NoBatch ELSE staging

\* The places where a pointer to b can be.
Got(b) == \E c \in Consumers : got[c] = b
Returning(b) == \E c \in Consumers : resetBatch[c] = b
Streamed(b) == \E c \in Consumers : \E i \in DOMAIN stream[c] : stream[c][i].batch = b

\* A consumer has got b, and nobody has taken it out of mIdleBatches again.
Taken(b) == Has(idle, b) \/ Got(b) \/ Returning(b) \/ Streamed(b)

\* The staging batch, while FlushQueries closes it.
FlushInv ==
    /\ ipc \in {"mark", "ready", "unstage"} => staging = flushBatch /\ staging # NoBatch
    /\ staging # NoBatch => /\ closing[staging] <=> ipc \in {"ready", "unstage"}
                            /\ ~Taken(staging)

\* Every batch is in one place, and "none" is where it is while it is closed and
\* its copies are under way.
PlaceNames == {"idle", "staging", "none", "ready", "got", "stream", "callback"}

LocatedAt(b, w) ==
    /\ w = "staging" <=> Staged = b
    /\ w = "idle" <=> Has(idle, b)
    /\ w = "ready" <=> Has(ready, b)
    /\ w = "got" <=> Got(b)
    /\ w = "stream" <=> Streamed(b)
    /\ w = "callback" <=> Returning(b)

\* What a batch is like, by the place it is in.
Fresh(b) == committed[b] = 0 /\ completed[b] = 0 /\ ~closing[b] /\ tasks[b] = <<>>
Full(b) == committed[b] > 0 /\ completed[b] = committed[b] /\ closing[b]

KeptAt(b, w) ==
    /\ w = "idle" => Fresh(b)
    /\ w = "staging" =>
        \/ committed[b] > 0
        \/ \E t \in Threads : tpc[t] = "commit" /\ batchPtr[t] = b
    /\ w = "none" => closing[b] /\ completed[b] # committed[b]
    /\ w \in {"ready", "got", "stream"} => Full(b)
    /\ w = "callback" => Fresh(b) \/ Full(b)

PlaceInv == \A b \in Batches : \E w \in PlaceNames : LocatedAt(b, w) /\ KeptAt(b, w)

\* A batch is only once where it is.
Single(f) == \A c, d \in Consumers : f[c] = f[d] /\ f[c] # NoBatch => c = d
StreamedOnce == \A c, d \in Consumers : \A i \in DOMAIN stream[c] : \A j \in DOMAIN stream[d] :
    stream[c][i].batch = stream[d][j].batch /\ stream[c][i].batch # NoBatch => c = d /\ i = j

OnceInv == Distinct(idle) /\ Distinct(ready) /\ Single(got) /\ Single(resetBatch) /\ StreamedOnce

\* A thread's share of its batch, from the first commit to the end of its copy.
Active(t) == tpc[t] \in {"commit", "committed", "copy", "complete"}
Share(t) == pairsOffset[t] + 1 .. pairsOffset[t] + pairsToCopy[t]
Works(t, b) == Active(t) /\ batchPtr[t] = b

ThreadInv == \A t \in Threads : Active(t) =>
    /\ batchPtr[t] \in Batches /\ ~Taken(batchPtr[t])
    /\ pairsOffset[t] + pairsToCopy[t] <= committed[batchPtr[t]]
    /\ tpc[t] \in {"commit", "committed"} =>
            pairsOffset[t] + pairsToCopy[t] = committed[batchPtr[t]]
    /\ tpc[t] = "commit" =>
            /\ staging = batchPtr[t]
            /\ maxPairs[t] = Smaller(MaxPairsPerThread, MaxBatchSize - pairsOffset[t])
            /\ pairsToCopy[t] <= maxPairs[t]
            /\ pairsToCopy[t] = 0 => tasksQ # <<>>
    /\ tpc[t] = "committed" => /\ committed[batchPtr[t]] > 0
                               /\ staging = batchPtr[t] \/ closing[batchPtr[t]]
    /\ tpc[t] \in {"copy", "complete"} => pairsToCopy[t] > 0

\* No two threads share a pair, and what no thread has still to copy is counted
\* as completed.
Uncopied(b) == {i \in 1..committed[b] : \E t \in Threads : Works(t, b) /\ i \in Share(t)}

ShareInv ==
    /\ \A t, u \in Threads : Active(t) /\ Active(u) /\ batchPtr[t] = batchPtr[u] /\ t # u =>
            Share(t) \cap Share(u) = {}
    /\ \A b \in Batches : completed[b] = Cardinality((1..committed[b]) \ Uncopied(b))

\* The tasks of a batch fill as many pairs as were committed; a thread's share
\* begins after those of the tasks that were there before.
SlotInv ==
    /\ \A b \in Batches : committed[b] = Len(SlotsOf(tasks[b]))
    /\ \A t \in Threads : Active(t) =>
            /\ tasksOffset[t] <= Len(tasks[batchPtr[t]])
            /\ pairsOffset[t] = Len(SlotsOf(SubSeq(tasks[batchPtr[t]], 1, tasksOffset[t])))

\* Whose pairs have been counted as readied: home names the batch of a sample
\* that no consumer has got yet.
PairSet(ss) == {x \in ss \X (Nat \ {0}) : x[2] <= Pairs[x[1]]}
Dealt(home, taken) ==
    /\ readiedPairs = Cardinality(PairSet(taken))
    /\ \A s \in taken : home[s] = NoBatch
    /\ \A i \in DOMAIN tasksQ : /\ tasksQ[i] \in issued \ taken
                                /\ home[tasksQ[i]] = NoBatch
    /\ \A b \in Batches :
        LET mine == {s \in issued : home[s] = b}
        IN  IF Taken(b) THEN mine = {} ELSE committed[b] = Cardinality(PairSet(mine))

CountInv ==
    /\ IsFiniteSet(PairSet(issued)) /\ issuedPairs = Cardinality(PairSet(issued))
    /\ Distinct(tasksQ)
    /\ \E home \in [issued -> Batches \cup {NoBatch}] : \E taken \in SUBSET issued :
            Dealt(home, taken)

\* The buffer holds the pairs of the batch's tasks, where no thread has still to
\* copy them; and what is queued on a stream is what the batch asked for.
BufInv == \A b \in Batches : \A i \in 1..committed[b] :
    \/ \E t \in Threads : Works(t, b) /\ tpc[t] # "complete" /\ i \in Share(t)
    \/ buf[b][i] = SlotsOf(tasks[b])[i]

StreamInv == \A c \in Consumers : \A i \in DOMAIN stream[c] :
    LET e == stream[c][i]
    IN  IF e.batch = NoBatch THEN e.data = SlotsOf(e.tasks) ELSE e.tasks = tasks[e.batch]

-----------------------------------------------------------------------------
(***************************************************************************)
(* The slots of a list of tasks.                                           *)
(***************************************************************************)
PairsOf(s) == [i \in 1..Pairs[s] |-> s]

\* The recursive function in SlotsOf(ts).
IsUpTo(f, ts, n) ==
    f = [k \in 0..n |-> IF k = 0 THEN <<>> ELSE f[k - 1] \o PairsOf(ts[k])]

\* A sample has at least one pair, and its pairs are that many times the sample.
LEMMA PairsOfType ==
  ASSUME NEW s \in Samples
  PROVE  /\ Pairs[s] \in Nat /\ Pairs[s] > 0
         /\ PairsOf(s) \in Seq(Samples) /\ Len(PairsOf(s)) = Pairs[s]
         /\ \A i \in 1..Pairs[s] : PairsOf(s)[i] = s
  <1>1. Pairs[s] \in Nat /\ Pairs[s] > 0
    BY PairsAssumption
  <1> QED  BY <1>1 DEF PairsOf

\* The function exists for every length, or for the least length that it does
\* not exist for it could be extended from the length before.
LEMMA UpToExists ==
  ASSUME NEW ts
  PROVE  \A n \in Nat : \E f : IsUpTo(f, ts, n)
  <1> DEFINE bad == {n \in Nat : ~\E f : IsUpTo(f, ts, n)}
  <1>1. ASSUME bad # {} PROVE FALSE
    <2>1. bad \subseteq Nat
      OBVIOUS
    <2> HIDE DEF bad
    <2>2. PICK n \in bad : \A m \in bad : n <= m
      BY <1>1, <2>1, NatMin
    <2>3. n \in Nat /\ ~\E f : IsUpTo(f, ts, n)
      BY <2>2 DEF bad
    <2>4. CASE n = 0
      <3> DEFINE g == [k \in 0..0 |-> <<>>]
      <3>1. \A k \in 0..0 : k = 0
        OBVIOUS
      <3>2. g = [k \in 0..0 |-> IF k = 0 THEN <<>> ELSE g[k - 1] \o PairsOf(ts[k])]
        BY <3>1
      <3>3. IsUpTo(g, ts, 0)
        BY <3>2 DEF IsUpTo
      <3> QED  BY <2>3, <2>4, <3>3
    <2>5. CASE n > 0
      <3>1. n - 1 \in Nat /\ n - 1 \notin bad
        BY <2>2, <2>3, <2>5
      <3>2. PICK f : IsUpTo(f, ts, n - 1)
        BY <3>1 DEF bad
      <3> DEFINE g == [k \in 0..n |-> IF k = n THEN f[n - 1] \o PairsOf(ts[n]) ELSE f[k]]
      <3>3. ASSUME NEW k \in 0..n
            PROVE  g[k] = IF k = 0 THEN <<>> ELSE g[k - 1] \o PairsOf(ts[k])
        <4>1. CASE k = n
          <5>1. g[k] = f[n - 1] \o PairsOf(ts[n])
            BY <4>1
          <5>2. n - 1 \in 0..n /\ n - 1 # n /\ k # 0
            BY <2>3, <2>5, <4>1
          <5>3. g[k - 1] = f[k - 1]
            BY <4>1, <5>2
          <5> QED  BY <4>1, <5>1, <5>2, <5>3
        <4>2. CASE k # n
          <5>1. k \in 0..(n - 1) /\ g[k] = f[k]
            BY <2>3, <4>2
          <5>2. f[k] = IF k = 0 THEN <<>> ELSE f[k - 1] \o PairsOf(ts[k])
            BY <3>2, <5>1 DEF IsUpTo
          <5>3. k # 0 => k - 1 \in 0..n /\ k - 1 # n /\ g[k - 1] = f[k - 1]
            BY <2>3, <5>1
          <5> QED  BY <5>1, <5>2, <5>3
        <4> QED  BY <4>1, <4>2
      <3>4. g = [k \in 0..n |-> g[k]]
        OBVIOUS
      <3> HIDE DEF g
      <3>5. IsUpTo(g, ts, n)
        BY <3>3, <3>4 DEF IsUpTo
      <3> QED  BY <2>3, <3>5
    <2> QED  BY <2>3, <2>4, <2>5
  <1> QED  BY <1>1

\* SlotsOf is the value of that function at the end of the list.
LEMMA SlotsDef ==
  ASSUME NEW ts \in Seq(Samples)
  PROVE  \E f : IsUpTo(f, ts, Len(ts)) /\ SlotsOf(ts) = f[Len(ts)]
  <1> DEFINE Def(f) == f = [n \in 0..Len(ts) |-> IF n = 0 THEN <<>>
                                   ELSE f[n - 1] \o [i \in 1..Pairs[ts[n]] |-> ts[n]]]
             upTo == CHOOSE f : Def(f)
  <1>1. SlotsOf(ts) = upTo[Len(ts)]
    BY DEF SlotsOf
  <1>2. \E f : IsUpTo(f, ts, Len(ts))
    BY UpToExists
  <1>3. \A f : Def(f) <=> IsUpTo(f, ts, Len(ts))
    BY DEF IsUpTo, PairsOf
  <1> HIDE DEF Def
  <1>4. \E f : Def(f)
    BY <1>2, <1>3
  <1>5. Def(upTo)
    BY <1>4
  <1> QED  BY <1>1, <1>3, <1>5

\* Two such functions agree as long as their lists do.
LEMMA UpToAgree ==
  ASSUME NEW ts, NEW us, NEW f, NEW g, NEW m \in Nat, NEW n \in Nat,
         IsUpTo(f, ts, m), IsUpTo(g, us, n), NEW l \in Nat, l <= m, l <= n,
         \A i \in 1..l : ts[i] = us[i]
  PROVE  \A k \in 0..l : f[k] = g[k]
  <1> DEFINE bad == {k \in 0..l : f[k] # g[k]}
  <1>1. ASSUME bad # {} PROVE FALSE
    <2>1. bad \subseteq Nat
      OBVIOUS
    <2> HIDE DEF bad
    <2>2. PICK k \in bad : \A j \in bad : k <= j
      BY <1>1, <2>1, NatMin
    <2>3. k \in 0..l /\ f[k] # g[k]
      BY <2>2 DEF bad
    <2>4. k \in 0..m /\ k \in 0..n
      BY <2>3
    <2>5. /\ f[k] = IF k = 0 THEN <<>> ELSE f[k - 1] \o PairsOf(ts[k])
          /\ g[k] = IF k = 0 THEN <<>> ELSE g[k - 1] \o PairsOf(us[k])
      BY <2>4 DEF IsUpTo
    <2>6. k # 0
      BY <2>3, <2>5
    <2>7. k - 1 \in 0..l /\ k - 1 < k /\ k \in 1..l
      BY <2>3, <2>6
    <2>8. k - 1 \notin bad
      BY <2>2, <2>3, <2>7
    <2>9. f[k - 1] = g[k - 1] /\ ts[k] = us[k]
      BY <2>7, <2>8 DEF bad
    <2> QED  BY <2>3, <2>5, <2>6, <2>9
  <1> QED  BY <1>1

\* Such a function yields lists of samples.
LEMMA UpToType ==
  ASSUME NEW ts \in Seq(Samples), NEW f, IsUpTo(f, ts, Len(ts))
  PROVE  \A k \in 0..Len(ts) : f[k] \in Seq(Samples)
  <1> DEFINE bad == {k \in 0..Len(ts) : f[k] \notin Seq(Samples)}
  <1>1. ASSUME bad # {} PROVE FALSE
    <2>1. bad \subseteq Nat
      OBVIOUS
    <2> HIDE DEF bad
    <2>2. PICK k \in bad : \A j \in bad : k <= j
      BY <1>1, <2>1, NatMin
    <2>3. k \in 0..Len(ts) /\ f[k] \notin Seq(Samples)
      BY <2>2 DEF bad
    <2>4. f[k] = IF k = 0 THEN <<>> ELSE f[k - 1] \o PairsOf(ts[k])
      BY <2>3 DEF IsUpTo
    <2>5. k # 0
      BY <2>3, <2>4, EmptySeqType
    <2>6. k - 1 \in 0..Len(ts) /\ k - 1 < k /\ k \in 1..Len(ts)
      BY <2>3, <2>5
    <2>7. k - 1 \notin bad
      BY <2>2, <2>3, <2>6
    <2>8. f[k - 1] \in Seq(Samples) /\ ts[k] \in Samples
      BY <2>6, <2>7 DEF bad
    <2>9. f[k - 1] \o PairsOf(ts[k]) \in Seq(Samples)
      BY <2>8, PairsOfType, ConcatProperties
    <2> QED  BY <2>3, <2>4, <2>5, <2>9
  <1> QED  BY <1>1

\* The slots of a list of tasks hold samples.
LEMMA SlotsType == ASSUME NEW ts \in Seq(Samples) PROVE SlotsOf(ts) \in Seq(Samples)
  <1>1. PICK f : IsUpTo(f, ts, Len(ts)) /\ SlotsOf(ts) = f[Len(ts)]
    BY SlotsDef
  <1>2. Len(ts) \in 0..Len(ts)
    OBVIOUS
  <1> QED  BY <1>1, <1>2, UpToType

\* No tasks fill no slot.
LEMMA SlotsEmpty == SlotsOf(<<>>) = <<>>
  <1>1. <<>> \in Seq(Samples) /\ Len(<<>>) = 0
    OBVIOUS
  <1>2. PICK f : IsUpTo(f, <<>>, 0) /\ SlotsOf(<<>>) = f[0]
    BY <1>1, SlotsDef
  <1> QED  BY <1>2 DEF IsUpTo

\* One more task fills its pairs behind those of the others.
LEMMA SlotsAppend ==
  ASSUME NEW ts \in Seq(Samples), NEW s \in Samples
  PROVE  SlotsOf(Append(ts, s)) = SlotsOf(ts) \o PairsOf(s)
  <1> DEFINE us == Append(ts, s)
  <1>1. /\ us \in Seq(Samples) /\ Len(us) = Len(ts) + 1 /\ us[Len(us)] = s
        /\ \A i \in 1..Len(ts) : us[i] = ts[i]
    OBVIOUS
  <1> HIDE DEF us
  <1>2. PICK f : IsUpTo(f, ts, Len(ts)) /\ SlotsOf(ts) = f[Len(ts)]
    BY SlotsDef
  <1>3. PICK g : IsUpTo(g, us, Len(us)) /\ SlotsOf(us) = g[Len(us)]
    BY <1>1, SlotsDef
  <1>4. Len(ts) \in Nat /\ Len(us) \in Nat /\ Len(us) \in 0..Len(us) /\ Len(us) # 0
        /\ Len(us) - 1 = Len(ts) /\ Len(ts) \in 0..Len(ts) /\ Len(ts) <= Len(us)
        /\ Len(ts) <= Len(ts)
    BY <1>1
  <1>5. g[Len(us)] = g[Len(us) - 1] \o PairsOf(us[Len(us)])
    BY <1>3, <1>4 DEF IsUpTo
  <1>6. g[Len(ts)] = f[Len(ts)]
    <2>1. \A i \in 1..Len(ts) : ts[i] = us[i]
      BY <1>1
    <2>2. \A k \in 0..Len(ts) : f[k] = g[k]
      BY <1>2, <1>3, <1>4, <2>1, UpToAgree, SMTT(20)
    <2> QED  BY <1>4, <2>2
  <1> QED  BY <1>1, <1>2, <1>3, <1>4, <1>5, <1>6 DEF us

\* One more task adds as many slots as it has pairs, and changes none of the others.
LEMMA SlotsAppendLen ==
  ASSUME NEW ts \in Seq(Samples), NEW s \in Samples
  PROVE  /\ Len(SlotsOf(Append(ts, s))) = Len(SlotsOf(ts)) + Pairs[s]
         /\ \A i \in 1..Len(SlotsOf(ts)) : SlotsOf(Append(ts, s))[i] = SlotsOf(ts)[i]
         /\ Len(SlotsOf(ts)) \in Nat
  <1>1. SlotsOf(ts) \in Seq(Samples) /\ PairsOf(s) \in Seq(Samples) /\ Len(PairsOf(s)) = Pairs[s]
        /\ Pairs[s] \in Nat
    BY SlotsType, PairsOfType
  <1> QED  BY <1>1, SlotsAppend, ConcatProperties

\* Only the empty list fills no slot.
LEMMA SlotsNonEmpty ==
  ASSUME NEW ts \in Seq(Samples)
  PROVE  ts = <<>> <=> Len(SlotsOf(ts)) = 0
  <1>1. CASE ts = <<>>
    BY <1>1, SlotsEmpty
  <1>2. CASE ts # <<>>
    <2>1. PICK us \in Seq(Samples), s \in Samples : ts = Append(us, s)
      BY <1>2, SequenceEmptyOrAppend
    <2>2. Len(SlotsOf(ts)) = Len(SlotsOf(us)) + Pairs[s] /\ Len(SlotsOf(us)) \in Nat
          /\ Pairs[s] \in Nat /\ Pairs[s] > 0
      BY <2>1, SlotsAppendLen, PairsOfType
    <2> QED  BY <1>2, <2>2
  <1> QED  BY <1>1, <1>2

\* The slots of a list are those of its first k tasks and those of the rest.
LEMMA SlotsSplit ==
  ASSUME NEW ts \in Seq(Samples), NEW k \in 0..Len(ts)
  PROVE  SlotsOf(ts) = SlotsOf(SubSeq(ts, 1, k)) \o SlotsOf(SubSeq(ts, k + 1, Len(ts)))
  <1> DEFINE front == SubSeq(ts, 1, k)
             part(n) == SubSeq(ts, k + 1, n)
             bad == {n \in k..Len(ts) :
                        SlotsOf(SubSeq(ts, 1, n)) # SlotsOf(front) \o SlotsOf(part(n))}
  <1>0. Len(ts) \in Nat /\ front \in Seq(Samples) /\ Len(front) = k
    <2>1. \A i \in 1..k : ts[i] \in Samples
      OBVIOUS
    <2> QED  BY <2>1, SubSeqProperties
  <1>1. ASSUME bad # {} PROVE FALSE
    <2>1. bad \subseteq Nat
      OBVIOUS
    <2> HIDE DEF bad
    <2>2. PICK n \in bad : \A j \in bad : n <= j
      BY <1>1, <2>1, NatMin
    <2>3. n \in k..Len(ts) /\ SlotsOf(SubSeq(ts, 1, n)) # SlotsOf(front) \o SlotsOf(part(n))
      BY <2>2 DEF bad
    <2>4. CASE n = k
      <3>1. part(n) = <<>>
        BY <1>0, <2>4, SubSeqEmpty
      <3>2. SlotsOf(front) \o <<>> = SlotsOf(front)
        BY <1>0, SlotsType, ConcatEmptySeq
      <3> HIDE DEF part
      <3> QED  BY <2>3, <2>4, <3>1, <3>2, SlotsEmpty
    <2>5. CASE n # k
      <3>1. n - 1 \in k..Len(ts) /\ n - 1 < n /\ n \in 1..Len(ts) /\ k + 1 \in 1..Len(ts)
            /\ n \in k + 1 .. Len(ts) /\ n \in Int /\ n - 1 \in Int /\ k + 1 \in Int
        BY <1>0, <2>3, <2>5
      <3>2. n - 1 \notin bad
        BY <2>2, <3>1
      <3>3. SlotsOf(SubSeq(ts, 1, n - 1)) = SlotsOf(front) \o SlotsOf(part(n - 1))
        BY <3>1, <3>2 DEF bad
      <3>4. ts[n] \in Samples /\ \A i \in 1..Len(ts) : ts[i] \in Samples
        BY <3>1
      <3>5. /\ SubSeq(ts, 1, n) = SubSeq(ts, 1, n - 1) \o <<ts[n]>>
            /\ SubSeq(ts, k + 1, n) = SubSeq(ts, k + 1, n - 1) \o <<ts[n]>>
        <4>1. 1 \in 1..Len(ts) /\ n \in 1..Len(ts)
          BY <3>1
        <4> QED  BY <3>1, <4>1, SubSeqRecursiveSecond
      <3>6. SubSeq(ts, 1, n - 1) \in Seq(Samples) /\ SubSeq(ts, k + 1, n - 1) \in Seq(Samples)
        <4>1. (\A i \in 1..(n - 1) : ts[i] \in Samples)
              /\ (\A i \in (k + 1)..(n - 1) : ts[i] \in Samples)
          BY <1>0, <3>1, <3>4
        <4> QED  BY <3>1, <4>1, SubSeqProperties
      <3>7. /\ SubSeq(ts, 1, n) = Append(SubSeq(ts, 1, n - 1), ts[n])
            /\ part(n) = Append(part(n - 1), ts[n])
        BY <3>4, <3>5, <3>6, AppendIsConcat
      <3>8. /\ SlotsOf(SubSeq(ts, 1, n)) = SlotsOf(SubSeq(ts, 1, n - 1)) \o PairsOf(ts[n])
            /\ SlotsOf(part(n)) = SlotsOf(part(n - 1)) \o PairsOf(ts[n])
        BY <3>4, <3>6, <3>7, SlotsAppend
      <3>9. /\ SlotsOf(front) \in Seq(Samples) /\ SlotsOf(part(n - 1)) \in Seq(Samples)
            /\ PairsOf(ts[n]) \in Seq(Samples)
        BY <1>0, <3>4, <3>6, SlotsType, PairsOfType
      <3> HIDE DEF front, part
      <3>10. (SlotsOf(front) \o SlotsOf(part(n - 1))) \o PairsOf(ts[n])
                = SlotsOf(front) \o (SlotsOf(part(n - 1)) \o PairsOf(ts[n]))
        BY <3>9, ConcatAssociative
      <3> QED  BY <2>3, <3>3, <3>8, <3>10
    <2> QED  BY <2>4, <2>5
  <1>2. Len(ts) \notin bad /\ Len(ts) \in k..Len(ts)
    BY <1>0, <1>1
  <1>3. SubSeq(ts, 1, Len(ts)) = ts
    BY SubSeqFull
  <1> QED  BY <1>2, <1>3

-----------------------------------------------------------------------------
(***************************************************************************)
(* Lists of batches, and the pairs of a set of samples.                    *)
(***************************************************************************)
LEMMA PairSetOne ==
  ASSUME NEW s \in Samples
  PROVE  IsFiniteSet(PairSet({s})) /\ Cardinality(PairSet({s})) = Pairs[s]
  <1>1. Pairs[s] \in Nat
    BY PairsOfType
  <1> DEFINE line == 1..Pairs[s]
  <1>2. IsFiniteSet(line) /\ Cardinality(line) = Pairs[s]
    BY <1>1, CardInterval
  <1>3. PairSet({s}) = {s} \X line
    BY <1>1 DEF PairSet
  <1>4. IsFiniteSet({s}) /\ Cardinality({s}) = 1
    BY FS_Singleton
  <1> DEFINE one == {s}
             pairs == PairSet(one)
  <1> HIDE DEF line
  <1>5. pairs = one \X line
    BY <1>3
  <1> HIDE DEF pairs, one
  <1>6. IsFiniteSet(one) /\ Cardinality(one) = 1
    BY <1>4 DEF one
  <1>7. IsFiniteSet(one \X line) /\ Cardinality(one \X line) = Cardinality(one) * Cardinality(line)
    BY <1>2, <1>6, FS_Product
  <1>8. IsFiniteSet(pairs) /\ Cardinality(pairs) = Pairs[s]
    BY <1>1, <1>2, <1>5, <1>6, <1>7
  <1> QED  BY <1>8 DEF pairs, one

\* Fewer samples have no more pairs.
LEMMA PairSetMono ==
  ASSUME NEW ss, NEW us, us \subseteq ss, IsFiniteSet(PairSet(ss))
  PROVE  /\ IsFiniteSet(PairSet(us)) /\ Cardinality(PairSet(us)) <= Cardinality(PairSet(ss))
         /\ Cardinality(PairSet(us)) \in Nat /\ Cardinality(PairSet(ss)) \in Nat
  <1>1. PairSet(us) \in SUBSET PairSet(ss)
    BY DEF PairSet
  <1> QED  BY <1>1, FS_Subset, FS_CardinalityType

\* Different samples have different pairs: their numbers add up.
LEMMA PairSetUnion ==
  ASSUME NEW ss, NEW us, ss \cap us = {}, IsFiniteSet(PairSet(ss)), IsFiniteSet(PairSet(us))
  PROVE  /\ IsFiniteSet(PairSet(ss \cup us))
         /\ Cardinality(PairSet(ss \cup us)) = Cardinality(PairSet(ss)) + Cardinality(PairSet(us))
         /\ Cardinality(PairSet(ss)) \in Nat /\ Cardinality(PairSet(us)) \in Nat
  <1> DEFINE A == PairSet(ss)
             B == PairSet(us)
             C == PairSet(ss \cup us)
  <1>1. C = A \cup B /\ A \cap B = {}
    BY DEF PairSet
  <1>2. IsFiniteSet(A) /\ IsFiniteSet(B)
    OBVIOUS
  <1> HIDE DEF A, B, C
  <1>3. Cardinality(A) \in Nat /\ Cardinality(B) \in Nat
    BY <1>2, FS_CardinalityType
  <1>4. /\ IsFiniteSet(A \cup B)
        /\ Cardinality(A \cup B) = Cardinality(A) + Cardinality(B) - Cardinality(A \cap B)
    BY <1>2, FS_Union
  <1>5. Cardinality(A \cap B) = 0
    BY <1>1, FS_EmptySet
  <1>6. IsFiniteSet(C) /\ Cardinality(C) = Cardinality(A) + Cardinality(B)
    BY <1>1, <1>3, <1>4, <1>5
  <1> QED  BY <1>3, <1>6 DEF A, B, C

-----------------------------------------------------------------------------
(***************************************************************************)
(* Notifications, and CloseBatch.                                          *)
(***************************************************************************)
\* g is f after some sleepers were woken.
Woken(S, f, g) == \A x \in S : g[x] = f[x] \/ (f[x] = "sleep" /\ g[x] = "woken")

\* notify_one wakes one sleeper, if there is one, and nobody else.
LEMMA WakeOneStep ==
  ASSUME NEW S, NEW V, "woken" \in V, NEW f \in [S -> V], NEW g \in WakeOne(f)
  PROVE  g \in [S -> V] /\ Woken(S, f, g)
  <1>1. CASE {x \in DOMAIN f : f[x] = "sleep"} = {}
    BY <1>1 DEF WakeOne, Woken
  <1>2. CASE {x \in DOMAIN f : f[x] = "sleep"} # {}
    <2>1. PICK y \in DOMAIN f : f[y] = "sleep" /\ g = [f EXCEPT ![y] = "woken"]
      BY <1>2 DEF WakeOne
    <2> QED  BY <2>1 DEF Woken
  <1> QED  BY <1>1, <1>2

\* notify_all wakes the sleepers and nobody else.
LEMMA WakeAllStep ==
  ASSUME NEW S, NEW V, "woken" \in V, NEW f \in [S -> V]
  PROVE  WakeAll(f) \in [S -> V] /\ Woken(S, f, WakeAll(f))
  BY DEF WakeAll, Woken

ThreadStates == {"woken", "sleep", "stopped", "commit", "committed", "copy", "complete"}
ConsumerStates == {"get", "check", "sleep", "woken", "take", "stopped", "got"}

\* What HandleReadyBatch and CloseBatch do.
Readies(b) == ready' = Append(ready, b) /\ aborted' = (completed[b] = 0)
Closes(b) ==
    /\ ~closing[b] /\ closing' = [closing EXCEPT ![b] = TRUE] /\ staging' = NoBatch
    /\ \/ completed[b] = committed[b] /\ Readies(b)
       \/ completed[b] # committed[b] /\ UNCHANGED <<ready, aborted>>
ClosesNot == UNCHANGED <<closing, ready, staging, aborted>>

\* CloseBatch closes the batch, or finds it closed and does nothing.
LEMMA CloseBatchStep ==
  ASSUME NEW b \in Batches, NEW pcs \in [Consumers -> ConsumerStates], CloseBatch(b, pcs)
  PROVE  /\ cpc' \in [Consumers -> ConsumerStates] /\ Woken(Consumers, pcs, cpc')
         /\ Closes(b) \/ (closing[b] /\ ClosesNot)
  <1> USE DEF CloseBatch, CloseBatchWhen
  <1>1. CASE closing[b]
    BY <1>1 DEF Woken, ClosesNot
  <1>2. CASE ~closing[b] /\ completed[b] = committed[b]
    <2>1. Closes(b) /\ cpc' \in WakeOne(pcs)
      BY <1>2 DEF Closes, Readies, HandleReadyBatch
    <2>2. "woken" \in ConsumerStates
      BY DEF ConsumerStates
    <2> QED  BY <2>1, <2>2, WakeOneStep
  <1>3. CASE ~closing[b] /\ completed[b] # committed[b]
    BY <1>3 DEF Closes, Woken
  <1> QED  BY <1>1, <1>2, <1>3

-----------------------------------------------------------------------------
(***************************************************************************)
(* The program counters.                                                   *)
(***************************************************************************)
Step ==
    \/ Issuer
    \/ \E t \in Threads : Stage(t)
    \/ \E c \in Consumers : Fetch(c) \/ CopyStream(c) \/ Deliver(c)

PcType == tpc \in [Threads -> ThreadStates] /\ cpc \in [Consumers -> ConsumerStates]

\* Threads and consumers can be woken.
LEMMA WokenStates == "woken" \in ThreadStates /\ "woken" \in ConsumerStates
  BY DEF ThreadStates, ConsumerStates

\* The program counters have their types.
LEMMA PcNow == TypeOK => PcType
  BY DEF TypeOK, PcType, ThreadStates, ConsumerStates

\* What a step that closes its batch, if it has to, does to the consumers' pcs.
LEMMA CloseIfPcs ==
  ASSUME NEW p, NEW b, p => b \in Batches, NEW pcs \in [Consumers -> ConsumerStates],
         IF p THEN CloseBatch(b, pcs)
              ELSE cpc' = pcs /\ UNCHANGED <<closing, ready, staging, aborted>>
  PROVE  /\ cpc' \in [Consumers -> ConsumerStates] /\ Woken(Consumers, pcs, cpc')
         /\ Closes(b) \/ ClosesNot
  <1>1. CASE p
    BY <1>1, CloseBatchStep
  <1>2. CASE ~p
    BY <1>2 DEF Woken, ClosesNot
  <1> QED  BY <1>1, <1>2

\* No two threads are inside critical sections, and FlushQueries is not inside
\* one with either of them.
LEMMA MutexNext ==
  ASSUME FlushExclusive, TypeOK, MutexInv, ThreadInv, Step
  PROVE  PcType' /\ MutexInv'
  <1> DEFINE Goal == PcType' /\ MutexInv'
  <1>0. tpc \in [Threads -> ThreadStates] /\ cpc \in [Consumers -> ConsumerStates]
    BY PcNow DEF PcType
  <1>n. /\ "issuer" \notin Threads \cup Consumers /\ Nobody \notin Threads \cup Consumers
        /\ Nobody # "issuer" /\ Threads \cap Consumers = {}
    BY NamesAssumption
  <1>m. ASSUME NEW g \in [Threads -> ThreadStates], Woken(Threads, g, tpc')
        PROVE  \A t \in Threads : g[t] \in {"commit", "committed"}
                                    <=> tpc'[t] \in {"commit", "committed"}
    BY <1>m DEF Woken
  <1>k. ASSUME NEW g \in [Consumers -> ConsumerStates], Woken(Consumers, g, cpc')
        PROVE  \A c \in Consumers : g[c] \in {"check", "take"} <=> cpc'[c] \in {"check", "take"}
    BY <1>k DEF Woken
  <1>1. ASSUME Issuer PROVE Goal
    <2>1. ASSUME StartQuery PROVE Goal
      BY <1>0, <2>1 DEF StartQuery, threadVars, consumerVars, PcType, MutexInv, InFlush
    <2>2. ASSUME NEW s \in Samples, IssueTask(s) PROVE Goal
      BY <1>0, <2>2 DEF IssueTask, threadVars, consumerVars, PcType, MutexInv, InFlush
    <2>3. ASSUME EndQuery PROVE Goal
      <3>1. tpc' \in [Threads -> ThreadStates] /\ Woken(Threads, tpc, tpc')
        BY <1>0, <2>3, WokenStates, WakeOneStep DEF EndQuery
      <3>2. cpc' = cpc /\ mutex' = mutex /\ ipc \notin InFlush /\ ipc' \notin InFlush
        BY <2>3 DEF EndQuery, consumerVars, InFlush
      <3> QED  BY <1>0, <1>m, <3>1, <3>2 DEF PcType, MutexInv
    <2>4. ASSUME FlushQueries PROVE Goal
      <3>1. /\ tpc' = tpc /\ cpc' = cpc /\ mutex = Nobody /\ mutex' = "issuer"
            /\ ipc' \in InFlush
        BY <2>4 DEF FlushQueries, threadVars, consumerVars, InFlush
      <3> QED  BY <1>0, <1>n, <3>1 DEF PcType, MutexInv
    <2>5. ASSUME FlushMark PROVE Goal
      BY <1>0, <2>5 DEF FlushMark, threadVars, consumerVars, PcType, MutexInv, InFlush
    <2>6. ASSUME FlushReady PROVE Goal
      <3>1. cpc' = cpc \/ cpc' \in WakeOne(cpc)
        BY <2>6 DEF FlushReady, HandleReadyBatch
      <3>2. cpc' \in [Consumers -> ConsumerStates] /\ Woken(Consumers, cpc, cpc')
        <4>1. CASE cpc' = cpc
          BY <1>0, <4>1 DEF Woken
        <4>2. CASE cpc' \in WakeOne(cpc)
          BY <1>0, <4>2, WokenStates, WakeOneStep
        <4> QED  BY <3>1, <4>1, <4>2
      <3>3. tpc' = tpc /\ mutex' = mutex /\ ipc \in InFlush /\ ipc' \in InFlush
        BY <2>6 DEF FlushReady, threadVars, InFlush
      <3> QED  BY <1>0, <1>k, <3>2, <3>3 DEF PcType, MutexInv
    <2>7. ASSUME FlushUnstage PROVE Goal
      BY <1>0, <2>7 DEF FlushUnstage, threadVars, consumerVars, PcType, MutexInv, InFlush
    <2>8. ASSUME FlushFlag PROVE Goal
      <3>1. /\ tpc' = tpc /\ cpc' = cpc /\ mutex = "issuer" /\ mutex' = Nobody
            /\ ipc' \notin InFlush
        BY <2>8 DEF FlushFlag, threadVars, consumerVars, InFlush, MutexInv
      <3> QED  BY <1>0, <1>n, <3>1 DEF PcType, MutexInv
    <2>9. ASSUME StopWork PROVE Goal
      <3>1. /\ tpc' \in [Threads -> ThreadStates] /\ Woken(Threads, tpc, tpc')
            /\ cpc' \in [Consumers -> ConsumerStates] /\ Woken(Consumers, cpc, cpc')
        BY <1>0, <2>9, WokenStates, WakeAllStep DEF StopWork
      <3>2. mutex' = mutex /\ ipc \notin InFlush /\ ipc' \notin InFlush
        BY <2>9 DEF StopWork, InFlush
      <3> QED  BY <1>0, <1>m, <1>k, <3>1, <3>2 DEF PcType, MutexInv
    <2> HIDE DEF Goal
    <2> QED  BY <1>1, <2>1, <2>2, <2>3, <2>4, <2>5, <2>6, <2>7, <2>8, <2>9 DEF Issuer
  <1>2. ASSUME NEW t \in Threads, Stage(t) PROVE Goal
    <2>a. ASSUME NEW to \in ThreadStates, to \notin {"commit", "committed"},
                 tpc[t] \notin {"commit", "committed"}, Woken(Threads, [tpc EXCEPT ![t] = to], tpc'),
                 tpc' \in [Threads -> ThreadStates], cpc' = cpc, mutex' = mutex, ipc' = ipc
          PROVE  Goal
      <3>1. [tpc EXCEPT ![t] = to] \in [Threads -> ThreadStates]
        BY <1>0
      <3>2. \A u \in Threads : [tpc EXCEPT ![t] = to][u] \in {"commit", "committed"}
                                    <=> tpc'[u] \in {"commit", "committed"}
        BY <1>m, <2>a, <3>1
      <3>3. \A u \in Threads : tpc[u] \in {"commit", "committed"} <=> tpc'[u] \in {"commit", "committed"}
        BY <1>0, <2>a, <3>2
      <3> QED  BY <1>0, <2>a, <3>3 DEF PcType, MutexInv
    <2>1. ASSUME StageWait(t) \/ StageStop(t) \/ Copy(t) PROVE Goal
      <3>1. /\ tpc[t] \notin {"commit", "committed"} /\ cpc' = cpc /\ mutex' = mutex /\ ipc' = ipc
            /\ \E to \in {"stopped", "sleep", "complete"} : tpc' = [tpc EXCEPT ![t] = to]
        BY <2>1 DEF StageWait, StageStop, Copy, consumerVars, issuerVars
      <3>2. PICK to \in {"stopped", "sleep", "complete"} : tpc' = [tpc EXCEPT ![t] = to]
        BY <3>1
      <3>3. tpc' \in [Threads -> ThreadStates] /\ to \in ThreadStates
        BY <1>0, <3>2 DEF ThreadStates
      <3>4. Woken(Threads, [tpc EXCEPT ![t] = to], tpc')
        BY <3>2 DEF Woken
      <3> QED  BY <2>a, <3>1, <3>3, <3>4
    <2>3. ASSUME StageBegin(t) PROVE Goal
      <3>1. /\ tpc' = [tpc EXCEPT ![t] = "commit"] /\ cpc' = cpc /\ ipc' = ipc
            /\ mutex = Nobody /\ mutex' = t
        BY <2>3 DEF StageBegin, StageBeginAt, consumerVars, issuerVars
      <3> QED  BY <1>0, <1>n, <3>1 DEF PcType, ThreadStates, MutexInv
    <2>4. ASSUME CommitTask(t) PROVE Goal
      BY <1>0, <2>4 DEF CommitTask, consumerVars, issuerVars, PcType, MutexInv
    <2>5. ASSUME CommitFull(t) \/ CommitEmpty(t) PROVE Goal
      <3>1. /\ tpc[t] = "commit" /\ tpc' = [tpc EXCEPT ![t] = "committed"] /\ mutex' = mutex
            /\ ipc' = ipc
        BY <2>5 DEF CommitFull, CommitEmpty, issuerVars
      <3>2. cpc' \in [Consumers -> ConsumerStates] /\ Woken(Consumers, cpc, cpc')
        <4>1. CASE CommitFull(t)
          <5>1. batchPtr[t] \in Batches
            BY <3>1 DEF ThreadInv, Active
          <5>2. IF Pairs[Head(tasksQ)] >= Free(batchPtr[t])
                THEN CloseBatch(batchPtr[t], cpc)
                ELSE cpc' = cpc /\ UNCHANGED <<closing, ready, staging, aborted>>
            BY <4>1 DEF CommitFull
          <5> QED  BY <1>0, <5>1, <5>2, CloseIfPcs
        <4>2. CASE CommitEmpty(t)
          BY <1>0, <4>2 DEF CommitEmpty, consumerVars, Woken
        <4> QED  BY <2>5, <4>1, <4>2
      <3> QED  BY <1>0, <1>k, <3>1, <3>2 DEF PcType, ThreadStates, MutexInv
    <2>6. ASSUME StageNothing(t) PROVE Goal
      <3>1. /\ tpc[t] = "committed" /\ tpc' = [tpc EXCEPT ![t] = "woken"] /\ cpc' = cpc
            /\ mutex' = Nobody /\ ipc' = ipc
        BY <2>6 DEF StageNothing, consumerVars, issuerVars
      <3>2. mutex = t
        BY <3>1 DEF MutexInv
      <3> QED  BY <1>0, <1>n, <3>1, <3>2 DEF PcType, ThreadStates, MutexInv
    <2>7. ASSUME StageCommitted(t) PROVE Goal
      <3>1. /\ tpc[t] = "committed" /\ tpc' \in WakeOne([tpc EXCEPT ![t] = "copy"])
            /\ mutex' = Nobody /\ ipc' = ipc
        BY <2>7 DEF StageCommitted, issuerVars
      <3>2. cpc' \in [Consumers -> ConsumerStates] /\ Woken(Consumers, cpc, cpc')
        <4>1. batchPtr[t] \in Batches
          BY <3>1 DEF ThreadInv, Active
        <4>2. IF LastTask THEN CloseBatch(batchPtr[t], cpc)
              ELSE cpc' = cpc /\ UNCHANGED <<closing, ready, staging, aborted>>
          BY <2>7 DEF StageCommitted
        <4> QED  BY <1>0, <4>1, <4>2, CloseIfPcs
      <3>3. [tpc EXCEPT ![t] = "copy"] \in [Threads -> ThreadStates]
        BY <1>0 DEF ThreadStates
      <3>4. tpc' \in [Threads -> ThreadStates] /\ Woken(Threads, [tpc EXCEPT ![t] = "copy"], tpc')
        BY <3>1, <3>3, WokenStates, WakeOneStep
      <3>5. mutex = t
        BY <3>1 DEF MutexInv
      <3>6. \A u \in Threads : tpc'[u] \notin {"commit", "committed"}
        <4>1. \A u \in Threads : [tpc EXCEPT ![t] = "copy"][u] \notin {"commit", "committed"}
          BY <1>0, <3>5 DEF MutexInv
        <4> QED  BY <1>m, <3>3, <3>4, <4>1
      <3>7. \A c \in Consumers : cpc'[c] \notin {"check", "take"}
        BY <1>0, <1>k, <1>n, <3>2, <3>5 DEF MutexInv
      <3>8. ipc' \notin InFlush
        BY <1>n, <3>1, <3>5 DEF MutexInv
      <3> QED  BY <1>n, <3>1, <3>2, <3>4, <3>6, <3>7, <3>8 DEF PcType, MutexInv
    <2>8. ASSUME CompleteCopies(t) PROVE Goal
      <3>1. /\ tpc[t] = "complete" /\ tpc' = [tpc EXCEPT ![t] = "woken"] /\ mutex' = mutex
            /\ ipc' = ipc /\ \/ cpc' \in WakeOne(cpc)
                             \/ \E g \in WakeOne(cpc) : cpc' \in WakeOne(g)
        BY <2>8 DEF CompleteCopies, issuerVars
      <3>2. PICK g \in {cpc} \cup WakeOne(cpc) : cpc' \in WakeOne(g)
        BY <3>1
      <3>3. g \in [Consumers -> ConsumerStates] /\ Woken(Consumers, cpc, g)
        <4>1. CASE g = cpc
          BY <1>0, <4>1 DEF Woken
        <4>2. CASE g \in WakeOne(cpc)
          BY <1>0, <4>2, WokenStates, WakeOneStep
        <4> QED  BY <4>1, <4>2
      <3>4. cpc' \in [Consumers -> ConsumerStates] /\ Woken(Consumers, g, cpc')
        BY <3>2, <3>3, WokenStates, WakeOneStep
      <3>5. Woken(Consumers, cpc, cpc')
        BY <3>3, <3>4 DEF Woken
      <3> QED  BY <1>0, <1>k, <3>1, <3>4, <3>5 DEF PcType, ThreadStates, MutexInv
    <2> HIDE DEF Goal
    <2> QED  BY <1>2, <2>1, <2>3, <2>4, <2>5, <2>6, <2>7, <2>8 DEF Stage
  <1>3. ASSUME NEW c \in Consumers, Fetch(c) \/ CopyStream(c) \/ Deliver(c) PROVE Goal
    <2>1. ASSUME GetReady(c) \/ GetWoken(c) PROVE Goal
      <3>1. /\ tpc' = tpc /\ ipc' = ipc /\ mutex = Nobody /\ mutex' = c
            /\ \E to \in {"take", "check"} : cpc' = [cpc EXCEPT ![c] = to]
        BY <2>1 DEF GetReady, GetWoken, threadVars, issuerVars
      <3> QED  BY <1>0, <1>n, <3>1 DEF PcType, ConsumerStates, MutexInv
    <2>2. ASSUME GetNone(c) PROVE Goal
      <3>1. /\ tpc' = tpc /\ ipc' = ipc /\ mutex = Nobody /\ mutex' = c
            /\ IF staging # NoBatch THEN CloseBatch(staging, [cpc EXCEPT ![c] = "check"])
               ELSE /\ cpc' = [cpc EXCEPT ![c] = "check"]
                    /\ UNCHANGED <<closing, ready, staging, aborted>>
        BY <2>2 DEF GetNone, threadVars, issuerVars
      <3>2. [cpc EXCEPT ![c] = "check"] \in [Consumers -> ConsumerStates]
        BY <1>0 DEF ConsumerStates
      <3>3. staging # NoBatch => staging \in Batches
        BY DEF TypeOK
      <3>4. /\ cpc' \in [Consumers -> ConsumerStates]
            /\ Woken(Consumers, [cpc EXCEPT ![c] = "check"], cpc')
        BY <3>1, <3>2, <3>3, CloseIfPcs
      <3>5. \A d \in Consumers : cpc'[d] \in {"check", "take"} <=> d = c
        <4>1. \A d \in Consumers : [cpc EXCEPT ![c] = "check"][d] \in {"check", "take"} <=> d = c
          BY <1>0, <1>n, <3>1 DEF MutexInv
        <4> QED  BY <1>k, <3>2, <3>4, <4>1
      <3> QED  BY <1>0, <1>n, <3>1, <3>4, <3>5 DEF PcType, MutexInv
    <2>3. ASSUME GetSleep(c) \/ GetStopped(c) PROVE Goal
      <3>1. /\ tpc' = tpc /\ ipc' = ipc /\ cpc[c] \in {"check", "take"} /\ mutex' = Nobody
            /\ \E to \in {"sleep", "stopped"} : cpc' = [cpc EXCEPT ![c] = to]
        BY <2>3 DEF GetSleep, GetStopped, threadVars, issuerVars
      <3>2. mutex = c
        BY <3>1 DEF MutexInv
      <3> QED  BY <1>0, <1>n, <3>1, <3>2 DEF PcType, ConsumerStates, MutexInv
    <2>4. ASSUME GetNotified(c) PROVE Goal
      BY <1>0, <2>4 DEF GetNotified, threadVars, issuerVars, PcType, ConsumerStates, MutexInv
    <2>5. ASSUME GetBatch(c) PROVE Goal
      <3>1. /\ tpc' = tpc /\ ipc' = ipc /\ cpc[c] = "take" /\ mutex' = Nobody
            /\ cpc' = [cpc EXCEPT ![c] = "got"] \/ cpc' \in WakeOne([cpc EXCEPT ![c] = "got"])
        BY <2>5 DEF GetBatch, threadVars, issuerVars
      <3>2. [cpc EXCEPT ![c] = "got"] \in [Consumers -> ConsumerStates]
        BY <1>0 DEF ConsumerStates
      <3>3. /\ cpc' \in [Consumers -> ConsumerStates]
            /\ Woken(Consumers, [cpc EXCEPT ![c] = "got"], cpc')
        <4>1. CASE cpc' = [cpc EXCEPT ![c] = "got"]
          BY <3>2, <4>1 DEF Woken
        <4>2. CASE cpc' \in WakeOne([cpc EXCEPT ![c] = "got"])
          BY <3>2, <4>2, WokenStates, WakeOneStep
        <4> QED  BY <3>1, <4>1, <4>2
      <3>4. mutex = c
        BY <3>1 DEF MutexInv
      <3>5. \A d \in Consumers : cpc'[d] \notin {"check", "take"}
        <4>1. \A d \in Consumers : [cpc EXCEPT ![c] = "got"][d] \notin {"check", "take"}
          BY <1>0, <3>4 DEF MutexInv
        <4> QED  BY <1>k, <3>2, <3>3, <4>1
      <3> QED  BY <1>0, <1>n, <3>1, <3>3, <3>4, <3>5 DEF PcType, MutexInv
    <2>6. ASSUME Infer(c) PROVE Goal
      BY <1>0, <2>6 DEF Infer, threadVars, issuerVars, PcType, ConsumerStates, MutexInv
    <2>7. ASSUME H2DDone(c) \/ ResetBatch(c) \/ Deliver(c) PROVE Goal
      BY <1>0, <2>7 DEF H2DDone, ResetBatch, Deliver, threadVars, consumerVars, issuerVars,
                        PcType, MutexInv
    <2>8. ASSUME NotifyH2D(c) PROVE Goal
      <3>1. tpc' \in [Threads -> ThreadStates] /\ Woken(Threads, tpc, tpc')
        BY <1>0, <2>8, WokenStates, WakeOneStep DEF NotifyH2D
      <3>2. cpc' = cpc /\ mutex' = mutex /\ ipc' = ipc
        BY <2>8 DEF NotifyH2D, issuerVars
      <3> QED  BY <1>0, <1>m, <3>1, <3>2 DEF PcType, MutexInv
    <2> HIDE DEF Goal
    <2> QED  BY <1>3, <2>1, <2>2, <2>3, <2>4, <2>5, <2>6, <2>7, <2>8 DEF Fetch, CopyStream
  <1> HIDE DEF Goal
  <1>4. Goal
    BY <1>1, <1>2, <1>3 DEF Step
  <1> QED  BY <1>4 DEF Goal

\* Of the consumers, a step of anyone else can only wake some.
LEMMA OthersWake ==
  ASSUME TypeOK, ThreadInv, Step, \A c \in Consumers : ~Fetch(c)
  PROVE  /\ Woken(Consumers, cpc, cpc') /\ waiting' = waiting /\ got' = got
         /\ stopWork => stopWork'
         /\ ready' = ready \/ ready' # <<>>
  <1> DEFINE Goal == /\ Woken(Consumers, cpc, cpc') /\ waiting' = waiting /\ got' = got
                     /\ stopWork => stopWork'
                     /\ ready' = ready \/ ready' # <<>>
  <1>0. cpc \in [Consumers -> ConsumerStates] /\ ready \in Seq(Batches)
    BY PcNow DEF PcType, TypeOK
  <1>a. \A b \in Batches : Append(ready, b) # <<>>
    BY <1>0, AppendHas
  <1>b. ASSUME NEW b \in Batches, Closes(b) \/ ClosesNot PROVE ready' = ready \/ ready' # <<>>
    BY <1>a, <1>b DEF Closes, ClosesNot, Readies
  <1>1. ASSUME Issuer PROVE Goal
    <2>1. ASSUME StartQuery \/ EndQuery \/ FlushQueries \/ FlushMark \/ FlushUnstage \/ FlushFlag
          PROVE  Goal
      BY <2>1 DEF StartQuery, EndQuery, FlushQueries, FlushMark, FlushUnstage, FlushFlag,
                  Woken, queueVars, flagVars, consumerVars, streamVars
    <2>2. ASSUME NEW s \in Samples, IssueTask(s) PROVE Goal
      BY <2>2 DEF IssueTask, Woken, queueVars, flagVars, consumerVars, streamVars
    <2>3. ASSUME FlushReady PROVE Goal
      <3>1. /\ waiting' = waiting /\ got' = got /\ stopWork' = stopWork
            /\ \/ cpc' = cpc /\ ready' = ready
               \/ cpc' \in WakeOne(cpc) /\ ready' = Append(ready, flushBatch)
        BY <2>3 DEF FlushReady, HandleReadyBatch, flagVars, streamVars
      <3>2. CASE cpc' = cpc /\ ready' = ready
        BY <3>1, <3>2 DEF Woken
      <3>3. CASE cpc' \in WakeOne(cpc) /\ ready' = Append(ready, flushBatch)
        <4>1. Woken(Consumers, cpc, cpc')
          BY <1>0, <3>3, WokenStates, WakeOneStep
        <4>2. ready' # <<>>
          BY <1>0, <3>3
        <4> QED  BY <3>1, <4>1, <4>2
      <3> QED  BY <3>1, <3>2, <3>3
    <2>4. ASSUME StopWork PROVE Goal
      <3>1. Woken(Consumers, cpc, cpc')
        BY <1>0, <2>4, WokenStates, WakeAllStep DEF StopWork
      <3> QED  BY <2>4, <3>1 DEF StopWork, queueVars, streamVars
    <2> HIDE DEF Goal
    <2> QED  BY <1>1, <2>1, <2>2, <2>3, <2>4 DEF Issuer
  <1>2. ASSUME NEW t \in Threads, Stage(t) PROVE Goal
    <2>1. ASSUME StageWait(t) \/ StageStop(t) \/ StageBegin(t) \/ CommitTask(t) \/ CommitEmpty(t)
                 \/ StageNothing(t) \/ Copy(t)
          PROVE  Goal
      BY <2>1 DEF StageWait, StageStop, StageBegin, StageBeginAt, CommitTask, CommitEmpty,
                  StageNothing, Copy, Woken, queueVars, flagVars, consumerVars, streamVars
    <2>2. ASSUME CommitFull(t) \/ StageCommitted(t) PROVE Goal
      <3>1. waiting' = waiting /\ got' = got /\ stopWork' = stopWork /\ batchPtr[t] \in Batches
        BY <2>2 DEF CommitFull, StageCommitted, flagVars, streamVars, ThreadInv, Active
      <3>2. Woken(Consumers, cpc, cpc') /\ (Closes(batchPtr[t]) \/ ClosesNot)
        <4>1. CASE CommitFull(t)
          <5>1. IF Pairs[Head(tasksQ)] >= Free(batchPtr[t])
                THEN CloseBatch(batchPtr[t], cpc)
                ELSE cpc' = cpc /\ UNCHANGED <<closing, ready, staging, aborted>>
            BY <4>1 DEF CommitFull
          <5> QED  BY <1>0, <3>1, <5>1, CloseIfPcs
        <4>2. CASE StageCommitted(t)
          <5>1. IF LastTask THEN CloseBatch(batchPtr[t], cpc)
                ELSE cpc' = cpc /\ UNCHANGED <<closing, ready, staging, aborted>>
            BY <4>2 DEF StageCommitted
          <5> QED  BY <1>0, <3>1, <5>1, CloseIfPcs
        <4> QED  BY <2>2, <4>1, <4>2
      <3> QED  BY <1>b, <3>1, <3>2
    <2>3. ASSUME CompleteCopies(t) PROVE Goal
      <3>1. /\ waiting' = waiting /\ got' = got /\ stopWork' = stopWork
            /\ \/ cpc' \in WakeOne(cpc)
               \/ \E g \in WakeOne(cpc) : cpc' \in WakeOne(g)
            /\ \/ ready' = ready
               \/ ready' = Append(ready, batchPtr[t])
        BY <2>3 DEF CompleteCopies, flagVars, streamVars
      <3>2. Woken(Consumers, cpc, cpc')
        <4>1. CASE cpc' \in WakeOne(cpc)
          BY <1>0, <4>1, WokenStates, WakeOneStep
        <4>2. ASSUME NEW g \in WakeOne(cpc), cpc' \in WakeOne(g) PROVE Woken(Consumers, cpc, cpc')
          <5>1. g \in [Consumers -> ConsumerStates] /\ Woken(Consumers, cpc, g)
            BY <1>0, WokenStates, WakeOneStep
          <5>2. Woken(Consumers, g, cpc')
            BY <4>2, <5>1, WokenStates, WakeOneStep
          <5> QED  BY <5>1, <5>2 DEF Woken
        <4> QED  BY <3>1, <4>1, <4>2
      <3>3. ready' = ready \/ ready' # <<>>
        BY <1>0, <3>1
      <3> QED  BY <3>1, <3>2, <3>3
    <2> HIDE DEF Goal
    <2> QED  BY <1>2, <2>1, <2>2, <2>3 DEF Stage
  <1>3. ASSUME NEW c \in Consumers, CopyStream(c) \/ Deliver(c) PROVE Goal
    <2>1. ASSUME H2DDone(c) PROVE Goal
      BY <2>1 DEF H2DDone, Woken, queueVars, flagVars
    <2>2. ASSUME ResetBatch(c) PROVE Goal
      BY <2>2 DEF ResetBatch, Woken, queueVars, flagVars, consumerVars, streamVars
    <2>3. ASSUME NotifyH2D(c) PROVE Goal
      BY <2>3 DEF NotifyH2D, Woken, flagVars
    <2>4. ASSUME Deliver(c) PROVE Goal
      BY <2>4 DEF Deliver, Woken, queueVars, flagVars
    <2> HIDE DEF Goal
    <2> QED  BY <1>3, <2>1, <2>2, <2>3, <2>4 DEF CopyStream
  <1> HIDE DEF Goal
  <1>4. Goal
    BY <1>1, <1>2, <1>3 DEF Step
  <1> QED  BY <1>4 DEF Goal

\* The count of the waiting consumers, and that who takes a batch finds one.
LEMMA WaitNext ==
  ASSUME TypeOK, MutexInv, WaitInv, ThreadInv, Step, PcType'
  PROVE  WaitInv' /\ waiting' \in 0..Cardinality(Consumers)
  <1> DEFINE Takes(c) == /\ cpc[c] = "take" /\ ~stopWork => ready # <<>>
                         /\ cpc[c] = "got" <=> got[c] # NoBatch
             Goal == waiting' = Cardinality(Waiters') /\ \A c \in Consumers : Takes(c)'
  <1>0. /\ cpc \in [Consumers -> ConsumerStates] /\ cpc' \in [Consumers -> ConsumerStates]
        /\ waiting = Cardinality(Waiters) /\ \A c \in Consumers : Takes(c)
        /\ ready \in Seq(Batches) /\ got \in [Consumers -> Batches \cup {NoBatch}]
    BY PcNow DEF PcType, WaitInv, TypeOK
  <1>w. IsFiniteSet(Waiters) /\ Cardinality(Waiters) \in Nat
    <2>1. Waiters \subseteq Consumers /\ IsFiniteSet(Consumers)
      BY SizesAssumption DEF Waiters
    <2> QED  BY <2>1, FS_Subset, FS_CardinalityType
  <1>1. ASSUME \A c \in Consumers : ~Fetch(c) PROVE Goal
    <2>1. /\ Woken(Consumers, cpc, cpc') /\ waiting' = waiting /\ got' = got
          /\ stopWork => stopWork'
          /\ ready' = ready \/ ready' # <<>>
      BY <1>1, OthersWake
    <2>2. Waiters' = Waiters
      BY <1>0, <2>1 DEF Waiters, Woken
    <2>3. ASSUME NEW c \in Consumers PROVE Takes(c)'
      <3>1. cpc'[c] = cpc[c] \/ (cpc[c] = "sleep" /\ cpc'[c] = "woken")
        BY <2>1 DEF Woken
      <3>2. Takes(c)
        BY <1>0
      <3> QED  BY <2>1, <3>1, <3>2
    <2> QED  BY <1>0, <2>1, <2>2, <2>3
  <1>2. ASSUME NEW c \in Consumers, Fetch(c) PROVE Goal
    <2>a. ASSUME NEW p \in [Consumers -> ConsumerStates], Woken(Consumers, p, cpc'),
                 \A d \in Consumers \ {c} : p[d] = cpc[d]
          PROVE  /\ \A d \in Consumers \ {c} : cpc'[d] = cpc[d] \/ (cpc[d] = "sleep" /\ cpc'[d] = "woken")
                 /\ Waiters' \ {c} = Waiters \ {c}
      BY <1>0, <2>a DEF Woken, Waiters
    <2>b. \A d \in Consumers \ {c} : mutex \in {c, Nobody} => cpc[d] \notin {"check", "take"}
      BY NamesAssumption DEF MutexInv
    <2>1. ASSUME GetReady(c) PROVE Goal
      <3>1. /\ cpc[c] = "get" /\ cpc' = [cpc EXCEPT ![c] = "take"] /\ waiting' = waiting
            /\ ready # <<>> /\ ready' = ready /\ stopWork' = stopWork /\ got' = got
        BY <2>1 DEF GetReady, queueVars, flagVars, streamVars
      <3>2. Waiters' = Waiters
        BY <1>0, <3>1 DEF Waiters
      <3> QED  BY <1>0, <3>1, <3>2
    <2>2. ASSUME GetNone(c) PROVE Goal
      <3>1. /\ cpc[c] = "get" /\ waiting' = waiting + 1 /\ stopWork' = stopWork /\ got' = got
            /\ mutex = Nobody
            /\ IF staging # NoBatch THEN CloseBatch(staging, [cpc EXCEPT ![c] = "check"])
               ELSE /\ cpc' = [cpc EXCEPT ![c] = "check"]
                    /\ UNCHANGED <<closing, ready, staging, aborted>>
        BY <2>2 DEF GetNone, streamVars
      <3>2. [cpc EXCEPT ![c] = "check"] \in [Consumers -> ConsumerStates]
        BY <1>0 DEF ConsumerStates
      <3>3. staging # NoBatch => staging \in Batches
        BY DEF TypeOK
      <3>4. Woken(Consumers, [cpc EXCEPT ![c] = "check"], cpc')
        BY <3>1, <3>2, <3>3, CloseIfPcs
      <3>5. cpc'[c] = "check"
        BY <1>0, <3>4 DEF Woken
      <3>6. \A d \in Consumers \ {c} : [cpc EXCEPT ![c] = "check"][d] = cpc[d]
        BY <1>0
      <3>7. /\ \A d \in Consumers \ {c} : cpc'[d] = cpc[d] \/ (cpc[d] = "sleep" /\ cpc'[d] = "woken")
            /\ Waiters' \ {c} = Waiters \ {c}
        BY <2>a, <3>2, <3>4, <3>6
      <3>8. Waiters' = Waiters \cup {c} /\ c \notin Waiters
        BY <3>1, <3>5, <3>7 DEF Waiters
      <3>9. waiting' = Cardinality(Waiters')
        BY <1>0, <1>w, <3>1, <3>8, FS_AddElement
      <3>10. ASSUME NEW d \in Consumers PROVE Takes(d)'
        <4>1. cpc'[d] # "take" /\ (cpc'[d] = "got" <=> cpc[d] = "got")
          BY <2>b, <3>1, <3>5, <3>7
        <4> QED  BY <1>0, <3>1, <4>1
      <3> QED  BY <3>9, <3>10
    <2>3. ASSUME GetWoken(c) \/ GetSleep(c) PROVE Goal
      <3>1. /\ cpc[c] \in {"woken", "check"} /\ waiting' = waiting
            /\ \E to \in {"check", "sleep"} : cpc' = [cpc EXCEPT ![c] = to]
            /\ ready' = ready /\ stopWork' = stopWork /\ got' = got
        BY <2>3 DEF GetWoken, GetSleep, queueVars, flagVars, streamVars
      <3>2. Waiters' = Waiters
        BY <1>0, <3>1 DEF Waiters
      <3> QED  BY <1>0, <3>1, <3>2
    <2>4. ASSUME GetNotified(c) PROVE Goal
      <3>1. /\ cpc[c] = "check" /\ cpc' = [cpc EXCEPT ![c] = "take"] /\ waiting' = waiting - 1
            /\ ready # <<>> \/ stopWork
            /\ ready' = ready /\ stopWork' = stopWork /\ got' = got
        BY <2>4 DEF GetNotified, queueVars, streamVars
      <3>2. Waiters' = Waiters \ {c} /\ c \in Waiters
        BY <1>0, <3>1 DEF Waiters
      <3>3. waiting' = Cardinality(Waiters')
        BY <1>0, <1>w, <3>1, <3>2, FS_RemoveElement
      <3>4. \A d \in Consumers : Takes(d)'
        BY <1>0, <3>1
      <3> QED  BY <3>3, <3>4
    <2>5. ASSUME GetStopped(c) PROVE Goal
      <3>1. /\ cpc[c] = "take" /\ cpc' = [cpc EXCEPT ![c] = "stopped"] /\ waiting' = waiting
            /\ ready' = ready /\ stopWork' = stopWork /\ got' = got
        BY <2>5 DEF GetStopped, queueVars, flagVars, streamVars
      <3>2. Waiters' = Waiters
        BY <1>0, <3>1 DEF Waiters
      <3> QED  BY <1>0, <3>1, <3>2
    <2>6. ASSUME GetBatch(c) PROVE Goal
      <3>1. /\ cpc[c] = "take" /\ ~stopWork /\ waiting' = waiting /\ stopWork' = stopWork
            /\ got' = [got EXCEPT ![c] = Head(ready)]
            /\ cpc' = [cpc EXCEPT ![c] = "got"] \/ cpc' \in WakeOne([cpc EXCEPT ![c] = "got"])
        BY <2>6 DEF GetBatch, flagVars
      <3>2. [cpc EXCEPT ![c] = "got"] \in [Consumers -> ConsumerStates]
        BY <1>0 DEF ConsumerStates
      <3>3. Woken(Consumers, [cpc EXCEPT ![c] = "got"], cpc')
        <4>1. CASE cpc' = [cpc EXCEPT ![c] = "got"]
          BY <3>2, <4>1 DEF Woken
        <4>2. CASE cpc' \in WakeOne([cpc EXCEPT ![c] = "got"])
          BY <3>2, <4>2, WokenStates, WakeOneStep
        <4> QED  BY <3>1, <4>1, <4>2
      <3>4. cpc'[c] = "got" /\ mutex = c
        BY <1>0, <3>1, <3>3 DEF Woken, MutexInv
      <3>5. \A d \in Consumers \ {c} : [cpc EXCEPT ![c] = "got"][d] = cpc[d]
        BY <1>0
      <3>6. /\ \A d \in Consumers \ {c} : cpc'[d] = cpc[d] \/ (cpc[d] = "sleep" /\ cpc'[d] = "woken")
            /\ Waiters' \ {c} = Waiters \ {c}
        BY <2>a, <3>2, <3>3, <3>5
      <3>7. Waiters' = Waiters
        BY <3>1, <3>4, <3>6 DEF Waiters
      <3>8. ready # <<>> /\ Head(ready) \in Batches /\ Head(ready) # NoBatch
        <4>1. ready # <<>>
          BY <1>0, <3>1
        <4> QED  BY <1>0, <4>1, HeadTail, NamesAssumption
      <3>9. ASSUME NEW d \in Consumers PROVE Takes(d)'
        <4>1. CASE d = c
          BY <1>0, <3>1, <3>4, <3>8, <4>1
        <4>2. CASE d # c
          BY <1>0, <2>b, <3>1, <3>4, <3>6, <4>2
        <4> QED  BY <4>1, <4>2
      <3> QED  BY <1>0, <3>1, <3>7, <3>9
    <2>7. ASSUME Infer(c) PROVE Goal
      <3>1. /\ cpc[c] = "got" /\ cpc' = [cpc EXCEPT ![c] = "get"] /\ waiting' = waiting
            /\ ready' = ready /\ stopWork' = stopWork /\ got' = [got EXCEPT ![c] = NoBatch]
        BY <2>7 DEF Infer, queueVars, flagVars
      <3>2. Waiters' = Waiters
        BY <1>0, <3>1 DEF Waiters
      <3> QED  BY <1>0, <3>1, <3>2
    <2> HIDE DEF Goal
    <2> QED  BY <1>2, <2>1, <2>2, <2>3, <2>4, <2>5, <2>6, <2>7 DEF Fetch
  <1> HIDE DEF Goal
  <1>3. Goal
    BY <1>1, <1>2 DEF Step
  <1>4. WaitInv'
    BY <1>3 DEF Goal, WaitInv
  <1>5. Waiters' \subseteq Consumers /\ IsFiniteSet(Consumers) /\ Cardinality(Consumers) \in Nat
    BY SizesAssumption, FS_CardinalityType DEF Waiters
  <1>6. Cardinality(Waiters') <= Cardinality(Consumers) /\ Cardinality(Waiters') \in Nat
    BY <1>5, FS_Subset, FS_CardinalityType
  <1> QED  BY <1>3, <1>4, <1>5, <1>6 DEF Goal

-----------------------------------------------------------------------------
(***************************************************************************)
(* What the invariant says of the batch a step works on.                   *)
(***************************************************************************)
\* The staging batch, when FlushQueries is not at it.
LEMMA StagingFacts ==
  ASSUME TypeOK, MutexInv, FlushInv, PlaceInv, mutex # "issuer", staging # NoBatch
  PROVE  /\ staging \in Batches /\ Staged = staging /\ ~closing[staging]
         /\ ~Taken(staging) /\ ~Has(ready, staging)
         /\ \/ committed[staging] > 0
            \/ \E t \in Threads : tpc[t] = "commit" /\ batchPtr[t] = staging
  <1>1. staging \in Batches /\ ipc \notin InFlush
    BY DEF TypeOK, MutexInv
  <1>2. Staged = staging /\ ~closing[staging]
    BY <1>1 DEF Staged, InFlush, FlushInv
  <1>3. PICK w \in PlaceNames : LocatedAt(staging, w) /\ KeptAt(staging, w)
    BY <1>1 DEF PlaceInv
  <1>4. w = "staging"
    BY <1>2, <1>3 DEF LocatedAt
  <1> QED  BY <1>1, <1>2, <1>3, <1>4 DEF LocatedAt, KeptAt, Taken

\* A batch that was handed over is full.
LEMMA ReadyFacts ==
  ASSUME PlaceInv, NEW b \in Batches, Has(ready, b) \/ Got(b) \/ Streamed(b)
  PROVE  /\ Full(b) /\ ~Has(idle, b) /\ ~Returning(b) /\ Staged # b
         /\ Has(ready, b) => ~Taken(b)
         /\ Got(b) => ~Streamed(b)
  <1>1. PICK w \in PlaceNames : LocatedAt(b, w) /\ KeptAt(b, w)
    BY DEF PlaceInv
  <1>2. w \in {"ready", "got", "stream"}
    BY <1>1 DEF LocatedAt
  <1> QED  BY <1>1, <1>2 DEF LocatedAt, KeptAt, Taken

\* An idle batch is fresh and nowhere else.
LEMMA IdleFacts ==
  ASSUME PlaceInv, NEW b \in Batches, Has(idle, b)
  PROVE  /\ Fresh(b) /\ Staged # b /\ ~Has(ready, b) /\ ~Got(b) /\ ~Returning(b) /\ ~Streamed(b)
  <1>1. PICK w \in PlaceNames : LocatedAt(b, w) /\ KeptAt(b, w)
    BY DEF PlaceInv
  <1>2. w = "idle"
    BY <1>1 DEF LocatedAt
  <1> QED  BY <1>1, <1>2 DEF LocatedAt, KeptAt

\* A batch in a host callback is nowhere else, and is either as it was on its stream or
\* reset.
LEMMA ReturningFacts ==
  ASSUME PlaceInv, NEW b \in Batches, Returning(b)
  PROVE  /\ Fresh(b) \/ Full(b)
         /\ Staged # b /\ ~Has(ready, b) /\ ~Got(b) /\ ~Has(idle, b) /\ ~Streamed(b)
  <1>1. PICK w \in PlaceNames : LocatedAt(b, w) /\ KeptAt(b, w)
    BY DEF PlaceInv
  <1>2. w = "callback"
    BY <1>1 DEF LocatedAt
  <1> QED  BY <1>1, <1>2 DEF LocatedAt, KeptAt

\* A thread's share is a part of what was committed and not completed.
LEMMA ShareFacts ==
  ASSUME TypeOK, ThreadInv, ShareInv, NEW t \in Threads, Active(t)
  PROVE  /\ batchPtr[t] \in Batches /\ pairsToCopy[t] \in Nat /\ pairsOffset[t] \in Nat
         /\ committed[batchPtr[t]] \in Nat /\ completed[batchPtr[t]] \in Nat
         /\ committed[batchPtr[t]] <= MaxBatchSize /\ MaxBatchSize \in Nat
         /\ completed[batchPtr[t]] + pairsToCopy[t] <= committed[batchPtr[t]]
         /\ IsFiniteSet(Share(t)) /\ Cardinality(Share(t)) = pairsToCopy[t]
         /\ Share(t) \subseteq Uncopied(batchPtr[t])
         /\ Share(t) \subseteq 1..committed[batchPtr[t]]
  <1> DEFINE b == batchPtr[t]
             c == committed[batchPtr[t]]
             off == pairsOffset[t]
             n == pairsToCopy[t]
  <1>1. /\ b \in Batches /\ off \in Nat /\ n \in Nat /\ off + n <= c /\ c \in Nat
        /\ c <= MaxBatchSize /\ MaxBatchSize \in Nat
        /\ completed[b] \in Nat
    BY SizesAssumption DEF TypeOK, ThreadInv
  <1>2. Share(t) = off + 1 .. off + n
    BY DEF Share
  <1>3. IsFiniteSet(Share(t)) /\ Cardinality(Share(t)) = n
    <2>1. off + 1 \in Int /\ off + n \in Int
      BY <1>1
    <2>2. /\ IsFiniteSet(off + 1 .. off + n)
          /\ Cardinality(off + 1 .. off + n)
                = IF off + 1 > off + n THEN 0 ELSE (off + n) - (off + 1) + 1
      BY <2>1, FS_Interval
    <2> HIDE DEF off, n
    <2> QED  BY <1>1, <1>2, <2>2
  <1>4. Share(t) \subseteq 1..c
    BY <1>1, <1>2
  <1>5. Share(t) \subseteq Uncopied(b)
    BY <1>4 DEF Uncopied, Works
  <1>6. completed[b] = Cardinality((1..c) \ Uncopied(b))
    BY <1>1 DEF ShareInv
  <1> DEFINE all == 1..c
             share == Share(t)
             rest == all \ Uncopied(b)
  <1>7. IsFiniteSet(all) /\ Cardinality(all) = c
    BY <1>1, CardInterval
  <1>8. share \subseteq all /\ rest \subseteq all \ share /\ completed[b] = Cardinality(rest)
        /\ IsFiniteSet(share) /\ Cardinality(share) = n
    BY <1>3, <1>4, <1>5, <1>6
  <1> HIDE DEF all, share, rest, b, c, n, off
  <1>9. share = all \cap share
    BY <1>8
  <1>10. IsFiniteSet(all \ share) /\ Cardinality(all \ share) = c - n
    BY <1>7, <1>8, <1>9, FS_Difference, ZenonT(40)
  <1>11. Cardinality(rest) <= c - n
    BY <1>8, <1>10, FS_Subset
  <1>12. completed[b] + n <= c
    BY <1>1, <1>8, <1>11
  <1> QED  BY <1>1, <1>3, <1>4, <1>5, <1>12 DEF b, c, n, off

\* No thread has a share to copy of a batch that is complete.
LEMMA CompletedNotShared ==
  ASSUME TypeOK, ThreadInv, ShareInv, NEW t \in Threads, NEW b \in Batches,
         Works(t, b), Full(b) \/ Fresh(b)
  PROVE  tpc[t] \notin {"copy", "complete"} /\ pairsToCopy[t] = 0
  <1>1. /\ pairsToCopy[t] \in Nat /\ committed[b] \in Nat /\ completed[b] \in Nat
        /\ completed[b] + pairsToCopy[t] <= committed[b]
    BY ShareFacts DEF Works
  <1>2. completed[b] = committed[b]
    BY DEF Full, Fresh
  <1>3. pairsToCopy[t] = 0
    BY <1>1, <1>2
  <1> QED  BY <1>1, <1>3 DEF ThreadInv, Works

\* CloseBatch closes the staging batch, which has pairs, or does nothing.
ClosesStaged == staging \in Batches /\ committed[staging] > 0 /\ Closes(staging)

\* A full batch that a thread closes is the staging batch, and is not empty.
LEMMA CommitFullStep ==
  ASSUME TypeOK, ThreadInv, NEW t \in Threads, CommitFull(t)
  PROVE  (ClosesStaged \/ ClosesNot) /\ committed[batchPtr[t]] > 0
  <1> DEFINE b == batchPtr[t]
  <1>1. /\ b \in Batches /\ staging = b /\ Active(t)
        /\ pairsOffset[t] + pairsToCopy[t] = committed[b]
        /\ maxPairs[t] = Smaller(MaxPairsPerThread, MaxBatchSize - pairsOffset[t])
    BY DEF CommitFull, Active, ThreadInv
  <1>2. /\ pairsOffset[t] \in Nat /\ pairsToCopy[t] \in Nat /\ committed[b] \in Nat
        /\ cpc \in [Consumers -> ConsumerStates] /\ tasksQ \in Seq(Samples)
    <2>1. cpc \in [Consumers -> ConsumerStates] /\ tasksQ \in Seq(Samples)
      BY PcNow DEF TypeOK, PcType
    <2>2. pairsOffset[t] \in Nat /\ pairsToCopy[t] \in Nat /\ committed[b] \in Nat
      BY <1>1, SizesAssumption DEF TypeOK
    <2> QED  BY <2>1, <2>2
  <1>3. committed[b] > 0
    <2>1. SUFFICES ASSUME committed[b] = 0 PROVE FALSE
      BY <1>2
    <2>2. pairsOffset[t] = 0 /\ pairsToCopy[t] = 0
      BY <1>1, <1>2, <2>1
    <2>3. tasksQ # <<>> /\ ~NextFits(t)
      BY DEF CommitFull
    <2>4. Head(tasksQ) \in Samples
      BY <1>2, <2>3
    <2>5. /\ Pairs[Head(tasksQ)] \in Nat /\ MaxBatchSize \in Nat /\ MaxPairsPerThread \in Nat
          /\ Pairs[Head(tasksQ)] <= MaxPairsPerThread /\ Pairs[Head(tasksQ)] <= MaxBatchSize
      BY <2>4, FitsAssumption, SizesAssumption, PairsOfType
    <2>6. pairsToCopy[t] + Pairs[Head(tasksQ)] <= maxPairs[t]
      BY <1>1, <2>2, <2>5 DEF Smaller
    <2> QED  BY <2>3, <2>6 DEF NextFits
  <1>4. IF Pairs[Head(tasksQ)] >= Free(b) THEN CloseBatch(b, cpc)
        ELSE cpc' = cpc /\ UNCHANGED <<closing, ready, staging, aborted>>
    BY DEF CommitFull
  <1>5. Closes(b) \/ ClosesNot
    BY <1>1, <1>2, <1>4, CloseIfPcs
  <1> QED  BY <1>1, <1>3, <1>5 DEF ClosesStaged

\* The batch that a thread closes after its last task is the staging batch.
LEMMA StageCommittedStep ==
  ASSUME TypeOK, ThreadInv, NEW t \in Threads, StageCommitted(t)
  PROVE  ClosesStaged \/ ClosesNot
  <1> DEFINE b == batchPtr[t]
  <1>1. /\ b \in Batches /\ committed[b] > 0 /\ (staging = b \/ closing[b])
        /\ cpc \in [Consumers -> ConsumerStates]
    BY PcNow DEF StageCommitted, Active, ThreadInv, PcType
  <1>2. IF LastTask THEN CloseBatch(b, cpc)
        ELSE cpc' = cpc /\ UNCHANGED <<closing, ready, staging, aborted>>
    BY DEF StageCommitted
  <1>3. Closes(b) \/ ClosesNot
    BY <1>1, <1>2, CloseIfPcs
  <1> QED  BY <1>1, <1>3 DEF ClosesStaged, Closes

\* The batch that a waiting consumer closes is the staging batch.
LEMMA GetNoneStep ==
  ASSUME TypeOK, MutexInv, FlushInv, PlaceInv, NEW c \in Consumers, GetNone(c)
  PROVE  ClosesStaged \/ ClosesNot
  <1>1. /\ mutex = Nobody /\ cpc \in [Consumers -> ConsumerStates]
        /\ IF staging # NoBatch THEN CloseBatch(staging, [cpc EXCEPT ![c] = "check"])
           ELSE /\ cpc' = [cpc EXCEPT ![c] = "check"]
                /\ UNCHANGED <<closing, ready, staging, aborted>>
    BY PcNow DEF GetNone, PcType
  <1>2. [cpc EXCEPT ![c] = "check"] \in [Consumers -> ConsumerStates]
    BY <1>1 DEF ConsumerStates
  <1>3. staging # NoBatch => staging \in Batches
    BY DEF TypeOK
  <1>4. Closes(staging) \/ ClosesNot
    BY <1>1, <1>2, <1>3, CloseIfPcs
  <1>5. CASE staging = NoBatch
    BY <1>1, <1>5 DEF ClosesNot
  <1>6. CASE staging # NoBatch
    <2>1. mutex # "issuer" /\ \A t \in Threads : mutex # t
      BY <1>1, NamesAssumption
    <2>2. \A t \in Threads : tpc[t] # "commit"
      BY <2>1 DEF MutexInv
    <2>3. staging \in Batches /\ committed[staging] > 0
      BY <1>6, <2>1, <2>2, StagingFacts
    <2> QED  BY <1>4, <2>3 DEF ClosesStaged
  <1> QED  BY <1>5, <1>6

\* What a staging thread begins on: the staging batch or the last idle one.
Begins(t, b) ==
    /\ staging' = b
    /\ \/ staging = b /\ idle' = idle
       \/ /\ staging = NoBatch /\ idle # <<>> /\ b = idle[Len(idle)]
          /\ idle' = SubSeq(idle, 1, Len(idle) - 1)
    /\ batchPtr' = [batchPtr EXCEPT ![t] = b]
    /\ tasksOffset' = [tasksOffset EXCEPT ![t] = Len(tasks[b])]
    /\ pairsOffset' = [pairsOffset EXCEPT ![t] = committed[b]]
    /\ maxPairs' = [maxPairs EXCEPT ![t] = Smaller(MaxPairsPerThread, MaxBatchSize - committed[b])]
    /\ pairsToCopy' = [pairsToCopy EXCEPT ![t] = 0]
    /\ tpc[t] = "woken" /\ tpc' = [tpc EXCEPT ![t] = "commit"]

\* A thread begins its share on the staging batch or on an idle one.
LEMMA StageBeginStep ==
  ASSUME TypeOK, NEW t \in Threads, StageBegin(t)
  PROVE  /\ \E b \in Batches : Begins(t, b)
         /\ mutex = Nobody /\ tasksQ # <<>>
  <1> DEFINE b == IF staging # NoBatch THEN staging ELSE idle[Len(idle)]
  <1>1. mutex = Nobody /\ tasksQ # <<>> /\ (staging # NoBatch \/ idle # <<>>)
    BY DEF StageBegin, StageBeginAt, HasWork
  <1>2. b \in Batches
    <2>1. idle # <<>> => idle[Len(idle)] \in Batches
      <3>1. idle \in Seq(Batches)
        BY DEF TypeOK
      <3> QED  BY <3>1
    <2> QED  BY <1>1, <2>1 DEF TypeOK
  <1>3. Begins(t, b)
    BY <1>1 DEF StageBegin, StageBeginAt, Begins, Free
  <1> QED  BY <1>1, <1>2, <1>3

-----------------------------------------------------------------------------
(***************************************************************************)
(* Types.                                                                  *)
(***************************************************************************)
\* The last task that a thread took fits into its batch.
LEMMA CommitTaskStep ==
  ASSUME TypeOK, ThreadInv, NEW t \in Threads, CommitTask(t)
  PROVE  LET b == batchPtr[t]
             s == Head(tasksQ)
         IN  /\ b \in Batches /\ s \in Samples /\ staging = b /\ tasksQ # <<>>
             /\ Pairs[s] \in Nat /\ Pairs[s] > 0 /\ Active(t) /\ tpc[t] = "commit"
             /\ pairsToCopy[t] \in Nat /\ pairsOffset[t] \in Nat /\ committed[b] \in Nat
             /\ pairsOffset[t] + pairsToCopy[t] = committed[b]
             /\ pairsToCopy[t] + Pairs[s] <= maxPairs[t]
             /\ committed[b] + Pairs[s] <= MaxBatchSize
             /\ pairsToCopy[t] + Pairs[s] <= MaxBatchSize
             /\ pairsToCopy' = [pairsToCopy EXCEPT ![t] = @ + Pairs[s]]
             /\ committed' = [committed EXCEPT ![b] = @ + Pairs[s]]
             /\ tasks' = [tasks EXCEPT ![b] = Append(@, s)]
             /\ tasksQ' = Tail(tasksQ)
  <1> DEFINE b == batchPtr[t]
             s == Head(tasksQ)
  <1>1. /\ tpc[t] = "commit" /\ tasksQ # <<>> /\ pairsToCopy[t] + Pairs[s] <= maxPairs[t]
        /\ pairsToCopy' = [pairsToCopy EXCEPT ![t] = @ + Pairs[s]]
        /\ committed' = [committed EXCEPT ![b] = @ + Pairs[s]]
        /\ tasks' = [tasks EXCEPT ![b] = Append(@, s)]
        /\ tasksQ' = Tail(tasksQ)
    BY DEF CommitTask, NextFits
  <1>2. s \in Samples
    <2>1. tasksQ \in Seq(Samples)
      BY DEF TypeOK
    <2> QED  BY <1>1, <2>1
  <1>3. Pairs[s] \in Nat /\ Pairs[s] > 0
    BY <1>2, PairsOfType
  <1>4. /\ Active(t) /\ b \in Batches /\ staging = b
        /\ pairsOffset[t] + pairsToCopy[t] = committed[b]
        /\ maxPairs[t] = Smaller(MaxPairsPerThread, MaxBatchSize - pairsOffset[t])
    BY <1>1 DEF Active, ThreadInv
  <1>5. /\ pairsOffset[t] \in Nat /\ pairsToCopy[t] \in Nat /\ committed[b] \in Nat
        /\ MaxBatchSize \in Nat /\ MaxPairsPerThread \in Nat /\ maxPairs[t] \in Nat
    BY <1>4, SizesAssumption DEF TypeOK
  <1>6. maxPairs[t] <= MaxBatchSize - pairsOffset[t]
    BY <1>4, <1>5 DEF Smaller
  <1> HIDE DEF b, s
  <1>7. /\ committed[b] + Pairs[s] <= MaxBatchSize
        /\ pairsToCopy[t] + Pairs[s] <= MaxBatchSize
    BY <1>1, <1>3, <1>4, <1>5, <1>6
  <1> QED  BY <1>1, <1>2, <1>3, <1>4, <1>5, <1>7 DEF b, s

\* The sizes and counts are natural numbers.
LEMMA SizesType ==
  TypeOK => /\ MaxBatchSize \in Nat /\ 0 \in 0..MaxBatchSize
            /\ committed \in [Batches -> Nat] /\ completed \in [Batches -> Nat]
            /\ pairsOffset \in [Threads -> Nat] /\ pairsToCopy \in [Threads -> Nat]
            /\ NoBatch \in Batches \cup {NoBatch}
  BY SizesAssumption, SMTT(20) DEF TypeOK

\* What a thread copies are the slots of its batch's tasks, in its share.
LEMMA CopyStep ==
  ASSUME TypeOK, ThreadInv, ShareInv, SlotInv, NEW t \in Threads, Copy(t)
  PROVE  \E from : LET b == batchPtr[t]
                   IN  /\ buf' = [buf EXCEPT ![b] = [i \in 1..MaxBatchSize |->
                              IF i \in Share(t) THEN from[i - pairsOffset[t]] ELSE buf[b][i]]]
                       /\ \A i \in Share(t) : /\ from[i - pairsOffset[t]] = SlotsOf(tasks[b])[i]
                                              /\ from[i - pairsOffset[t]] \in Samples
  <1> DEFINE b == batchPtr[t]
             k == tasksOffset[t]
             front == SubSeq(tasks[b], 1, k)
             back == SubSeq(tasks[b], k + 1, Len(tasks[b]))
             from == SlotsOf(back)
  <1>1. Active(t)
    BY DEF Copy, Active
  <1>2. /\ b \in Batches /\ tasks[b] \in Seq(Samples) /\ k \in 0..Len(tasks[b])
        /\ pairsOffset[t] = Len(SlotsOf(front))
        /\ committed[b] = Len(SlotsOf(tasks[b])) /\ Share(t) \subseteq 1..committed[b]
        /\ pairsOffset[t] \in Nat
    <2>1. /\ b \in Batches /\ tasks[b] \in Seq(Samples) /\ k \in Nat
          /\ Share(t) \subseteq 1..committed[b] /\ pairsOffset[t] \in Nat
      BY <1>1, ShareFacts DEF TypeOK
    <2>2. k <= Len(tasks[b]) /\ pairsOffset[t] = Len(SlotsOf(front))
      BY <1>1 DEF SlotInv
    <2>3. committed[b] = Len(SlotsOf(tasks[b]))
      BY <2>1 DEF SlotInv
    <2>4. k \in 0..Len(tasks[b])
      BY <2>1, <2>2
    <2> QED  BY <2>1, <2>2, <2>3, <2>4
  <1>3. buf' = [buf EXCEPT ![b] = [i \in 1..MaxBatchSize |->
              IF i \in Share(t) THEN from[i - pairsOffset[t]] ELSE buf[b][i]]]
    BY DEF Copy, Share
  <1>4. front \in Seq(Samples) /\ back \in Seq(Samples)
    BY <1>2, SplitSeq
  <1> HIDE DEF b, k
  <1>5. SlotsOf(tasks[b]) = SlotsOf(front) \o from
    BY <1>2, SlotsSplit
  <1> HIDE DEF front, back
  <1>6. SlotsOf(front) \in Seq(Samples) /\ from \in Seq(Samples)
    BY <1>4, SlotsType
  <1>7. ASSUME NEW i \in Share(t)
        PROVE  /\ from[i - pairsOffset[t]] = SlotsOf(tasks[b])[i]
               /\ from[i - pairsOffset[t]] \in Samples
    <2>1. i \in 1..Len(SlotsOf(tasks[b])) /\ i \in Nat /\ i > pairsOffset[t]
      <3>1. i \in pairsOffset[t] + 1 .. pairsOffset[t] + pairsToCopy[t]
        BY DEF Share
      <3>2. i \in 1..Len(SlotsOf(tasks[b]))
        BY <1>2
      <3> QED  BY <1>2, <3>1, <3>2
    <2>2. /\ Len(SlotsOf(tasks[b])) = Len(SlotsOf(front)) + Len(from)
          /\ \A j \in 1 .. Len(SlotsOf(front)) + Len(from) : SlotsOf(tasks[b])[j] =
                IF j <= Len(SlotsOf(front)) THEN SlotsOf(front)[j]
                ELSE from[j - Len(SlotsOf(front))]
          /\ Len(SlotsOf(front)) \in Nat /\ Len(from) \in Nat
      <3> HIDE DEF from
      <3>1. Len(SlotsOf(front)) \in Nat /\ Len(from) \in Nat
        BY <1>6
      <3> QED  BY <1>5, <1>6, <3>1, ConcatProperties
    <2> HIDE DEF from
    <2>3. i - Len(SlotsOf(front)) \in 1..Len(from)
      BY <1>2, <2>1, <2>2
    <2>4. SlotsOf(tasks[b])[i] = from[i - Len(SlotsOf(front))]
      BY <1>2, <2>1, <2>2
    <2> QED  BY <1>2, <1>6, <2>3, <2>4
  <1> HIDE DEF from
  <1> QED  BY <1>3, <1>7 DEF b

\* Readying a batch keeps the types.
LEMMA ReadiesType ==
  ASSUME TypeOK, NEW b \in Batches
  PROVE  /\ Append(ready, b) \in Seq(Batches)
         /\ (completed[b] = 0) \in BOOLEAN
         /\ Readies(b) => ready' \in Seq(Batches) /\ aborted' \in BOOLEAN
  <1>1. ready \in Seq(Batches)
    BY DEF TypeOK
  <1>2. Append(ready, b) \in Seq(Batches)
    BY <1>1, AppendHas
  <1>3. (completed[b] = 0) \in BOOLEAN
    OBVIOUS
  <1> QED  BY <1>2, <1>3 DEF Readies

\* Closing a batch, or not, keeps the types.
LEMMA CloseTypes ==
  ASSUME TypeOK, ClosesStaged \/ ClosesNot
  PROVE  /\ ready' \in Seq(Batches) /\ staging' \in Batches \cup {NoBatch}
         /\ aborted' \in BOOLEAN /\ closing' \in [Batches -> BOOLEAN]
  <1>1. CASE ClosesNot
    BY <1>1 DEF TypeOK, ClosesNot
  <1>2. CASE ClosesStaged
    <2>1. staging' = NoBatch /\ closing' \in [Batches -> BOOLEAN]
      BY <1>2 DEF TypeOK, ClosesStaged, Closes
    <2>2. Readies(staging) \/ UNCHANGED <<ready, aborted>>
      BY <1>2 DEF ClosesStaged, Closes
    <2>3. CASE Readies(staging)
      BY <1>2, <2>1, <2>3, ReadiesType DEF ClosesStaged
    <2>4. CASE UNCHANGED <<ready, aborted>>
      BY <2>1, <2>4 DEF TypeOK
    <2> QED  BY <2>2, <2>3, <2>4
  <1> QED  BY <1>1, <1>2

\* Every step keeps the types.
LEMMA TypeNext ==
  ASSUME FlushExclusive, TypeOK, MutexInv, WaitInv, FlushInv, PlaceInv, ThreadInv, ShareInv, SlotInv,
         Step
  PROVE  TypeOK'
  <1> DEFINE Goal == TypeOK'
  <1>0. PcType' /\ waiting' \in 0..Cardinality(Consumers)
    BY MutexNext, WaitNext
  <1>p. /\ tpc' \in [Threads -> {"woken", "sleep", "stopped", "commit", "committed",
                                 "copy", "complete"}]
        /\ cpc' \in [Consumers -> {"get", "check", "sleep", "woken", "take", "stopped", "got"}]
    BY <1>0 DEF PcType, ThreadStates, ConsumerStates
  <1>s. /\ MaxBatchSize \in Nat /\ 0 \in 0..MaxBatchSize
        /\ committed \in [Batches -> Nat] /\ completed \in [Batches -> Nat]
        /\ pairsOffset \in [Threads -> Nat] /\ pairsToCopy \in [Threads -> Nat]
    BY SizesType
  <1> USE <1>0, <1>p
  <1>1. ASSUME Issuer PROVE Goal
    <2>1. ASSUME StartQuery PROVE Goal
      BY <2>1 DEF StartQuery, TypeOK, queueVars, countVars, batchVars, localVars, threadVars,
                  consumerVars, streamVars
    <2>2. ASSUME NEW s \in Samples, IssueTask(s) PROVE Goal
      <3>1. Pairs[s] \in Nat
        BY PairsOfType
      <3>2. tasksQ' \in Seq(Samples) /\ issuedPairs' \in Nat /\ issued' \subseteq Samples
        BY <2>2, <3>1 DEF IssueTask, TypeOK
      <3> QED  BY <2>2, <3>2 DEF IssueTask, TypeOK, flagVars, batchVars, localVars, threadVars,
                  consumerVars, streamVars
    <2>3. ASSUME EndQuery PROVE Goal
      BY <2>3 DEF EndQuery, TypeOK, queueVars, flagVars, countVars, batchVars, localVars,
                  consumerVars, streamVars
    <2>4. ASSUME FlushQueries PROVE Goal
      <3>1. /\ mutex' \in Threads \cup Consumers \cup {"issuer", Nobody}
            /\ ipc' \in {"mark", "flag"} /\ flushBatch' \in Batches \cup {NoBatch}
        BY <2>4 DEF FlushQueries, TypeOK
      <3> QED  BY <2>4, <3>1 DEF FlushQueries, TypeOK, queueVars, flagVars, countVars, batchVars,
                  localVars, threadVars, consumerVars, streamVars
    <2>5. ASSUME FlushMark PROVE Goal
      <3>1. closing' \in [Batches -> BOOLEAN] /\ ipc' \in {"flag", "ready"}
        BY <2>5 DEF FlushMark, TypeOK
      <3> QED  BY <2>5, <3>1 DEF FlushMark, TypeOK, queueVars, flagVars, countVars,
                  localVars, threadVars, consumerVars, streamVars
    <2>6. ASSUME FlushReady PROVE Goal
      <3>1. flushBatch \in Batches
        BY <2>6 DEF FlushReady, FlushInv, TypeOK
      <3>2. ready' \in Seq(Batches) /\ aborted' \in BOOLEAN
        <4>1. Readies(flushBatch) \/ UNCHANGED <<ready, aborted>>
          BY <2>6 DEF FlushReady, HandleReadyBatch, Readies
        <4>2. CASE Readies(flushBatch)
          BY <3>1, <4>2, ReadiesType
        <4>3. CASE UNCHANGED <<ready, aborted>>
          BY <4>3 DEF TypeOK
        <4> QED  BY <4>1, <4>2, <4>3
      <3> QED  BY <2>6, <3>2 DEF FlushReady, TypeOK, flagVars, countVars, batchVars,
                  localVars, threadVars, streamVars
    <2>7. ASSUME FlushUnstage PROVE Goal
      BY <2>7 DEF FlushUnstage, TypeOK, flagVars, countVars, batchVars, localVars, threadVars,
                  consumerVars, streamVars
    <2>8. ASSUME FlushFlag PROVE Goal
      BY <2>8 DEF FlushFlag, TypeOK, queueVars, countVars, batchVars, localVars, threadVars,
                  consumerVars, streamVars
    <2>9. ASSUME StopWork PROVE Goal
      BY <2>9 DEF StopWork, TypeOK, queueVars, countVars, batchVars, localVars, streamVars
    <2> HIDE DEF Goal
    <2> QED  BY <1>1, <2>1, <2>2, <2>3, <2>4, <2>5, <2>6, <2>7, <2>8, <2>9 DEF Issuer
  <1>2. ASSUME NEW t \in Threads, Stage(t) PROVE Goal
    <2>1. ASSUME StageWait(t) \/ StageStop(t) PROVE Goal
      BY <2>1 DEF StageWait, StageStop, TypeOK, queueVars, flagVars, countVars, batchVars,
                  localVars, consumerVars, streamVars, issuerVars
    <2>2. ASSUME StageBegin(t) PROVE Goal
      <3>1. PICK b \in Batches : Begins(t, b)
        BY <2>2, StageBeginStep
      <3>2. staging' \in Batches /\ idle' \in Seq(Batches)
        <4>1. CASE staging = b /\ idle' = idle
          BY <3>1, <4>1 DEF Begins, TypeOK
        <4>2. CASE idle # <<>> /\ idle' = SubSeq(idle, 1, Len(idle) - 1)
          <5>1. idle \in Seq(Batches)
            BY DEF TypeOK
          <5>2. Len(idle) - 1 \in 0..Len(idle)
            BY <4>2, <5>1
          <5>3. SubSeq(idle, 1, Len(idle) - 1) \in Seq(Batches)
            BY <5>1, <5>2, SplitSeq
          <5> QED  BY <3>1, <4>2, <5>3 DEF Begins
        <4> QED  BY <3>1, <4>1, <4>2 DEF Begins
      <3>3. /\ Len(tasks[b]) \in Nat /\ committed[b] \in 0..MaxBatchSize
            /\ Smaller(MaxPairsPerThread, MaxBatchSize - committed[b]) \in 0..MaxBatchSize
        <4>1. tasks[b] \in Seq(Samples) /\ committed[b] \in 0..MaxBatchSize
          BY DEF TypeOK
        <4>2. Smaller(MaxPairsPerThread, MaxBatchSize - committed[b]) \in 0..MaxBatchSize
          BY <4>1, SizesAssumption DEF Smaller
        <4> QED  BY <4>1, <4>2
      <3>4. /\ batchPtr' \in [Threads -> Batches \cup {NoBatch}]
            /\ tasksOffset' \in [Threads -> Nat] /\ pairsOffset' \in [Threads -> 0..MaxBatchSize]
            /\ maxPairs' \in [Threads -> 0..MaxBatchSize]
            /\ pairsToCopy' \in [Threads -> 0..MaxBatchSize]
        BY <1>s, <3>1, <3>3 DEF Begins, TypeOK
      <3>5. mutex' \in Threads
        BY <2>2 DEF StageBegin, StageBeginAt
      <3> QED  BY <2>2, <3>2, <3>4, <3>5 DEF StageBegin, StageBeginAt, TypeOK, flagVars,
                  countVars, batchVars, consumerVars, streamVars, issuerVars
    <2>3. ASSUME CommitTask(t) PROVE Goal
      <3> DEFINE b == batchPtr[t]
                 s == Head(tasksQ)
      <3>1. /\ b \in Batches /\ s \in Samples /\ tasksQ # <<>> /\ Pairs[s] \in Nat
            /\ pairsToCopy[t] \in Nat /\ committed[b] \in Nat
            /\ committed[b] + Pairs[s] <= MaxBatchSize /\ pairsToCopy[t] + Pairs[s] <= MaxBatchSize
            /\ pairsToCopy' = [pairsToCopy EXCEPT ![t] = pairsToCopy[t] + Pairs[s]]
            /\ committed' = [committed EXCEPT ![b] = committed[b] + Pairs[s]]
            /\ tasks' = [tasks EXCEPT ![b] = Append(tasks[b], s)]
            /\ tasksQ' = Tail(tasksQ)
        BY <2>3, CommitTaskStep
      <3> HIDE DEF b, s
      <3>2. /\ committed[b] + Pairs[s] \in 0..MaxBatchSize
            /\ pairsToCopy[t] + Pairs[s] \in 0..MaxBatchSize
        BY <1>s, <3>1
      <3>3. tasksQ' \in Seq(Samples) /\ tasks' \in [Batches -> Seq(Samples)]
        BY <3>1 DEF TypeOK
      <3>4. committed' \in [Batches -> 0..MaxBatchSize] /\ pairsToCopy' \in [Threads -> 0..MaxBatchSize]
        BY <3>1, <3>2 DEF TypeOK
      <3> QED  BY <2>3, <3>3, <3>4, ZenonT(40) DEF CommitTask, TypeOK, flagVars, countVars, consumerVars,
                  streamVars, issuerVars
    <2>4. ASSUME CommitFull(t) PROVE Goal
      <3>1. /\ ready' \in Seq(Batches) /\ staging' \in Batches \cup {NoBatch}
            /\ aborted' \in BOOLEAN /\ closing' \in [Batches -> BOOLEAN]
        BY <2>4, CommitFullStep, CloseTypes
      <3> QED  BY <2>4, <3>1 DEF CommitFull, TypeOK, flagVars, countVars, localVars, streamVars,
                  issuerVars
    <2>5. ASSUME CommitEmpty(t) \/ StageNothing(t) PROVE Goal
      BY <2>5 DEF CommitEmpty, StageNothing, TypeOK, queueVars, flagVars, countVars, batchVars,
                  localVars, consumerVars, streamVars, issuerVars
    <2>6. ASSUME StageCommitted(t) PROVE Goal
      <3>1. /\ ready' \in Seq(Batches) /\ staging' \in Batches \cup {NoBatch}
            /\ aborted' \in BOOLEAN /\ closing' \in [Batches -> BOOLEAN]
        BY <2>6, StageCommittedStep, CloseTypes
      <3> QED  BY <2>6, <3>1 DEF StageCommitted, TypeOK, flagVars, countVars, localVars,
                  streamVars, issuerVars
    <2>7. ASSUME Copy(t) PROVE Goal
      <3> DEFINE b == batchPtr[t]
      <3>1. b \in Batches /\ buf[b] \in [1..MaxBatchSize -> Samples \cup {Junk}]
        <4>1. Active(t)
          BY <2>7 DEF Copy, Active
        <4> QED  BY <4>1, ShareFacts DEF TypeOK
      <3>2. PICK from : /\ buf' = [buf EXCEPT ![b] = [i \in 1..MaxBatchSize |->
                                     IF i \in Share(t) THEN from[i - pairsOffset[t]] ELSE buf[b][i]]]
                        /\ \A i \in Share(t) : from[i - pairsOffset[t]] \in Samples
        BY <2>7, CopyStep
      <3>3. buf' \in [Batches -> [1..MaxBatchSize -> Samples \cup {Junk}]]
        BY <3>1, <3>2 DEF TypeOK
      <3> QED  BY <2>7, <3>3, ZenonT(40) DEF Copy, TypeOK, queueVars, flagVars, countVars, localVars,
                  consumerVars, streamVars, issuerVars
    <2>8. ASSUME CompleteCopies(t) PROVE Goal
      <3> DEFINE b == batchPtr[t]
                 done == completed[b] + pairsToCopy[t]
      <3>1. /\ b \in Batches /\ done \in 0..MaxBatchSize
        <4>1. Active(t)
          BY <2>8 DEF CompleteCopies, Active
        <4> QED  BY <4>1, ShareFacts
      <3>2. completed' \in [Batches -> 0..MaxBatchSize]
        BY <2>8, <3>1 DEF CompleteCopies, TypeOK
      <3>3. ready' \in Seq(Batches) /\ aborted' \in BOOLEAN
        <4>1. \/ ready' = Append(ready, b) /\ aborted' = (done = 0)
              \/ ready' = ready /\ aborted' = aborted
          BY <2>8 DEF CompleteCopies
        <4>2. Append(ready, b) \in Seq(Batches) /\ ready \in Seq(Batches) /\ aborted \in BOOLEAN
          BY <3>1, ReadiesType DEF TypeOK
        <4>3. (done = 0) \in BOOLEAN
          OBVIOUS
        <4> HIDE DEF b, done
        <4> QED  BY <4>1, <4>2, <4>3
      <3> QED  BY <2>8, <3>2, <3>3 DEF CompleteCopies, TypeOK, flagVars, countVars, localVars,
                  streamVars, issuerVars
    <2> HIDE DEF Goal
    <2> QED  BY <1>2, <2>1, <2>2, <2>3, <2>4, <2>5, <2>6, <2>7, <2>8 DEF Stage
  <1>3. ASSUME NEW c \in Consumers, Fetch(c) \/ CopyStream(c) \/ Deliver(c) PROVE Goal
    <2>e. /\ stream[c] \in Seq([batch : Batches \cup {NoBatch}, tasks : Seq(Samples),
                                data : Seq(Samples \cup {Junk})])
      BY DEF TypeOK
    <2>1. ASSUME GetReady(c) \/ GetWoken(c) \/ GetSleep(c) \/ GetStopped(c) PROVE Goal
      <3>1. mutex' \in Threads \cup Consumers \cup {"issuer", Nobody}
        BY <2>1 DEF GetReady, GetWoken, GetSleep, GetStopped
      <3> QED  BY <2>1, <3>1, ZenonT(40) DEF GetReady, GetWoken, GetSleep, GetStopped, TypeOK, queueVars,
                  flagVars, countVars, batchVars, localVars, threadVars, streamVars, issuerVars
    <2>2. ASSUME GetNone(c) PROVE Goal
      <3>1. /\ ready' \in Seq(Batches) /\ staging' \in Batches \cup {NoBatch}
            /\ aborted' \in BOOLEAN /\ closing' \in [Batches -> BOOLEAN]
        BY <2>2, GetNoneStep, CloseTypes
      <3> QED  BY <2>2, <3>1 DEF GetNone, TypeOK, countVars, localVars, threadVars, streamVars,
                  issuerVars
    <2>3. ASSUME GetNotified(c) PROVE Goal
      BY <2>3, ZenonT(40) DEF GetNotified, TypeOK, queueVars, countVars, batchVars, localVars, threadVars,
                  streamVars, issuerVars
    <2>4. ASSUME GetBatch(c) PROVE Goal
      <3>1. ready # <<>> /\ ready \in Seq(Batches)
        BY <2>4 DEF GetBatch, WaitInv, TypeOK
      <3>2. Head(ready) \in Batches /\ Tail(ready) \in Seq(Batches)
        BY <3>1
      <3>3. /\ got' \in [Consumers -> Batches \cup {NoBatch}] /\ ready' \in Seq(Batches)
            /\ readiedPairs' \in Nat /\ aborted' \in BOOLEAN
        <4>1. /\ got' = [got EXCEPT ![c] = Head(ready)] /\ ready' = Tail(ready)
              /\ readiedPairs' = readiedPairs + completed[Head(ready)]
              /\ aborted' = (readiedPairs' > issuedPairs)
          BY <2>4 DEF GetBatch
        <4>2. completed[Head(ready)] \in Nat
          BY <1>s, <3>2
        <4>3. (readiedPairs' > issuedPairs) \in BOOLEAN
          OBVIOUS
        <4>4. got' \in [Consumers -> Batches \cup {NoBatch}]
          BY <3>2, <4>1 DEF TypeOK
        <4>5. readiedPairs \in Nat
          BY DEF TypeOK
        <4> QED  BY <3>2, <4>1, <4>2, <4>3, <4>4, <4>5
      <3> QED  BY <2>4, <3>3 DEF GetBatch, TypeOK, flagVars, batchVars, localVars, threadVars,
                  issuerVars
    <2>5. ASSUME Infer(c) PROVE Goal
      <3> DEFINE e == [batch |-> got[c], tasks |-> tasks[got[c]], data |-> <<>>]
      <3>1. got[c] \in Batches
        BY <2>5 DEF Infer, WaitInv, TypeOK
      <3>2. e \in [batch : Batches \cup {NoBatch}, tasks : Seq(Samples),
                   data : Seq(Samples \cup {Junk})]
        BY <3>1 DEF TypeOK
      <3>3. stream' = [stream EXCEPT ![c] = Append(stream[c], e)] /\ got' = [got EXCEPT ![c] = NoBatch]
        BY <2>5 DEF Infer
      <3> HIDE DEF e
      <3>4. Append(stream[c], e) \in Seq([batch : Batches \cup {NoBatch}, tasks : Seq(Samples),
                                          data : Seq(Samples \cup {Junk})])
        BY <2>e, <3>2
      <3>5. /\ stream' \in [Consumers -> Seq([batch : Batches \cup {NoBatch}, tasks : Seq(Samples),
                                              data : Seq(Samples \cup {Junk})])]
            /\ got' \in [Consumers -> Batches \cup {NoBatch}]
        BY <3>3, <3>4 DEF TypeOK
      <3> QED  BY <2>5, <3>5, ZenonT(40) DEF Infer, TypeOK, queueVars, flagVars, countVars, batchVars,
                  localVars, threadVars, issuerVars
    <2>6. ASSUME H2DDone(c) PROVE Goal
      <3> DEFINE Entries == [batch : Batches \cup {NoBatch}, tasks : Seq(Samples),
                             data : Seq(Samples \cup {Junk})]
      <3>1. PICK i \in DOMAIN stream[c] :
                LET b == stream[c][i].batch
                IN /\ b # NoBatch
                   /\ resetBatch' = [resetBatch EXCEPT ![c] = b]
                   /\ stream' = [stream EXCEPT ![c][i] =
                        [@ EXCEPT !.batch = NoBatch, !.data = SubSeq(buf[b], 1, committed[b])]]
        BY <2>6 DEF H2DDone
      <3> DEFINE b == stream[c][i].batch
                 e == [stream[c][i] EXCEPT !.batch = NoBatch, !.data = SubSeq(buf[b], 1, committed[b])]
      <3>2. stream[c] \in Seq(Entries) /\ stream[c][i] \in Entries
        <4>1. stream[c] \in Seq(Entries)
          BY <2>e
        <4> HIDE DEF Entries
        <4> QED  BY <4>1, ElementType
      <3>3. b \in Batches
        BY <3>1, <3>2
      <3>4. SubSeq(buf[b], 1, committed[b]) \in Seq(Samples \cup {Junk})
        <4>1. committed[b] \in Nat /\ 1 \in Int /\ committed[b] \in Int
          BY <1>s, <3>3
        <4>2. \A j \in 1..committed[b] : buf[b][j] \in Samples \cup {Junk}
          <5>1. /\ buf[b] \in [1..MaxBatchSize -> Samples \cup {Junk}]
                /\ committed[b] \in 0..MaxBatchSize
            BY <3>3 DEF TypeOK
          <5> HIDE DEF b
          <5>2. \A j \in 1..committed[b] : j \in 1..MaxBatchSize
            BY <1>s, <5>1
          <5> QED  BY <5>1, <5>2
        <4> HIDE DEF b
        <4> QED  BY <4>1, <4>2, SubSeqProperties
      <3>5. e \in Entries
        BY <3>2, <3>4
      <3>6. stream' = [stream EXCEPT ![c] = [stream[c] EXCEPT ![i] = e]]
        BY <3>1
      <3> HIDE DEF e, Entries, b
      <3>7. [stream[c] EXCEPT ![i] = e] \in Seq(Entries)
        BY <3>1, <3>2, <3>5, ExceptSeq
      <3>8. stream' \in [Consumers -> Seq(Entries)]
        BY <3>6, <3>7 DEF TypeOK, Entries
      <3>9. resetBatch' \in [Consumers -> Batches \cup {NoBatch}]
        BY <3>1, <3>3 DEF TypeOK, b
      <3> QED  BY <2>6, <3>8, <3>9, ZenonT(40) DEF H2DDone, TypeOK, queueVars, flagVars, countVars, batchVars,
                  localVars, threadVars, issuerVars, Entries
    <2>7. ASSUME ResetBatch(c) PROVE Goal
      <3>1. resetBatch[c] \in Batches
        BY <2>7 DEF ResetBatch, TypeOK
      <3>2. /\ tasks' = [tasks EXCEPT ![resetBatch[c]] = <<>>]
            /\ closing' = [closing EXCEPT ![resetBatch[c]] = FALSE]
            /\ committed' = [committed EXCEPT ![resetBatch[c]] = 0]
            /\ completed' = [completed EXCEPT ![resetBatch[c]] = 0]
        BY <2>7 DEF ResetBatch
      <3>3. tasks' \in [Batches -> Seq(Samples)] /\ closing' \in [Batches -> BOOLEAN]
        BY <3>1, <3>2, SMTT(20) DEF TypeOK
      <3>4. committed' \in [Batches -> 0..MaxBatchSize] /\ completed' \in [Batches -> 0..MaxBatchSize]
        BY <1>s, <3>1, <3>2 DEF TypeOK
      <3> QED  BY <2>7, <3>3, <3>4, ZenonT(40) DEF ResetBatch, TypeOK, queueVars, flagVars, countVars, localVars,
                  threadVars, consumerVars, streamVars, issuerVars
    <2>8. ASSUME NotifyH2D(c) PROVE Goal
      <3>1. /\ idle' \in Seq(Batches) /\ resetBatch' \in [Consumers -> Batches \cup {NoBatch}]
        BY <2>8 DEF NotifyH2D, TypeOK
      <3> QED  BY <2>8, <3>1 DEF NotifyH2D, TypeOK, flagVars, countVars, batchVars, localVars,
                  issuerVars
    <2>9. ASSUME Deliver(c) PROVE Goal
      <3> DEFINE ts == Head(stream[c]).tasks
      <3>1. stream[c] # <<>> /\ stream' = [stream EXCEPT ![c] = Tail(stream[c])]
            /\ delivered' = [s \in Samples |->
                  delivered[s] + Cardinality({i \in DOMAIN ts : ts[i] = s})]
        BY <2>9 DEF Deliver
      <3>2. /\ ts \in Seq(Samples)
            /\ Tail(stream[c]) \in Seq([batch : Batches \cup {NoBatch}, tasks : Seq(Samples),
                                        data : Seq(Samples \cup {Junk})])
        <4> DEFINE Entries == [batch : Batches \cup {NoBatch}, tasks : Seq(Samples),
                               data : Seq(Samples \cup {Junk})]
        <4>1. stream[c] \in Seq(Entries)
          BY <2>e
        <4>2. \A e \in Entries : e.tasks \in Seq(Samples)
          OBVIOUS
        <4> HIDE DEF Entries
        <4>3. Head(stream[c]) \in Entries /\ Tail(stream[c]) \in Seq(Entries)
          BY <3>1, <4>1, HeadTail
        <4>4. ts \in Seq(Samples)
          BY <4>2, <4>3
        <4> QED  BY <4>3, <4>4 DEF Entries
      <3> HIDE DEF ts
      <3>3. ASSUME NEW s \in Samples PROVE Cardinality({i \in DOMAIN ts : ts[i] = s}) \in Nat
        <4>1. DOMAIN ts = 1..Len(ts) /\ Len(ts) \in Nat
          BY <3>2
        <4>2. IsFiniteSet(1..Len(ts))
          BY <4>1, CardInterval
        <4>3. {i \in DOMAIN ts : ts[i] = s} \subseteq 1..Len(ts)
          BY <4>1
        <4> QED  BY <4>2, <4>3, FS_Subset, FS_CardinalityType
      <3>4. delivered' \in [Samples -> Nat]
        <4>1. \A s \in Samples : delivered[s] \in Nat
          BY DEF TypeOK
        <4> QED  BY <3>1, <3>3, <4>1
      <3>5. stream' \in [Consumers -> Seq([batch : Batches \cup {NoBatch}, tasks : Seq(Samples),
                                           data : Seq(Samples \cup {Junk})])]
        BY <3>1, <3>2 DEF TypeOK
      <3> QED  BY <2>9, <3>4, <3>5, ZenonT(40) DEF Deliver, TypeOK, queueVars, flagVars, countVars, batchVars,
                  localVars, threadVars, issuerVars
    <2> HIDE DEF Goal
    <2> QED  BY <1>3, <2>1, <2>2, <2>3, <2>4, <2>5, <2>6, <2>7, <2>8, <2>9 DEF Fetch, CopyStream
  <1> HIDE DEF Goal
  <1>4. Goal
    BY <1>1, <1>2, <1>3 DEF Step
  <1> QED  BY <1>4 DEF Goal

-----------------------------------------------------------------------------
(***************************************************************************)
(* Where the batches go: each lemma says who has a pointer to a batch      *)
(* after the step, and that it has it once.                                *)
(***************************************************************************)
LEMMA BeginMoves ==
  ASSUME TypeOK, MutexInv, OnceInv, NEW t \in Threads, NEW b \in Batches, StageBegin(t), Begins(t, b)
  PROVE  /\ Staged' = b /\ (Staged = b \/ (Staged = NoBatch /\ Has(idle, b)))
         /\ Staged = b => idle' = idle
         /\ \A x \in Batches : /\ Has(idle, x)' <=> Has(idle, x) /\ (x # b \/ Staged = b)
                               /\ Has(ready, x)' <=> Has(ready, x)
                               /\ (Got(x)' <=> Got(x)) /\ (Returning(x)' <=> Returning(x))
                               /\ Streamed(x)' <=> Streamed(x)
         /\ OnceInv'
  <1>1. /\ mutex = Nobody /\ ipc' = ipc
        /\ UNCHANGED <<ready, got, resetBatch, stream>>
    BY DEF StageBegin, StageBeginAt, consumerVars, streamVars, issuerVars
  <1>2. Staged = staging /\ Staged' = b /\ b # NoBatch
    BY <1>1, NamesAssumption DEF MutexInv, InFlush, Staged, Begins
  <1>3. \A x \in Batches : /\ Has(ready, x)' <=> Has(ready, x)
                           /\ (Got(x)' <=> Got(x)) /\ (Returning(x)' <=> Returning(x))
                           /\ Streamed(x)' <=> Streamed(x)
    BY <1>1 DEF Has, Got, Returning, Streamed
  <1>4. /\ Staged = b \/ (Staged = NoBatch /\ Has(idle, b))
        /\ \A x \in Batches : Has(idle, x)' <=> Has(idle, x) /\ (x # b \/ Staged = b)
        /\ Distinct(idle)' /\ (Staged = b => idle' = idle)
    <2>1. CASE staging = b /\ idle' = idle
      BY <1>2, <2>1 DEF Has, Distinct, OnceInv
    <2>2. CASE staging = NoBatch /\ idle # <<>> /\ b = idle[Len(idle)]
               /\ idle' = SubSeq(idle, 1, Len(idle) - 1)
      <3>1. idle \in Seq(Batches) /\ Distinct(idle)
        BY DEF TypeOK, OnceInv
      <3>2. /\ Has(idle, b)
            /\ \A x : Has(SubSeq(idle, 1, Len(idle) - 1), x) <=> Has(idle, x) /\ x # b
            /\ Distinct(SubSeq(idle, 1, Len(idle) - 1))
        BY <2>2, <3>1, FrontHas
      <3>3. /\ \A x \in Batches : Has(idle, x)' <=> Has(SubSeq(idle, 1, Len(idle) - 1), x)
            /\ Distinct(idle)' <=> Distinct(SubSeq(idle, 1, Len(idle) - 1))
        BY <2>2 DEF Has, Distinct
      <3> QED  BY <1>2, <2>2, <3>2, <3>3
    <2> QED  BY <2>1, <2>2 DEF Begins
  <1>5. OnceInv'
    BY <1>1, <1>4 DEF OnceInv, Distinct, Single, StreamedOnce
  <1> QED  BY <1>2, <1>3, <1>4, <1>5

\* A batch becomes ready.
LEMMA ReadyMoves ==
  ASSUME TypeOK, Distinct(ready), NEW b \in Batches, ~Has(ready, b), ready' = Append(ready, b)
  PROVE  /\ \A x \in Batches : Has(ready, x)' <=> Has(ready, x) \/ x = b
         /\ Distinct(ready)'
  <1>1. ready \in Seq(Batches)
    BY DEF TypeOK
  <1>2. /\ \A x : Has(Append(ready, b), x) <=> Has(ready, x) \/ x = b
        /\ Distinct(Append(ready, b))
    BY <1>1, AppendHas
  <1>3. /\ \A x \in Batches : Has(ready, x)' <=> Has(Append(ready, b), x)
        /\ Distinct(ready)' <=> Distinct(Append(ready, b))
    BY DEF Has, Distinct
  <1> QED  BY <1>2, <1>3

\* A consumer gets the first of the ready batches.
LEMMA GetMoves ==
  ASSUME TypeOK, WaitInv, OnceInv, PlaceInv, NEW c \in Consumers, GetBatch(c)
  PROVE  LET b == Head(ready)
         IN  /\ b \in Batches /\ Has(ready, b) /\ Staged' = Staged
             /\ \A x \in Batches : /\ Has(idle, x)' <=> Has(idle, x)
                                   /\ Has(ready, x)' <=> Has(ready, x) /\ x # b
                                   /\ Got(x)' <=> Got(x) \/ x = b
                                   /\ Returning(x)' <=> Returning(x)
                                   /\ Streamed(x)' <=> Streamed(x)
             /\ OnceInv'
  <1> DEFINE b == Head(ready)
  <1>1. /\ cpc[c] = "take" /\ ~stopWork /\ got' = [got EXCEPT ![c] = b] /\ ready' = Tail(ready)
        /\ UNCHANGED <<idle, staging, ipc, resetBatch, stream>>
    BY DEF GetBatch, issuerVars
  <1>2. ready # <<>> /\ got[c] = NoBatch
    BY <1>1 DEF WaitInv
  <1>3. ready \in Seq(Batches) /\ got \in [Consumers -> Batches \cup {NoBatch}] /\ Distinct(ready)
    BY DEF TypeOK, OnceInv
  <1>4. /\ b \in Batches /\ Has(ready, b)
        /\ \A x : Has(Tail(ready), x) <=> Has(ready, x) /\ x # b
        /\ Distinct(Tail(ready))
    BY <1>2, <1>3, TailHas
  <1>5. ~Got(b)
    BY <1>4, ReadyFacts DEF Taken
  <1> HIDE DEF b
  <1>6. /\ \A x \in Batches : Has(ready, x)' <=> Has(ready, x) /\ x # b
        /\ Distinct(ready)'
    <2>1. /\ \A x \in Batches : Has(ready, x)' <=> Has(Tail(ready), x)
          /\ Distinct(ready)' <=> Distinct(Tail(ready))
      BY <1>1 DEF Has, Distinct
    <2> QED  BY <1>4, <2>1
  <1>7. \A x \in Batches : Got(x)' <=> Got(x) \/ x = b
    BY <1>1, <1>2, <1>3, NamesAssumption DEF Got
  <1>8. Single(got)'
    <2>1. \A d \in Consumers : got[d] # b
      BY <1>5 DEF Got
    <2> QED  BY <1>1, <1>3, <2>1 DEF OnceInv, Single
  <1>9. /\ \A x \in Batches : /\ Has(idle, x)' <=> Has(idle, x)
                              /\ Returning(x)' <=> Returning(x)
                              /\ Streamed(x)' <=> Streamed(x)
        /\ Staged' = Staged
    BY <1>1 DEF Has, Returning, Streamed, Staged
  <1>10. OnceInv'
    BY <1>1, <1>6, <1>8 DEF OnceInv, Distinct, Single, StreamedOnce
  <1> QED  BY <1>4, <1>6, <1>7, <1>9, <1>10 DEF b

EntryType == [batch : Batches \cup {NoBatch}, tasks : Seq(Samples), data : Seq(Samples \cup {Junk})]

\* The entries of the streams have their type.
LEMMA StreamType ==
  ASSUME TypeOK
  PROVE  /\ stream \in [Consumers -> Seq(EntryType)]
         /\ \A c \in Consumers : \A i \in DOMAIN stream[c] :
                stream[c][i] \in EntryType /\ stream[c][i].batch \in Batches \cup {NoBatch}
  <1>1. stream \in [Consumers -> Seq(EntryType)]
    BY DEF TypeOK, EntryType
  <1>2. ASSUME NEW c \in Consumers, NEW i \in DOMAIN stream[c]
        PROVE  stream[c][i] \in EntryType
    BY <1>1, ElementType
  <1>3. \A e \in EntryType : e.batch \in Batches \cup {NoBatch}
    BY DEF EntryType
  <1> QED  BY <1>1, <1>2, <1>3

\* The batch a consumer has got is queued on its stream.
LEMMA InferMoves ==
  ASSUME TypeOK, WaitInv, OnceInv, PlaceInv, NEW c \in Consumers, Infer(c)
  PROVE  LET b == got[c]
         IN  /\ b \in Batches /\ Got(b) /\ Staged' = Staged
             /\ \A x \in Batches : /\ Has(idle, x)' <=> Has(idle, x)
                                   /\ Has(ready, x)' <=> Has(ready, x)
                                   /\ Got(x)' <=> Got(x) /\ x # b
                                   /\ Returning(x)' <=> Returning(x)
                                   /\ Streamed(x)' <=> Streamed(x) \/ x = b
             /\ OnceInv'
  <1> DEFINE b == got[c]
             e == [batch |-> b, tasks |-> tasks[b], data |-> <<>>]
             q == stream[c]
  <1>1. /\ cpc[c] = "got" /\ got' = [got EXCEPT ![c] = NoBatch]
        /\ stream' = [stream EXCEPT ![c] = Append(q, e)]
        /\ UNCHANGED <<idle, ready, staging, ipc, resetBatch>>
    BY DEF Infer, queueVars, issuerVars
  <1>2. b \in Batches /\ Got(b) /\ got \in [Consumers -> Batches \cup {NoBatch}]
    BY <1>1 DEF WaitInv, Got, TypeOK
  <1>3. stream \in [Consumers -> Seq(EntryType)] /\ e \in EntryType /\ q \in Seq(EntryType)
    <2>1. tasks[b] \in Seq(Samples)
      BY <1>2 DEF TypeOK
    <2>2. e \in EntryType
      BY <1>2, <2>1 DEF EntryType
    <2> QED  BY <2>2, StreamType
  <1>4. e.batch = b
    OBVIOUS
  <1>5. ~Streamed(b)
    BY <1>2, ReadyFacts
  <1> HIDE DEF b, e
  <1>6. /\ DOMAIN Append(q, e) = DOMAIN q \cup {Len(q) + 1} /\ Len(q) + 1 \notin DOMAIN q
        /\ \A i \in DOMAIN q : Append(q, e)[i] = q[i]
        /\ Append(q, e)[Len(q) + 1] = e
    <2> HIDE DEF q
    <2> QED  BY <1>3
  <1>7. /\ stream'[c] = Append(q, e) /\ \A d \in Consumers : d # c => stream'[d] = stream[d]
    BY <1>1, <1>3
  <1>8. \A d \in Consumers : \A i \in DOMAIN stream'[d] :
            \/ i \in DOMAIN stream[d] /\ stream'[d][i] = stream[d][i]
            \/ d = c /\ i = Len(q) + 1 /\ stream'[d][i].batch = b
    BY <1>4, <1>6, <1>7
  <1>9. \A d \in Consumers : \A i \in DOMAIN stream[d] :
            i \in DOMAIN stream'[d] /\ stream'[d][i] = stream[d][i]
    BY <1>6, <1>7
  <1>10. Len(q) + 1 \in DOMAIN stream'[c] /\ stream'[c][Len(q) + 1].batch = b
    BY <1>4, <1>6, <1>7
  <1> HIDE DEF q
  <1>11. \A x \in Batches : Streamed(x)' <=> Streamed(x) \/ x = b
    <2>1. ASSUME NEW x \in Batches, Streamed(x)' PROVE Streamed(x) \/ x = b
      <3>1. PICK d \in Consumers : \E i \in DOMAIN stream'[d] : stream'[d][i].batch = x
        BY <2>1 DEF Streamed
      <3>2. PICK i \in DOMAIN stream'[d] : stream'[d][i].batch = x
        BY <3>1
      <3> QED  BY <1>8, <3>2 DEF Streamed
    <2>2. ASSUME NEW x \in Batches, Streamed(x) \/ x = b PROVE Streamed(x)'
      <3>1. CASE x = b
        BY <1>10, <3>1 DEF Streamed
      <3>2. CASE Streamed(x)
        BY <1>9, <3>2 DEF Streamed
      <3> QED  BY <2>2, <3>1, <3>2
    <2> QED  BY <2>1, <2>2
  <1>12. StreamedOnce'
    <2> SUFFICES ASSUME NEW d \in Consumers, NEW f \in Consumers,
                        NEW i \in DOMAIN stream'[d], NEW j \in DOMAIN stream'[f],
                        stream'[d][i].batch = stream'[f][j].batch, stream'[d][i].batch # NoBatch
                 PROVE  d = f /\ i = j
      BY DEF StreamedOnce
    <2>1. CASE i \in DOMAIN stream[d] /\ stream'[d][i] = stream[d][i]
               /\ j \in DOMAIN stream[f] /\ stream'[f][j] = stream[f][j]
      BY <2>1 DEF OnceInv, StreamedOnce
    <2>2. ASSUME NEW g \in Consumers, NEW k \in DOMAIN stream[g] PROVE stream[g][k].batch # b
      BY <1>5 DEF Streamed
    <2> QED  BY <1>8, <2>1, <2>2
  <1>13. /\ \A x \in Batches : Got(x)' <=> Got(x) /\ x # b
         /\ Single(got)'
    <2>1. \A d \in Consumers : got[d] = b => d = c
      BY <1>2, NamesAssumption DEF OnceInv, Single, b
    <2>2. \A x \in Batches : Got(x)' <=> Got(x) /\ x # b
      BY <1>1, <1>2, <2>1, NamesAssumption DEF Got, b
    <2>3. Single(got)'
      BY <1>1, <1>2 DEF OnceInv, Single
    <2> QED  BY <2>2, <2>3
  <1>14. /\ \A x \in Batches : /\ Has(idle, x)' <=> Has(idle, x)
                               /\ Has(ready, x)' <=> Has(ready, x)
                               /\ Returning(x)' <=> Returning(x)
         /\ Staged' = Staged
    BY <1>1 DEF Has, Returning, Staged
  <1>15. OnceInv'
    BY <1>1, <1>12, <1>13 DEF OnceInv, Distinct, Single
  <1> QED  BY <1>2, <1>11, <1>13, <1>14, <1>15 DEF b

\* A copy is done: its host callback has the batch.
Copied(c, i, b) ==
    /\ i \in DOMAIN stream[c] /\ stream[c][i].batch = b /\ resetBatch[c] = NoBatch
    /\ resetBatch' = [resetBatch EXCEPT ![c] = b]
    /\ \E e \in EntryType :
            /\ e.batch = NoBatch /\ e.tasks = stream[c][i].tasks
            /\ e.data = SubSeq(buf[b], 1, committed[b])
            /\ stream' = [stream EXCEPT ![c] = [stream[c] EXCEPT ![i] = e]]

\* The end of a copy leaves an entry with the same tasks and the data of the batch,
\* which is now in the callback.
LEMMA H2DStep ==
  ASSUME TypeOK, NEW c \in Consumers, H2DDone(c)
  PROVE  \E b \in Batches : \E i \in DOMAIN stream[c] : Copied(c, i, b)
  <1>1. PICK i \in DOMAIN stream[c] :
            LET b == stream[c][i].batch
            IN /\ b # NoBatch
               /\ resetBatch' = [resetBatch EXCEPT ![c] = b]
               /\ stream' = [stream EXCEPT ![c][i] =
                    [@ EXCEPT !.batch = NoBatch, !.data = SubSeq(buf[b], 1, committed[b])]]
    BY DEF H2DDone
  <1> DEFINE b == stream[c][i].batch
             data == SubSeq(buf[b], 1, committed[b])
             e == [stream[c][i] EXCEPT !.batch = NoBatch, !.data = data]
  <1>2. stream[c][i] \in EntryType /\ b \in Batches
    BY <1>1, StreamType
  <1>3. data \in Seq(Samples \cup {Junk})
    <2>1. /\ buf[b] \in [1..MaxBatchSize -> Samples \cup {Junk}]
          /\ committed[b] \in 0..MaxBatchSize /\ MaxBatchSize \in Nat
      BY <1>2, SizesAssumption DEF TypeOK
    <2> HIDE DEF b
    <2>2. \A j \in 1..committed[b] : buf[b][j] \in Samples \cup {Junk}
      BY <2>1
    <2>3. committed[b] \in Int /\ 1 \in Int
      BY <2>1
    <2> QED  BY <2>2, <2>3, SubSeqProperties
  <1>4. stream' = [stream EXCEPT ![c] = [stream[c] EXCEPT ![i] = e]]
    BY <1>1
  <1>5. e \in EntryType /\ e.batch = NoBatch /\ e.tasks = stream[c][i].tasks /\ e.data = data
    <2> HIDE DEF data
    <2> QED  BY <1>2, <1>3 DEF EntryType
  <1>6. resetBatch[c] = NoBatch /\ resetBatch' = [resetBatch EXCEPT ![c] = b]
    BY <1>1 DEF H2DDone
  <1> HIDE DEF e
  <1>7. Copied(c, i, b)
    BY <1>4, <1>5, <1>6 DEF Copied
  <1> QED  BY <1>2, <1>7

\* A batch whose copy is done moves from its stream to the callback.
LEMMA H2DMoves ==
  ASSUME TypeOK, OnceInv, PlaceInv, NEW c \in Consumers, NEW b \in Batches,
         NEW i \in DOMAIN stream[c], H2DDone(c), Copied(c, i, b)
  PROVE  /\ Streamed(b) /\ Staged' = Staged
         /\ \A x \in Batches : /\ Has(idle, x)' <=> Has(idle, x)
                               /\ Has(ready, x)' <=> Has(ready, x)
                               /\ Got(x)' <=> Got(x)
                               /\ Returning(x)' <=> Returning(x) \/ x = b
                               /\ Streamed(x)' <=> Streamed(x) /\ x # b
         /\ OnceInv'
  <1>1. UNCHANGED <<idle, ready, staging, ipc, got>>
    BY DEF H2DDone, queueVars, issuerVars
  <1>2. /\ stream[c][i].batch = b /\ resetBatch[c] = NoBatch
        /\ resetBatch' = [resetBatch EXCEPT ![c] = b]
    BY DEF Copied
  <1>3. PICK e \in EntryType : /\ e.batch = NoBatch
                               /\ stream' = [stream EXCEPT ![c] = [stream[c] EXCEPT ![i] = e]]
    BY DEF Copied
  <1>4. stream \in [Consumers -> Seq(EntryType)]
        /\ resetBatch \in [Consumers -> Batches \cup {NoBatch}] /\ b # NoBatch
    BY StreamType, NamesAssumption DEF TypeOK
  <1>5. Streamed(b)
    BY <1>2 DEF Streamed
  <1>6. ~Returning(b)
    BY <1>5, ReadyFacts
  <1>7. \A d \in Consumers : DOMAIN stream'[d] = DOMAIN stream[d]
    BY <1>3, <1>4
  <1>8. \A d \in Consumers : \A j \in DOMAIN stream[d] :
            stream'[d][j] = IF d = c /\ j = i THEN e ELSE stream[d][j]
    BY <1>3, <1>4
  <1>9. \A d \in Consumers : \A j \in DOMAIN stream[d] :
            stream[d][j].batch = b => d = c /\ j = i
    BY <1>2, <1>4 DEF OnceInv, StreamedOnce
  <1>10. ASSUME NEW x \in Batches PROVE Streamed(x)' <=> Streamed(x) /\ x # b
    <2>0. x # NoBatch
      BY NamesAssumption
    <2>1. ASSUME Streamed(x)' PROVE Streamed(x) /\ x # b
      <3>1. PICK d \in Consumers : \E j \in DOMAIN stream'[d] : stream'[d][j].batch = x
        BY <2>1 DEF Streamed
      <3>2. PICK j \in DOMAIN stream'[d] : stream'[d][j].batch = x
        BY <3>1
      <3>3. j \in DOMAIN stream[d] /\ ~(d = c /\ j = i) /\ stream[d][j].batch = x
        BY <1>3, <1>7, <1>8, <2>0, <3>2
      <3> QED  BY <1>9, <3>3 DEF Streamed
    <2>2. ASSUME Streamed(x), x # b PROVE Streamed(x)'
      <3>1. PICK d \in Consumers : \E j \in DOMAIN stream[d] : stream[d][j].batch = x
        BY <2>2 DEF Streamed
      <3>2. PICK j \in DOMAIN stream[d] : stream[d][j].batch = x
        BY <3>1
      <3>3. j \in DOMAIN stream'[d] /\ stream'[d][j].batch = x
        BY <1>2, <1>7, <1>8, <2>2, <3>2
      <3> QED  BY <3>3 DEF Streamed
    <2> QED  BY <2>1, <2>2
  <1>11. StreamedOnce'
    <2> SUFFICES ASSUME NEW d \in Consumers, NEW f \in Consumers,
                        NEW j \in DOMAIN stream'[d], NEW k \in DOMAIN stream'[f],
                        stream'[d][j].batch = stream'[f][k].batch, stream'[d][j].batch # NoBatch
                 PROVE  d = f /\ j = k
      BY DEF StreamedOnce
    <2>1. /\ j \in DOMAIN stream[d] /\ stream'[d][j] = stream[d][j]
          /\ k \in DOMAIN stream[f] /\ stream'[f][k] = stream[f][k]
      BY <1>3, <1>7, <1>8
    <2> QED  BY <2>1 DEF OnceInv, StreamedOnce
  <1>12. /\ \A x \in Batches : Returning(x)' <=> Returning(x) \/ x = b
         /\ Single(resetBatch)'
    <2>1. \A d \in Consumers : resetBatch[d] # b
      BY <1>6 DEF Returning
    <2>2. \A x \in Batches : Returning(x)' <=> Returning(x) \/ x = b
      BY <1>2, <1>4, NamesAssumption DEF Returning
    <2>3. Single(resetBatch)'
      BY <1>2, <1>4, <2>1 DEF OnceInv, Single
    <2> QED  BY <2>2, <2>3
  <1>13. /\ \A x \in Batches : /\ Has(idle, x)' <=> Has(idle, x)
                               /\ Has(ready, x)' <=> Has(ready, x)
                               /\ Got(x)' <=> Got(x)
         /\ Staged' = Staged
    BY <1>1 DEF Has, Got, Staged
  <1>14. OnceInv'
    BY <1>1, <1>11, <1>12 DEF OnceInv, Distinct, Single
  <1> QED  BY <1>5, <1>10, <1>12, <1>13, <1>14

\* The host callback gives its batch back.
LEMMA NotifyMoves ==
  ASSUME TypeOK, OnceInv, PlaceInv, NEW c \in Consumers, NotifyH2D(c)
  PROVE  LET b == resetBatch[c]
         IN  /\ b \in Batches /\ Returning(b) /\ Staged' = Staged /\ tasks[b] = <<>>
             /\ \A x \in Batches : /\ Has(idle, x)' <=> Has(idle, x) \/ x = b
                                   /\ Has(ready, x)' <=> Has(ready, x)
                                   /\ Got(x)' <=> Got(x)
                                   /\ Returning(x)' <=> Returning(x) /\ x # b
                                   /\ Streamed(x)' <=> Streamed(x)
             /\ OnceInv'
  <1> DEFINE b == resetBatch[c]
  <1>1. /\ b # NoBatch /\ tasks[b] = <<>> /\ idle' = Append(idle, b)
        /\ resetBatch' = [resetBatch EXCEPT ![c] = NoBatch]
        /\ UNCHANGED <<ready, staging, ipc, got, stream>>
    BY DEF NotifyH2D, issuerVars
  <1>2. /\ b \in Batches /\ Returning(b) /\ resetBatch \in [Consumers -> Batches \cup {NoBatch}]
        /\ idle \in Seq(Batches) /\ Distinct(idle)
    BY <1>1 DEF Returning, TypeOK, OnceInv
  <1>3. ~Has(idle, b)
    BY <1>2, ReturningFacts
  <1> HIDE DEF b
  <1>4. /\ \A x : Has(Append(idle, b), x) <=> Has(idle, x) \/ x = b
        /\ Distinct(Append(idle, b))
    BY <1>2, <1>3, AppendHas
  <1>5. /\ \A x \in Batches : Has(idle, x)' <=> Has(idle, x) \/ x = b
        /\ Distinct(idle)'
    <2>1. /\ \A x \in Batches : Has(idle, x)' <=> Has(Append(idle, b), x)
          /\ Distinct(idle)' <=> Distinct(Append(idle, b))
      BY <1>1 DEF Has, Distinct
    <2> QED  BY <1>4, <2>1
  <1>6. \A d \in Consumers : resetBatch[d] = b => d = c
    BY <1>2, NamesAssumption DEF OnceInv, Single, b
  <1>7. /\ \A x \in Batches : Returning(x)' <=> Returning(x) /\ x # b
        /\ Single(resetBatch)'
    <2>1. \A x \in Batches : Returning(x)' <=> Returning(x) /\ x # b
      BY <1>1, <1>2, <1>6, NamesAssumption DEF Returning, b
    <2>2. Single(resetBatch)'
      BY <1>1, <1>2 DEF OnceInv, Single
    <2> QED  BY <2>1, <2>2
  <1>8. /\ \A x \in Batches : /\ Has(ready, x)' <=> Has(ready, x)
                              /\ Got(x)' <=> Got(x)
                              /\ Streamed(x)' <=> Streamed(x)
        /\ Staged' = Staged
    BY <1>1 DEF Has, Got, Streamed, Staged
  <1>9. OnceInv'
    BY <1>1, <1>5, <1>7 DEF OnceInv, Distinct, Single, StreamedOnce
  <1> QED  BY <1>1, <1>2, <1>5, <1>7, <1>8, <1>9 DEF b

\* An entry whose batch was copied leaves the stream.
LEMMA DeliverMoves ==
  ASSUME TypeOK, OnceInv, NEW c \in Consumers, Deliver(c)
  PROVE  /\ Staged' = Staged
         /\ \A x \in Batches : /\ Has(idle, x)' <=> Has(idle, x)
                               /\ Has(ready, x)' <=> Has(ready, x)
                               /\ Got(x)' <=> Got(x)
                               /\ Returning(x)' <=> Returning(x)
                               /\ Streamed(x)' <=> Streamed(x)
         /\ \A d \in Consumers : \A i \in DOMAIN stream'[d] :
                \E j \in DOMAIN stream[d] : stream'[d][i] = stream[d][j]
         /\ OnceInv'
  <1> DEFINE q == stream[c]
  <1>1. /\ q # <<>> /\ Head(q).batch = NoBatch /\ stream' = [stream EXCEPT ![c] = Tail(q)]
        /\ UNCHANGED <<idle, ready, staging, ipc, got, resetBatch>>
    BY DEF Deliver, queueVars, issuerVars
  <1>2. stream \in [Consumers -> Seq(EntryType)] /\ q \in Seq(EntryType)
    BY StreamType
  <1>3. stream'[c] = Tail(q) /\ \A d \in Consumers : d # c => stream'[d] = stream[d]
    BY <1>1, <1>2
  <1>4. /\ Head(q) = q[1]
        /\ \A i \in DOMAIN Tail(q) : i \in Nat /\ i + 1 \in DOMAIN q /\ Tail(q)[i] = q[i + 1]
        /\ \A i \in DOMAIN q \ {1} : i - 1 \in DOMAIN Tail(q) /\ Tail(q)[i - 1] = q[i]
    <2>1. \A i \in DOMAIN Tail(q) : i \in Nat
      <3> HIDE DEF q
      <3>1. Tail(q) \in Seq(EntryType)
        BY <1>1, <1>2
      <3> QED  BY <3>1, ElementType
    <2> HIDE DEF q
    <2> QED  BY <1>1, <1>2, <2>1, HeadTail
  <1> DEFINE Old(d, i) == IF d = c THEN i + 1 ELSE i
  <1>5. ASSUME NEW d \in Consumers, NEW i \in DOMAIN stream'[d]
        PROVE  Old(d, i) \in DOMAIN stream[d] /\ stream'[d][i] = stream[d][Old(d, i)]
    BY <1>3, <1>4
  <1>6. ASSUME NEW d \in Consumers, NEW j \in DOMAIN stream[d], stream[d][j].batch # NoBatch
        PROVE  \E i \in DOMAIN stream'[d] : stream'[d][i] = stream[d][j]
    <2>1. CASE d # c
      BY <1>3, <2>1
    <2>2. CASE d = c
      <3>1. j # 1
        BY <1>1, <1>4, <1>6, <2>2
      <3> QED  BY <1>3, <1>4, <2>2, <3>1
    <2> QED  BY <2>1, <2>2
  <1>7. ASSUME NEW x \in Batches PROVE Streamed(x)' <=> Streamed(x)
    <2>1. ASSUME Streamed(x)' PROVE Streamed(x)
      <3>1. PICK d \in Consumers : \E i \in DOMAIN stream'[d] : stream'[d][i].batch = x
        BY <2>1 DEF Streamed
      <3>2. PICK i \in DOMAIN stream'[d] : stream'[d][i].batch = x
        BY <3>1
      <3>3. Old(d, i) \in DOMAIN stream[d] /\ stream[d][Old(d, i)].batch = x
        BY <1>5, <3>2
      <3> HIDE DEF Old
      <3> QED  BY <3>3 DEF Streamed
    <2>2. ASSUME Streamed(x) PROVE Streamed(x)'
      <3>1. PICK d \in Consumers : \E i \in DOMAIN stream[d] : stream[d][i].batch = x
        BY <2>2 DEF Streamed
      <3>2. PICK i \in DOMAIN stream[d] : stream[d][i].batch = x
        BY <3>1
      <3>3. PICK k \in DOMAIN stream'[d] : stream'[d][k] = stream[d][i]
        BY <1>6, <3>2, NamesAssumption
      <3> QED  BY <3>2, <3>3 DEF Streamed
    <2> QED  BY <2>1, <2>2
  <1>8. StreamedOnce'
    <2> SUFFICES ASSUME NEW d \in Consumers, NEW f \in Consumers,
                        NEW j \in DOMAIN stream'[d], NEW k \in DOMAIN stream'[f],
                        stream'[d][j].batch = stream'[f][k].batch, stream'[d][j].batch # NoBatch
                 PROVE  d = f /\ j = k
      BY DEF StreamedOnce
    <2>1. /\ Old(d, j) \in DOMAIN stream[d] /\ stream'[d][j] = stream[d][Old(d, j)]
          /\ Old(f, k) \in DOMAIN stream[f] /\ stream'[f][k] = stream[f][Old(f, k)]
      BY <1>5
    <2>2. d = f /\ Old(d, j) = Old(f, k)
      <3> HIDE DEF Old
      <3> QED  BY <2>1 DEF OnceInv, StreamedOnce
    <2>3. d = c => j \in Nat /\ k \in Nat
      BY <1>3, <1>4, <2>2
    <2> QED  BY <2>2, <2>3
  <1>9. \A d \in Consumers : \A i \in DOMAIN stream'[d] :
            \E j \in DOMAIN stream[d] : stream'[d][i] = stream[d][j]
    <2> HIDE DEF Old
    <2> QED  BY <1>5
  <1>10. /\ \A x \in Batches : /\ Has(idle, x)' <=> Has(idle, x)
                               /\ Has(ready, x)' <=> Has(ready, x)
                               /\ Got(x)' <=> Got(x)
                               /\ Returning(x)' <=> Returning(x)
         /\ Staged' = Staged
    BY <1>1 DEF Has, Got, Returning, Staged
  <1>11. OnceInv'
    BY <1>1, <1>8 DEF OnceInv, Distinct, Single
  <1> QED  BY <1>7, <1>9, <1>10, <1>11

-----------------------------------------------------------------------------
(***************************************************************************)
(* The kinds of steps.                                                     *)
(***************************************************************************)
\* Steps that leave the batches and the shares of them alone, except that they
\* may close the staging batch, or end a thread's turn.
Passes(t) ==
    \/ tpc'[t] = tpc[t]
    \/ ~Active(t) /\ ~Active(t)'
    \/ tpc[t] = "commit" /\ tpc'[t] = "committed" /\ committed[batchPtr[t]] > 0
    \/ tpc[t] = "committed" /\ tpc'[t] = "copy" /\ pairsToCopy[t] > 0
    \/ tpc[t] = "committed" /\ tpc'[t] = "woken" /\ pairsToCopy[t] = 0

\* Steps of the issuing thread that do not touch the batches.
FlushMoves ==
    \/ ipc' = ipc /\ flushBatch' = flushBatch
    \/ {ipc, ipc'} \cap {"mark", "ready", "unstage"} = {}
    \/ ipc = "idle" /\ ipc' = "mark" /\ staging # NoBatch /\ flushBatch' = staging

Rests ==
    /\ UNCHANGED <<tasksQ, idle, countVars, tasks, committed, completed, buf, localVars, streamVars,
                   issued>>
    /\ \A t \in Threads : Passes(t)
    /\ \/ ClosesNot /\ FlushMoves
       \/ ClosesStaged /\ ipc \notin InFlush /\ ipc' = ipc /\ \A t \in Threads : tpc'[t] # "commit"

\* The steps, by what they do to the batches.
LEMMA RestsOrMoves ==
  ASSUME TypeOK, MutexInv, ThreadInv, FlushInv, PlaceInv, FlushExclusive, Step
  PROVE  \/ Rests
         \/ \E s \in Samples : IssueTask(s)
         \/ FlushMark \/ FlushReady \/ FlushUnstage
         \/ \E t \in Threads : StageBegin(t) \/ CommitTask(t) \/ Copy(t) \/ CompleteCopies(t)
         \/ \E c \in Consumers : \/ GetBatch(c) \/ Infer(c) \/ H2DDone(c) \/ ResetBatch(c)
                                 \/ NotifyH2D(c) \/ Deliver(c)
  <1>0. tpc \in [Threads -> ThreadStates]
    BY PcNow DEF PcType
  <1>s. ASSUME UNCHANGED tpc PROVE \A t \in Threads : Passes(t)
    BY <1>s DEF Passes
  <1>w. ASSUME Woken(Threads, tpc, tpc') PROVE \A t \in Threads : Passes(t)
    BY <1>w DEF Woken, Passes, Active
  <1>n. ASSUME UNCHANGED <<closing, ready, staging, aborted>> PROVE ClosesNot
    BY <1>n DEF ClosesNot
  <1>1. ASSUME Issuer
        PROVE  Rests \/ (\E s \in Samples : IssueTask(s)) \/ FlushMark \/ FlushReady \/ FlushUnstage
    <2>1. ASSUME StartQuery PROVE Rests
      BY <1>s, <1>n, <2>1 DEF StartQuery, Rests, FlushMoves, queueVars, batchVars, threadVars, consumerVars
    <2>2. ASSUME EndQuery PROVE Rests
      <3>1. \A t \in Threads : Passes(t)
        BY <1>0, <1>w, <2>2, WokenStates, WakeOneStep DEF EndQuery
      <3> QED  BY <1>n, <2>2, <3>1 DEF EndQuery, Rests, FlushMoves, queueVars, batchVars, consumerVars
    <2>3. ASSUME FlushQueries PROVE Rests
      BY <1>s, <1>n, <2>3 DEF FlushQueries, Rests, FlushMoves, queueVars, batchVars, threadVars, consumerVars
    <2>4. ASSUME FlushFlag PROVE Rests
      BY <1>s, <1>n, <2>4 DEF FlushFlag, Rests, FlushMoves, queueVars, batchVars, threadVars, consumerVars
    <2>5. ASSUME StopWork PROVE Rests
      <3>1. \A t \in Threads : Passes(t)
        BY <1>0, <1>w, <2>5, WokenStates, WakeAllStep DEF StopWork
      <3> QED  BY <1>n, <2>5, <3>1 DEF StopWork, Rests, FlushMoves, queueVars, batchVars, consumerVars
    <2> QED  BY <1>1, <2>1, <2>2, <2>3, <2>4, <2>5 DEF Issuer
  <1>2. ASSUME NEW t \in Threads, Stage(t)
        PROVE  Rests \/ StageBegin(t) \/ CommitTask(t) \/ Copy(t) \/ CompleteCopies(t)
    <2>a. ASSUME NEW to, tpc' = [tpc EXCEPT ![t] = to],
                 \/ ~Active(t) /\ to \in {"woken", "sleep", "stopped"}
                 \/ tpc[t] = "commit" /\ to = "committed" /\ committed[batchPtr[t]] > 0
                 \/ tpc[t] = "committed" /\ to = "woken" /\ pairsToCopy[t] = 0
          PROVE  \A u \in Threads : Passes(u)
      <3>1. tpc'[t] = to /\ \A u \in Threads : u # t => tpc'[u] = tpc[u]
        BY <1>0, <2>a
      <3>2. Passes(t)
        BY <2>a, <3>1 DEF Passes, Active
      <3> QED  BY <3>1, <3>2 DEF Passes
    <2>1. ASSUME StageWait(t) \/ StageStop(t) PROVE Rests
      <3>1. \A u \in Threads : Passes(u)
        <4>1. ~Active(t) /\ \E to \in {"stopped", "sleep"} : tpc' = [tpc EXCEPT ![t] = to]
          BY <2>1 DEF StageWait, StageStop, Active
        <4> QED  BY <2>a, <4>1
      <3> QED  BY <1>n, <2>1, <3>1 DEF StageWait, StageStop, Rests, FlushMoves, queueVars,
                                       batchVars, consumerVars, issuerVars
    <2>2. ASSUME CommitFull(t) PROVE Rests
      <3>1. (ClosesStaged \/ ClosesNot) /\ committed[batchPtr[t]] > 0
        BY <2>2, CommitFullStep
      <3>2. tpc[t] = "commit" /\ tpc' = [tpc EXCEPT ![t] = "committed"] /\ mutex = t
        BY <2>2 DEF CommitFull, MutexInv
      <3>3. \A u \in Threads : Passes(u)
        BY <2>a, <3>1, <3>2
      <3>4. ipc \notin InFlush /\ \A u \in Threads : tpc'[u] # "commit"
        BY <1>0, <3>2, NamesAssumption DEF MutexInv
      <3> QED  BY <2>2, <3>1, <3>3, <3>4 DEF CommitFull, Rests, FlushMoves, issuerVars
    <2>3. ASSUME CommitEmpty(t) PROVE Rests
      <3>1. tpc[t] = "commit" /\ tpc' = [tpc EXCEPT ![t] = "committed"] /\ tasksQ = <<>>
        BY <2>3 DEF CommitEmpty
      <3>2. committed[batchPtr[t]] > 0
        <4>1. /\ pairsToCopy[t] # 0 /\ batchPtr[t] \in Batches
              /\ pairsOffset[t] + pairsToCopy[t] <= committed[batchPtr[t]]
          BY <3>1 DEF ThreadInv, Active
        <4>2. pairsToCopy[t] \in Nat /\ pairsOffset[t] \in Nat /\ committed[batchPtr[t]] \in Nat
          BY <4>1, SizesType
        <4> QED  BY <4>1, <4>2
      <3>3. \A u \in Threads : Passes(u)
        BY <2>a, <3>1, <3>2
      <3> QED  BY <1>n, <2>3, <3>3 DEF CommitEmpty, Rests, FlushMoves, queueVars, batchVars,
                                       consumerVars, issuerVars
    <2>4. ASSUME StageNothing(t) PROVE Rests
      <3>1. \A u \in Threads : Passes(u)
        BY <2>a, <2>4 DEF StageNothing
      <3> QED  BY <1>n, <2>4, <3>1 DEF StageNothing, Rests, FlushMoves, queueVars, batchVars,
                                       consumerVars, issuerVars
    <2>5. ASSUME StageCommitted(t) PROVE Rests
      <3>1. ClosesStaged \/ ClosesNot
        BY <2>5, StageCommittedStep
      <3>2. /\ tpc[t] = "committed" /\ mutex = t /\ pairsToCopy[t] > 0
            /\ tpc' \in WakeOne([tpc EXCEPT ![t] = "copy"])
        BY <2>5 DEF StageCommitted, MutexInv
      <3> DEFINE p == [tpc EXCEPT ![t] = "copy"]
      <3>3. p \in [Threads -> ThreadStates] /\ p[t] = "copy" /\ \A u \in Threads : u # t => p[u] = tpc[u]
        BY <1>0 DEF ThreadStates
      <3> HIDE DEF p
      <3>4. Woken(Threads, p, tpc')
        BY <3>2, <3>3, WokenStates, WakeOneStep DEF p
      <3>5. ASSUME NEW u \in Threads PROVE Passes(u) /\ tpc'[u] # "commit"
        <4>1. CASE u = t
          BY <3>2, <3>3, <3>4, <4>1 DEF Woken, Passes
        <4>2. CASE u # t
          <5>1. tpc[u] # "commit"
            BY <3>2, <4>2 DEF MutexInv
          <5>2. tpc'[u] = tpc[u] \/ (tpc[u] = "sleep" /\ tpc'[u] = "woken")
            BY <3>3, <3>4, <4>2 DEF Woken
          <5> QED  BY <5>1, <5>2 DEF Passes, Active
        <4> QED  BY <4>1, <4>2
      <3>6. ipc \notin InFlush
        BY <3>2, NamesAssumption DEF MutexInv
      <3> QED  BY <2>5, <3>1, <3>5, <3>6 DEF StageCommitted, Rests, FlushMoves, issuerVars
    <2> QED  BY <1>2, <2>1, <2>2, <2>3, <2>4, <2>5 DEF Stage
  <1>3. ASSUME NEW c \in Consumers, Fetch(c) \/ CopyStream(c) \/ Deliver(c)
        PROVE  \/ Rests \/ GetBatch(c) \/ Infer(c) \/ H2DDone(c) \/ ResetBatch(c)
               \/ NotifyH2D(c) \/ Deliver(c)
    <2>1. ASSUME GetReady(c) \/ GetWoken(c) \/ GetSleep(c) \/ GetStopped(c) \/ GetNotified(c)
          PROVE  Rests
      <3>1. UNCHANGED <<tpc, ipc, flushBatch, closing, ready, staging, aborted>>
        BY <2>1 DEF GetReady, GetWoken, GetSleep, GetStopped, GetNotified, queueVars, batchVars,
                    threadVars, issuerVars
      <3>2. UNCHANGED <<tasksQ, idle, countVars, tasks, committed, completed, buf, localVars,
                        streamVars, issued>>
        BY <2>1 DEF GetReady, GetWoken, GetSleep, GetStopped, GetNotified, queueVars, batchVars,
                    threadVars, issuerVars
      <3> QED  BY <1>s, <1>n, <3>1, <3>2 DEF Rests, FlushMoves
    <2>2. ASSUME GetNone(c) PROVE Rests
      <3>1. ClosesStaged \/ ClosesNot
        BY <2>2, GetNoneStep
      <3>2. mutex = Nobody /\ tpc' = tpc
        BY <2>2 DEF GetNone, threadVars
      <3>3. ipc \notin InFlush /\ \A t \in Threads : tpc'[t] # "commit"
        BY <3>2, NamesAssumption DEF MutexInv
      <3> QED  BY <1>s, <2>2, <3>1, <3>2, <3>3 DEF GetNone, Rests, FlushMoves, threadVars, issuerVars
    <2> QED  BY <1>3, <2>1, <2>2 DEF Fetch, CopyStream
  <1> QED  BY <1>1, <1>2, <1>3 DEF Step

\* FlushQueries marks the staging batch as closed.
LEMMA FlushMarkStep ==
  ASSUME TypeOK, FlushInv, FlushMark
  PROVE  /\ staging \in Batches /\ staging = flushBatch /\ Staged = staging /\ Staged' = staging
         /\ ~closing[staging] /\ closing' = [closing EXCEPT ![staging] = TRUE]
         /\ ipc' = "ready"
         /\ UNCHANGED <<mutex, queueVars, flagVars, countVars, tasks, committed, completed,
                        buf, threadVars, consumerVars, issued, flushBatch, aborted>>
  <1>1. /\ ipc = "mark" /\ staging = flushBatch /\ staging # NoBatch /\ ~closing[staging]
        /\ closing' = [closing EXCEPT ![flushBatch] = TRUE]
        /\ ipc' = IF closing[flushBatch] THEN "flag" ELSE "ready"
        /\ UNCHANGED <<mutex, queueVars, flagVars, countVars, tasks, committed, completed,
                       buf, threadVars, consumerVars, issued, flushBatch, aborted>>
    BY DEF FlushMark, FlushInv
  <1>2. staging \in Batches
    BY <1>1 DEF TypeOK
  <1>3. ipc' = "ready" /\ staging' = staging
    BY <1>1 DEF queueVars
  <1>4. Staged = staging /\ Staged' = staging
    BY <1>1, <1>3 DEF Staged
  <1> QED  BY <1>1, <1>2, <1>3, <1>4

\* FlushQueries readies the staging batch that it marked, if its copies are complete.
LEMMA FlushReadyStep ==
  ASSUME TypeOK, FlushInv, FlushReady
  PROVE  /\ staging \in Batches /\ staging = flushBatch /\ Staged = staging /\ Staged' = NoBatch
         /\ closing[staging] /\ ipc = "ready" /\ ipc' = "unstage"
         /\ \/ completed[staging] = committed[staging] /\ Readies(staging)
            \/ completed[staging] # committed[staging] /\ UNCHANGED <<ready, aborted>>
         /\ UNCHANGED <<mutex, tasksQ, idle, staging, flagVars, countVars, batchVars, threadVars,
                        streamVars, issued, flushBatch>>
  <1>1. /\ ipc = "ready" /\ ipc' = "unstage" /\ staging = flushBatch /\ staging # NoBatch
        /\ closing[staging]
        /\ UNCHANGED <<mutex, tasksQ, idle, staging, flagVars, countVars, batchVars, threadVars,
                       streamVars, issued, flushBatch>>
    BY DEF FlushReady, FlushInv
  <1>2. staging \in Batches
    BY <1>1 DEF TypeOK
  <1>3. Staged = staging /\ Staged' = NoBatch
    BY <1>1 DEF Staged
  <1>4. \/ completed[staging] = committed[staging] /\ Readies(staging)
        \/ completed[staging] # committed[staging] /\ UNCHANGED <<ready, aborted>>
    BY <1>1 DEF FlushReady, HandleReadyBatch, Readies, IsCompleteWith
  <1> QED  BY <1>1, <1>2, <1>3, <1>4

\* FlushQueries then takes it off the staging place.
LEMMA FlushUnstageStep ==
  ASSUME FlushUnstage
  PROVE  /\ staging' = NoBatch /\ Staged = NoBatch /\ Staged' = NoBatch /\ ipc' = "flag"
         /\ UNCHANGED <<mutex, tasksQ, idle, ready, flagVars, countVars, batchVars, threadVars,
                        consumerVars, issued, flushBatch, aborted>>
  BY DEF FlushUnstage, Staged

\* A thread whose copy is done counts its pairs; the last one of a closed batch readies
\* it.
LEMMA CompleteCopiesStep ==
  ASSUME TypeOK, ThreadInv, ShareInv, NEW t \in Threads, CompleteCopies(t)
  PROVE  LET b == batchPtr[t]
             done == completed[b] + pairsToCopy[t]
         IN  /\ b \in Batches /\ tpc[t] = "complete" /\ tpc' = [tpc EXCEPT ![t] = "woken"]
             /\ done \in Nat /\ done > 0 /\ done <= committed[b] /\ completed[b] # committed[b]
             /\ mutex = Nobody /\ completed' = [completed EXCEPT ![b] = done]
             /\ \/ /\ done = committed[b] /\ closing[b]
                   /\ ready' = Append(ready, b) /\ aborted' = (done = 0)
                \/ ~(done = committed[b] /\ closing[b]) /\ UNCHANGED <<ready, aborted>>
             /\ UNCHANGED <<mutex, tasksQ, idle, staging, flagVars, countVars, tasks, committed,
                            closing, buf, localVars, streamVars, issuerVars>>
  <1> DEFINE b == batchPtr[t]
             done == completed[b] + pairsToCopy[t]
  <1>1. tpc[t] = "complete" /\ Active(t)
    BY DEF CompleteCopies, Active
  <1>2. /\ b \in Batches /\ done <= committed[b] /\ pairsToCopy[t] > 0
        /\ completed[b] \in Nat /\ pairsToCopy[t] \in Nat /\ committed[b] \in Nat
    BY <1>1, ShareFacts DEF ThreadInv
  <1>3. done \in Nat /\ done > 0 /\ completed[b] # committed[b]
    BY <1>2
  <1>4. /\ mutex = Nobody /\ completed' = [completed EXCEPT ![b] = done]
        /\ tpc' = [tpc EXCEPT ![t] = "woken"]
        /\ UNCHANGED <<mutex, tasksQ, idle, staging, flagVars, countVars, tasks, committed,
                       closing, buf, localVars, streamVars, issuerVars>>
    BY DEF CompleteCopies
  <1>5. \/ /\ done = committed[b] /\ closing[b]
           /\ ready' = Append(ready, b) /\ aborted' = (done = 0)
        \/ ~(done = committed[b] /\ closing[b]) /\ UNCHANGED <<ready, aborted>>
    BY DEF CompleteCopies, IsCompleteWith
  <1> HIDE DEF b, done
  <1>6. /\ b \in Batches /\ tpc[t] = "complete" /\ tpc' = [tpc EXCEPT ![t] = "woken"]
        /\ done \in Nat /\ done > 0 /\ done <= committed[b] /\ completed[b] # committed[b]
    BY <1>1, <1>2, <1>3, <1>4
  <1> QED  BY <1>4, <1>5, <1>6 DEF b, done

\* The callback resets its batch as a whole.
LEMMA ResetBatchStep ==
  ASSUME TypeOK, NEW c \in Consumers, ResetBatch(c)
  PROVE  LET b == resetBatch[c]
         IN  /\ b \in Batches /\ Returning(b)
             /\ committed' = [committed EXCEPT ![b] = 0]
             /\ completed' = [completed EXCEPT ![b] = 0]
             /\ closing' = [closing EXCEPT ![b] = FALSE]
             /\ tasks' = [tasks EXCEPT ![b] = <<>>]
             /\ UNCHANGED <<mutex, queueVars, flagVars, countVars, buf, threadVars, consumerVars,
                            issuerVars, aborted>>
  BY DEF ResetBatch, Returning, TypeOK

\* mIdleBatches, the consumers and the copy streams keep the batches they have,
\* except that staging begins on one and GetBatch takes one.
LEMMA TakenBegin ==
  ASSUME TypeOK, MutexInv, FlushInv, PlaceInv, OnceInv, NEW t \in Threads, NEW b \in Batches,
         StageBegin(t), Begins(t, b)
  PROVE  \A x \in Batches : Taken(x)' <=> Taken(x) /\ x # b
  <1>1. /\ Staged = b \/ (Staged = NoBatch /\ Has(idle, b))
        /\ \A x \in Batches : /\ Has(idle, x)' <=> Has(idle, x) /\ (x # b \/ Staged = b)
                              /\ (Got(x)' <=> Got(x)) /\ (Returning(x)' <=> Returning(x))
                              /\ Streamed(x)' <=> Streamed(x)
    BY BeginMoves
  <1>2. CASE Staged = b
    <2>1. ~Taken(b)
      BY <1>2, NamesAssumption DEF FlushInv, Staged
    <2> QED  BY <1>1, <1>2, <2>1 DEF Taken
  <1>3. CASE Staged # b
    <2>1. ~Got(b) /\ ~Returning(b) /\ ~Streamed(b)
      BY <1>1, <1>3, IdleFacts
    <2> QED  BY <1>1, <1>3, <2>1 DEF Taken
  <1> QED  BY <1>2, <1>3

\* GetBatch takes the first ready batch and no other.
LEMMA TakenGet ==
  ASSUME TypeOK, WaitInv, OnceInv, PlaceInv, NEW c \in Consumers, GetBatch(c)
  PROVE  \A x \in Batches : Taken(x)' <=> Taken(x) \/ x = Head(ready)
  <1>1. \A x \in Batches : /\ Has(idle, x)' <=> Has(idle, x)
                           /\ Got(x)' <=> Got(x) \/ x = Head(ready)
                           /\ Returning(x)' <=> Returning(x)
                           /\ Streamed(x)' <=> Streamed(x)
    BY GetMoves
  <1> QED  BY <1>1 DEF Taken

\* Steps that touch none of these places take no batch.
LEMMA TakenUnmoved ==
  ASSUME UNCHANGED <<idle, got, resetBatch, stream>>
  PROVE  \A x \in Batches : Taken(x)' <=> Taken(x)
  BY DEF Taken, Has, Got, Returning, Streamed

\* From GetBatch to the idle list a batch is taken all the way.
LEMMA TakenSame ==
  ASSUME TypeOK, WaitInv, PlaceInv, OnceInv, NEW c \in Consumers,
         Infer(c) \/ H2DDone(c) \/ NotifyH2D(c) \/ Deliver(c)
  PROVE  \A x \in Batches : Taken(x)' <=> Taken(x)
  <1> DEFINE Same == \A x \in Batches : Taken(x)' <=> Taken(x)
  <1>1. ASSUME Infer(c) PROVE Same
    <2>1. /\ got[c] \in Batches /\ Got(got[c])
          /\ \A x \in Batches : /\ Has(idle, x)' <=> Has(idle, x)
                                /\ Got(x)' <=> Got(x) /\ x # got[c]
                                /\ Returning(x)' <=> Returning(x)
                                /\ Streamed(x)' <=> Streamed(x) \/ x = got[c]
      BY <1>1, InferMoves
    <2> QED  BY <2>1 DEF Taken
  <1>2. ASSUME H2DDone(c) PROVE Same
    <2>1. PICK b \in Batches, i \in DOMAIN stream[c] : Copied(c, i, b)
      BY <1>2, H2DStep
    <2>2. /\ Streamed(b)
          /\ \A x \in Batches : /\ Has(idle, x)' <=> Has(idle, x)
                                /\ Got(x)' <=> Got(x)
                                /\ Returning(x)' <=> Returning(x) \/ x = b
                                /\ Streamed(x)' <=> Streamed(x) /\ x # b
      BY <1>2, <2>1, H2DMoves
    <2> QED  BY <2>2 DEF Taken
  <1>3. ASSUME NotifyH2D(c) PROVE Same
    <2>1. /\ resetBatch[c] \in Batches /\ Returning(resetBatch[c])
          /\ \A x \in Batches : /\ Has(idle, x)' <=> Has(idle, x) \/ x = resetBatch[c]
                                /\ Got(x)' <=> Got(x)
                                /\ Returning(x)' <=> Returning(x) /\ x # resetBatch[c]
                                /\ Streamed(x)' <=> Streamed(x)
      BY <1>3, NotifyMoves
    <2> QED  BY <2>1 DEF Taken
  <1>4. ASSUME Deliver(c) PROVE Same
    <2>1. \A x \in Batches : /\ Has(idle, x)' <=> Has(idle, x)
                             /\ Got(x)' <=> Got(x)
                             /\ Returning(x)' <=> Returning(x)
                             /\ Streamed(x)' <=> Streamed(x)
      BY <1>4, DeliverMoves
    <2> QED  BY <2>1 DEF Taken
  <1> HIDE DEF Same
  <1>5. Same
    BY <1>1, <1>2, <1>3, <1>4
  <1> QED  BY <1>5 DEF Same

-----------------------------------------------------------------------------
(***************************************************************************)
(* FlushQueries, and the staging batch.                                    *)
(***************************************************************************)
LEMMA FlushNext ==
  ASSUME FlushExclusive, TypeOK, MutexInv, WaitInv, FlushInv, PlaceInv, OnceInv, ThreadInv, ShareInv, Step
  PROVE  FlushInv'
  <1>0. closing \in [Batches -> BOOLEAN] /\ staging \in Batches \cup {NoBatch}
    BY DEF TypeOK
  <1>a. ASSUME staging' = staging, ipc' = ipc, flushBatch' = flushBatch,
               staging # NoBatch => closing'[staging] = closing[staging],
               \A x \in Batches : x = staging => ~Taken(x)'
        PROVE  FlushInv'
    <2>1. staging # NoBatch => staging' \in Batches /\ ~Taken(staging)'
      BY <1>0, <1>a
    <2> QED  BY <1>a, <2>1 DEF FlushInv
  <1>b. ASSUME \A x \in Batches : Taken(x)' <=> Taken(x)
        PROVE  \A x \in Batches : x = staging => ~Taken(x)'
    BY <1>b, NamesAssumption DEF FlushInv
  <1>c. ASSUME staging' = staging, \A x \in Batches : x = staging => ~Taken(x)'
        PROVE  staging # NoBatch => ~Taken(staging)'
    BY <1>0, <1>c
  <1>1. ASSUME Rests PROVE FlushInv'
    <2>1. \A x \in Batches : x = staging => ~Taken(x)'
      BY <1>1, <1>b, TakenUnmoved DEF Rests, streamVars
    <2>2. CASE ClosesNot /\ FlushMoves
      <3>1. staging' = staging /\ closing' = closing
        BY <2>2 DEF ClosesNot
      <3>2. CASE ipc' = ipc /\ flushBatch' = flushBatch
        BY <1>a, <2>1, <3>1, <3>2
      <3>3. CASE {ipc, ipc'} \cap {"mark", "ready", "unstage"} = {}
        <4>1. ipc \notin {"mark", "ready", "unstage"} /\ ipc' \notin {"mark", "ready", "unstage"}
          BY <3>3
        <4> QED  BY <1>c, <2>1, <3>1, <4>1 DEF FlushInv
      <3>4. CASE ipc = "idle" /\ ipc' = "mark" /\ staging # NoBatch /\ flushBatch' = staging
        BY <1>c, <2>1, <3>1, <3>4 DEF FlushInv
      <3> QED  BY <2>2, <3>2, <3>3, <3>4 DEF FlushMoves
    <2>3. CASE ClosesStaged /\ ipc \notin InFlush /\ ipc' = ipc
      <3>1. staging' = NoBatch /\ ipc' \notin {"mark", "ready", "unstage"}
        BY <2>3 DEF ClosesStaged, Closes, InFlush
      <3> QED  BY <3>1 DEF FlushInv
    <2> QED  BY <1>1, <2>2, <2>3 DEF Rests
  <1>2. ASSUME NEW s \in Samples, IssueTask(s) PROVE FlushInv'
    <2>1. UNCHANGED <<staging, closing, idle, got, resetBatch, stream>>
          /\ ipc \notin {"mark", "ready", "unstage"} /\ ipc' \notin {"mark", "ready", "unstage"}
      BY <1>2 DEF IssueTask, batchVars, consumerVars, streamVars
    <2>2. \A x \in Batches : x = staging => ~Taken(x)'
      BY <1>b, <2>1, TakenUnmoved
    <2> QED  BY <1>c, <2>1, <2>2 DEF FlushInv
  <1>3. ASSUME FlushMark PROVE FlushInv'
    <2>1. /\ staging \in Batches /\ staging = flushBatch
          /\ closing' = [closing EXCEPT ![staging] = TRUE] /\ ipc' = "ready"
          /\ staging' = staging /\ flushBatch' = flushBatch
          /\ UNCHANGED <<idle, got, resetBatch, stream>>
      BY <1>3, FlushMarkStep DEF queueVars, consumerVars, streamVars
    <2>2. closing'[staging] /\ staging # NoBatch /\ ~Taken(staging)'
      BY <1>0, <1>b, <1>c, <2>1, TakenUnmoved, NamesAssumption
    <2> QED  BY <2>1, <2>2 DEF FlushInv
  <1>4. ASSUME FlushReady PROVE FlushInv'
    <2>1. /\ staging \in Batches /\ staging = flushBatch /\ closing[staging]
          /\ ipc' = "unstage" /\ UNCHANGED <<staging, flushBatch, closing, idle, got, resetBatch, stream>>
      BY <1>4, FlushReadyStep DEF batchVars, streamVars
    <2>2. staging # NoBatch /\ ~Taken(staging)'
      BY <1>b, <1>c, <2>1, TakenUnmoved, NamesAssumption
    <2> QED  BY <2>1, <2>2 DEF FlushInv
  <1>5. ASSUME FlushUnstage PROVE FlushInv'
    BY <1>5, FlushUnstageStep DEF FlushInv
  <1>6. ASSUME NEW t \in Threads, StageBegin(t) PROVE FlushInv'
    <2>1. PICK b \in Batches : Begins(t, b)
      BY <1>6, StageBeginStep
    <2>2. /\ mutex = Nobody /\ staging' = b /\ ipc' = ipc /\ closing' = closing
      BY <1>6, <2>1 DEF StageBegin, StageBeginAt, Begins, batchVars, issuerVars
    <2>3. ipc \notin InFlush
      BY <2>2, NamesAssumption DEF MutexInv
    <2>4. ~Taken(b)'
      BY <1>6, <2>1, TakenBegin
    <2>5. ~closing[b]
      <3>1. Staged = b \/ (Staged = NoBatch /\ Has(idle, b))
        BY <1>6, <2>1, BeginMoves
      <3>2. CASE Staged = b
        BY <2>3, <3>2, NamesAssumption DEF FlushInv, Staged, InFlush
      <3>3. CASE Has(idle, b)
        BY <3>3, IdleFacts DEF Fresh
      <3> QED  BY <3>1, <3>2, <3>3
    <2> QED  BY <2>2, <2>3, <2>4, <2>5 DEF FlushInv, InFlush
  <1>7. ASSUME NEW t \in Threads, CommitTask(t) \/ Copy(t) \/ CompleteCopies(t) PROVE FlushInv'
    <2>1. UNCHANGED <<staging, ipc, flushBatch, closing, idle, got, resetBatch, stream>>
      BY <1>7 DEF CommitTask, Copy, CompleteCopies, queueVars, consumerVars, streamVars, issuerVars
    <2> QED  BY <1>a, <1>b, <2>1, TakenUnmoved
  <1>8. ASSUME NEW c \in Consumers, GetBatch(c) PROVE FlushInv'
    <2>1. /\ mutex = c /\ UNCHANGED <<staging, ipc, flushBatch, closing>>
      BY <1>8 DEF GetBatch, MutexInv, batchVars, issuerVars
    <2>2. /\ Head(ready) \in Batches /\ Has(ready, Head(ready))
          /\ \A x \in Batches : Taken(x)' <=> Taken(x) \/ x = Head(ready)
      BY <1>8, GetMoves, TakenGet
    <2>3. Staged # Head(ready)
      BY <2>2, ReadyFacts
    <2>4. Staged = staging
      BY <2>1, NamesAssumption DEF MutexInv, InFlush, Staged
    <2>5. \A x \in Batches : x = staging => ~Taken(x)'
      BY <2>2, <2>3, <2>4, NamesAssumption DEF FlushInv
    <2> QED  BY <1>a, <2>1, <2>5
  <1>9. ASSUME NEW c \in Consumers, ResetBatch(c) PROVE FlushInv'
    <2>1. /\ resetBatch[c] \in Batches /\ Returning(resetBatch[c])
          /\ closing' = [closing EXCEPT ![resetBatch[c]] = FALSE]
          /\ UNCHANGED <<staging, ipc, flushBatch, idle, got, resetBatch, stream>>
      BY <1>9, ResetBatchStep DEF queueVars, consumerVars, streamVars, issuerVars
    <2>2. staging # NoBatch => resetBatch[c] # staging
      BY <2>1 DEF FlushInv, Taken
    <2>3. staging # NoBatch => closing'[staging] = closing[staging]
      BY <1>0, <2>1, <2>2
    <2> QED  BY <1>a, <1>b, <2>1, <2>3, TakenUnmoved
  <1>10. ASSUME NEW c \in Consumers, Infer(c) \/ H2DDone(c) \/ NotifyH2D(c) \/ Deliver(c)
         PROVE  FlushInv'
    <2>1. UNCHANGED <<staging, ipc, flushBatch, closing>>
      BY <1>10 DEF Infer, H2DDone, NotifyH2D, Deliver, queueVars, batchVars, issuerVars
    <2>2. \A x \in Batches : Taken(x)' <=> Taken(x)
      BY <1>10, TakenSame
    <2> QED  BY <1>a, <1>b, <2>1, <2>2
  <1> QED  BY <1>1, <1>2, <1>3, <1>4, <1>5, <1>6, <1>7, <1>8, <1>9, <1>10, RestsOrMoves

-----------------------------------------------------------------------------
(***************************************************************************)
(* Every batch is in one place.                                            *)
(***************************************************************************)
\* A step that leaves b where it is, and as it is.
Stays(b) ==
    /\ (Staged' = b) <=> (Staged = b)
    /\ Has(idle, b)' <=> Has(idle, b)
    /\ Has(ready, b)' <=> Has(ready, b)
    /\ Got(b)' <=> Got(b)
    /\ Returning(b)' <=> Returning(b)
    /\ Streamed(b)' <=> Streamed(b)

Keeps(b) ==
    /\ tasks'[b] = tasks[b] /\ committed'[b] = committed[b]
    /\ completed'[b] = completed[b] /\ closing'[b] = closing[b]

Filling(b) == \E t \in Threads : tpc[t] = "commit" /\ batchPtr[t] = b
StaysFilling(b) == Filling(b) => committed'[b] > 0 \/ Filling(b)'

Located(b) == \E w \in PlaceNames : LocatedAt(b, w) /\ KeptAt(b, w)

\* A batch that no step moves or changes stays where it is.
LEMMA StaysPut ==
  ASSUME PlaceInv, NEW b \in Batches, Stays(b), Keeps(b), StaysFilling(b)
  PROVE  Located(b)'
  <1>1. PICK w \in PlaceNames : LocatedAt(b, w) /\ KeptAt(b, w)
    BY DEF PlaceInv
  <1>2. LocatedAt(b, w)'
    BY <1>1 DEF LocatedAt, Stays
  <1>3. Fresh(b)' <=> Fresh(b)
    BY DEF Fresh, Keeps
  <1>4. Full(b)' <=> Full(b)
    BY DEF Full, Keeps
  <1>5. KeptAt(b, w)'
    BY <1>1, <1>3, <1>4 DEF KeptAt, Keeps, StaysFilling, Filling
  <1> QED  BY <1>2, <1>5 DEF Located

\* The batch is nowhere else.
LEMMA PlaceIs ==
  ASSUME PlaceInv, NEW b \in Batches
  PROVE  /\ Staged = b => /\ LocatedAt(b, "staging") /\ (committed[b] > 0 \/ Filling(b))
                          /\ ~Has(idle, b) /\ ~Has(ready, b) /\ ~Got(b) /\ ~Returning(b) /\ ~Streamed(b)
         /\ Returning(b) => LocatedAt(b, "callback")
         /\ Has(ready, b) => LocatedAt(b, "ready") /\ Full(b)
         /\ Got(b) => LocatedAt(b, "got") /\ Full(b)
         /\ Streamed(b) => LocatedAt(b, "stream") /\ Full(b)
         /\ Has(idle, b) => LocatedAt(b, "idle") /\ Fresh(b)
  <1>1. PICK w \in PlaceNames : LocatedAt(b, w) /\ KeptAt(b, w)
    BY DEF PlaceInv
  <1> QED  BY <1>1 DEF LocatedAt, KeptAt, Filling

\* PlaceInv and OnceInv, when a step leaves the batches alone or closes the staging
\* batch.
LEMMA PlaceRests ==
  ASSUME TypeOK, MutexInv, FlushInv, PlaceInv, OnceInv, Rests
  PROVE  PlaceInv' /\ OnceInv'
  <1>1. /\ UNCHANGED <<idle, tasks, committed, completed, batchPtr, got, stream, resetBatch>>
        /\ \A t \in Threads : Passes(t)
        /\ closing \in [Batches -> BOOLEAN]
    BY DEF Rests, localVars, streamVars, TypeOK
  <1>2. ASSUME NEW x \in Batches PROVE StaysFilling(x)
    BY <1>1 DEF StaysFilling, Filling, Passes, Active
  <1>3. \A x \in Batches : /\ Has(idle, x)' <=> Has(idle, x)
                           /\ Got(x)' <=> Got(x)
                           /\ Returning(x)' <=> Returning(x)
                           /\ Streamed(x)' <=> Streamed(x)
    BY <1>1 DEF Has, Got, Returning, Streamed
  <1>4. Distinct(ready)' => OnceInv'
    BY <1>1 DEF OnceInv, Distinct, Single, StreamedOnce
  <1>5. CASE ClosesNot /\ FlushMoves
    <2>1. UNCHANGED <<ready, staging, closing>>
      BY <1>5 DEF ClosesNot
    <2>2. Staged' = Staged
      BY <1>5, <2>1 DEF FlushMoves, Staged
    <2>3. ASSUME NEW x \in Batches PROVE Located(x)'
      <3>1. Has(ready, x)' <=> Has(ready, x)
        BY <2>1 DEF Has
      <3>2. Stays(x)
        BY <1>3, <2>2, <3>1 DEF Stays
      <3>3. Keeps(x)
        BY <1>1, <2>1 DEF Keeps
      <3> QED  BY <1>2, <3>2, <3>3, StaysPut
    <2>4. Distinct(ready)'
      BY <2>1 DEF OnceInv, Distinct
    <2> QED  BY <1>4, <2>3, <2>4 DEF PlaceInv, Located
  <1>6. CASE ClosesStaged /\ ipc \notin InFlush /\ ipc' = ipc
    <2>1. /\ staging \in Batches /\ committed[staging] > 0 /\ staging' = NoBatch
          /\ closing' = [closing EXCEPT ![staging] = TRUE] /\ closing'[staging]
          /\ Staged = staging /\ Staged' = NoBatch
          /\ \/ completed[staging] = committed[staging] /\ ready' = Append(ready, staging)
             \/ completed[staging] # committed[staging] /\ ready' = ready
      BY <1>1, <1>6 DEF ClosesStaged, Closes, Readies, InFlush, Staged
    <2>2. LocatedAt(staging, "staging") /\ ~Has(ready, staging)
      BY <2>1, PlaceIs
    <2>3. \/ completed[staging] = committed[staging] /\ Distinct(ready)'
             /\ \A x \in Batches : Has(ready, x)' <=> Has(ready, x) \/ x = staging
          \/ completed[staging] # committed[staging] /\ Distinct(ready)'
             /\ \A x \in Batches : Has(ready, x)' <=> Has(ready, x)
      <3>1. CASE completed[staging] = committed[staging]
        <4>1. ready' = Append(ready, staging)
          BY <2>1, <3>1
        <4> QED  BY <2>1, <2>2, <3>1, <4>1, ReadyMoves DEF OnceInv
      <3>2. CASE completed[staging] # committed[staging]
        BY <2>1, <3>2 DEF Has, Distinct, OnceInv
      <3> QED  BY <3>1, <3>2
    <2>4. ASSUME NEW x \in Batches PROVE Located(x)'
      <3>1. CASE x # staging
        <4>1. Stays(x)
          BY <1>3, <2>1, <2>3, <3>1, NamesAssumption DEF Stays
        <4>2. Keeps(x)
          BY <1>1, <2>1, <3>1 DEF Keeps
        <4> QED  BY <1>2, <4>1, <4>2, StaysPut
      <3>2. CASE x = staging /\ completed[x] = committed[x]
        <4>1. Full(x)'
          BY <1>1, <2>1, <3>2 DEF Full
        <4>2. LocatedAt(x, "ready")'
          BY <1>3, <2>1, <2>2, <2>3, <3>2, NamesAssumption DEF LocatedAt
        <4> QED  BY <4>1, <4>2 DEF Located, KeptAt, PlaceNames
      <3>3. CASE x = staging /\ completed[x] # committed[x]
        <4>1. LocatedAt(x, "none")'
          BY <1>3, <2>1, <2>2, <2>3, <3>3, NamesAssumption DEF LocatedAt
        <4>2. KeptAt(x, "none")'
          BY <1>1, <2>1, <3>3 DEF KeptAt
        <4> QED  BY <4>1, <4>2 DEF Located, PlaceNames
      <3> QED  BY <3>1, <3>2, <3>3
    <2> QED  BY <1>4, <2>3, <2>4 DEF PlaceInv, Located
  <1> QED  BY <1>5, <1>6 DEF Rests

\* PlaceInv and OnceInv, when FlushQueries closes the staging batch.
LEMMA PlaceFlush ==
  ASSUME FlushExclusive, TypeOK, MutexInv, FlushInv, PlaceInv, OnceInv,
         (\E s \in Samples : IssueTask(s)) \/ FlushMark \/ FlushReady \/ FlushUnstage
  PROVE  PlaceInv' /\ OnceInv'
  <1>1. /\ UNCHANGED <<idle, tasks, committed, completed, batchPtr, got, stream, resetBatch, tpc>>
        /\ closing \in [Batches -> BOOLEAN]
    BY DEF IssueTask, FlushMark, FlushReady, FlushUnstage, queueVars, batchVars, threadVars,
           localVars, consumerVars, streamVars, TypeOK
  <1>2. ASSUME NEW x \in Batches PROVE StaysFilling(x)
    BY <1>1 DEF StaysFilling, Filling
  <1>3. \A x \in Batches : /\ Has(idle, x)' <=> Has(idle, x)
                           /\ Got(x)' <=> Got(x)
                           /\ Returning(x)' <=> Returning(x)
                           /\ Streamed(x)' <=> Streamed(x)
    BY <1>1 DEF Has, Got, Returning, Streamed
  <1>4. Distinct(ready)' => OnceInv'
    BY <1>1 DEF OnceInv, Distinct, Single, StreamedOnce
  <1>5. ASSUME UNCHANGED <<ready, closing>>, Staged' = Staged PROVE PlaceInv' /\ OnceInv'
    <2>1. ASSUME NEW x \in Batches PROVE Located(x)'
      <3>1. Has(ready, x)' <=> Has(ready, x)
        BY <1>5 DEF Has
      <3>2. Stays(x)
        BY <1>3, <1>5, <3>1 DEF Stays
      <3>3. Keeps(x)
        BY <1>1, <1>5 DEF Keeps
      <3> QED  BY <1>2, <3>2, <3>3, StaysPut
    <2>2. Distinct(ready)'
      BY <1>5 DEF OnceInv, Distinct
    <2> QED  BY <1>4, <2>1, <2>2 DEF PlaceInv, Located
  <1>6. ASSUME NEW s \in Samples, IssueTask(s) PROVE PlaceInv' /\ OnceInv'
    <2>1. UNCHANGED <<ready, closing>> /\ Staged' = Staged
      BY <1>6 DEF IssueTask, batchVars, Staged
    <2> QED  BY <1>5, <2>1
  <1>7. ASSUME FlushUnstage PROVE PlaceInv' /\ OnceInv'
    <2>1. UNCHANGED <<ready, closing>> /\ Staged' = Staged
      BY <1>7, FlushUnstageStep DEF batchVars
    <2> QED  BY <1>5, <2>1
  <1>8. ASSUME FlushMark PROVE PlaceInv' /\ OnceInv'
    <2>1. /\ staging \in Batches /\ Staged = staging /\ Staged' = staging /\ ready' = ready
          /\ closing' = [closing EXCEPT ![staging] = TRUE]
      BY <1>8, FlushMarkStep DEF queueVars
    <2>2. LocatedAt(staging, "staging") /\ (committed[staging] > 0 \/ Filling(staging))
      BY <2>1, PlaceIs
    <2>3. ASSUME NEW x \in Batches PROVE Stays(x)
      <3>1. Has(ready, x)' <=> Has(ready, x)
        BY <2>1 DEF Has
      <3> QED  BY <1>3, <2>1, <3>1 DEF Stays
    <2>4. ASSUME NEW x \in Batches PROVE Located(x)'
      <3>1. CASE x # staging
        <4>1. Keeps(x)
          BY <1>1, <2>1, <3>1 DEF Keeps
        <4> QED  BY <1>2, <2>3, <4>1, StaysPut
      <3>2. CASE x = staging
        <4>1. LocatedAt(x, "staging")'
          BY <2>2, <2>3, <3>2 DEF LocatedAt, Stays
        <4>2. KeptAt(x, "staging")'
          BY <1>1, <2>2, <3>2 DEF KeptAt, Filling
        <4> QED  BY <4>1, <4>2 DEF Located, PlaceNames
      <3> QED  BY <3>1, <3>2
    <2>5. Distinct(ready)'
      BY <2>1 DEF OnceInv, Distinct
    <2> QED  BY <1>4, <2>4, <2>5 DEF PlaceInv, Located
  <1>9. ASSUME FlushReady PROVE PlaceInv' /\ OnceInv'
    <2>1. /\ staging \in Batches /\ Staged = staging /\ Staged' = NoBatch
          /\ closing[staging] /\ closing' = closing /\ ipc = "ready"
          /\ \/ completed[staging] = committed[staging] /\ ready' = Append(ready, staging)
             \/ completed[staging] # committed[staging] /\ ready' = ready
      BY <1>9, FlushReadyStep DEF Readies, batchVars
    <2>2. /\ LocatedAt(staging, "staging") /\ ~Has(ready, staging)
          /\ committed[staging] > 0 \/ Filling(staging)
      BY <2>1, PlaceIs
    <2>3. committed[staging] > 0
      <3>1. mutex = "issuer"
        BY <2>1 DEF MutexInv, InFlush
      <3>2. ~Filling(staging)
        BY <3>1, NamesAssumption DEF MutexInv, Filling
      <3> QED  BY <2>2, <3>2
    <2>4. \/ completed[staging] = committed[staging] /\ Distinct(ready)'
             /\ \A x \in Batches : Has(ready, x)' <=> Has(ready, x) \/ x = staging
          \/ completed[staging] # committed[staging] /\ Distinct(ready)'
             /\ \A x \in Batches : Has(ready, x)' <=> Has(ready, x)
      <3>1. CASE completed[staging] = committed[staging]
        <4>1. ready' = Append(ready, staging)
          BY <2>1, <3>1
        <4> QED  BY <2>1, <2>2, <3>1, <4>1, ReadyMoves DEF OnceInv
      <3>2. CASE completed[staging] # committed[staging]
        BY <2>1, <3>2 DEF Has, Distinct, OnceInv
      <3> QED  BY <3>1, <3>2
    <2>5. ASSUME NEW x \in Batches PROVE Located(x)'
      <3>1. CASE x # staging
        <4>1. Stays(x)
          BY <1>3, <2>1, <2>4, <3>1, NamesAssumption DEF Stays
        <4>2. Keeps(x)
          BY <1>1, <2>1, <3>1 DEF Keeps
        <4> QED  BY <1>2, <4>1, <4>2, StaysPut
      <3>2. CASE x = staging /\ completed[x] = committed[x]
        <4>1. Full(x)'
          BY <1>1, <2>1, <2>3, <3>2 DEF Full
        <4>2. LocatedAt(x, "ready")'
          BY <1>3, <2>1, <2>2, <2>4, <3>2, NamesAssumption DEF LocatedAt
        <4> QED  BY <4>1, <4>2 DEF Located, KeptAt, PlaceNames
      <3>3. CASE x = staging /\ completed[x] # committed[x]
        <4>1. LocatedAt(x, "none")'
          BY <1>3, <2>1, <2>2, <2>4, <3>3, NamesAssumption DEF LocatedAt
        <4>2. KeptAt(x, "none")'
          BY <1>1, <2>1, <3>3 DEF KeptAt
        <4> QED  BY <4>1, <4>2 DEF Located, PlaceNames
      <3> QED  BY <3>1, <3>2, <3>3
    <2> QED  BY <1>4, <2>4, <2>5 DEF PlaceInv, Located
  <1> QED  BY <1>6, <1>7, <1>8, <1>9

\* PlaceInv and OnceInv, when a staging thread begins, commits, copies or counts.
LEMMA PlaceStage ==
  ASSUME TypeOK, MutexInv, FlushInv, PlaceInv, OnceInv, ThreadInv, ShareInv, NEW t \in Threads,
         StageBegin(t) \/ CommitTask(t) \/ Copy(t) \/ CompleteCopies(t)
  PROVE  PlaceInv' /\ OnceInv'
  <1> DEFINE Goal == PlaceInv' /\ OnceInv'
  <1>1. ASSUME UNCHANGED <<idle, ready, staging, ipc, got, resetBatch, stream>>
        PROVE  (\A x \in Batches : Stays(x)) /\ OnceInv'
    BY <1>1 DEF Stays, Has, Got, Returning, Streamed, Staged, OnceInv, Distinct, Single, StreamedOnce
  <1>2. ASSUME StageBegin(t) PROVE Goal
    <2>1. PICK b \in Batches : Begins(t, b)
      BY <1>2, StageBeginStep
    <2>2. /\ Staged' = b /\ (Staged = b \/ (Staged = NoBatch /\ Has(idle, b)))
          /\ \A x \in Batches : /\ Has(idle, x)' <=> Has(idle, x) /\ (x # b \/ Staged = b)
                                /\ Has(ready, x)' <=> Has(ready, x)
                                /\ (Got(x)' <=> Got(x)) /\ (Returning(x)' <=> Returning(x))
                                /\ Streamed(x)' <=> Streamed(x)
          /\ OnceInv'
      BY <1>2, <2>1, BeginMoves
    <2>3. /\ mutex = Nobody /\ UNCHANGED <<tasks, committed, completed, closing>>
          /\ batchPtr' = [batchPtr EXCEPT ![t] = b] /\ tpc' = [tpc EXCEPT ![t] = "commit"]
          /\ batchPtr \in [Threads -> Batches \cup {NoBatch}] /\ tpc \in [Threads -> ThreadStates]
      BY <1>2, <2>1, PcNow DEF StageBegin, StageBeginAt, Begins, batchVars, TypeOK, PcType
    <2>4. ASSUME NEW x \in Batches PROVE ~Filling(x)
      BY <2>3, NamesAssumption DEF Filling, MutexInv
    <2>5. ASSUME NEW x \in Batches PROVE Located(x)'
      <3>1. CASE x # b
        <4>1. Stays(x)
          BY <2>2, <3>1, NamesAssumption DEF Stays
        <4>2. Keeps(x) /\ StaysFilling(x)
          BY <2>3, <2>4 DEF Keeps, StaysFilling
        <4> QED  BY <4>1, <4>2, StaysPut
      <3>2. CASE x = b
        <4>1. LocatedAt(x, "staging")'
          <5>1. CASE Staged = b
            <6>1. ~Has(idle, x) /\ ~Has(ready, x) /\ ~Got(x) /\ ~Returning(x) /\ ~Streamed(x)
              BY <3>2, <5>1, PlaceIs
            <6> QED  BY <2>2, <3>2, <6>1 DEF LocatedAt
          <5>2. CASE Staged = NoBatch /\ Has(idle, b)
            <6>1. ~Has(ready, x) /\ ~Got(x) /\ ~Returning(x) /\ ~Streamed(x)
              BY <3>2, <5>2, IdleFacts
            <6> QED  BY <2>2, <3>2, <5>2, <6>1, NamesAssumption DEF LocatedAt
          <5> QED  BY <2>2, <5>1, <5>2
        <4>2. KeptAt(x, "staging")'
          BY <2>3, <3>2 DEF KeptAt
        <4> QED  BY <4>1, <4>2 DEF Located, PlaceNames
      <3> QED  BY <3>1, <3>2
    <2> QED  BY <2>2, <2>5 DEF PlaceInv, Located
  <1>3. ASSUME CommitTask(t) PROVE Goal
    <2>1. /\ UNCHANGED <<idle, ready, staging, ipc, got, resetBatch, stream, completed, closing, tpc, batchPtr>>
      BY <1>3 DEF CommitTask, consumerVars, streamVars, issuerVars
    <2> DEFINE b == batchPtr[t]
    <2>2. /\ b \in Batches /\ staging = b /\ tpc[t] = "commit"
          /\ committed' = [committed EXCEPT ![b] = @ + Pairs[Head(tasksQ)]]
          /\ tasks' = [tasks EXCEPT ![b] = Append(@, Head(tasksQ))]
      BY <1>3, CommitTaskStep
    <2>3. committed \in [Batches -> Nat] /\ tasks \in [Batches -> Seq(Samples)]
      BY SizesType DEF TypeOK
    <2>4. mutex # "issuer"
      <3>1. mutex = t
        BY <2>2 DEF MutexInv
      <3> QED  BY <3>1, NamesAssumption
    <2>5. Staged = b
      BY <2>2, <2>4 DEF Staged, MutexInv, InFlush
    <2>6. (\A x \in Batches : Stays(x)) /\ OnceInv'
      BY <1>1, <2>1
    <2> HIDE DEF b
    <2>7. LocatedAt(b, "staging")
      BY <2>2, <2>5, PlaceIs
    <2>8. ASSUME NEW x \in Batches PROVE Located(x)'
      <3>1. CASE x # b
        <4>1. Keeps(x)
          BY <2>1, <2>2, <2>3, <3>1 DEF Keeps
        <4>2. StaysFilling(x)
          BY <2>1 DEF StaysFilling, Filling
        <4> QED  BY <2>6, <4>1, <4>2, StaysPut
      <3>2. CASE x = b
        <4>1. LocatedAt(x, "staging")'
          BY <2>6, <2>7, <3>2 DEF LocatedAt, Stays
        <4>2. KeptAt(x, "staging")'
          BY <2>1, <2>2, <3>2 DEF KeptAt, b
        <4> QED  BY <4>1, <4>2 DEF Located, PlaceNames
      <3> QED  BY <3>1, <3>2
    <2> QED  BY <2>6, <2>8 DEF PlaceInv, Located
  <1>4. ASSUME Copy(t) PROVE Goal
    <2>1. /\ UNCHANGED <<idle, ready, staging, ipc, got, resetBatch, stream, tasks, committed,
                         completed, closing, batchPtr>>
          /\ tpc[t] = "copy" /\ tpc' = [tpc EXCEPT ![t] = "complete"] /\ tpc \in [Threads -> ThreadStates]
      BY <1>4, PcNow DEF Copy, queueVars, localVars, consumerVars, streamVars, issuerVars, PcType
    <2>2. (\A x \in Batches : Stays(x)) /\ OnceInv'
      BY <1>1, <2>1
    <2>3. \A x \in Batches : Keeps(x) /\ StaysFilling(x)
      BY <2>1 DEF Keeps, StaysFilling, Filling
    <2> QED  BY <2>2, <2>3, StaysPut DEF PlaceInv, Located
  <1>5. ASSUME CompleteCopies(t) PROVE Goal
    <2> DEFINE b == batchPtr[t]
               done == completed[b] + pairsToCopy[t]
    <2>1. /\ b \in Batches /\ tpc[t] = "complete" /\ tpc' = [tpc EXCEPT ![t] = "woken"]
          /\ done \in Nat /\ done > 0 /\ done <= committed[b] /\ completed[b] # committed[b]
          /\ mutex = Nobody /\ completed' = [completed EXCEPT ![b] = done]
          /\ \/ done = committed[b] /\ closing[b] /\ ready' = Append(ready, b)
             \/ ~(done = committed[b] /\ closing[b]) /\ ready' = ready
      BY <1>5, CompleteCopiesStep
    <2>2. UNCHANGED <<idle, staging, ipc, got, resetBatch, stream, tasks, committed, closing, batchPtr>>
      BY <1>5, CompleteCopiesStep DEF streamVars, localVars, issuerVars
    <2>3. /\ tpc \in [Threads -> ThreadStates] /\ completed \in [Batches -> Nat]
          /\ committed[b] \in Nat
      BY <2>1, PcNow, SizesType DEF PcType
    <2> HIDE DEF done
    <2>4. Active(t) /\ ~Taken(b)
      BY <2>1 DEF Active, ThreadInv
    <2>5. ~Has(ready, b)
      <3>1. ~Full(b)
        BY <2>1 DEF Full
      <3> QED  BY <2>1, <3>1, ReadyFacts
    <2> HIDE DEF b
    <2>6. \A x \in Batches : x # b => Keeps(x)
      BY <2>1, <2>2, <2>3 DEF Keeps
    <2>7. \A x \in Batches : StaysFilling(x)
      BY <2>1, <2>2, <2>3 DEF StaysFilling, Filling
    <2>8. /\ Staged' = Staged
          /\ \A x \in Batches : /\ Has(idle, x)' <=> Has(idle, x)
                                /\ Got(x)' <=> Got(x)
                                /\ Returning(x)' <=> Returning(x)
                                /\ Streamed(x)' <=> Streamed(x)
          /\ Distinct(ready)' => OnceInv'
      BY <2>2 DEF Has, Got, Returning, Streamed, Staged, OnceInv, Distinct, Single, StreamedOnce
    <2>9. CASE done = committed[b] /\ closing[b]
      <3>1. ready' = Append(ready, b)
        BY <2>1, <2>9
      <3>2. /\ \A x \in Batches : Has(ready, x)' <=> Has(ready, x) \/ x = b
            /\ Distinct(ready)'
        BY <2>1, <2>5, <3>1, ReadyMoves DEF OnceInv
      <3>3. Staged # b
        BY <2>1, <2>9, NamesAssumption DEF Staged, FlushInv, MutexInv, InFlush
      <3>4. ASSUME NEW x \in Batches PROVE Located(x)'
        <4>1. CASE x # b
          <5>1. Stays(x)
            BY <2>8, <3>2, <4>1 DEF Stays
          <5> QED  BY <2>6, <2>7, <4>1, <5>1, StaysPut
        <4>2. CASE x = b
          <5>1. Full(x)'
            BY <2>1, <2>2, <2>3, <2>9, <4>2 DEF Full
          <5>2. LocatedAt(x, "ready")'
            BY <2>4, <2>8, <3>2, <3>3, <4>2 DEF LocatedAt, Taken
          <5> QED  BY <5>1, <5>2 DEF Located, KeptAt, PlaceNames
        <4> QED  BY <4>1, <4>2
      <3> QED  BY <2>8, <3>2, <3>4 DEF PlaceInv, Located
    <2>10. CASE ~(done = committed[b] /\ closing[b])
      <3>1. ready' = ready
        BY <2>1, <2>10
      <3>2. \A x \in Batches : Has(ready, x)' <=> Has(ready, x)
        BY <3>1 DEF Has
      <3>3. \A x \in Batches : Stays(x)
        BY <2>8, <3>2 DEF Stays
      <3>4. ASSUME NEW x \in Batches PROVE Located(x)'
        <4>1. CASE x # b
          BY <2>6, <2>7, <3>3, <4>1, StaysPut
        <4>2. CASE x = b
          <5>1. PICK w \in PlaceNames : LocatedAt(x, w) /\ KeptAt(x, w)
            BY DEF PlaceInv
          <5>2. w \in {"staging", "none"}
            BY <2>1, <2>4, <2>5, <4>2, <5>1 DEF LocatedAt, PlaceNames, Taken
          <5>3. LocatedAt(x, w)'
            BY <3>3, <5>1 DEF LocatedAt, Stays
          <5>4. KeptAt(x, w)'
            <6>1. w = "none" => closing'[x] /\ completed'[x] # committed'[x]
              BY <2>1, <2>2, <2>3, <2>10, <4>2, <5>1 DEF KeptAt
            <6>2. w = "staging" => committed'[x] > 0 \/ Filling(x)'
              BY <2>2, <2>7, <5>1 DEF KeptAt, StaysFilling, Filling
            <6> QED  BY <5>2, <6>1, <6>2 DEF KeptAt, Filling
          <5> QED  BY <5>3, <5>4 DEF Located
        <4> QED  BY <4>1, <4>2
      <3>5. Distinct(ready)'
        BY <3>1 DEF OnceInv, Distinct
      <3> QED  BY <2>8, <3>4, <3>5 DEF PlaceInv, Located
    <2> QED  BY <2>9, <2>10
  <1> HIDE DEF Goal
  <1>6. Goal
    BY <1>2, <1>3, <1>4, <1>5
  <1> QED  BY <1>6 DEF Goal

\* PlaceInv and OnceInv, when a consumer or its stream passes a batch on.
LEMMA PlaceConsumer ==
  ASSUME TypeOK, MutexInv, WaitInv, PlaceInv, OnceInv, SlotInv, NEW c \in Consumers,
         \/ GetBatch(c) \/ Infer(c) \/ H2DDone(c) \/ ResetBatch(c) \/ NotifyH2D(c) \/ Deliver(c)
  PROVE  PlaceInv' /\ OnceInv'
  <1> DEFINE Goal == PlaceInv' /\ OnceInv'
  <1>0. ASSUME ~ResetBatch(c)
        PROVE  UNCHANGED <<tasks, committed, completed, closing, batchPtr>>
    BY <1>0 DEF GetBatch, Infer, H2DDone, NotifyH2D, Deliver, batchVars, localVars, threadVars
  <1>t. ASSUME ~NotifyH2D(c) PROVE tpc' = tpc
    BY <1>t DEF GetBatch, Infer, H2DDone, ResetBatch, Deliver, threadVars
  <1>n. ASSUME NotifyH2D(c) PROVE Woken(Threads, tpc, tpc')
    BY <1>n, PcNow, WokenStates, WakeOneStep DEF NotifyH2D, PcType
  <1>k. ASSUME ~ResetBatch(c), NEW x \in Batches PROVE Keeps(x) /\ StaysFilling(x)
    <2>1. UNCHANGED <<tasks, committed, completed, closing, batchPtr>>
      BY <1>0, <1>k
    <2>2. \A u \in Threads : tpc[u] = "commit" => tpc'[u] = "commit"
      BY <1>t, <1>n DEF Woken
    <2> QED  BY <2>1, <2>2 DEF Keeps, StaysFilling, Filling
  <1>f. ASSUME ~ResetBatch(c), NEW x \in Batches PROVE (Full(x)' <=> Full(x)) /\ (Fresh(x)' <=> Fresh(x))
    BY <1>0, <1>f DEF Full, Fresh
  <1>r. ~(ResetBatch(c) /\ (NotifyH2D(c) \/ Infer(c) \/ H2DDone(c) \/ Deliver(c) \/ GetBatch(c)))
    <2>1. ASSUME ResetBatch(c) PROVE resetBatch[c] # NoBatch /\ tasks[resetBatch[c]] # <<>>
                                     /\ tasks'[resetBatch[c]] = <<>>
      BY <2>1, ResetBatchStep DEF ResetBatch, TypeOK
    <2>2. ASSUME NotifyH2D(c) \/ Infer(c) \/ H2DDone(c) \/ Deliver(c) \/ GetBatch(c)
          PROVE tasks' = tasks
      BY <2>2 DEF GetBatch, Infer, H2DDone, NotifyH2D, Deliver, batchVars
    <2> QED  BY <2>1, <2>2
  <1>1. ASSUME GetBatch(c) PROVE Goal
    <2> DEFINE b == Head(ready)
    <2>1. /\ b \in Batches /\ Has(ready, b) /\ Staged' = Staged
          /\ \A x \in Batches : /\ Has(idle, x)' <=> Has(idle, x)
                                /\ Has(ready, x)' <=> Has(ready, x) /\ x # b
                                /\ Got(x)' <=> Got(x) \/ x = b
                                /\ Returning(x)' <=> Returning(x)
                                /\ Streamed(x)' <=> Streamed(x)
          /\ OnceInv'
      BY <1>1, GetMoves
    <2> HIDE DEF b
    <2>2. LocatedAt(b, "ready") /\ Full(b)
      BY <2>1, PlaceIs
    <2>3. ASSUME NEW x \in Batches PROVE Located(x)'
      <3>1. CASE x # b
        <4>1. Stays(x)
          BY <2>1, <3>1 DEF Stays
        <4> QED  BY <1>1, <1>k, <1>r, <4>1, StaysPut
      <3>2. CASE x = b
        <4>1. LocatedAt(x, "got")'
          BY <2>1, <2>2, <3>2 DEF LocatedAt
        <4>2. Full(x)'
          BY <1>1, <1>f, <1>r, <2>2, <3>2
        <4> QED  BY <4>1, <4>2 DEF Located, KeptAt, PlaceNames
      <3> QED  BY <3>1, <3>2
    <2> QED  BY <2>1, <2>3 DEF PlaceInv, Located
  <1>2. ASSUME Infer(c) PROVE Goal
    <2> DEFINE b == got[c]
    <2>1. /\ b \in Batches /\ Got(b) /\ Staged' = Staged
          /\ \A x \in Batches : /\ Has(idle, x)' <=> Has(idle, x)
                                /\ Has(ready, x)' <=> Has(ready, x)
                                /\ Got(x)' <=> Got(x) /\ x # b
                                /\ Returning(x)' <=> Returning(x)
                                /\ Streamed(x)' <=> Streamed(x) \/ x = b
          /\ OnceInv'
      BY <1>2, InferMoves
    <2> HIDE DEF b
    <2>2. LocatedAt(b, "got") /\ Full(b)
      BY <2>1, PlaceIs
    <2>3. ASSUME NEW x \in Batches PROVE Located(x)'
      <3>1. CASE x # b
        <4>1. Stays(x)
          BY <2>1, <3>1 DEF Stays
        <4> QED  BY <1>2, <1>k, <1>r, <4>1, StaysPut
      <3>2. CASE x = b
        <4>1. LocatedAt(x, "stream")'
          BY <2>1, <2>2, <3>2 DEF LocatedAt
        <4>2. Full(x)'
          BY <1>2, <1>f, <1>r, <2>2, <3>2
        <4> QED  BY <4>1, <4>2 DEF Located, KeptAt, PlaceNames
      <3> QED  BY <3>1, <3>2
    <2> QED  BY <2>1, <2>3 DEF PlaceInv, Located
  <1>3. ASSUME H2DDone(c) PROVE Goal
    <2>0. PICK b \in Batches, i \in DOMAIN stream[c] : Copied(c, i, b)
      BY <1>3, H2DStep
    <2>1. /\ Streamed(b) /\ Staged' = Staged
          /\ \A x \in Batches : /\ Has(idle, x)' <=> Has(idle, x)
                                /\ Has(ready, x)' <=> Has(ready, x)
                                /\ Got(x)' <=> Got(x)
                                /\ Returning(x)' <=> Returning(x) \/ x = b
                                /\ Streamed(x)' <=> Streamed(x) /\ x # b
          /\ OnceInv'
      BY <1>3, <2>0, H2DMoves
    <2>2. LocatedAt(b, "stream") /\ Full(b)
      BY <2>1, PlaceIs
    <2>3. ASSUME NEW x \in Batches PROVE Located(x)'
      <3>1. CASE x # b
        <4>1. Stays(x)
          BY <2>1, <3>1 DEF Stays
        <4> QED  BY <1>3, <1>k, <1>r, <4>1, StaysPut
      <3>2. CASE x = b
        <4>1. LocatedAt(x, "callback")'
          BY <2>1, <2>2, <3>2 DEF LocatedAt
        <4>2. Full(x)'
          BY <1>3, <1>f, <1>r, <2>2, <3>2
        <4> QED  BY <4>1, <4>2 DEF Located, KeptAt, PlaceNames
      <3> QED  BY <3>1, <3>2
    <2> QED  BY <2>1, <2>3 DEF PlaceInv, Located
  <1>4. ASSUME ResetBatch(c) PROVE Goal
    <2> DEFINE b == resetBatch[c]
    <2>1. /\ b \in Batches /\ Returning(b)
          /\ committed' = [committed EXCEPT ![b] = 0]
          /\ completed' = [completed EXCEPT ![b] = 0]
          /\ closing' = [closing EXCEPT ![b] = FALSE]
          /\ tasks' = [tasks EXCEPT ![b] = <<>>]
          /\ UNCHANGED <<idle, ready, staging, ipc, got, resetBatch, stream, tpc, batchPtr>>
      BY <1>4, ResetBatchStep DEF queueVars, consumerVars, streamVars, threadVars, localVars, issuerVars
    <2>2. /\ committed \in [Batches -> Nat] /\ completed \in [Batches -> Nat]
          /\ closing \in [Batches -> BOOLEAN] /\ tasks \in [Batches -> Seq(Samples)]
      BY SizesType DEF TypeOK
    <2> HIDE DEF b
    <2>3. LocatedAt(b, "callback")
      BY <2>1, PlaceIs
    <2>4. (\A x \in Batches : Stays(x)) /\ OnceInv'
      BY <2>1 DEF Stays, Has, Got, Returning, Streamed, Staged, OnceInv, Distinct, Single, StreamedOnce
    <2>5. ASSUME NEW x \in Batches PROVE Located(x)'
      <3>1. CASE x # b
        <4>1. Keeps(x)
          BY <2>1, <2>2, <3>1 DEF Keeps
        <4>2. StaysFilling(x)
          BY <2>1 DEF StaysFilling, Filling
        <4> QED  BY <2>4, <4>1, <4>2, StaysPut
      <3>2. CASE x = b
        <4>1. LocatedAt(x, "callback")'
          BY <2>3, <2>4, <3>2 DEF LocatedAt, Stays
        <4>2. Fresh(x)'
          BY <2>1, <2>2, <3>2 DEF Fresh
        <4> QED  BY <4>1, <4>2 DEF Located, KeptAt, PlaceNames
      <3> QED  BY <3>1, <3>2
    <2> QED  BY <2>4, <2>5 DEF PlaceInv, Located
  <1>5. ASSUME NotifyH2D(c) PROVE Goal
    <2> DEFINE b == resetBatch[c]
    <2>1. /\ b \in Batches /\ Returning(b) /\ Staged' = Staged /\ tasks[b] = <<>>
          /\ \A x \in Batches : /\ Has(idle, x)' <=> Has(idle, x) \/ x = b
                                /\ Has(ready, x)' <=> Has(ready, x)
                                /\ Got(x)' <=> Got(x)
                                /\ Returning(x)' <=> Returning(x) /\ x # b
                                /\ Streamed(x)' <=> Streamed(x)
          /\ OnceInv'
      BY <1>5, NotifyMoves
    <2> HIDE DEF b
    <2>2. LocatedAt(b, "callback") /\ (Fresh(b) \/ Full(b))
      BY <2>1, PlaceIs, ReturningFacts
    <2>3. Fresh(b)
      <3>1. committed[b] = 0
        <4>1. committed[b] = Len(SlotsOf(tasks[b]))
          BY <2>1 DEF SlotInv
        <4>2. SlotsOf(tasks[b]) = <<>>
          BY <2>1, SlotsEmpty
        <4> QED  BY <4>1, <4>2
      <3> QED  BY <2>2, <3>1 DEF Full
    <2>4. ASSUME NEW x \in Batches PROVE Located(x)'
      <3>1. CASE x # b
        <4>1. Stays(x)
          BY <2>1, <3>1 DEF Stays
        <4> QED  BY <1>5, <1>k, <1>r, <4>1, StaysPut
      <3>2. CASE x = b
        <4>1. LocatedAt(x, "idle")'
          BY <2>1, <2>2, <3>2 DEF LocatedAt
        <4>2. Fresh(x)'
          BY <1>5, <1>f, <1>r, <2>3, <3>2
        <4> QED  BY <4>1, <4>2 DEF Located, KeptAt, PlaceNames
      <3> QED  BY <3>1, <3>2
    <2> QED  BY <2>1, <2>4 DEF PlaceInv, Located
  <1>6. ASSUME Deliver(c) PROVE Goal
    <2>1. (\A x \in Batches : Stays(x)) /\ OnceInv'
      BY <1>6, DeliverMoves DEF Stays
    <2> QED  BY <1>6, <1>k, <1>r, <2>1, StaysPut DEF PlaceInv, Located
  <1> HIDE DEF Goal
  <1>7. Goal
    BY <1>1, <1>2, <1>3, <1>4, <1>5, <1>6
  <1> QED  BY <1>7 DEF Goal

\* Every step keeps PlaceInv and OnceInv.
LEMMA PlaceNext ==
  ASSUME FlushExclusive, TypeOK, MutexInv, WaitInv, FlushInv, PlaceInv, OnceInv, ThreadInv, ShareInv,
         SlotInv, Step
  PROVE  PlaceInv' /\ OnceInv'
  BY RestsOrMoves, PlaceRests, PlaceFlush, PlaceStage, PlaceConsumer

-----------------------------------------------------------------------------
(***************************************************************************)
(* The threads and their shares.                                           *)
(***************************************************************************)
\* Steps of others than the staging threads that are at work on a batch.
Passing == UNCHANGED localVars /\ \A t \in Threads : Passes(t)

\* The steps, by what they do to the shares of the threads.
LEMMA PassingStep ==
  ASSUME TypeOK, MutexInv, ThreadInv, FlushInv, PlaceInv, FlushExclusive, Step
  PROVE  \/ Passing /\ UNCHANGED <<tasks, committed, completed, buf>>
         \/ Passing /\ \E c \in Consumers : ResetBatch(c)
         \/ \E t \in Threads : StageBegin(t) \/ CommitTask(t) \/ Copy(t) \/ CompleteCopies(t)
  <1>1. ASSUME UNCHANGED threadVars PROVE Passing
    BY <1>1 DEF Passing, Passes, threadVars
  <1>2. CASE Rests
    BY <1>2 DEF Rests, Passing
  <1>3. CASE (\E s \in Samples : IssueTask(s)) \/ FlushMark \/ FlushReady \/ FlushUnstage
    <2>1. UNCHANGED threadVars /\ UNCHANGED <<tasks, committed, completed, buf>>
      BY <1>3 DEF IssueTask, FlushMark, FlushReady, FlushUnstage, batchVars
    <2> QED  BY <1>1, <2>1
  <1>4. ASSUME NEW c \in Consumers, GetBatch(c) \/ Infer(c) \/ H2DDone(c) \/ Deliver(c)
        PROVE  Passing /\ UNCHANGED <<tasks, committed, completed, buf>>
    <2>1. UNCHANGED threadVars /\ UNCHANGED <<tasks, committed, completed, buf>>
      BY <1>4 DEF GetBatch, Infer, H2DDone, Deliver, batchVars
    <2> QED  BY <1>1, <2>1
  <1>5. ASSUME NEW c \in Consumers, ResetBatch(c) PROVE Passing
    BY <1>1, <1>5 DEF ResetBatch
  <1>6. ASSUME NEW c \in Consumers, NotifyH2D(c)
        PROVE  Passing /\ UNCHANGED <<tasks, committed, completed, buf>>
    <2>1. UNCHANGED localVars /\ UNCHANGED <<tasks, committed, completed, buf>>
      BY <1>6 DEF NotifyH2D, batchVars
    <2>2. Woken(Threads, tpc, tpc')
      BY <1>6, PcNow, WokenStates, WakeOneStep DEF NotifyH2D, PcType
    <2>3. \A t \in Threads : Passes(t)
      BY <2>2 DEF Woken, Passes, Active
    <2> QED  BY <2>1, <2>3 DEF Passing
  <1> QED  BY <1>2, <1>3, <1>4, <1>5, <1>6, RestsOrMoves

\* A share stays as it is while its thread passes from one part of its work to the
\* next.
LEMMA PassingFacts ==
  ASSUME Passing, NEW t \in Threads
  PROVE  /\ batchPtr'[t] = batchPtr[t] /\ pairsOffset'[t] = pairsOffset[t]
         /\ pairsToCopy'[t] = pairsToCopy[t] /\ maxPairs'[t] = maxPairs[t]
         /\ tasksOffset'[t] = tasksOffset[t]
         /\ Share(t)' = Share(t)
         /\ Active(t)' => Active(t)
         /\ Active(t) => Active(t)' \/ pairsToCopy[t] = 0
         /\ tpc'[t] = "commit" => tpc[t] = "commit"
         /\ tpc'[t] = "complete" => tpc[t] = "complete"
         /\ tpc'[t] = "committed" =>
                tpc[t] = "committed" \/ (tpc[t] = "commit" /\ committed[batchPtr[t]] > 0)
         /\ tpc'[t] = "copy" => tpc[t] = "copy" \/ pairsToCopy[t] > 0
  <1>1. UNCHANGED localVars /\ Passes(t)
    BY DEF Passing
  <1> QED  BY <1>1 DEF localVars, Passes, Active, Share

\* What is asked of an active thread.
Fair(t) ==
    /\ batchPtr[t] \in Batches /\ ~Taken(batchPtr[t])
    /\ pairsOffset[t] + pairsToCopy[t] <= committed[batchPtr[t]]
    /\ tpc[t] \in {"commit", "committed"} =>
            pairsOffset[t] + pairsToCopy[t] = committed[batchPtr[t]]
    /\ tpc[t] = "commit" =>
            /\ staging = batchPtr[t]
            /\ maxPairs[t] = Smaller(MaxPairsPerThread, MaxBatchSize - pairsOffset[t])
            /\ pairsToCopy[t] <= maxPairs[t]
            /\ pairsToCopy[t] = 0 => tasksQ # <<>>
    /\ tpc[t] = "committed" => /\ committed[batchPtr[t]] > 0
                               /\ staging = batchPtr[t] \/ closing[batchPtr[t]]
    /\ tpc[t] \in {"copy", "complete"} => pairsToCopy[t] > 0

\* ThreadInv, a thread at a time.
LEMMA FairIs == ThreadInv <=> \A t \in Threads : Active(t) => Fair(t)
  BY DEF ThreadInv, Fair

\* A passing step keeps what is asked.
LEMMA FairPasses ==
  ASSUME ThreadInv, Passing, NEW t \in Threads, Active(t)',
         \A x \in Batches : x = batchPtr[t] => ~Taken(x)' /\ committed'[x] = committed[x],
         tpc'[t] = "commit" => staging' = staging /\ (tasksQ # <<>> => tasksQ' # <<>>),
         tpc'[t] = "committed" => \/ staging' = staging /\ (closing[batchPtr[t]] => closing'[batchPtr[t]])
                                  \/ closing'[batchPtr[t]]
  PROVE  Fair(t)'
  <1>1. Fair(t) /\ batchPtr[t] \in Batches
    BY PassingFacts DEF ThreadInv, Fair
  <1>2. batchPtr'[t] = batchPtr[t] /\ committed'[batchPtr[t]] = committed[batchPtr[t]]
    BY <1>1, PassingFacts
  <1>3. ~Taken(batchPtr[t])'
    <2>1. PICK x \in Batches : x = batchPtr[t]
      BY <1>1
    <2>2. batchPtr'[t] = x /\ ~Taken(x)'
      BY <1>2, <2>1
    <2> QED  BY <2>2
  <1>4. /\ pairsOffset'[t] = pairsOffset[t]
        /\ pairsToCopy'[t] = pairsToCopy[t] /\ maxPairs'[t] = maxPairs[t]
        /\ tpc'[t] = "commit" => tpc[t] = "commit"
        /\ tpc'[t] = "committed" =>
                tpc[t] = "committed" \/ (tpc[t] = "commit" /\ committed[batchPtr[t]] > 0)
        /\ tpc'[t] = "copy" => tpc[t] = "copy" \/ pairsToCopy[t] > 0
        /\ tpc'[t] = "complete" => tpc[t] = "complete"
    BY PassingFacts
  <1>5. (tpc[t] \in {"commit", "committed"})' => tpc[t] \in {"commit", "committed"}
    BY <1>4
  <1>6. (tpc[t] = "committed")' => /\ committed[batchPtr[t]] > 0
                                   /\ staging' = batchPtr[t] \/ closing'[batchPtr[t]]
    BY <1>1, <1>4 DEF Fair
  <1>7. (tpc[t] = "commit")' => /\ staging' = batchPtr[t]
                                /\ maxPairs[t] = Smaller(MaxPairsPerThread, MaxBatchSize - pairsOffset[t])
                                /\ pairsToCopy[t] <= maxPairs[t]
                                /\ pairsToCopy[t] = 0 => tasksQ' # <<>>
    BY <1>1, <1>4 DEF Fair
  <1>8. (tpc[t] \in {"copy", "complete"})' => pairsToCopy[t] > 0
    BY <1>1, <1>4 DEF Fair
  <1>9. /\ (tpc[t] \in {"commit", "committed"})' => pairsOffset[t] + pairsToCopy[t] = committed[batchPtr[t]]
        /\ pairsOffset[t] + pairsToCopy[t] <= committed[batchPtr[t]]
    BY <1>1, <1>5 DEF Fair
  <1> QED  BY <1>1, <1>2, <1>3, <1>4, <1>6, <1>7, <1>8, <1>9 DEF Fair

\* Every step keeps ThreadInv.
LEMMA ThreadNext ==
  ASSUME FlushExclusive, TypeOK, MutexInv, WaitInv, FlushInv, PlaceInv, OnceInv, ThreadInv, ShareInv,
         Step
  PROVE  ThreadInv'
  <1> DEFINE Goal == \A t \in Threads : Active(t)' => Fair(t)'
  <1>0. /\ closing \in [Batches -> BOOLEAN] /\ tpc \in [Threads -> ThreadStates]
        /\ batchPtr \in [Threads -> Batches \cup {NoBatch}]
    BY PcNow DEF TypeOK, PcType
  <1>1. ASSUME Rests PROVE Goal
    <2>1. ASSUME NEW t \in Threads, Active(t)' PROVE Fair(t)'
      <3>1. Passing
        BY <1>1 DEF Rests, Passing
      <3>2. \A x \in Batches : (Taken(x)' <=> Taken(x)) /\ committed'[x] = committed[x]
        BY <1>1, TakenUnmoved DEF Rests, streamVars
      <3>3. Active(t) /\ batchPtr[t] \in Batches /\ ~Taken(batchPtr[t])
        BY <2>1, <3>1, PassingFacts DEF ThreadInv
      <3>4. \A x \in Batches : x = batchPtr[t] => ~Taken(x)' /\ committed'[x] = committed[x]
        BY <3>2, <3>3
      <3>5. tpc'[t] = "commit" => staging' = staging /\ (tasksQ # <<>> => tasksQ' # <<>>)
        BY <1>1 DEF Rests, ClosesNot
      <3>6. tpc'[t] = "committed" =>
                \/ staging' = staging /\ (closing[batchPtr[t]] => closing'[batchPtr[t]])
                \/ closing'[batchPtr[t]]
        <4>1. CASE ClosesNot
          BY <4>1 DEF ClosesNot
        <4>2. CASE ClosesStaged
          <5>1. closing' = [closing EXCEPT ![staging] = TRUE]
            BY <4>2 DEF ClosesStaged, Closes
          <5>2. tpc'[t] = "committed" => staging = batchPtr[t] \/ closing[batchPtr[t]]
            BY <3>1, <3>3, PassingFacts DEF ThreadInv
          <5> QED  BY <1>0, <3>3, <5>1, <5>2
        <4> QED  BY <1>1, <4>1, <4>2 DEF Rests
      <3> QED  BY <2>1, <3>1, <3>4, <3>5, <3>6, FairPasses
    <2> QED  BY <2>1
  <1>2. ASSUME Passing, UNCHANGED committed,
               \A t \in Threads : tpc[t] \in {"commit", "committed"} =>
                    /\ staging' = staging /\ (tasksQ # <<>> => tasksQ' # <<>>)
                    /\ closing[batchPtr[t]] => closing'[batchPtr[t]],
               \A x \in Batches : Taken(x)' <=> Taken(x)
        PROVE  Goal
    <2>1. ASSUME NEW t \in Threads, Active(t)' PROVE Fair(t)'
      <3>1. Active(t) /\ batchPtr[t] \in Batches /\ ~Taken(batchPtr[t])
        BY <1>2, <2>1, PassingFacts DEF ThreadInv
      <3>2. \A x \in Batches : x = batchPtr[t] => ~Taken(x)' /\ committed'[x] = committed[x]
        BY <1>2, <3>1
      <3>3. /\ tpc'[t] = "commit" => tpc[t] = "commit"
            /\ tpc'[t] = "committed" => tpc[t] \in {"commit", "committed"}
        BY <1>2, PassingFacts
      <3>4. tpc'[t] = "commit" => staging' = staging /\ (tasksQ # <<>> => tasksQ' # <<>>)
        BY <1>2, <3>3
      <3>5. tpc'[t] = "committed" => staging' = staging /\ (closing[batchPtr[t]] => closing'[batchPtr[t]])
        BY <1>2, <3>3
      <3> QED  BY <1>2, <2>1, <3>2, <3>4, <3>5, FairPasses
    <2> QED  BY <2>1
  <1>3. ASSUME UNCHANGED threadVars PROVE Passing
    BY <1>3 DEF Passing, Passes, threadVars
  <1>4. ASSUME NEW s \in Samples, IssueTask(s) PROVE Goal
    <2>1. Passing /\ UNCHANGED <<committed, staging, closing, idle, got, resetBatch, stream>>
      BY <1>3, <1>4 DEF IssueTask, batchVars, consumerVars, streamVars
    <2>2. tasksQ' # <<>>
      BY <1>4 DEF IssueTask, TypeOK
    <2> QED  BY <1>2, <2>1, <2>2, TakenUnmoved
  <1>5. ASSUME FlushMark PROVE Goal
    <2>1. /\ Passing /\ UNCHANGED <<committed, staging, tasksQ, idle, got, resetBatch, stream>>
          /\ closing' = [closing EXCEPT ![staging] = TRUE]
      BY <1>3, <1>5, FlushMarkStep DEF queueVars, consumerVars, streamVars
    <2>2. \A t \in Threads : closing[batchPtr[t]] => closing'[batchPtr[t]]
      BY <1>0, <2>1
    <2> QED  BY <1>2, <2>1, <2>2, TakenUnmoved
  <1>6. ASSUME FlushReady PROVE Goal
    <2>1. Passing /\ UNCHANGED <<committed, staging, tasksQ, closing, idle, got, resetBatch, stream>>
      BY <1>3, <1>6, FlushReadyStep DEF batchVars, streamVars
    <2> QED  BY <1>2, <2>1, TakenUnmoved
  <1>7. ASSUME FlushUnstage PROVE Goal
    <2>1. Passing /\ UNCHANGED <<committed, tasksQ, closing, idle, got, resetBatch, stream>>
      BY <1>3, <1>7, FlushUnstageStep DEF batchVars, consumerVars, streamVars
    <2>2. mutex = "issuer"
      BY <1>7 DEF FlushUnstage, MutexInv, InFlush
    <2>3. \A t \in Threads : tpc[t] \notin {"commit", "committed"}
      BY <2>2, NamesAssumption DEF MutexInv
    <2> QED  BY <1>2, <2>1, <2>3, TakenUnmoved
  <1>8. ASSUME NEW c \in Consumers, Infer(c) \/ H2DDone(c) \/ NotifyH2D(c) \/ Deliver(c) PROVE Goal
    <2>1. UNCHANGED <<committed, staging, tasksQ, closing>>
      BY <1>8 DEF Infer, H2DDone, NotifyH2D, Deliver, batchVars, queueVars
    <2>2. Passing
      <3>1. CASE NotifyH2D(c)
        <4>1. UNCHANGED localVars
          BY <3>1 DEF NotifyH2D
        <4>2. Woken(Threads, tpc, tpc')
          BY <1>0, <3>1, WokenStates, WakeOneStep DEF NotifyH2D
        <4> QED  BY <4>1, <4>2 DEF Woken, Passes, Active, Passing
      <3>2. CASE Infer(c) \/ H2DDone(c) \/ Deliver(c)
        BY <1>3, <3>2 DEF Infer, H2DDone, Deliver
      <3> QED  BY <1>8, <3>1, <3>2
    <2>3. \A x \in Batches : Taken(x)' <=> Taken(x)
      BY <1>8, TakenSame
    <2> QED  BY <1>2, <2>1, <2>2, <2>3
  <1>9. ASSUME NEW c \in Consumers, GetBatch(c) PROVE Goal
    <2>1. /\ Passing /\ UNCHANGED <<committed, staging, tasksQ, closing>> /\ mutex = c
      BY <1>3, <1>9 DEF GetBatch, batchVars, MutexInv
    <2>2. /\ Head(ready) \in Batches /\ Has(ready, Head(ready))
          /\ \A x \in Batches : Taken(x)' <=> Taken(x) \/ x = Head(ready)
      BY <1>9, GetMoves, TakenGet
    <2>3. Full(Head(ready))
      BY <2>2, ReadyFacts
    <2>4. \A t \in Threads : tpc[t] \notin {"commit", "committed"}
      BY <2>1, NamesAssumption DEF MutexInv
    <2>5. ASSUME NEW t \in Threads, Active(t)' PROVE Fair(t)'
      <3>1. Active(t) /\ batchPtr[t] \in Batches /\ ~Taken(batchPtr[t])
        BY <2>1, <2>5, PassingFacts DEF ThreadInv
      <3>2. batchPtr[t] # Head(ready)
        <4>1. SUFFICES ASSUME Works(t, Head(ready)) PROVE FALSE
          BY <3>1 DEF Works
        <4>2. tpc[t] \notin {"copy", "complete"}
          BY <2>2, <2>3, <4>1, CompletedNotShared
        <4> QED  BY <2>4, <3>1, <4>2 DEF Active
      <3>3. \A x \in Batches : x = batchPtr[t] => ~Taken(x)' /\ committed'[x] = committed[x]
        BY <2>1, <2>2, <3>1, <3>2
      <3>4. tpc'[t] = "commit" => staging' = staging /\ (tasksQ # <<>> => tasksQ' # <<>>)
        BY <2>1
      <3>5. tpc'[t] = "committed" => staging' = staging /\ (closing[batchPtr[t]] => closing'[batchPtr[t]])
        BY <2>1
      <3> QED  BY <2>1, <2>5, <3>3, <3>4, <3>5, FairPasses
    <2> QED  BY <2>5
  <1>10. ASSUME NEW c \in Consumers, ResetBatch(c) PROVE Goal
    <2> DEFINE b == resetBatch[c]
    <2>1. /\ b \in Batches /\ Returning(b)
          /\ committed' = [committed EXCEPT ![b] = 0]
          /\ closing' = [closing EXCEPT ![b] = FALSE]
          /\ UNCHANGED <<staging, tasksQ, idle, got, resetBatch, stream, threadVars>>
      BY <1>10, ResetBatchStep DEF queueVars, consumerVars, streamVars
    <2>2. committed \in [Batches -> Nat]
      BY SizesType
    <2>3. Passing
      BY <1>3, <2>1
    <2> HIDE DEF b
    <2>4. ASSUME NEW t \in Threads, Active(t)' PROVE Fair(t)'
      <3>1. Active(t) /\ batchPtr[t] \in Batches /\ ~Taken(batchPtr[t])
        BY <2>3, <2>4, PassingFacts DEF ThreadInv
      <3>2. batchPtr[t] # b
        BY <2>1, <3>1 DEF Taken
      <3>3. \A x \in Batches : x = batchPtr[t] => ~Taken(x)' /\ committed'[x] = committed[x]
        BY <2>1, <2>2, <3>1, <3>2, TakenUnmoved
      <3>4. tpc'[t] = "commit" => staging' = staging /\ (tasksQ # <<>> => tasksQ' # <<>>)
        BY <2>1
      <3>5. tpc'[t] = "committed" => staging' = staging /\ (closing[batchPtr[t]] => closing'[batchPtr[t]])
        BY <1>0, <2>1, <3>1, <3>2
      <3> QED  BY <2>3, <2>4, <3>3, <3>4, <3>5, FairPasses
    <2> QED  BY <2>4
  <1>11. ASSUME NEW u \in Threads, StageBegin(u) \/ CommitTask(u) \/ Copy(u) \/ CompleteCopies(u)
         PROVE  Goal
    <2>1. /\ \A t \in Threads : t # u => /\ tpc'[t] = tpc[t] /\ batchPtr'[t] = batchPtr[t]
                                         /\ pairsOffset'[t] = pairsOffset[t]
                                         /\ pairsToCopy'[t] = pairsToCopy[t]
                                         /\ maxPairs'[t] = maxPairs[t]
          /\ closing' = closing
      <3>1. /\ pairsOffset \in [Threads -> Nat] /\ pairsToCopy \in [Threads -> Nat]
            /\ maxPairs \in [Threads -> 0..MaxBatchSize]
        BY SizesType DEF TypeOK
      <3>2. CASE StageBegin(u)
        BY <1>0, <3>1, <3>2 DEF StageBegin, StageBeginAt, batchVars
      <3>3. CASE CommitTask(u)
        BY <1>0, <3>1, <3>3 DEF CommitTask
      <3>4. CASE Copy(u) \/ CompleteCopies(u)
        BY <1>0, <3>1, <3>4 DEF Copy, CompleteCopies, localVars
      <3> QED  BY <1>11, <3>2, <3>3, <3>4
    <2>2. \A x \in Batches : Taken(x)' => Taken(x)
      <3>1. ASSUME StageBegin(u) PROVE \A x \in Batches : Taken(x)' => Taken(x)
        BY <3>1, StageBeginStep, TakenBegin
      <3>2. ASSUME CommitTask(u) \/ Copy(u) \/ CompleteCopies(u)
            PROVE  \A x \in Batches : Taken(x)' <=> Taken(x)
        <4>1. UNCHANGED <<idle, got, resetBatch, stream>>
          BY <3>2 DEF CommitTask, Copy, CompleteCopies, queueVars, consumerVars, streamVars
        <4> QED  BY <4>1, TakenUnmoved
      <3> QED  BY <1>11, <3>1, <3>2
    <2>3. /\ committed \in [Batches -> Nat]
          /\ \A x \in Batches : committed'[x] \in Nat /\ committed'[x] >= committed[x]
      <3>1. committed \in [Batches -> Nat]
        BY SizesType
      <3>2. CASE CommitTask(u)
        BY <3>1, <3>2, CommitTaskStep
      <3>3. CASE StageBegin(u) \/ Copy(u) \/ CompleteCopies(u)
        <4>1. committed' = committed
          BY <3>3 DEF StageBegin, StageBeginAt, Copy, CompleteCopies, batchVars
        <4> QED  BY <3>1, <4>1
      <3> QED  BY <1>11, <3>1, <3>2, <3>3
    <2>4. \A t \in Threads : t # u /\ tpc[t] \in {"commit", "committed"} =>
              /\ UNCHANGED <<staging, committed, tasksQ>>
      <3>1. ASSUME NEW t \in Threads, t # u, tpc[t] \in {"commit", "committed"}
            PROVE  Copy(u)
        <4>1. mutex = t
          BY <3>1 DEF MutexInv
        <4>2. mutex # Nobody /\ tpc[u] \notin {"commit", "committed"}
          BY <3>1, <4>1, NamesAssumption DEF MutexInv
        <4> QED  BY <1>11, <4>2 DEF StageBegin, StageBeginAt, CommitTask, CompleteCopies
      <3> QED  BY <3>1 DEF Copy, queueVars
    <2>5. ASSUME NEW t \in Threads, t # u, Active(t)' PROVE Fair(t)'
      <3>1. Active(t) /\ Fair(t)
        BY <2>1, <2>5 DEF Active, ThreadInv, Fair
      <3>2. batchPtr[t] \in Batches /\ batchPtr'[t] = batchPtr[t] /\ tpc'[t] = tpc[t]
        BY <2>1, <2>5, <3>1 DEF Fair
      <3>3. ~Taken(batchPtr[t])'
        <4>1. PICK x \in Batches : x = batchPtr[t]
          BY <3>2
        <4>2. batchPtr'[t] = x /\ ~Taken(x)'
          BY <2>2, <3>1, <3>2, <4>1 DEF Fair
        <4> QED  BY <4>2
      <3>4. pairsOffset[t] \in Nat /\ pairsToCopy[t] \in Nat
        BY SizesType
      <3>5. pairsOffset[t] + pairsToCopy[t] <= committed'[batchPtr[t]]
        <4>1. pairsOffset[t] + pairsToCopy[t] <= committed[batchPtr[t]]
          BY <3>1 DEF Fair
        <4>2. committed[batchPtr[t]] \in Nat /\ committed'[batchPtr[t]] \in Nat
              /\ committed'[batchPtr[t]] >= committed[batchPtr[t]]
          BY <2>3, <3>2
        <4> QED  BY <3>4, <4>1, <4>2
      <3>6. closing' = closing
        BY <2>1
      <3>7. CASE tpc[t] \in {"commit", "committed"}
        <4>1. UNCHANGED <<staging, committed, tasksQ>>
          BY <2>4, <2>5, <3>7
        <4> QED  BY <2>1, <2>5, <3>1, <3>2, <3>3, <3>6, <4>1 DEF Fair
      <3>8. CASE tpc[t] \notin {"commit", "committed"}
        BY <2>1, <2>5, <3>1, <3>2, <3>3, <3>5, <3>8 DEF Fair
      <3> QED  BY <3>7, <3>8
    <2>6. ASSUME Active(u)' PROVE Fair(u)'
      <3>1. ASSUME StageBegin(u) PROVE Fair(u)'
        <4>1. PICK b \in Batches : Begins(u, b)
          BY <3>1, StageBeginStep
        <4>2. /\ staging' = b /\ batchPtr'[u] = b /\ pairsOffset'[u] = committed[b]
              /\ maxPairs'[u] = Smaller(MaxPairsPerThread, MaxBatchSize - committed[b])
              /\ pairsToCopy'[u] = 0 /\ tpc'[u] = "commit"
              /\ committed' = committed /\ tasksQ' = tasksQ /\ tasksQ # <<>>
          <5>1. committed' = committed /\ tasksQ' = tasksQ /\ tasksQ # <<>>
            BY <3>1, StageBeginStep DEF StageBegin, StageBeginAt, batchVars
          <5> QED  BY <4>1, <5>1 DEF Begins, TypeOK
        <4>3. ~Taken(b)'
          BY <3>1, <4>1, TakenBegin
        <4>4. committed[b] \in Nat /\ committed[b] <= MaxBatchSize /\ MaxBatchSize \in Nat
              /\ MaxPairsPerThread \in Nat
          BY SizesAssumption DEF TypeOK
        <4>5. 0 <= Smaller(MaxPairsPerThread, MaxBatchSize - committed[b])
          BY <4>4 DEF Smaller
        <4>6. committed[b] + 0 = committed[b] /\ committed[b] <= committed[b]
          BY <4>4
        <4>7. ~Taken(batchPtr[u])'
          BY <4>2, <4>3
        <4> QED  BY <4>2, <4>5, <4>6, <4>7 DEF Fair
      <3>2. ASSUME CommitTask(u) PROVE Fair(u)'
        <4> DEFINE b == batchPtr[u]
                   p == Pairs[Head(tasksQ)]
        <4>1. /\ b \in Batches /\ staging = b /\ p \in Nat /\ p > 0 /\ tpc[u] = "commit"
              /\ pairsToCopy[u] \in Nat /\ pairsOffset[u] \in Nat /\ committed[b] \in Nat
              /\ pairsOffset[u] + pairsToCopy[u] = committed[b]
              /\ pairsToCopy[u] + p <= maxPairs[u] /\ Active(u)
              /\ pairsToCopy' = [pairsToCopy EXCEPT ![u] = @ + p]
              /\ committed' = [committed EXCEPT ![b] = @ + p]
          BY <3>2, CommitTaskStep
        <4>2. UNCHANGED <<staging, tpc, batchPtr, pairsOffset, maxPairs>>
          BY <3>2 DEF CommitTask
        <4>3. pairsToCopy'[u] = pairsToCopy[u] + p /\ committed'[b] = committed[b] + p
          BY <2>3, <4>1, SizesType
        <4> HIDE DEF b, p
        <4>4. /\ pairsOffset[u] + (pairsToCopy[u] + p) = committed[b] + p
              /\ pairsOffset[u] + (pairsToCopy[u] + p) <= committed[b] + p
              /\ pairsToCopy[u] + p # 0
          BY <4>1
        <4>5. ~Taken(batchPtr[u])'
          <5>1. PICK x \in Batches : x = b
            BY <4>1
          <5>2. ~Taken(b)
            BY <4>1 DEF ThreadInv, b
          <5>3. batchPtr'[u] = x /\ ~Taken(x)'
            BY <2>2, <4>2, <5>1, <5>2 DEF b
          <5> QED  BY <5>3
        <4>6. maxPairs[u] = Smaller(MaxPairsPerThread, MaxBatchSize - pairsOffset[u])
          BY <4>1 DEF ThreadInv
        <4> QED  BY <4>1, <4>2, <4>3, <4>4, <4>5, <4>6 DEF Fair, b
      <3>3. ASSUME Copy(u) PROVE Fair(u)'
        <4>1. /\ tpc[u] = "copy" /\ tpc'[u] = "complete"
              /\ UNCHANGED <<batchPtr, pairsOffset, pairsToCopy, committed>>
          BY <1>0, <3>3 DEF Copy, localVars
        <4>2. Fair(u)
          BY <4>1 DEF Active, ThreadInv, Fair
        <4>3. ~Taken(batchPtr[u])'
          <5>1. PICK x \in Batches : x = batchPtr[u]
            BY <4>2 DEF Fair
          <5>2. batchPtr'[u] = x /\ ~Taken(x)'
            BY <2>2, <4>1, <4>2, <5>1 DEF Fair
          <5> QED  BY <5>2
        <4> QED  BY <4>1, <4>2, <4>3 DEF Fair
      <3>4. ASSUME CompleteCopies(u) PROVE FALSE
        <4>1. tpc'[u] = "woken"
          BY <1>0, <3>4 DEF CompleteCopies
        <4> QED  BY <2>6, <4>1 DEF Active
      <3> QED  BY <1>11, <3>1, <3>2, <3>3, <3>4
    <2> QED  BY <2>5, <2>6
  <1> HIDE DEF Goal
  <1>12. Goal
    BY <1>1, <1>4, <1>5, <1>6, <1>7, <1>8, <1>9, <1>10, <1>11, RestsOrMoves
  <1> QED  BY <1>12 DEF Goal, ThreadInv, Fair

-----------------------------------------------------------------------------
(***************************************************************************)
(* The pair slots: whose share begins where.                               *)
(***************************************************************************)
LEMMA SubSeqAppend ==
  ASSUME NEW S, NEW q \in Seq(S), NEW e \in S, NEW k \in 0..Len(q)
  PROVE  SubSeq(Append(q, e), 1, k) = SubSeq(q, 1, k)
  <1> DEFINE r == Append(q, e)
  <1>1. /\ r \in Seq(S) /\ Len(r) = Len(q) + 1 /\ Len(q) \in Nat
        /\ \A i \in 1..Len(q) : r[i] = q[i]
    OBVIOUS
  <1> HIDE DEF r
  <1>2. k \in 0..Len(r)
    BY <1>1
  <1>3. /\ SubSeq(q, 1, k) \in Seq(S) /\ Len(SubSeq(q, 1, k)) = k
        /\ \A i \in 1..k : SubSeq(q, 1, k)[i] = q[i]
    BY SplitSeq
  <1>4. /\ SubSeq(r, 1, k) \in Seq(S) /\ Len(SubSeq(r, 1, k)) = k
        /\ \A i \in 1..k : SubSeq(r, 1, k)[i] = r[i]
    BY <1>1, <1>2, SplitSeq
  <1>5. \A i \in 1..k : SubSeq(q, 1, k)[i] = SubSeq(r, 1, k)[i]
    BY <1>1, <1>3, <1>4
  <1> DEFINE a == SubSeq(q, 1, k)
             b == SubSeq(r, 1, k)
  <1> HIDE DEF a, b
  <1>6. a = b
    <2>1. a \in Seq(S) /\ b \in Seq(S) /\ Len(a) = Len(b) /\ \A i \in 1..Len(a) : a[i] = b[i]
      BY <1>3, <1>4, <1>5 DEF a, b
    <2> QED  BY <2>1, SeqEqual
  <1> QED  BY <1>6 DEF a, b, r

\* The part of a list from its beginning to its end is the list.
LEMMA SubSeqWhole ==
  ASSUME NEW S, NEW q \in Seq(S)
  PROVE  SubSeq(q, 1, Len(q)) = q
  <1>1. Len(q) \in 0..Len(q)
    BY LenProperties
  <1> DEFINE a == SubSeq(q, 1, Len(q))
  <1>2. a \in Seq(S) /\ Len(a) = Len(q) /\ \A i \in 1..Len(q) : a[i] = q[i]
    BY <1>1, SplitSeq
  <1> HIDE DEF a
  <1>3. a = q
    BY <1>2, SeqEqual
  <1> QED  BY <1>3 DEF a

\* Every step keeps SlotInv.
LEMMA SlotNext ==
  ASSUME FlushExclusive, TypeOK, MutexInv, FlushInv, PlaceInv, ThreadInv, SlotInv, Step
  PROVE  SlotInv'
  <1> DEFINE Filled == \A b \in Batches : committed'[b] = Len(SlotsOf(tasks'[b]))
             Begun(t) == /\ tasksOffset'[t] <= Len(tasks'[batchPtr'[t]])
                         /\ pairsOffset'[t] = Len(SlotsOf(SubSeq(tasks'[batchPtr'[t]], 1, tasksOffset'[t])))
             Goal == Filled /\ \A t \in Threads : Active(t)' => Begun(t)
  <1>0. /\ tasks \in [Batches -> Seq(Samples)] /\ committed \in [Batches -> Nat]
        /\ tasksOffset \in [Threads -> Nat] /\ pairsOffset \in [Threads -> Nat]
        /\ batchPtr \in [Threads -> Batches \cup {NoBatch}] /\ tpc \in [Threads -> ThreadStates]
    BY SizesType, PcNow DEF TypeOK, PcType
  <1>1. ASSUME NEW t \in Threads, Active(t), batchPtr'[t] = batchPtr[t],
               tasks'[batchPtr[t]] = tasks[batchPtr[t]],
               tasksOffset'[t] = tasksOffset[t], pairsOffset'[t] = pairsOffset[t]
        PROVE  Begun(t)
    BY <1>1 DEF SlotInv
  <1>2. ASSUME Passing, UNCHANGED <<tasks, committed>> PROVE Goal
    <2>1. ASSUME NEW t \in Threads, Active(t)' PROVE Begun(t)
      <3> HIDE DEF Begun
      <3> QED  BY <1>1, <1>2, <2>1, PassingFacts
    <2>2. Filled
      BY <1>2 DEF SlotInv
    <2> HIDE DEF Filled, Begun
    <2> QED  BY <2>1, <2>2
  <1>3. ASSUME Passing, NEW c \in Consumers, ResetBatch(c) PROVE Goal
    <2> DEFINE b == resetBatch[c]
    <2>1. /\ b \in Batches /\ Returning(b)
          /\ committed' = [committed EXCEPT ![b] = 0] /\ tasks' = [tasks EXCEPT ![b] = <<>>]
      BY <1>3, ResetBatchStep
    <2> HIDE DEF b
    <2>2. ASSUME NEW t \in Threads, Active(t)' PROVE Begun(t)
      <3>1. Active(t) /\ batchPtr[t] \in Batches /\ ~Taken(batchPtr[t])
        BY <1>3, <2>2, PassingFacts DEF ThreadInv
      <3>2. tasks'[batchPtr[t]] = tasks[batchPtr[t]]
        BY <1>0, <2>1, <3>1 DEF Taken
      <3> HIDE DEF Begun
      <3> QED  BY <1>1, <1>3, <3>1, <3>2, PassingFacts
    <2>3. Filled
      <3>1. ASSUME NEW x \in Batches PROVE committed'[x] = Len(SlotsOf(tasks'[x]))
        <4>1. CASE x = b
          <5>1. committed'[x] = 0 /\ tasks'[x] = <<>>
            BY <1>0, <2>1, <4>1
          <5> QED  BY <5>1, SlotsEmpty
        <4>2. CASE x # b
          <5>1. committed'[x] = committed[x] /\ tasks'[x] = tasks[x]
            BY <1>0, <2>1, <4>2
          <5> QED  BY <5>1 DEF SlotInv
        <4> QED  BY <4>1, <4>2
      <3> QED  BY <3>1
    <2> HIDE DEF Filled, Begun
    <2> QED  BY <2>2, <2>3
  <1>4. ASSUME NEW u \in Threads, StageBegin(u) PROVE Goal
    <2>1. PICK b \in Batches : Begins(u, b)
      BY <1>4, StageBeginStep
    <2>2. UNCHANGED <<tasks, committed>>
      BY <1>4 DEF StageBegin, StageBeginAt, batchVars
    <2>3. /\ batchPtr' = [batchPtr EXCEPT ![u] = b] /\ tpc' = [tpc EXCEPT ![u] = "commit"]
          /\ tasksOffset' = [tasksOffset EXCEPT ![u] = Len(tasks[b])]
          /\ pairsOffset' = [pairsOffset EXCEPT ![u] = committed[b]]
      BY <2>1 DEF Begins
    <2>4. ASSUME NEW t \in Threads, t # u, Active(t)' PROVE Begun(t)
      <3>1. /\ Active(t) /\ batchPtr'[t] = batchPtr[t] /\ tasksOffset'[t] = tasksOffset[t]
            /\ pairsOffset'[t] = pairsOffset[t]
        BY <1>0, <2>3, <2>4 DEF Active
      <3> HIDE DEF Begun
      <3> QED  BY <1>1, <2>2, <3>1
    <2>5. Begun(u)
      <3>1. /\ batchPtr'[u] = b /\ tasksOffset'[u] = Len(tasks[b]) /\ pairsOffset'[u] = committed[b]
            /\ tasks' = tasks
        BY <1>0, <2>2, <2>3
      <3>2. SubSeq(tasks[b], 1, Len(tasks[b])) = tasks[b] /\ Len(tasks[b]) \in Nat
        BY <1>0, SubSeqWhole
      <3>3. committed[b] = Len(SlotsOf(tasks[b]))
        BY DEF SlotInv
      <3>4. tasks'[batchPtr'[u]] = tasks[b]
        BY <3>1
      <3>5. SubSeq(tasks'[batchPtr'[u]], 1, tasksOffset'[u]) = tasks[b]
        BY <3>1, <3>2, <3>4
      <3>6. tasksOffset'[u] <= Len(tasks'[batchPtr'[u]])
        BY <3>1, <3>2, <3>4
      <3> QED  BY <3>1, <3>3, <3>5, <3>6
    <2>6. Filled
      BY <2>2 DEF SlotInv
    <2> HIDE DEF Filled, Begun
    <2> QED  BY <2>4, <2>5, <2>6
  <1>5. ASSUME NEW u \in Threads, CommitTask(u) PROVE Goal
    <2> DEFINE b == batchPtr[u]
               s == Head(tasksQ)
    <2>1. /\ b \in Batches /\ s \in Samples
          /\ committed' = [committed EXCEPT ![b] = @ + Pairs[s]]
          /\ tasks' = [tasks EXCEPT ![b] = Append(@, s)]
      BY <1>5, CommitTaskStep
    <2>2. UNCHANGED <<tpc, batchPtr, tasksOffset, pairsOffset>>
      BY <1>5 DEF CommitTask
    <2> HIDE DEF b, s
    <2>3. tasks[b] \in Seq(Samples) /\ committed'[b] = committed[b] + Pairs[s]
          /\ tasks'[b] = Append(tasks[b], s)
      BY <1>0, <2>1
    <2>4. ASSUME NEW t \in Threads, Active(t)' PROVE Begun(t)
      <3>1. Active(t) /\ batchPtr[t] \in Batches
        BY <2>2, <2>4 DEF Active, ThreadInv
      <3>2. CASE batchPtr[t] # b
        <4>1. tasks'[batchPtr[t]] = tasks[batchPtr[t]]
          BY <1>0, <2>1, <3>1, <3>2
        <4> HIDE DEF Begun
        <4> QED  BY <1>1, <2>2, <3>1, <4>1
      <3>3. CASE batchPtr[t] = b
        <4>1. /\ tasksOffset[t] \in Nat /\ tasksOffset[t] <= Len(tasks[b])
              /\ pairsOffset[t] = Len(SlotsOf(SubSeq(tasks[b], 1, tasksOffset[t])))
          BY <1>0, <3>1, <3>3 DEF SlotInv
        <4>2. tasksOffset[t] \in 0..Len(tasks[b])
          BY <1>0, <2>3, <4>1
        <4>3. SubSeq(Append(tasks[b], s), 1, tasksOffset[t]) = SubSeq(tasks[b], 1, tasksOffset[t])
          BY <2>1, <2>3, <4>2, SubSeqAppend
        <4>4. tasksOffset[t] <= Len(Append(tasks[b], s))
          BY <2>1, <2>3, <4>1
        <4> QED  BY <2>2, <2>3, <3>3, <4>1, <4>3, <4>4
      <3> QED  BY <3>2, <3>3
    <2>5. Filled
      <3>1. ASSUME NEW x \in Batches PROVE committed'[x] = Len(SlotsOf(tasks'[x]))
        <4>1. CASE x = b
          <5>1. Len(SlotsOf(Append(tasks[b], s))) = Len(SlotsOf(tasks[b])) + Pairs[s]
            BY <2>1, <2>3, SlotsAppendLen
          <5>2. committed[b] = Len(SlotsOf(tasks[b]))
            BY <2>1 DEF SlotInv
          <5> QED  BY <2>3, <4>1, <5>1, <5>2
        <4>2. CASE x # b
          <5>1. committed'[x] = committed[x] /\ tasks'[x] = tasks[x]
            BY <1>0, <2>1, <4>2
          <5> QED  BY <5>1 DEF SlotInv
        <4> QED  BY <4>1, <4>2
      <3> QED  BY <3>1
    <2> HIDE DEF Filled, Begun
    <2> QED  BY <2>4, <2>5
  <1>6. ASSUME NEW u \in Threads, Copy(u) \/ CompleteCopies(u) PROVE Goal
    <2>1. /\ UNCHANGED <<tasks, committed, batchPtr, tasksOffset, pairsOffset>>
          /\ \A t \in Threads : Active(t)' => Active(t)
      <3>1. UNCHANGED <<tasks, committed, batchPtr, tasksOffset, pairsOffset>>
        BY <1>6 DEF Copy, CompleteCopies, localVars
      <3>2. /\ tpc[u] \in {"copy", "complete"}
            /\ \E to \in {"complete", "woken"} : tpc' = [tpc EXCEPT ![u] = to]
        BY <1>6 DEF Copy, CompleteCopies
      <3> QED  BY <1>0, <3>1, <3>2 DEF Active
    <2>2. ASSUME NEW t \in Threads, Active(t)' PROVE Begun(t)
      <3> HIDE DEF Begun
      <3> QED  BY <1>1, <2>1, <2>2
    <2>3. Filled
      BY <2>1 DEF SlotInv
    <2> HIDE DEF Filled, Begun
    <2> QED  BY <2>2, <2>3
  <1> HIDE DEF Goal
  <1>7. Goal
    BY <1>2, <1>3, <1>4, <1>5, <1>6, PassingStep
  <1> QED  BY <1>7 DEF Goal, SlotInv

-----------------------------------------------------------------------------
(***************************************************************************)
(* The shares: no two overlap, and what is left of them is not completed.  *)
(***************************************************************************)
LEMMA UncopiedStays ==
  ASSUME NEW b \in Batches, committed'[b] = committed[b],
         \A t \in Threads : /\ batchPtr'[t] = batchPtr[t] /\ Share(t)' = Share(t)
                            /\ Active(t)' => Active(t)
                            /\ Active(t) => Active(t)' \/ Share(t) = {}
  PROVE  Uncopied(b)' = Uncopied(b)
  <1>1. ASSUME NEW i, NEW t \in Threads, Works(t, b), i \in Share(t) PROVE (Works(t, b) /\ i \in Share(t))'
    BY <1>1 DEF Works
  <1>2. ASSUME NEW i, NEW t \in Threads, (Works(t, b) /\ i \in Share(t))' PROVE Works(t, b) /\ i \in Share(t)
    BY <1>2 DEF Works
  <1>3. \A i : (\E t \in Threads : Works(t, b) /\ i \in Share(t))'
               <=> (\E t \in Threads : Works(t, b) /\ i \in Share(t))
    BY <1>1, <1>2
  <1> QED  BY <1>3 DEF Uncopied

\* A thread that committed nothing has an empty share.
LEMMA EmptyShare ==
  ASSUME TypeOK, NEW t \in Threads, pairsToCopy[t] = 0
  PROVE  Share(t) = {}
  <1>1. pairsOffset[t] \in Nat
    BY SizesType
  <1> QED  BY <1>1 DEF Share

\* Every step keeps ShareInv.
LEMMA ShareNext ==
  ASSUME FlushExclusive, TypeOK, MutexInv, FlushInv, PlaceInv, ThreadInv, ShareInv, Step
  PROVE  ShareInv'
  <1> DEFINE Apart == \A t, u \in Threads :
                          Active(t)' /\ Active(u)' /\ batchPtr'[t] = batchPtr'[u] /\ t # u =>
                          Share(t)' \cap Share(u)' = {}
             Counted(b) == completed'[b] = Cardinality(((1..committed[b]) \ Uncopied(b))')
             Goal == Apart /\ \A b \in Batches : Counted(b)
  <1>0. /\ committed \in [Batches -> Nat] /\ completed \in [Batches -> Nat]
        /\ pairsToCopy \in [Threads -> Nat] /\ pairsOffset \in [Threads -> Nat]
        /\ batchPtr \in [Threads -> Batches \cup {NoBatch}] /\ tpc \in [Threads -> ThreadStates]
    BY SizesType, PcNow DEF TypeOK, PcType
  <1>1. ASSUME \A t \in Threads : /\ batchPtr'[t] = batchPtr[t] /\ Share(t)' = Share(t)
                                  /\ Active(t)' => Active(t)
        PROVE  Apart
    BY <1>1 DEF ShareInv
  <1>2. ASSUME NEW b \in Batches, committed'[b] = committed[b], completed'[b] = completed[b],
               Uncopied(b)' = Uncopied(b)
        PROVE  Counted(b)
    BY <1>2 DEF ShareInv
  <1>3. ASSUME Passing
        PROVE  \A t \in Threads : /\ batchPtr'[t] = batchPtr[t] /\ Share(t)' = Share(t)
                                  /\ Active(t)' => Active(t)
                                  /\ Active(t) => Active(t)' \/ Share(t) = {}
    BY <1>3, PassingFacts, EmptyShare
  <1>4. ASSUME Passing, UNCHANGED <<committed, completed>> PROVE Goal
    <2>1. ASSUME NEW b \in Batches PROVE Counted(b)
      <3>1. Uncopied(b)' = Uncopied(b)
        BY <1>3, <1>4, UncopiedStays
      <3> HIDE DEF Counted
      <3> QED  BY <1>2, <1>4, <3>1
    <2> HIDE DEF Apart, Counted
    <2> QED  BY <1>1, <1>3, <1>4, <2>1
  <1>5. ASSUME Passing, NEW c \in Consumers, ResetBatch(c) PROVE Goal
    <2> DEFINE b == resetBatch[c]
    <2>1. /\ b \in Batches
          /\ committed' = [committed EXCEPT ![b] = 0] /\ completed' = [completed EXCEPT ![b] = 0]
      BY <1>5, ResetBatchStep
    <2> HIDE DEF b
    <2>2. ASSUME NEW x \in Batches PROVE Counted(x)
      <3>1. CASE x # b
        <4>1. committed'[x] = committed[x] /\ completed'[x] = completed[x]
          BY <1>0, <2>1, <3>1
        <4>2. Uncopied(x)' = Uncopied(x)
          BY <1>3, <1>5, <4>1, UncopiedStays
        <4> HIDE DEF Counted
        <4> QED  BY <1>2, <4>1, <4>2
      <3>2. CASE x = b
        <4>1. committed'[x] = 0 /\ completed'[x] = 0
          BY <1>0, <2>1, <3>2
        <4>2. ((1..committed[x]) \ Uncopied(x))' = {}
          BY <4>1
        <4>3. Cardinality({}) = 0
          BY FS_EmptySet
        <4> QED  BY <4>1, <4>2, <4>3
      <3> QED  BY <3>1, <3>2
    <2> HIDE DEF Apart, Counted
    <2> QED  BY <1>1, <1>3, <1>5, <2>2
  <1>6. ASSUME NEW u \in Threads, StageBegin(u) PROVE Goal
    <2>1. PICK b \in Batches : Begins(u, b)
      BY <1>6, StageBeginStep
    <2>2. UNCHANGED <<committed, completed>> /\ ~Active(u)
      BY <1>6 DEF StageBegin, StageBeginAt, batchVars, Active
    <2>3. /\ batchPtr' = [batchPtr EXCEPT ![u] = b] /\ tpc' = [tpc EXCEPT ![u] = "commit"]
          /\ pairsOffset' = [pairsOffset EXCEPT ![u] = committed[b]]
          /\ pairsToCopy' = [pairsToCopy EXCEPT ![u] = 0]
      BY <2>1 DEF Begins
    <2>4. Share(u)' = {}
      <3>1. pairsOffset'[u] = committed[b] /\ pairsToCopy'[u] = 0 /\ committed[b] \in Nat
        BY <1>0, <2>3
      <3> QED  BY <3>1 DEF Share
    <2>5. \A t \in Threads : t # u => /\ batchPtr'[t] = batchPtr[t] /\ Share(t)' = Share(t)
                                      /\ Active(t)' <=> Active(t)
      BY <1>0, <2>3 DEF Share, Active
    <2>6. Apart
      <3>1. ASSUME NEW t \in Threads, NEW v \in Threads, t # v, Active(t)', Active(v)',
                   batchPtr'[t] = batchPtr'[v]
            PROVE  Share(t)' \cap Share(v)' = {}
        <4>1. CASE t = u \/ v = u
          BY <2>4, <4>1
        <4>2. CASE t # u /\ v # u
          BY <2>5, <3>1, <4>2 DEF ShareInv
        <4> QED  BY <4>1, <4>2
      <3> QED  BY <3>1
    <2>7. ASSUME NEW x \in Batches PROVE Counted(x)
      <3>1. Uncopied(x)' = Uncopied(x)
        <4>1. \A i : (\E t \in Threads : Works(t, x) /\ i \in Share(t))'
                     <=> (\E t \in Threads : Works(t, x) /\ i \in Share(t))
          BY <2>2, <2>4, <2>5 DEF Works
        <4> QED  BY <2>2, <4>1 DEF Uncopied
      <3> HIDE DEF Counted
      <3> QED  BY <1>2, <2>2, <3>1
    <2> HIDE DEF Apart, Counted
    <2> QED  BY <2>6, <2>7
  <1>7. ASSUME NEW u \in Threads, CommitTask(u) PROVE Goal
    <2>0. PICK b \in Batches : b = batchPtr[u]
      <3>1. batchPtr[u] \in Batches
        BY <1>7, CommitTaskStep
      <3> QED  BY <3>1
    <2> DEFINE p == Pairs[Head(tasksQ)]
               old == committed[b]
    <2>1. /\ b \in Batches /\ p \in Nat /\ Active(u) /\ tpc[u] = "commit"
          /\ pairsOffset[u] \in Nat /\ pairsToCopy[u] \in Nat /\ old \in Nat
          /\ pairsOffset[u] + pairsToCopy[u] = old
          /\ pairsToCopy' = [pairsToCopy EXCEPT ![u] = @ + p]
          /\ committed' = [committed EXCEPT ![b] = @ + p]
      BY <1>7, <2>0, CommitTaskStep
    <2>2. UNCHANGED <<tpc, batchPtr, pairsOffset, completed>>
      BY <1>7 DEF CommitTask
    <2>3. /\ \A t \in Threads : t # u => Share(t)' = Share(t)
          /\ \A t \in Threads : batchPtr'[t] = batchPtr[t] /\ (Active(t)' <=> Active(t))
      BY <1>0, <2>1, <2>2 DEF Share, Active
    <2>4. Share(u)' = Share(u) \cup (old + 1 .. old + p)
      <3>1. pairsToCopy'[u] = pairsToCopy[u] + p /\ pairsOffset'[u] = pairsOffset[u]
        BY <1>0, <2>1, <2>2
      <3> DEFINE o == pairsOffset[u]
                 n == pairsToCopy[u]
      <3>2. o \in Nat /\ n \in Nat /\ old = o + n
        BY <2>1
      <3>3. Share(u)' = o + 1 .. o + (n + p) /\ Share(u) = o + 1 .. o + n
        BY <3>1 DEF Share
      <3> HIDE DEF o, n, old, p
      <3>4. o + 1 .. o + (n + p) = (o + 1 .. o + n) \cup (old + 1 .. old + p)
        BY <2>1, <3>2
      <3> QED  BY <3>3, <3>4
    <2>5. \A t \in Threads : Works(t, b) => Share(t) \subseteq 1..old
      BY ShareFacts DEF Works
    <2> HIDE DEF p
    <2>6. committed'[b] = old + p
      BY <1>0, <2>1
    <2> HIDE DEF old
    <2>7. Apart
      <3>1. ASSUME NEW t \in Threads, NEW v \in Threads, t # v, t # u, Active(t)', Active(v)',
                   batchPtr'[t] = batchPtr'[v]
            PROVE  Share(t)' \cap Share(v)' = {}
        <4>1. Share(t) \cap Share(v) = {}
          BY <2>3, <3>1 DEF ShareInv
        <4>2. CASE v = u
          <5>1. Share(t) \subseteq 1..old
            BY <2>0, <2>3, <2>5, <3>1, <4>2 DEF Works
          <5>2. (1..old) \cap (old + 1 .. old + p) = {}
            BY <2>1
          <5> QED  BY <2>3, <2>4, <3>1, <4>1, <4>2, <5>1, <5>2
        <4>3. CASE v # u
          BY <2>3, <3>1, <4>1, <4>3
        <4> QED  BY <4>2, <4>3
      <3> QED  BY <3>1
    <2>8. ASSUME NEW x \in Batches PROVE Counted(x)
      <3>1. CASE x # b
        <4>1. committed'[x] = committed[x]
          BY <1>0, <2>1, <3>1
        <4>2. \A i : (\E t \in Threads : Works(t, x) /\ i \in Share(t))'
                     <=> (\E t \in Threads : Works(t, x) /\ i \in Share(t))
          BY <2>0, <2>3, <3>1 DEF Works
        <4>3. Uncopied(x)' = Uncopied(x)
          BY <4>1, <4>2 DEF Uncopied
        <4> HIDE DEF Counted
        <4> QED  BY <1>2, <2>2, <4>1, <4>3
      <3>2. CASE x = b
        <4>1. ASSUME NEW i \in (1..old) \ Uncopied(b)
              PROVE  i \in 1..committed'[b] /\ i \notin Uncopied(b)'
          <5>1. i \in 1..committed'[b] /\ i \notin old + 1 .. old + p
            BY <2>1, <2>6
          <5>2. ASSUME NEW t \in Threads, (Works(t, b) /\ i \in Share(t))' PROVE FALSE
            <6>1. Works(t, b) /\ i \in Share(t)
              BY <2>3, <2>4, <5>1, <5>2 DEF Works
            <6> QED  BY <4>1, <6>1 DEF Uncopied, old
          <5> QED  BY <5>1, <5>2 DEF Uncopied
        <4>2. ASSUME NEW i \in 1..committed'[b], i \notin Uncopied(b)'
              PROVE  i \in (1..old) \ Uncopied(b)
          <5>1. ASSUME NEW t \in Threads, (Works(t, b) /\ i \in Share(t))' PROVE FALSE
            BY <4>2, <5>1 DEF Uncopied
          <5>2. Works(u, b)'
            BY <2>0, <2>1, <2>3 DEF Works
          <5>3. i \notin old + 1 .. old + p
            BY <2>4, <5>1, <5>2
          <5>4. i \in 1..old
            BY <2>1, <2>6, <5>3
          <5>5. ASSUME NEW t \in Threads, Works(t, b), i \in Share(t) PROVE FALSE
            <6>1. (Works(t, b) /\ i \in Share(t))'
              BY <2>3, <2>4, <5>5 DEF Works
            <6> QED  BY <5>1, <6>1
          <5> QED  BY <5>4, <5>5 DEF Uncopied
        <4>3. ((1..committed[b]) \ Uncopied(b))' = (1..old) \ Uncopied(b)
          BY <4>1, <4>2
        <4>4. completed'[x] = Cardinality((1..old) \ Uncopied(b))
          BY <2>2, <3>2 DEF ShareInv, old
        <4> QED  BY <3>2, <4>3, <4>4
      <3> QED  BY <3>1, <3>2
    <2> HIDE DEF Apart, Counted
    <2> QED  BY <2>7, <2>8
  <1>8. ASSUME NEW u \in Threads, Copy(u) PROVE Goal
    <2>1. UNCHANGED <<committed, completed, batchPtr, pairsOffset, pairsToCopy>>
          /\ tpc[u] = "copy" /\ tpc' = [tpc EXCEPT ![u] = "complete"]
      BY <1>8 DEF Copy, localVars
    <2>2. \A t \in Threads : /\ batchPtr'[t] = batchPtr[t] /\ Share(t)' = Share(t)
                             /\ Active(t)' => Active(t)
                             /\ Active(t) => Active(t)' \/ Share(t) = {}
      BY <1>0, <2>1 DEF Share, Active
    <2>3. ASSUME NEW x \in Batches PROVE Counted(x)
      <3>1. Uncopied(x)' = Uncopied(x)
        BY <2>1, <2>2, UncopiedStays
      <3> HIDE DEF Counted
      <3> QED  BY <1>2, <2>1, <3>1
    <2> HIDE DEF Apart, Counted
    <2> QED  BY <1>1, <2>2, <2>3
  <1>9. ASSUME NEW u \in Threads, CompleteCopies(u) PROVE Goal
    <2>0. PICK b \in Batches : b = batchPtr[u]
      <3>1. batchPtr[u] \in Batches
        BY <1>9, CompleteCopiesStep
      <3> QED  BY <3>1
    <2>1. /\ tpc[u] = "complete" /\ tpc' = [tpc EXCEPT ![u] = "woken"] /\ Active(u)
          /\ completed' = [completed EXCEPT ![b] = completed[b] + pairsToCopy[u]]
          /\ UNCHANGED <<committed, batchPtr, pairsOffset, pairsToCopy>>
      BY <1>9, <2>0, CompleteCopiesStep DEF localVars, Active
    <2>2. /\ \A t \in Threads : batchPtr'[t] = batchPtr[t] /\ Share(t)' = Share(t)
          /\ \A t \in Threads : t # u => (Active(t)' <=> Active(t))
          /\ ~Active(u)'
      BY <1>0, <2>1 DEF Share, Active
    <2>3. ASSUME NEW x \in Batches PROVE Counted(x)
      <3>1. CASE x # b
        <4>1. completed'[x] = completed[x] /\ committed'[x] = committed[x]
          BY <1>0, <2>1, <3>1
        <4>2. \A i : (\E t \in Threads : Works(t, x) /\ i \in Share(t))'
                     <=> (\E t \in Threads : Works(t, x) /\ i \in Share(t))
          BY <2>0, <2>2, <3>1 DEF Works
        <4>3. Uncopied(x)' = Uncopied(x)
          BY <4>1, <4>2 DEF Uncopied
        <4> HIDE DEF Counted
        <4> QED  BY <1>2, <4>1, <4>3
      <3>2. CASE x = b
        <4> DEFINE c == committed[b]
                   D == (1..c) \ Uncopied(b)
                   mine == Share(u)
        <4>1. /\ pairsToCopy[u] \in Nat /\ completed[b] \in Nat /\ c \in Nat
              /\ IsFiniteSet(mine) /\ Cardinality(mine) = pairsToCopy[u]
              /\ mine \subseteq Uncopied(b) /\ mine \subseteq 1..c
          BY <2>0, <2>1, ShareFacts
        <4>2. ASSUME NEW i \in 1..c, i \notin Uncopied(b)' PROVE i \in D \cup mine
          <5>1. SUFFICES ASSUME NEW t \in Threads, Works(t, b), i \in Share(t) PROVE i \in mine
            BY DEF Uncopied
          <5>2. ASSUME t # u PROVE (Works(t, b) /\ i \in Share(t))'
            BY <2>2, <5>1, <5>2 DEF Works
          <5>3. i \in 1..committed'[b]
            BY <2>1
          <5> QED  BY <4>2, <5>1, <5>2, <5>3 DEF Uncopied
        <4>3. ASSUME NEW i \in D \cup mine PROVE i \in 1..c /\ i \notin Uncopied(b)'
          <5>1. i \in 1..c
            BY <4>1
          <5>2. ASSUME NEW t \in Threads, (Works(t, b) /\ i \in Share(t))' PROVE FALSE
            <6>1. t # u /\ Works(t, b) /\ i \in Share(t)
              BY <2>2, <5>2 DEF Works
            <6>2. i \in Uncopied(b)
              BY <5>1, <6>1 DEF Uncopied
            <6>3. i \in mine
              BY <6>2
            <6>4. Share(t) \cap Share(u) = {}
              BY <2>0, <2>1, <6>1 DEF Works, ShareInv
            <6> QED  BY <6>1, <6>3, <6>4
          <5> QED  BY <5>1, <5>2 DEF Uncopied
        <4>4. ((1..committed[b]) \ Uncopied(b))' = D \cup mine
          <5>1. committed'[b] = c
            BY <2>1
          <5> HIDE DEF D, mine, c
          <5> QED  BY <4>2, <4>3, <5>1
        <4>5. D \cap mine = {} /\ IsFiniteSet(D)
          <5>1. IsFiniteSet(1..c)
            BY <4>1, FS_Interval
          <5>2. D \in SUBSET (1..c)
            OBVIOUS
          <5>3. IsFiniteSet(D)
            BY <5>1, <5>2, FS_Subset
          <5> QED  BY <4>1, <5>3
        <4>6. completed[b] = Cardinality(D)
          BY DEF ShareInv
        <4>7. completed'[b] = completed[b] + pairsToCopy[u]
          BY <1>0, <2>1
        <4> HIDE DEF D, mine
        <4>8. Cardinality(D \cup mine) = Cardinality(D) + Cardinality(mine) - Cardinality(D \cap mine)
          BY <4>1, <4>5, FS_Union
        <4>9. Cardinality(D \cap mine) = 0
          BY <4>5, FS_EmptySet
        <4>10. completed'[b] = Cardinality(D \cup mine)
          BY <4>1, <4>6, <4>7, <4>8, <4>9
        <4> QED  BY <3>2, <4>4, <4>10
      <3> QED  BY <3>1, <3>2
    <2>4. Apart
      BY <1>1, <2>2
    <2> HIDE DEF Apart, Counted
    <2> QED  BY <2>3, <2>4
  <1> HIDE DEF Goal
  <1>10. Goal
    BY <1>4, <1>5, <1>6, <1>7, <1>8, <1>9, PassingStep
  <1> QED  BY <1>10 DEF Goal, ShareInv

-----------------------------------------------------------------------------
(***************************************************************************)
(* The buffers and the copy streams.                                       *)
(***************************************************************************)
\* A thread has still to copy the pair i of b.
ToCopy(t, b, i) == Works(t, b) /\ tpc[t] # "complete" /\ i \in Share(t)
Copies(b, i) == (\E t \in Threads : ToCopy(t, b, i)) \/ buf[b][i] = SlotsOf(tasks[b])[i]

\* BufInv, a slot at a time.
LEMMA BufIs == BufInv <=> \A b \in Batches : \A i \in 1..committed[b] : Copies(b, i)
  BY DEF BufInv, Copies, ToCopy

\* Every step keeps BufInv.
LEMMA BufNext ==
  ASSUME FlushExclusive, TypeOK, MutexInv, FlushInv, PlaceInv, ThreadInv, ShareInv, SlotInv, BufInv, Step
  PROVE  BufInv'
  <1> DEFINE Goal == \A b \in Batches : \A i \in 1..committed'[b] : Copies(b, i)'
  <1>0. /\ committed \in [Batches -> Nat] /\ tasks \in [Batches -> Seq(Samples)]
        /\ pairsToCopy \in [Threads -> Nat] /\ pairsOffset \in [Threads -> Nat]
        /\ batchPtr \in [Threads -> Batches \cup {NoBatch}] /\ tpc \in [Threads -> ThreadStates]
        /\ buf \in [Batches -> [1..MaxBatchSize -> Samples \cup {Junk}]]
        /\ \A b \in Batches : committed[b] \in 0..MaxBatchSize
        /\ MaxBatchSize \in Nat
    BY SizesType, PcNow DEF TypeOK, PcType
  <1>1. \A b \in Batches : \A i \in 1..committed[b] : Copies(b, i)
    BY BufIs
  <1>2. ASSUME NEW b \in Batches, NEW i, Copies(b, i),
               buf'[b] = buf[b], tasks'[b] = tasks[b],
               \A t \in Threads : ToCopy(t, b, i) => ToCopy(t, b, i)'
        PROVE  Copies(b, i)'
    BY <1>2 DEF Copies
  <1>3. ASSUME Passing, NEW b \in Batches, NEW i, NEW t \in Threads, ToCopy(t, b, i)
        PROVE  ToCopy(t, b, i)'
    <2>1. Active(t) /\ batchPtr[t] = b /\ tpc[t] # "complete" /\ i \in Share(t) /\ pairsToCopy[t] # 0
      BY <1>3, EmptyShare DEF ToCopy, Works
    <2>2. Active(t)' /\ batchPtr'[t] = b /\ Share(t)' = Share(t) /\ tpc'[t] # "complete"
      BY <1>3, <2>1, PassingFacts
    <2> QED  BY <2>1, <2>2 DEF ToCopy, Works
  <1>4. ASSUME Passing, UNCHANGED <<tasks, committed, buf>> PROVE Goal
    <2>1. ASSUME NEW b \in Batches, NEW i \in 1..committed'[b] PROVE Copies(b, i)'
      <3>1. Copies(b, i) /\ buf'[b] = buf[b] /\ tasks'[b] = tasks[b]
        BY <1>1, <1>4
      <3> QED  BY <1>2, <1>3, <1>4, <3>1
    <2> QED  BY <2>1
  <1>5. ASSUME Passing, NEW c \in Consumers, ResetBatch(c) PROVE Goal
    <2>1. PICK r \in Batches : r = resetBatch[c]
      BY <1>5, ResetBatchStep
    <2>2. /\ committed' = [committed EXCEPT ![r] = 0] /\ tasks' = [tasks EXCEPT ![r] = <<>>]
          /\ buf' = buf
      BY <1>5, <2>1, ResetBatchStep
    <2>3. ASSUME NEW b \in Batches, NEW i \in 1..committed'[b] PROVE Copies(b, i)'
      <3>1. b # r
        <4>1. committed'[r] = 0
          BY <1>0, <2>2
        <4> QED  BY <2>3, <4>1
      <3>2. committed'[b] = committed[b] /\ tasks'[b] = tasks[b] /\ buf'[b] = buf[b]
        BY <1>0, <2>2, <3>1
      <3>3. Copies(b, i)
        BY <1>1, <3>2
      <3> QED  BY <1>2, <1>3, <1>5, <3>2, <3>3
    <2> QED  BY <2>3
  <1>6. ASSUME NEW u \in Threads, StageBegin(u) PROVE Goal
    <2>1. PICK r \in Batches : Begins(u, r)
      BY <1>6, StageBeginStep
    <2>2. UNCHANGED <<committed, tasks, buf>>
      BY <1>6 DEF StageBegin, StageBeginAt, batchVars
    <2>3. /\ batchPtr' = [batchPtr EXCEPT ![u] = r] /\ tpc[u] = "woken"
          /\ tpc' = [tpc EXCEPT ![u] = "commit"]
          /\ pairsOffset' = [pairsOffset EXCEPT ![u] = committed[r]]
          /\ pairsToCopy' = [pairsToCopy EXCEPT ![u] = 0]
      BY <2>1 DEF Begins
    <2>4. ASSUME NEW b \in Batches, NEW i \in 1..committed'[b] PROVE Copies(b, i)'
      <3>1. Copies(b, i) /\ buf'[b] = buf[b] /\ tasks'[b] = tasks[b]
        BY <1>1, <2>2
      <3>2. ASSUME NEW t \in Threads, ToCopy(t, b, i) PROVE ToCopy(t, b, i)'
        <4>1. t # u
          BY <2>3, <3>2 DEF ToCopy, Works, Active
        <4> QED  BY <1>0, <2>3, <3>2, <4>1 DEF ToCopy, Works, Active, Share
      <3> QED  BY <1>2, <3>1, <3>2
    <2> QED  BY <2>4
  <1>7. ASSUME NEW u \in Threads, CommitTask(u) PROVE Goal
    <2>0. PICK r \in Batches : r = batchPtr[u]
      <3>1. batchPtr[u] \in Batches
        BY <1>7, CommitTaskStep
      <3> QED  BY <3>1
    <2> DEFINE s == Head(tasksQ)
               p == Pairs[s]
               old == committed[r]
    <2>1. /\ s \in Samples /\ p \in Nat /\ Active(u) /\ tpc[u] = "commit"
          /\ pairsOffset[u] \in Nat /\ pairsToCopy[u] \in Nat /\ old \in Nat
          /\ pairsOffset[u] + pairsToCopy[u] = old
          /\ pairsToCopy' = [pairsToCopy EXCEPT ![u] = @ + p]
          /\ committed' = [committed EXCEPT ![r] = @ + p]
          /\ tasks' = [tasks EXCEPT ![r] = Append(@, s)]
      BY <1>7, <2>0, CommitTaskStep
    <2>2. UNCHANGED <<tpc, batchPtr, pairsOffset, buf>>
      BY <1>7 DEF CommitTask
    <2>3. /\ pairsToCopy'[u] = pairsToCopy[u] + p /\ committed'[r] = old + p
          /\ tasks'[r] = Append(tasks[r], s) /\ tasks[r] \in Seq(Samples)
          /\ \A b \in Batches : b # r => committed'[b] = committed[b] /\ tasks'[b] = tasks[b]
      BY <1>0, <2>1
    <2> HIDE DEF s, p
    <2>4. ASSUME NEW t \in Threads PROVE Share(t) \subseteq Share(t)'
      <3>1. pairsOffset'[t] = pairsOffset[t] /\ pairsOffset[t] \in Nat /\ pairsToCopy[t] \in Nat
        BY <1>0, <2>2
      <3>2. pairsToCopy'[t] \in Nat /\ pairsToCopy'[t] >= pairsToCopy[t]
        BY <1>0, <2>1
      <3> QED  BY <3>1, <3>2 DEF Share
    <2>5. ASSUME NEW b \in Batches, NEW i, NEW t \in Threads, ToCopy(t, b, i) PROVE ToCopy(t, b, i)'
      BY <2>2, <2>4, <2>5 DEF ToCopy, Works, Active
    <2>6. ASSUME NEW b \in Batches, NEW i \in 1..committed'[b] PROVE Copies(b, i)'
      <3>1. CASE b # r
        <4>1. Copies(b, i) /\ buf'[b] = buf[b] /\ tasks'[b] = tasks[b]
          BY <1>1, <2>2, <2>3, <3>1
        <4> QED  BY <1>2, <2>5, <4>1
      <3>2. CASE b = r /\ i \in 1..old
        <4>1. Copies(b, i)
          BY <1>1, <3>2
        <4>2. CASE \E t \in Threads : ToCopy(t, b, i)
          BY <2>5, <4>2 DEF Copies
        <4>3. CASE buf[b][i] = SlotsOf(tasks[b])[i]
          <5>1. old = Len(SlotsOf(tasks[r]))
            BY DEF SlotInv
          <5>2. SlotsOf(Append(tasks[r], s))[i] = SlotsOf(tasks[r])[i]
            BY <2>1, <2>3, <3>2, <5>1, SlotsAppendLen
          <5>3. buf'[b][i] = SlotsOf(tasks'[b])[i]
            BY <2>2, <2>3, <3>2, <4>3, <5>2
          <5> QED  BY <5>3 DEF Copies
        <4> QED  BY <4>1, <4>2, <4>3 DEF Copies
      <3>3. CASE b = r /\ i \notin 1..old
        <4>1. i \in old + 1 .. old + p
          BY <2>1, <2>3, <2>6, <3>3
        <4>2. i \in Share(u)'
          <5> DEFINE o == pairsOffset[u]
                     n == pairsToCopy[u]
          <5>1. Share(u)' = o + 1 .. o + (n + p)
            BY <2>2, <2>3 DEF Share
          <5>2. o \in Nat /\ n \in Nat /\ old = o + n
            BY <2>1
          <5> HIDE DEF o, n, old
          <5> QED  BY <2>1, <4>1, <5>1, <5>2
        <4>3. ToCopy(u, b, i)'
          BY <2>0, <2>1, <2>2, <3>3, <4>2 DEF ToCopy, Works, Active
        <4> QED  BY <4>3 DEF Copies
      <3> QED  BY <3>1, <3>2, <3>3
    <2> QED  BY <2>6
  <1>8. ASSUME NEW u \in Threads, Copy(u) PROVE Goal
    <2>0. PICK r \in Batches : r = batchPtr[u]
      <3>1. Active(u)
        BY <1>8 DEF Copy, Active
      <3> QED  BY <3>1 DEF ThreadInv
    <2>1. PICK from :
              /\ buf' = [buf EXCEPT ![r] = [i \in 1..MaxBatchSize |->
                            IF i \in Share(u) THEN from[i - pairsOffset[u]] ELSE buf[r][i]]]
              /\ \A i \in Share(u) : from[i - pairsOffset[u]] = SlotsOf(tasks[r])[i]
      BY <1>8, <2>0, CopyStep
    <2>2. /\ UNCHANGED <<committed, tasks, batchPtr, pairsOffset, pairsToCopy>>
          /\ tpc[u] = "copy" /\ tpc' = [tpc EXCEPT ![u] = "complete"]
      BY <1>8 DEF Copy, localVars
    <2>3. ASSUME NEW b \in Batches, NEW i \in 1..committed'[b] PROVE Copies(b, i)'
      <3>1. Copies(b, i) /\ tasks'[b] = tasks[b] /\ i \in 1..MaxBatchSize
        BY <1>0, <1>1, <2>2
      <3>2. ASSUME NEW t \in Threads, t # u, ToCopy(t, b, i) PROVE ToCopy(t, b, i)'
        BY <1>0, <2>2, <3>2 DEF ToCopy, Works, Active, Share
      <3>3. CASE b = r /\ i \in Share(u)
        <4>1. buf'[b][i] = SlotsOf(tasks[b])[i]
          BY <1>0, <2>1, <3>1, <3>3
        <4> QED  BY <3>1, <4>1 DEF Copies
      <3>4. CASE ~(b = r /\ i \in Share(u))
        <4>1. buf'[b][i] = buf[b][i]
          BY <1>0, <2>1, <3>1, <3>4
        <4>2. ~ToCopy(u, b, i)
          BY <2>0, <3>4 DEF ToCopy, Works
        <4> QED  BY <3>1, <3>2, <4>1, <4>2 DEF Copies
      <3> QED  BY <3>3, <3>4
    <2> QED  BY <2>3
  <1>9. ASSUME NEW u \in Threads, CompleteCopies(u) PROVE Goal
    <2>1. /\ UNCHANGED <<committed, tasks, buf, batchPtr, pairsOffset, pairsToCopy>>
          /\ tpc[u] = "complete" /\ tpc' = [tpc EXCEPT ![u] = "woken"]
      BY <1>9 DEF CompleteCopies, localVars
    <2>2. ASSUME NEW b \in Batches, NEW i \in 1..committed'[b] PROVE Copies(b, i)'
      <3>1. Copies(b, i) /\ buf'[b] = buf[b] /\ tasks'[b] = tasks[b]
        BY <1>1, <2>1
      <3>2. ASSUME NEW t \in Threads, ToCopy(t, b, i) PROVE ToCopy(t, b, i)'
        <4>1. t # u
          BY <2>1, <3>2 DEF ToCopy
        <4> QED  BY <1>0, <2>1, <3>2, <4>1 DEF ToCopy, Works, Active, Share
      <3> QED  BY <1>2, <3>1, <3>2
    <2> QED  BY <2>2
  <1> HIDE DEF Goal
  <1>10. Goal
    BY <1>4, <1>5, <1>6, <1>7, <1>8, <1>9, PassingStep
  <1>11. (\A b \in Batches : \A i \in 1..committed[b] : Copies(b, i))'
    BY <1>10 DEF Goal
  <1> QED  BY <1>11, BufIs, PTL

\* What is noted of an entry of a stream.
Noted(e) == IF e.batch = NoBatch THEN e.data = SlotsOf(e.tasks) ELSE e.tasks = tasks[e.batch]

\* What is copied of a batch that was handed over is what its tasks ask for.
LEMMA CopiedSlots ==
  ASSUME TypeOK, ThreadInv, ShareInv, SlotInv, BufInv, NEW b \in Batches, Full(b)
  PROVE  SubSeq(buf[b], 1, committed[b]) = SlotsOf(tasks[b])
  <1> DEFINE n == committed[b]
             slots == SlotsOf(tasks[b])
             f == buf[b]
  <1>1. /\ n \in Nat /\ n = Len(slots) /\ n <= MaxBatchSize /\ MaxBatchSize \in Nat
        /\ f \in [1..MaxBatchSize -> Samples \cup {Junk}] /\ tasks[b] \in Seq(Samples)
    BY SizesAssumption DEF TypeOK, SlotInv
  <1>2. slots \in Seq(Samples)
    BY <1>1, SlotsType
  <1>3. ASSUME NEW i \in 1..n PROVE f[i] = slots[i]
    <2>1. SUFFICES ASSUME NEW t \in Threads, ToCopy(t, b, i) PROVE FALSE
      BY BufIs DEF Copies
    <2>2. pairsToCopy[t] = 0
      BY <2>1, CompletedNotShared DEF ToCopy
    <2> QED  BY <2>1, <2>2, EmptyShare DEF ToCopy
  <1> HIDE DEF f, n
  <1>4. SubSeq(f, 1, n) = [i \in 1..n |-> f[i]]
    <2>1. SubSeq(f, 1, n) = [i \in 1..(n - 1 + 1) |-> f[i + 1 - 1]]
      BY <1>1
    <2>2. n - 1 + 1 = n /\ \A i \in 1..n : i + 1 - 1 = i
      BY <1>1
    <2> QED  BY <2>1, <2>2
  <1> HIDE DEF slots
  <1>5. slots = [i \in 1..n |-> slots[i]]
    BY <1>1, <1>2
  <1>6. SubSeq(f, 1, n) = slots
    BY <1>3, <1>4, <1>5
  <1> QED  BY <1>6 DEF f, n, slots

\* Every step keeps StreamInv.
LEMMA StreamNext ==
  ASSUME FlushExclusive, TypeOK, MutexInv, WaitInv, FlushInv, PlaceInv, OnceInv, ThreadInv, ShareInv,
         SlotInv, BufInv, StreamInv, Step
  PROVE  StreamInv'
  <1> DEFINE Goal == \A d \in Consumers : \A j \in DOMAIN stream'[d] : Noted(stream[d][j])'
  <1>0. /\ tasks \in [Batches -> Seq(Samples)] /\ stream \in [Consumers -> Seq(EntryType)]
        /\ got \in [Consumers -> Batches \cup {NoBatch}]
    BY StreamType DEF TypeOK
  <1>1. \A d \in Consumers : \A j \in DOMAIN stream[d] : Noted(stream[d][j])
    BY DEF StreamInv, Noted
  <1>2. \A d \in Consumers : \A j \in DOMAIN stream[d] :
            stream[d][j].batch \in Batches \cup {NoBatch}
    BY StreamType
  <1>3. ASSUME NEW e, Noted(e), e.batch # NoBatch => tasks'[e.batch] = tasks[e.batch] PROVE Noted(e)'
    BY <1>3 DEF Noted
  <1>4. ASSUME UNCHANGED <<stream, tasks>> PROVE Goal
    BY <1>1, <1>4 DEF Noted
  <1>5. ASSUME NEW b \in Batches, ~Streamed(b), stream' = stream,
               \A x \in Batches : x # b => tasks'[x] = tasks[x]
        PROVE  Goal
    <2>1. ASSUME NEW d \in Consumers, NEW j \in DOMAIN stream[d] PROVE Noted(stream[d][j])'
      <3>1. PICK e : e = stream[d][j]
        OBVIOUS
      <3>2. e.batch # b /\ Noted(e) /\ e.batch \in Batches \cup {NoBatch}
        BY <1>1, <1>2, <1>5, <3>1 DEF Streamed
      <3>3. Noted(e)'
        BY <1>3, <1>5, <3>2
      <3>4. stream'[d][j] = e
        BY <1>5, <3>1
      <3> QED  BY <3>3, <3>4
    <2> QED  BY <1>5, <2>1
  <1>6. ASSUME NEW u \in Threads, CommitTask(u) PROVE Goal
    <2>0. PICK b \in Batches : b = batchPtr[u]
      <3>1. batchPtr[u] \in Batches
        BY <1>6, CommitTaskStep
      <3> QED  BY <3>1
    <2>1. /\ tasks' = [tasks EXCEPT ![b] = Append(@, Head(tasksQ))] /\ stream' = stream /\ Active(u)
      BY <1>6, <2>0, CommitTaskStep DEF CommitTask, consumerVars, streamVars
    <2>2. ~Streamed(b)
      BY <2>0, <2>1 DEF ThreadInv, Taken
    <2> HIDE DEF Goal
    <2> QED  BY <1>0, <1>5, <2>1, <2>2
  <1>7. ASSUME NEW c \in Consumers, ResetBatch(c) PROVE Goal
    <2>0. PICK b \in Batches : b = resetBatch[c]
      BY <1>7, ResetBatchStep
    <2>1. tasks' = [tasks EXCEPT ![b] = <<>>] /\ stream' = stream /\ Returning(b)
      BY <1>7, <2>0, ResetBatchStep DEF consumerVars, streamVars
    <2>2. ~Streamed(b)
      BY <2>1, ReturningFacts
    <2> HIDE DEF Goal
    <2> QED  BY <1>0, <1>5, <2>1, <2>2
  <1>8. ASSUME NEW c \in Consumers, Deliver(c) PROVE Goal
    <2>1. tasks' = tasks
      BY <1>8 DEF Deliver, batchVars
    <2>2. \A d \in Consumers : \A i \in DOMAIN stream'[d] :
              \E j \in DOMAIN stream[d] : stream'[d][i] = stream[d][j]
      BY <1>8, DeliverMoves
    <2>3. ASSUME NEW d \in Consumers, NEW i \in DOMAIN stream'[d] PROVE Noted(stream[d][i])'
      <3>1. PICK j \in DOMAIN stream[d] : stream'[d][i] = stream[d][j]
        BY <2>2
      <3>2. PICK e : e = stream[d][j]
        OBVIOUS
      <3>3. Noted(e)'
        BY <1>1, <1>3, <2>1, <3>2
      <3> QED  BY <3>1, <3>2, <3>3 DEF Noted
    <2> QED  BY <2>3
  <1>9. ASSUME NEW c \in Consumers, Infer(c) PROVE Goal
    <2>0. PICK b \in Batches : b = got[c]
      BY <1>9, InferMoves
    <2> DEFINE q == stream[c]
               new == [batch |-> b, tasks |-> tasks[b], data |-> <<>>]
    <2>1. stream' = [stream EXCEPT ![c] = Append(q, new)] /\ tasks' = tasks
      BY <1>9, <2>0 DEF Infer, batchVars
    <2>2. Noted(new)'
      BY <2>1, NamesAssumption DEF Noted
    <2>3. ASSUME NEW d \in Consumers, NEW i \in DOMAIN stream'[d]
          PROVE  stream'[d][i] = new \/ \E j \in DOMAIN stream[d] : stream'[d][i] = stream[d][j]
      <3>1. CASE d # c
        BY <1>0, <2>1, <2>3, <3>1
      <3>2. CASE d = c
        <4>1. stream'[d] = Append(q, new) /\ q \in Seq(EntryType)
          BY <1>0, <2>1, <3>2
        <4> HIDE DEF q, new
        <4>2. /\ DOMAIN q = 1..Len(q) /\ DOMAIN Append(q, new) = 1..(Len(q) + 1) /\ Len(q) \in Nat
              /\ \A j \in 1..Len(q) : Append(q, new)[j] = q[j]
              /\ Append(q, new)[Len(q) + 1] = new
          BY <4>1
        <4>3. i \in DOMAIN q \/ i = Len(q) + 1
          BY <2>3, <4>1, <4>2
        <4> QED  BY <3>2, <4>1, <4>2, <4>3 DEF q
      <3> QED  BY <3>1, <3>2
    <2> HIDE DEF new
    <2>4. ASSUME NEW d \in Consumers, NEW i \in DOMAIN stream'[d] PROVE Noted(stream[d][i])'
      <3>1. CASE stream'[d][i] = new
        <4>1. PICK e : e = new
          OBVIOUS
        <4>2. Noted(e)'
          BY <2>1, <4>1, NamesAssumption DEF Noted, new
        <4> QED  BY <3>1, <4>1, <4>2 DEF Noted
      <3>2. CASE \E j \in DOMAIN stream[d] : stream'[d][i] = stream[d][j]
        <4>1. PICK j \in DOMAIN stream[d] : stream'[d][i] = stream[d][j]
          BY <3>2
        <4>2. PICK e : e = stream[d][j]
          OBVIOUS
        <4>3. Noted(e)'
          BY <1>1, <1>3, <2>1, <4>2
        <4> QED  BY <4>1, <4>2, <4>3 DEF Noted
      <3> QED  BY <2>3, <3>1, <3>2
    <2> QED  BY <2>4
  <1>10. ASSUME NEW c \in Consumers, H2DDone(c) PROVE Goal
    <2>1. PICK b \in Batches, i \in DOMAIN stream[c] : Copied(c, i, b)
      BY <1>10, H2DStep
    <2>2. PICK e \in EntryType : /\ e.batch = NoBatch /\ e.tasks = stream[c][i].tasks
                                 /\ e.data = SubSeq(buf[b], 1, committed[b])
                                 /\ stream' = [stream EXCEPT ![c] = [stream[c] EXCEPT ![i] = e]]
      BY <2>1 DEF Copied
    <2>3. stream[c][i].batch = b /\ Streamed(b) /\ b # NoBatch /\ tasks' = tasks
      BY <1>10, <2>1, NamesAssumption DEF Copied, Streamed, H2DDone, batchVars
    <2>4. stream[c][i].tasks = tasks[b]
      BY <1>1, <2>3 DEF Noted
    <2>5. SubSeq(buf[b], 1, committed[b]) = SlotsOf(tasks[b])
      BY <2>3, ReadyFacts, CopiedSlots
    <2>6. Noted(e)'
      BY <2>2, <2>4, <2>5 DEF Noted
    <2>7. ASSUME NEW d \in Consumers, NEW j \in DOMAIN stream'[d] PROVE Noted(stream[d][j])'
      <3>1. DOMAIN stream'[d] = DOMAIN stream[d] /\ stream'[d][j] = (IF d = c /\ j = i THEN e ELSE stream[d][j])
        BY <1>0, <2>2
      <3>2. PICK g : g = stream'[d][j]
        OBVIOUS
      <3>3. Noted(g)'
        <4>1. CASE d = c /\ j = i
          BY <2>6, <3>1, <3>2, <4>1
        <4>2. CASE ~(d = c /\ j = i)
          <5>1. g = stream[d][j] /\ j \in DOMAIN stream[d]
            BY <3>1, <3>2, <4>2
          <5> QED  BY <1>1, <1>3, <2>3, <5>1
        <4> QED  BY <4>1, <4>2
      <3> QED  BY <3>2, <3>3 DEF Noted
    <2> QED  BY <2>7
  <1>11. ASSUME NEW t \in Threads, StageBegin(t) \/ Copy(t) \/ CompleteCopies(t)
         PROVE  UNCHANGED <<stream, tasks>>
    BY <1>11 DEF StageBegin, StageBeginAt, Copy, CompleteCopies, batchVars, consumerVars, streamVars
  <1>12. ASSUME Rests \/ (\E s \in Samples : IssueTask(s)) \/ FlushMark \/ FlushReady \/ FlushUnstage
                \/ \E c \in Consumers : GetBatch(c) \/ NotifyH2D(c)
         PROVE  UNCHANGED <<stream, tasks>>
    BY <1>12 DEF Rests, IssueTask, FlushMark, FlushReady, FlushUnstage, GetBatch, NotifyH2D,
                 batchVars, consumerVars, streamVars
  <1>13. Goal
    <2> HIDE DEF Goal
    <2> QED  BY <1>4, <1>6, <1>7, <1>8, <1>9, <1>10, <1>11, <1>12, RestsOrMoves
  <1> QED  BY <1>13 DEF Goal, Noted, StreamInv

-----------------------------------------------------------------------------
(***************************************************************************)
(* No more pairs are readied than were issued.                             *)
(***************************************************************************)
Mine(home, b) == {s \in DOMAIN home : home[s] = b}
HomeOf(home, b) == IF Taken(b) THEN Mine(home, b) = {} ELSE committed[b] = Cardinality(PairSet(Mine(home, b)))

Homes(ss) == [ss -> Batches \cup {NoBatch}]

\* Dealt, a batch at a time.
LEMMA DealtIs ==
  ASSUME NEW home \in Homes(issued), NEW taken \in SUBSET issued
  PROVE  Dealt(home, taken) <=>
            /\ readiedPairs = Cardinality(PairSet(taken))
            /\ \A s \in taken : home[s] = NoBatch
            /\ \A i \in DOMAIN tasksQ : tasksQ[i] \in issued \ taken /\ home[tasksQ[i]] = NoBatch
            /\ \A b \in Batches : HomeOf(home, b)
  BY DEF Dealt, HomeOf, Mine, Homes

\* CountInv, when a batch keeps its count, or begins from none.
LEMMA CountKeeps ==
  ASSUME CountInv, UNCHANGED <<issued, readiedPairs, issuedPairs, tasksQ>>,
         \A x \in Batches : \/ Taken(x)' /\ Taken(x)
                            \/ ~Taken(x)' /\ ~Taken(x) /\ committed'[x] = committed[x]
                            \/ ~Taken(x)' /\ Taken(x) /\ committed'[x] = 0
  PROVE  CountInv'
  <1>1. PICK home \in Homes(issued), taken \in SUBSET issued : Dealt(home, taken)
    BY DEF CountInv, Homes
  <1>2. ASSUME NEW b \in Batches PROVE HomeOf(home, b)'
    <2>1. HomeOf(home, b)
      BY <1>1, DealtIs
    <2>2. CASE ~Taken(b)' /\ Taken(b) /\ committed'[b] = 0
      <3>1. Mine(home, b) = {}
        BY <2>1, <2>2 DEF HomeOf
      <3>2. PairSet({}) = {} /\ Cardinality({}) = 0
        BY FS_EmptySet DEF PairSet
      <3> QED  BY <2>2, <3>1, <3>2 DEF HomeOf
    <2>3. CASE Taken(b)' /\ Taken(b)
      BY <2>1, <2>3 DEF HomeOf
    <2>4. CASE ~Taken(b)' /\ ~Taken(b) /\ committed'[b] = committed[b]
      BY <2>1, <2>4 DEF HomeOf
    <2> QED  BY <2>2, <2>3, <2>4
  <1>3. Dealt(home, taken)'
    <2>1. \A b \in Batches : HomeOf(home, b)'
      BY <1>2
    <2>2. (\A b \in Batches :
             LET mine == {s \in issued : home[s] = b}
             IN  IF Taken(b) THEN mine = {} ELSE committed[b] = Cardinality(PairSet(mine)))'
      <3>1. issued' = DOMAIN home
        BY <1>1 DEF Homes
      <3> QED  BY <2>1, <3>1 DEF HomeOf, Mine
    <2> QED  BY <1>1, <2>2 DEF Dealt
  <1>4. Distinct(tasksQ)'
    BY DEF CountInv, Distinct
  <1>5. (IsFiniteSet(PairSet(issued)) /\ issuedPairs = Cardinality(PairSet(issued)))'
    BY DEF CountInv
  <1> QED  BY <1>1, <1>3, <1>4, <1>5 DEF CountInv, Homes

\* CountInv, when a task is issued: its sample has no home yet.
LEMMA CountIssue ==
  ASSUME TypeOK, CountInv, NEW s \in Samples, IssueTask(s)
  PROVE  CountInv'
  <1>1. PICK home \in Homes(issued), taken \in SUBSET issued : Dealt(home, taken)
    BY DEF CountInv, Homes
  <1>2. /\ s \notin issued /\ tasksQ' = Append(tasksQ, s) /\ issuedPairs' = issuedPairs + Pairs[s]
        /\ issued' = issued \cup {s}
        /\ UNCHANGED <<readiedPairs, committed, idle, got, resetBatch, stream>>
    BY DEF IssueTask, batchVars, consumerVars, streamVars
  <1>3. \A x \in Batches : Taken(x)' <=> Taken(x)
    BY <1>2, TakenUnmoved
  <1>d. PICK new : new = [x \in issued \cup {s} |-> IF x = s THEN NoBatch ELSE home[x]]
    OBVIOUS
  <1>4. /\ new \in Homes(issued \cup {s}) /\ DOMAIN new = issued \cup {s} /\ DOMAIN home = issued
        /\ new[s] = NoBatch
        /\ \A x \in issued : new[x] = home[x]
    BY <1>1, <1>2, <1>d DEF Homes
  <1>5. ASSUME NEW b \in Batches
        PROVE  {x \in issued' : new[x] = b} = {x \in issued : home[x] = b}
    BY <1>2, <1>4, NamesAssumption
  <1>6. tasksQ \in Seq(Samples)
    BY DEF TypeOK
  <1>7. \A i \in DOMAIN tasksQ : tasksQ[i] \in issued \ taken /\ home[tasksQ[i]] = NoBatch
    BY <1>1 DEF Dealt
  <1>8. /\ \A x : Has(Append(tasksQ, s), x) <=> Has(tasksQ, x) \/ x = s
        /\ Distinct(Append(tasksQ, s))
    <2>1. ~Has(tasksQ, s) /\ Distinct(tasksQ)
      BY <1>2, <1>7 DEF Has, CountInv
    <2> QED  BY <1>6, <2>1, AppendHas
  <1>9. \A i \in DOMAIN tasksQ' : tasksQ'[i] \in issued' \ taken /\ new[tasksQ'[i]] = NoBatch
    <2>1. ASSUME NEW i \in DOMAIN tasksQ' PROVE tasksQ'[i] \in issued' \ taken /\ new[tasksQ'[i]] = NoBatch
      <3>1. Has(tasksQ, tasksQ'[i]) \/ tasksQ'[i] = s
        BY <1>2, <1>8, <2>1 DEF Has
      <3>2. CASE tasksQ'[i] = s
        BY <1>1, <1>2, <1>4, <3>2
      <3>3. CASE Has(tasksQ, tasksQ'[i])
        BY <1>2, <1>4, <1>7, <3>3 DEF Has
      <3> QED  BY <3>1, <3>2, <3>3
    <2> QED  BY <2>1
  <1>10. \A x \in taken : new[x] = NoBatch
    BY <1>1, <1>4 DEF Dealt
  <1>11. (\A b \in Batches :
            LET mine == {x \in issued : new[x] = b}
            IN  IF Taken(b) THEN mine = {} ELSE committed[b] = Cardinality(PairSet(mine)))'
    <2>1. ASSUME NEW b \in Batches
          PROVE  IF Taken(b)' THEN {x \in issued' : new[x] = b} = {}
                 ELSE committed'[b] = Cardinality(PairSet({x \in issued' : new[x] = b}))
      BY <1>1, <1>2, <1>3, <1>5 DEF Dealt
    <2> QED  BY <2>1
  <1>12. Dealt(new, taken)'
    BY <1>1, <1>2, <1>9, <1>10, <1>11 DEF Dealt
  <1>13. (IsFiniteSet(PairSet(issued)) /\ issuedPairs = Cardinality(PairSet(issued)))'
    <2>1. IsFiniteSet(PairSet({s})) /\ Cardinality(PairSet({s})) = Pairs[s]
      BY PairSetOne
    <2>2. issued \cap {s} = {}
      BY <1>2
    <2>3. /\ IsFiniteSet(PairSet(issued \cup {s}))
          /\ Cardinality(PairSet(issued \cup {s})) = Cardinality(PairSet(issued)) + Cardinality(PairSet({s}))
      BY <2>1, <2>2, PairSetUnion DEF CountInv
    <2> QED  BY <1>2, <2>1, <2>3 DEF CountInv
  <1>14. Distinct(tasksQ)'
    BY <1>2, <1>8 DEF Distinct
  <1>15. new \in Homes(issued') /\ taken \in SUBSET issued'
    BY <1>1, <1>2, <1>4
  <1> QED  BY <1>12, <1>13, <1>14, <1>15 DEF CountInv, Homes

\* CountInv, when a task is committed: its sample gets the batch as its home.
LEMMA CountCommit ==
  ASSUME TypeOK, ThreadInv, CountInv, NEW u \in Threads, CommitTask(u)
  PROVE  CountInv'
  <1>1. PICK home \in Homes(issued), taken \in SUBSET issued : Dealt(home, taken)
    BY DEF CountInv, Homes
  <1>2. PICK b \in Batches, s \in Samples : b = batchPtr[u] /\ s = Head(tasksQ)
    <2>1. batchPtr[u] \in Batches /\ Head(tasksQ) \in Samples
      BY CommitTaskStep
    <2> QED  BY <2>1
  <1>3. /\ committed' = [committed EXCEPT ![b] = @ + Pairs[s]]
        /\ tasksQ' = Tail(tasksQ) /\ tasksQ # <<>> /\ Active(u)
        /\ UNCHANGED <<issued, readiedPairs, issuedPairs, idle, got, resetBatch, stream>>
    BY <1>2, CommitTaskStep DEF CommitTask, countVars, consumerVars, streamVars, issuerVars
  <1>4. ~Taken(b) /\ \A x \in Batches : Taken(x)' <=> Taken(x)
    BY <1>2, <1>3, TakenUnmoved DEF ThreadInv
  <1>5. /\ tasksQ \in Seq(Samples) /\ Distinct(tasksQ) /\ committed \in [Batches -> Nat]
        /\ \A i \in DOMAIN tasksQ : tasksQ[i] \in issued \ taken /\ home[tasksQ[i]] = NoBatch
    BY <1>1, SizesType DEF TypeOK, CountInv, Dealt
  <1>6. /\ Has(tasksQ, s) /\ Distinct(Tail(tasksQ))
        /\ \A x : Has(Tail(tasksQ), x) <=> Has(tasksQ, x) /\ x # s
    BY <1>2, <1>3, <1>5, TailHas
  <1>7. s \in issued \ taken /\ home[s] = NoBatch
    BY <1>5, <1>6 DEF Has
  <1>d. PICK new : new = [home EXCEPT ![s] = b]
    OBVIOUS
  <1>8. /\ new \in Homes(issued) /\ new[s] = b
        /\ \A x \in issued : x # s => new[x] = home[x]
    BY <1>1, <1>7, <1>d DEF Homes
  <1>9. \A x \in taken : new[x] = NoBatch
    BY <1>1, <1>7, <1>8 DEF Dealt
  <1>10. \A i \in DOMAIN tasksQ' : tasksQ'[i] \in issued \ taken /\ new[tasksQ'[i]] = NoBatch
    <2>1. ASSUME NEW i \in DOMAIN tasksQ' PROVE tasksQ'[i] \in issued \ taken /\ new[tasksQ'[i]] = NoBatch
      <3>1. Has(tasksQ, tasksQ'[i]) /\ tasksQ'[i] # s
        BY <1>3, <1>6, <2>1 DEF Has
      <3> QED  BY <1>5, <1>8, <3>1 DEF Has
    <2> QED  BY <2>1
  <1>11. ASSUME NEW x \in Batches
         PROVE  IF Taken(x)' THEN {z \in issued' : new[z] = x} = {}
                ELSE committed'[x] = Cardinality(PairSet({z \in issued' : new[z] = x}))
    <2>1. CASE x # b
      <3>1. {z \in issued' : new[z] = x} = {z \in issued : home[z] = x}
        BY <1>3, <1>7, <1>8, <2>1, NamesAssumption
      <3>2. committed'[x] = committed[x]
        BY <1>3, <1>5, <2>1
      <3> QED  BY <1>1, <1>4, <3>1, <3>2 DEF Dealt
    <2>2. CASE x = b
      <3> DEFINE old == {z \in issued : home[z] = b}
      <3>1. {z \in issued' : new[z] = x} = old \cup {s}
        BY <1>3, <1>7, <1>8, <2>2, NamesAssumption
      <3>2. committed[b] = Cardinality(PairSet(old))
        BY <1>1, <1>4 DEF Dealt
      <3>3. old \subseteq issued /\ old \cap {s} = {}
        BY <1>7, NamesAssumption
      <3>4. committed'[b] = committed[b] + Pairs[s]
        BY <1>3, <1>5
      <3> HIDE DEF old
      <3>5. IsFiniteSet(PairSet(old))
        BY <3>3, PairSetMono DEF CountInv
      <3>6. IsFiniteSet(PairSet({s})) /\ Cardinality(PairSet({s})) = Pairs[s]
        BY PairSetOne
      <3>7. Cardinality(PairSet(old \cup {s})) = Cardinality(PairSet(old)) + Cardinality(PairSet({s}))
        BY <3>3, <3>5, <3>6, PairSetUnion
      <3> QED  BY <1>4, <2>2, <3>1, <3>2, <3>4, <3>6, <3>7
    <2> QED  BY <2>1, <2>2
  <1>12. (\A x \in Batches :
            LET mine == {z \in issued : new[z] = x}
            IN  IF Taken(x) THEN mine = {} ELSE committed[x] = Cardinality(PairSet(mine)))'
    BY <1>11
  <1>13. Dealt(new, taken)'
    BY <1>1, <1>3, <1>9, <1>10, <1>12 DEF Dealt
  <1>14. Distinct(tasksQ)'
    BY <1>3, <1>6 DEF Distinct
  <1>15. (IsFiniteSet(PairSet(issued)) /\ issuedPairs = Cardinality(PairSet(issued)))'
    BY <1>3 DEF CountInv
  <1>16. new \in Homes(issued') /\ taken \in SUBSET issued'
    BY <1>1, <1>3, <1>8
  <1> QED  BY <1>13, <1>14, <1>15, <1>16 DEF CountInv, Homes

\* CountInv, when GetBatch counts a batch: its samples have been readied, and no more
\* than were issued.
LEMMA CountGet ==
  ASSUME TypeOK, WaitInv, OnceInv, PlaceInv, CountInv, NEW c \in Consumers, GetBatch(c)
  PROVE  CountInv' /\ ~aborted'
  <1>1. PICK home \in Homes(issued), taken \in SUBSET issued : Dealt(home, taken)
    BY DEF CountInv, Homes
  <1>2. PICK b \in Batches : b = Head(ready)
    BY GetMoves
  <1>3. /\ Has(ready, b) /\ \A x \in Batches : Taken(x)' <=> Taken(x) \/ x = b
    BY <1>2, GetMoves, TakenGet
  <1>4. Full(b) /\ ~Taken(b)
    BY <1>3, ReadyFacts
  <1>5. /\ readiedPairs' = readiedPairs + committed[b] /\ aborted' = (readiedPairs' > issuedPairs)
        /\ UNCHANGED <<issued, issuedPairs, tasksQ, committed>>
    BY <1>2, <1>4 DEF GetBatch, batchVars, issuerVars, Full
  <1>d. PICK mine : mine = {z \in issued : home[z] = b}
    OBVIOUS
  <1>n. PICK new : new = [z \in issued |-> IF z \in mine THEN NoBatch ELSE home[z]]
    OBVIOUS
  <1>6. /\ new \in Homes(issued) /\ mine \subseteq issued /\ mine \cap taken = {}
        /\ \A z \in issued : new[z] = IF z \in mine THEN NoBatch ELSE home[z]
    <2>1. \A z \in taken : home[z] = NoBatch
      BY <1>1 DEF Dealt
    <2> QED  BY <1>1, <1>d, <1>n, <2>1, NamesAssumption DEF Homes
  <1>7. committed[b] = Cardinality(PairSet(mine)) /\ readiedPairs = Cardinality(PairSet(taken))
    BY <1>1, <1>4, <1>d DEF Dealt
  <1>8. /\ IsFiniteSet(PairSet(mine)) /\ IsFiniteSet(PairSet(taken)) /\ IsFiniteSet(PairSet(issued))
        /\ issuedPairs = Cardinality(PairSet(issued))
    BY <1>6, PairSetMono DEF CountInv
  <1>9. readiedPairs' = Cardinality(PairSet(taken \cup mine))
    BY <1>5, <1>6, <1>7, <1>8, PairSetUnion
  <1>10. ~aborted'
    <2>1. taken \cup mine \subseteq issued
      BY <1>6
    <2>2. /\ Cardinality(PairSet(taken \cup mine)) <= Cardinality(PairSet(issued))
          /\ Cardinality(PairSet(taken \cup mine)) \in Nat /\ Cardinality(PairSet(issued)) \in Nat
      BY <1>8, <2>1, PairSetMono
    <2>3. ~(readiedPairs' > issuedPairs)
      BY <1>8, <1>9, <2>2
    <2>4. aborted' = (readiedPairs' > issuedPairs)
      BY <1>5
    <2> QED  BY <2>3, <2>4, Zenon
  <1>11. \A z \in taken \cup mine : new[z] = NoBatch
    BY <1>1, <1>6 DEF Dealt
  <1>12. \A i \in DOMAIN tasksQ : tasksQ[i] \in issued \ (taken \cup mine) /\ new[tasksQ[i]] = NoBatch
    <2>1. \A i \in DOMAIN tasksQ : tasksQ[i] \in issued \ taken /\ home[tasksQ[i]] = NoBatch
      BY <1>1 DEF Dealt
    <2> QED  BY <1>6, <1>d, <2>1, NamesAssumption
  <1>13. ASSUME NEW x \in Batches
         PROVE  IF Taken(x)' THEN {z \in issued' : new[z] = x} = {}
                ELSE committed'[x] = Cardinality(PairSet({z \in issued' : new[z] = x}))
    <2>1. CASE x # b
      <3>1. {z \in issued' : new[z] = x} = {z \in issued : home[z] = x}
        BY <1>5, <1>6, <1>d, <2>1, NamesAssumption
      <3> QED  BY <1>1, <1>3, <1>5, <2>1, <3>1 DEF Dealt
    <2>2. CASE x = b
      <3>1. {z \in issued' : new[z] = x} = {}
        BY <1>5, <1>6, <1>d, <2>2, NamesAssumption
      <3> QED  BY <1>3, <2>2, <3>1
    <2> QED  BY <2>1, <2>2
  <1>14. (\A x \in Batches :
            LET all == {z \in issued : new[z] = x}
            IN  IF Taken(x) THEN all = {} ELSE committed[x] = Cardinality(PairSet(all)))'
    BY <1>13
  <1>15. Dealt(new, taken \cup mine)'
    BY <1>5, <1>9, <1>11, <1>12, <1>14 DEF Dealt
  <1>16. Distinct(tasksQ)' /\ (IsFiniteSet(PairSet(issued)) /\ issuedPairs = Cardinality(PairSet(issued)))'
    BY <1>5 DEF CountInv, Distinct
  <1>17. new \in Homes(issued') /\ taken \cup mine \in SUBSET issued'
    BY <1>5, <1>6
  <1> QED  BY <1>10, <1>15, <1>16, <1>17 DEF CountInv, Homes

\* Every step keeps CountInv.
LEMMA CountNext ==
  ASSUME FlushExclusive, TypeOK, MutexInv, WaitInv, FlushInv, PlaceInv, OnceInv, ThreadInv, ShareInv,
         CountInv, Step
  PROVE  CountInv'
  <1>1. ASSUME UNCHANGED <<issued, readiedPairs, issuedPairs, tasksQ, committed>>,
               \A x \in Batches : Taken(x)' <=> Taken(x)
        PROVE  CountInv'
    BY <1>1, CountKeeps
  <1>2. CASE Rests
    <2>1. UNCHANGED <<issued, readiedPairs, issuedPairs, tasksQ, committed, idle, got, resetBatch, stream>>
      BY <1>2 DEF Rests, countVars, streamVars
    <2> QED  BY <1>1, <2>1, TakenUnmoved
  <1>3. CASE FlushMark \/ FlushReady \/ FlushUnstage
    <2>1. UNCHANGED <<issued, readiedPairs, issuedPairs, tasksQ, committed, idle, got, resetBatch, stream>>
      BY <1>3 DEF FlushMark, FlushReady, FlushUnstage, queueVars, countVars, batchVars, consumerVars,
                  streamVars
    <2> QED  BY <1>1, <2>1, TakenUnmoved
  <1>4. ASSUME NEW u \in Threads, Copy(u) \/ CompleteCopies(u) PROVE CountInv'
    <2>1. UNCHANGED <<issued, readiedPairs, issuedPairs, tasksQ, committed, idle, got, resetBatch, stream>>
      BY <1>4 DEF Copy, CompleteCopies, queueVars, countVars, consumerVars, streamVars, issuerVars
    <2> QED  BY <1>1, <2>1, TakenUnmoved
  <1>5. ASSUME NEW c \in Consumers, Infer(c) \/ H2DDone(c) \/ NotifyH2D(c) \/ Deliver(c) PROVE CountInv'
    <2>1. UNCHANGED <<issued, readiedPairs, issuedPairs, tasksQ, committed>>
      BY <1>5 DEF Infer, H2DDone, NotifyH2D, Deliver, queueVars, countVars, batchVars, issuerVars
    <2> QED  BY <1>1, <1>5, <2>1, TakenSame
  <1>6. ASSUME NEW u \in Threads, StageBegin(u) PROVE CountInv'
    <2>1. PICK b \in Batches : Begins(u, b)
      BY <1>6, StageBeginStep
    <2>2. UNCHANGED <<issued, readiedPairs, issuedPairs, tasksQ, committed>>
      BY <1>6 DEF StageBegin, StageBeginAt, countVars, batchVars, issuerVars
    <2>3. \A x \in Batches : Taken(x)' <=> Taken(x) /\ x # b
      BY <1>6, <2>1, TakenBegin
    <2>4. Taken(b) => committed[b] = 0
      <3>1. Staged = b \/ (Staged = NoBatch /\ Has(idle, b))
        BY <1>6, <2>1, BeginMoves
      <3>2. CASE Staged = b
        BY <3>2, PlaceIs DEF Taken
      <3>3. CASE Has(idle, b)
        BY <3>3, IdleFacts DEF Fresh
      <3> QED  BY <3>1, <3>2, <3>3
    <2> QED  BY <2>2, <2>3, <2>4, CountKeeps
  <1>7. ASSUME NEW c \in Consumers, ResetBatch(c) PROVE CountInv'
    <2>0. PICK b \in Batches : b = resetBatch[c]
      BY <1>7, ResetBatchStep
    <2>1. /\ committed' = [committed EXCEPT ![b] = 0] /\ Returning(b)
          /\ UNCHANGED <<issued, readiedPairs, issuedPairs, tasksQ, idle, got, resetBatch, stream>>
      BY <1>7, <2>0, ResetBatchStep DEF queueVars, countVars, consumerVars, streamVars, issuerVars
    <2>2. \A x \in Batches : Taken(x)' <=> Taken(x)
      BY <2>1, TakenUnmoved
    <2>3. Taken(b) /\ \A x \in Batches : x # b => committed'[x] = committed[x]
      BY <2>1, SizesType DEF Taken
    <2> QED  BY <2>1, <2>2, <2>3, CountKeeps
  <1> QED  BY <1>2, <1>3, <1>4, <1>5, <1>6, <1>7, CountIssue, CountCommit, CountGet, RestsOrMoves

-----------------------------------------------------------------------------
(***************************************************************************)
(* No CHECK fails.                                                         *)
(***************************************************************************)
LEMMA ReadiesNonEmpty ==
  ASSUME TypeOK, NEW b \in Batches, committed[b] > 0, completed[b] = committed[b], Readies(b)
  PROVE  ~aborted'
  <1>1. aborted' = (completed[b] = 0)
    BY DEF Readies
  <1>2. ~(completed[b] = 0)
    BY SizesType
  <1> QED  BY <1>1, <1>2, Zenon

\* No step fails a CHECK.
LEMMA NoAbort ==
  ASSUME FlushExclusive, TypeOK, MutexInv, WaitInv, FlushInv, PlaceInv, OnceInv, ThreadInv, ShareInv,
         CountInv, ~aborted, Step
  PROVE  ~aborted'
  <1>1. CASE Rests
    <2>1. CASE ClosesNot
      BY <2>1 DEF ClosesNot
    <2>2. CASE ClosesStaged
      BY <2>2, ReadiesNonEmpty DEF ClosesStaged, Closes
    <2> QED  BY <1>1, <2>1, <2>2 DEF Rests
  <1>2. CASE (\E s \in Samples : IssueTask(s)) \/ FlushMark \/ FlushUnstage
    BY <1>2 DEF IssueTask, FlushMark, FlushUnstage
  <1>3. CASE FlushReady
    <2>1. /\ staging \in Batches /\ Staged = staging /\ ipc = "ready"
          /\ \/ completed[staging] = committed[staging] /\ Readies(staging)
             \/ UNCHANGED aborted
      BY <1>3, FlushReadyStep
    <2>2. ~Filling(staging)
      BY <2>1, NamesAssumption DEF MutexInv, InFlush, Filling
    <2>3. committed[staging] > 0
      BY <2>1, <2>2, PlaceIs
    <2> QED  BY <2>1, <2>3, ReadiesNonEmpty
  <1>4. ASSUME NEW t \in Threads, StageBegin(t) \/ CommitTask(t) \/ Copy(t) PROVE ~aborted'
    BY <1>4 DEF StageBegin, StageBeginAt, CommitTask, Copy
  <1>5. ASSUME NEW t \in Threads, CompleteCopies(t) PROVE ~aborted'
    <2> DEFINE done == completed[batchPtr[t]] + pairsToCopy[t]
    <2>1. done \in Nat /\ done > 0 /\ (aborted' = (done = 0) \/ aborted' = aborted)
      BY <1>5, CompleteCopiesStep
    <2> HIDE DEF done
    <2>2. ~(done = 0)
      BY <2>1
    <2> QED  BY <2>1, <2>2, Zenon
  <1>6. ASSUME NEW c \in Consumers, GetBatch(c) PROVE ~aborted'
    BY <1>6, CountGet
  <1>7. ASSUME NEW c \in Consumers, \/ Infer(c) \/ H2DDone(c) \/ ResetBatch(c) \/ NotifyH2D(c) \/ Deliver(c)
        PROVE  ~aborted'
    BY <1>7 DEF Infer, H2DDone, ResetBatch, NotifyH2D, Deliver
  <1> QED  BY <1>1, <1>2, <1>3, <1>4, <1>5, <1>6, <1>7, RestsOrMoves

-----------------------------------------------------------------------------
(***************************************************************************)
(* The initial states, and the invariant.                                  *)
(***************************************************************************)
IInv ==
    /\ TypeOK /\ MutexInv /\ WaitInv /\ FlushInv /\ PlaceInv /\ OnceInv
    /\ ThreadInv /\ ShareInv /\ SlotInv /\ CountInv /\ BufInv /\ StreamInv
    /\ ~aborted

\* At first every batch is idle, once.
LEMMA InitIdle ==
  ASSUME Init
  PROVE  idle \in Seq(Batches) /\ Distinct(idle) /\ \A b \in Batches : Has(idle, b)
  <1> DEFINE n == Cardinality(Batches)
             line == 1..n
  <1>1. n \in Nat
    BY SizesAssumption, FS_CardinalityType
  <1>2. idle \in [line -> Batches] /\ \A b \in Batches : \E i \in DOMAIN idle : idle[i] = b
    BY DEF Init
  <1>3. idle \in Seq(Batches)
    <2> HIDE DEF n
    <2> QED  BY <1>1, <1>2
  <1>4. IsFiniteSet(line) /\ Cardinality(line) = Cardinality(Batches)
    BY <1>1, CardInterval
  <1> HIDE DEF line, n
  <1>5. idle \in Surjection(line, Batches)
    BY <1>2 DEF Surjection
  <1>6. idle \in Injection(line, Batches)
    BY <1>4, <1>5, SizesAssumption, FS_SurjSameCardinalityImpliesInj
  <1>7. Distinct(idle)
    BY <1>2, <1>6 DEF Distinct, Injection, IsInjective
  <1> QED  BY <1>2, <1>3, <1>7 DEF Has

\* The types of the initial states.
LEMMA InitType == Init => TypeOK
  <1> SUFFICES ASSUME Init PROVE TypeOK
    OBVIOUS
  <1>1. idle \in Seq(Batches)
    BY InitIdle
  <1>2. 0 \in 0..Cardinality(Consumers) /\ 0 \in 0..MaxBatchSize /\ 0 \in Nat
    BY SizesAssumption, FS_CardinalityType
  <1>3. \A S : <<>> \in Seq(S)
    OBVIOUS
  <1>4. /\ mutex \in Threads \cup Consumers \cup {"issuer", Nobody}
        /\ tasksQ \in Seq(Samples) /\ ready \in Seq(Batches)
        /\ staging \in Batches \cup {NoBatch}
        /\ flush \in BOOLEAN /\ stopWork \in BOOLEAN /\ aborted \in BOOLEAN
        /\ waiting \in 0..Cardinality(Consumers)
        /\ issuedPairs \in Nat /\ readiedPairs \in Nat
    BY <1>2, <1>3 DEF Init
  <1>5. /\ tasks \in [Batches -> Seq(Samples)] /\ closing \in [Batches -> BOOLEAN]
        /\ committed \in [Batches -> 0..MaxBatchSize]
        /\ completed \in [Batches -> 0..MaxBatchSize]
        /\ buf \in [Batches -> [1..MaxBatchSize -> Samples \cup {Junk}]]
    BY <1>2, <1>3 DEF Init
  <1>6. /\ tpc \in [Threads -> {"woken", "sleep", "stopped", "commit", "committed",
                                "copy", "complete"}]
        /\ batchPtr \in [Threads -> Batches \cup {NoBatch}]
        /\ tasksOffset \in [Threads -> Nat] /\ pairsOffset \in [Threads -> 0..MaxBatchSize]
        /\ maxPairs \in [Threads -> 0..MaxBatchSize]
        /\ pairsToCopy \in [Threads -> 0..MaxBatchSize]
    BY <1>2 DEF Init
  <1>7. /\ cpc \in [Consumers -> {"get", "check", "sleep", "woken", "take", "stopped", "got"}]
        /\ got \in [Consumers -> Batches \cup {NoBatch}]
        /\ resetBatch \in [Consumers -> Batches \cup {NoBatch}]
        /\ stream \in [Consumers -> Seq([batch : Batches \cup {NoBatch}, tasks : Seq(Samples),
                                         data : Seq(Samples \cup {Junk})])]
    BY <1>3 DEF Init
  <1>8. /\ ipc \in {"idle", "issuing", "more", "mark", "ready", "unstage", "flag", "flushed", "stopped"}
        /\ issued \subseteq Samples /\ flushBatch \in Batches \cup {NoBatch}
        /\ delivered \in [Samples -> Nat]
    BY <1>2 DEF Init
  <1> QED  BY <1>1, <1>4, <1>5, <1>6, <1>7, <1>8 DEF TypeOK

\* The invariant holds initially.
LEMMA InitInv == Init => IInv
  <1> SUFFICES ASSUME Init PROVE IInv
    OBVIOUS
  <1>1. TypeOK
    BY InitType
  <1>2. idle \in Seq(Batches) /\ Distinct(idle) /\ \A b \in Batches : Has(idle, b)
    BY InitIdle
  <1>3. /\ mutex = Nobody /\ tasksQ = <<>> /\ ready = <<>> /\ staging = NoBatch /\ waiting = 0
        /\ issuedPairs = 0 /\ readiedPairs = 0 /\ ipc = "idle" /\ issued = {} /\ aborted = FALSE
        /\ \A b \in Batches : tasks[b] = <<>> /\ committed[b] = 0 /\ completed[b] = 0 /\ closing[b] = FALSE
        /\ \A t \in Threads : tpc[t] = "woken"
        /\ \A c \in Consumers : /\ cpc[c] = "get" /\ got[c] = NoBatch /\ stream[c] = <<>>
                                /\ resetBatch[c] = NoBatch
    BY DEF Init
  <1>4. \A t \in Threads : ~Active(t)
    BY <1>3 DEF Active
  <1>5. /\ \A b \in Batches : ~Has(ready, b) /\ ~Got(b) /\ ~Returning(b) /\ ~Streamed(b) /\ Taken(b)
        /\ Staged = NoBatch
    BY <1>2, <1>3, NamesAssumption DEF Has, Got, Returning, Streamed, Taken, Staged
  <1>6. MutexInv
    BY <1>3, NamesAssumption DEF MutexInv, InFlush
  <1>7. WaitInv
    <2>1. Waiters = {}
      BY <1>3 DEF Waiters
    <2>2. Cardinality({}) = 0
      BY FS_EmptySet
    <2> QED  BY <1>3, <2>1, <2>2 DEF WaitInv
  <1>8. FlushInv
    BY <1>3 DEF FlushInv
  <1>9. PlaceInv
    <2>1. ASSUME NEW b \in Batches PROVE LocatedAt(b, "idle") /\ Fresh(b)
      BY <1>2, <1>3, <1>5, NamesAssumption DEF LocatedAt, Fresh
    <2> QED  BY <2>1 DEF PlaceInv, KeptAt, PlaceNames
  <1>10. OnceInv
    <2>1. Distinct(ready)
      BY <1>3 DEF Distinct
    <2>2. StreamedOnce
      BY <1>3 DEF StreamedOnce
    <2> QED  BY <1>2, <1>3, <2>1, <2>2 DEF OnceInv, Single
  <1>11. ThreadInv
    BY <1>4 DEF ThreadInv
  <1>12. ShareInv
    <2>1. \A b \in Batches : (1..committed[b]) \ Uncopied(b) = {}
      BY <1>3
    <2>2. Cardinality({}) = 0
      BY FS_EmptySet
    <2> QED  BY <1>3, <1>4, <2>1, <2>2 DEF ShareInv
  <1>13. SlotInv
    BY <1>3, <1>4, SlotsEmpty DEF SlotInv
  <1>14. CountInv
    <2>1. PairSet({}) = {} /\ IsFiniteSet({}) /\ Cardinality({}) = 0
      BY FS_EmptySet DEF PairSet
    <2>2. PICK home : home = [s \in {} |-> NoBatch]
      OBVIOUS
    <2>3. Dealt(home, {})
      <3>1. readiedPairs = Cardinality(PairSet({}))
        BY <1>3, <2>1
      <3>2. \A b \in Batches : {s \in issued : home[s] = b} = {} /\ Taken(b)
        BY <1>3, <1>5
      <3>3. DOMAIN tasksQ = {}
        BY <1>3
      <3> QED  BY <3>1, <3>2, <3>3 DEF Dealt
    <2>4. home \in [issued -> Batches \cup {NoBatch}] /\ {} \in SUBSET issued
      BY <1>3, <2>2
    <2>5. Distinct(tasksQ)
      BY <1>3 DEF Distinct
    <2> QED  BY <1>3, <2>1, <2>3, <2>4, <2>5 DEF CountInv
  <1>15. BufInv
    BY <1>3 DEF BufInv
  <1>16. StreamInv
    BY <1>3 DEF StreamInv
  <1> QED  BY <1>1, <1>3, <1>6, <1>7, <1>8, <1>9, <1>10, <1>11, <1>12, <1>13, <1>14, <1>15, <1>16 DEF IInv

\* Every step keeps the invariant.
LEMMA StepInv ==
  ASSUME FlushExclusive, IInv, Step
  PROVE  IInv'
  <1>1. TypeOK'
    BY TypeNext DEF IInv
  <1>2. MutexInv' /\ PcType'
    BY MutexNext DEF IInv
  <1>3. WaitInv'
    BY <1>2, WaitNext DEF IInv
  <1>4. FlushInv'
    BY FlushNext DEF IInv
  <1>5. PlaceInv' /\ OnceInv'
    BY PlaceNext DEF IInv
  <1>6. ThreadInv'
    BY ThreadNext DEF IInv
  <1>7. ShareInv'
    BY ShareNext DEF IInv
  <1>8. SlotInv'
    BY SlotNext DEF IInv
  <1>9. CountInv'
    BY CountNext DEF IInv
  <1>10. BufInv'
    BY BufNext DEF IInv
  <1>11. StreamInv'
    BY StreamNext DEF IInv
  <1>12. ~aborted'
    BY NoAbort DEF IInv
  <1> QED  BY <1>1, <1>2, <1>3, <1>4, <1>5, <1>6, <1>7, <1>8, <1>9, <1>10, <1>11, <1>12 DEF IInv

\* The invariant is about the variables only.
LEMMA StutterInv ==
  ASSUME IInv, UNCHANGED vars
  PROVE  IInv'
  <1> USE DEF vars, queueVars, flagVars, countVars, batchVars, localVars, threadVars, streamVars,
              consumerVars, issuerVars
  <1>1. TypeOK'
    BY DEF IInv, TypeOK
  <1>2. MutexInv'
    BY DEF IInv, MutexInv
  <1>3. WaitInv'
    BY DEF IInv, WaitInv, Waiters
  <1>4. FlushInv'
    BY DEF IInv, FlushInv, Taken, Has, Got, Returning, Streamed
  <1>5. PlaceInv'
    <2>1. ASSUME NEW b \in Batches PROVE Located(b)'
      <3>1. Stays(b) /\ Keeps(b) /\ StaysFilling(b)
        BY DEF Stays, Keeps, StaysFilling, Filling, Staged, Has, Got, Returning, Streamed
      <3> QED  BY <3>1, StaysPut DEF IInv
    <2> QED  BY <2>1 DEF PlaceInv, Located
  <1>6. OnceInv'
    BY DEF IInv, OnceInv, Distinct, Single, StreamedOnce
  <1>7. ThreadInv'
    BY DEF IInv, ThreadInv, Active, Taken, Has, Got, Returning, Streamed
  <1>8. ShareInv'
    BY DEF IInv, ShareInv, Active, Share, Uncopied, Works
  <1>9. SlotInv'
    BY DEF IInv, SlotInv, Active
  <1>10. CountInv'
    <2>1. \A x \in Batches : Taken(x)' <=> Taken(x)
      BY TakenUnmoved
    <2> QED  BY <2>1, CountKeeps DEF IInv
  <1>11. BufInv'
    BY DEF IInv, BufInv, Works, Active, Share
  <1>12. StreamInv'
    BY DEF IInv, StreamInv
  <1>13. ~aborted'
    BY DEF IInv
  <1> QED  BY <1>1, <1>2, <1>3, <1>4, <1>5, <1>6, <1>7, <1>8, <1>9, <1>10, <1>11, <1>12, <1>13 DEF IInv

\* Every step keeps the invariant, stuttering steps too.
LEMMA NextInv == FlushExclusive /\ IInv /\ [Next]_vars => IInv'
  <1> SUFFICES ASSUME FlushExclusive, IInv, [Next]_vars PROVE IInv'
    OBVIOUS
  <1>1. CASE Step
    BY <1>1, StepInv
  <1>2. CASE UNCHANGED vars
    BY <1>2, StutterInv
  <1>3. Step \/ UNCHANGED vars
    BY DEF Next, Step, Stopped
  <1> QED  BY <1>1, <1>2, <1>3

\* The invariant always holds.
LEMMA SpecInv == ASSUME FlushExclusive PROVE Spec => []IInv
  <1>1. Init => IInv
    BY InitInv
  <1>2. IInv /\ [Next]_vars => IInv'
    BY NextInv
  <1> QED  BY <1>1, <1>2, PTL DEF Spec

-----------------------------------------------------------------------------
(***************************************************************************)
(* The theorems, of the executions in which FlushQueries meets no critical *)
(* section.                                                                *)
(***************************************************************************)
\* Every variable keeps its type: the offsets and the pairs of a share stay
\* within the buffer of a batch (batch_maker.cpp:434, 444), and
\* mWaitingBatches never falls below zero (batch_maker.cpp:333-345).
THEOREM TypeCorrect == ASSUME FlushExclusive PROVE Spec => []TypeOK
  <1>1. IInv => TypeOK
    BY DEF IInv
  <1> QED  BY <1>1, SpecInv, PTL

\* No more of a batch is completed than was committed.
LEMMA CompletedFits ==
  ASSUME TypeOK, ShareInv, NEW b \in Batches
  PROVE  completed[b] <= committed[b] /\ completed[b] \in Nat /\ committed[b] \in Nat
  <1>1. completed[b] \in Nat /\ committed[b] \in Nat
    BY SizesType
  <1> DEFINE line == 1..committed[b]
             done == line \ Uncopied(b)
  <1>2. IsFiniteSet(line) /\ Cardinality(line) = committed[b]
    BY <1>1, CardInterval
  <1>3. done \in SUBSET line
    OBVIOUS
  <1>4. completed[b] = Cardinality(done)
    BY DEF ShareInv
  <1> HIDE DEF line, done
  <1>5. Cardinality(done) <= Cardinality(line)
    BY <1>2, <1>3, FS_Subset
  <1> QED  BY <1>1, <1>2, <1>4, <1>5

\* The places of a batch are those of its location.
LEMMA PlacesOf ==
  ASSUME TypeOK, OnceInv, NEW b \in Batches, NEW w \in PlaceNames, LocatedAt(b, w), Staged = staging
  PROVE  IF w = "none" THEN Places(b) = {} ELSE \E p : Places(b) = {p}
  <1>1. b # NoBatch
    BY NamesAssumption
  <1> DEFINE inIdle == {<<"idle", i>> : i \in {j \in DOMAIN idle : idle[j] = b}}
             inReady == {<<"ready", i>> : i \in {j \in DOMAIN ready : ready[j] = b}}
             inStaging == {<<"staging", x>> : x \in {staging} \cap {b}}
             inGot == {<<"got", c>> : c \in {d \in Consumers : got[d] = b}}
             inCallback == {<<"callback", c>> : c \in {d \in Consumers : resetBatch[d] = b}}
             inStream == UNION {{<<"stream", c, i>> :
                    i \in {j \in DOMAIN stream[c] : stream[c][j].batch = b}} : c \in Consumers}
  <1>2. Places(b) = inIdle \cup inReady \cup inStaging \cup inGot \cup inCallback \cup inStream
    BY DEF Places
  <1>3. /\ w # "idle" => inIdle = {}
        /\ w = "idle" => \E p : inIdle = {p}
    <2>1. CASE w # "idle"
      BY <2>1 DEF LocatedAt, Has
    <2>2. CASE w = "idle"
      <3>1. PICK i \in DOMAIN idle : idle[i] = b
        BY <2>2 DEF LocatedAt, Has
      <3>2. {j \in DOMAIN idle : idle[j] = b} = {i}
        BY <3>1 DEF OnceInv, Distinct
      <3>3. inIdle = {<<"idle", i>>}
        BY <3>2
      <3> QED  BY <2>2, <3>3
    <2> QED  BY <2>1, <2>2
  <1>4. /\ w # "ready" => inReady = {}
        /\ w = "ready" => \E p : inReady = {p}
    <2>1. CASE w # "ready"
      BY <2>1 DEF LocatedAt, Has
    <2>2. CASE w = "ready"
      <3>1. PICK i \in DOMAIN ready : ready[i] = b
        BY <2>2 DEF LocatedAt, Has
      <3>2. {j \in DOMAIN ready : ready[j] = b} = {i}
        BY <3>1 DEF OnceInv, Distinct
      <3>3. inReady = {<<"ready", i>>}
        BY <3>2
      <3> QED  BY <2>2, <3>3
    <2> QED  BY <2>1, <2>2
  <1>5. /\ w # "staging" => inStaging = {}
        /\ w = "staging" => \E p : inStaging = {p}
    <2>1. CASE w # "staging"
      BY <2>1 DEF LocatedAt
    <2>2. CASE w = "staging"
      <3>1. {staging} \cap {b} = {b}
        BY <2>2 DEF LocatedAt
      <3>2. inStaging = {<<"staging", b>>}
        BY <3>1
      <3> QED  BY <2>2, <3>2
    <2> QED  BY <2>1, <2>2
  <1>6. /\ w # "got" => inGot = {}
        /\ w = "got" => \E p : inGot = {p}
    <2>1. CASE w # "got"
      BY <2>1 DEF LocatedAt, Got
    <2>2. CASE w = "got"
      <3>1. PICK c \in Consumers : got[c] = b
        BY <2>2 DEF LocatedAt, Got
      <3>2. {d \in Consumers : got[d] = b} = {c}
        BY <1>1, <3>1 DEF OnceInv, Single
      <3>3. inGot = {<<"got", c>>}
        BY <3>2
      <3> QED  BY <2>2, <3>3
    <2> QED  BY <2>1, <2>2
  <1>7. /\ w # "callback" => inCallback = {}
        /\ w = "callback" => \E p : inCallback = {p}
    <2>1. CASE w # "callback"
      BY <2>1 DEF LocatedAt, Returning
    <2>2. CASE w = "callback"
      <3>1. PICK c \in Consumers : resetBatch[c] = b
        BY <2>2 DEF LocatedAt, Returning
      <3>2. {d \in Consumers : resetBatch[d] = b} = {c}
        BY <1>1, <3>1 DEF OnceInv, Single
      <3>3. inCallback = {<<"callback", c>>}
        BY <3>2
      <3> QED  BY <2>2, <3>3
    <2> QED  BY <2>1, <2>2
  <1>8. /\ w # "stream" => inStream = {}
        /\ w = "stream" => \E p : inStream = {p}
    <2> DEFINE of(c) == {<<"stream", c, i>> : i \in {j \in DOMAIN stream[c] : stream[c][j].batch = b}}
    <2>1. CASE w # "stream"
      <3>1. ~Streamed(b)
        BY <2>1 DEF LocatedAt
      <3>2. ASSUME NEW c \in Consumers PROVE of(c) = {}
        BY <3>1 DEF Streamed
      <3>3. inStream = UNION {of(c) : c \in Consumers}
        OBVIOUS
      <3> HIDE DEF of
      <3>4. UNION {of(c) : c \in Consumers} = {}
        BY <3>2
      <3> QED  BY <2>1, <3>3, <3>4
    <2>2. CASE w = "stream"
      <3>1. PICK c \in Consumers : \E i \in DOMAIN stream[c] : stream[c][i].batch = b
        BY <2>2 DEF LocatedAt, Streamed
      <3>2. PICK i \in DOMAIN stream[c] : stream[c][i].batch = b
        BY <3>1
      <3>3. ASSUME NEW d \in Consumers, NEW j \in DOMAIN stream[d], stream[d][j].batch = b
            PROVE  d = c /\ j = i
        BY <1>1, <3>2, <3>3 DEF OnceInv, StreamedOnce
      <3>4. of(c) = {<<"stream", c, i>>}
        <4>1. {j \in DOMAIN stream[c] : stream[c][j].batch = b} = {i}
          BY <3>2, <3>3
        <4> QED  BY <4>1
      <3>5. ASSUME NEW d \in Consumers, d # c PROVE of(d) = {}
        BY <3>3, <3>5
      <3>6. inStream = UNION {of(d) : d \in Consumers}
        OBVIOUS
      <3> HIDE DEF of
      <3>7. UNION {of(d) : d \in Consumers} = of(c)
        BY <3>5
      <3> QED  BY <2>2, <3>4, <3>6, <3>7
    <2> QED  BY <2>1, <2>2
  <1> HIDE DEF inIdle, inReady, inStaging, inGot, inCallback, inStream
  <1> QED  BY <1>2, <1>3, <1>4, <1>5, <1>6, <1>7, <1>8 DEF PlaceNames

\* Between critical sections a batch is in exactly one place, or in none while
\* it is closed and its copies are under way: for any number of staging threads,
\* consumers, bundles and batches it is never lost, never handed out twice and
\* never staged while it is in use (batch_maker.h:283-297).
THEOREM OnePlace == ASSUME FlushExclusive PROVE Spec => []BatchInOnePlace
  <1>1. ASSUME IInv PROVE BatchInOnePlace
    <2> SUFFICES ASSUME mutex = Nobody, NEW b \in Batches
                 PROVE  Cardinality(Places(b)) =
                            IF closing[b] /\ completed[b] < committed[b] THEN 0 ELSE 1
      BY DEF BatchInOnePlace
    <2>1. PICK w \in PlaceNames : LocatedAt(b, w) /\ KeptAt(b, w)
      BY <1>1 DEF IInv, PlaceInv
    <2>2. ipc \notin InFlush
      BY <1>1, NamesAssumption DEF IInv, MutexInv
    <2>3. Staged = staging
      BY <2>2 DEF Staged, InFlush
    <2>4. completed[b] <= committed[b] /\ completed[b] \in Nat /\ committed[b] \in Nat
      BY <1>1, CompletedFits DEF IInv
    <2>5. w = "none" <=> closing[b] /\ completed[b] < committed[b]
      <3>1. CASE w = "none"
        BY <2>1, <2>4, <3>1 DEF KeptAt
      <3>2. CASE w = "staging"
        <4>1. staging = b /\ staging # NoBatch
          BY <2>1, <2>3, <3>2, NamesAssumption DEF LocatedAt
        <4>2. ~closing[b]
          BY <1>1, <2>2, <4>1 DEF IInv, FlushInv, InFlush
        <4> QED  BY <3>2, <4>2
      <3>3. CASE w \notin {"none", "staging"}
        <4>1. Fresh(b) \/ Full(b)
          BY <2>1, <3>3 DEF KeptAt, PlaceNames
        <4> QED  BY <2>4, <3>3, <4>1 DEF Fresh, Full
      <3> QED  BY <3>1, <3>2, <3>3
    <2>6. IF w = "none" THEN Places(b) = {} ELSE \E p : Places(b) = {p}
      BY <1>1, <2>1, <2>3, PlacesOf DEF IInv
    <2>7. CASE w = "none"
      <3>1. Places(b) = {} /\ Cardinality({}) = 0
        BY <2>6, <2>7, FS_EmptySet
      <3> QED  BY <2>5, <2>7, <3>1
    <2>8. CASE w # "none"
      <3>1. PICK p : Places(b) = {p}
        BY <2>6, <2>8
      <3>2. Cardinality({p}) = 1
        BY FS_Singleton
      <3> QED  BY <2>5, <2>8, <3>1, <3>2
    <2> QED  BY <2>7, <2>8
  <1> QED  BY <1>1, SpecInv, PTL

\* No CHECK fails: a batch that is readied has a pair (batch_maker.cpp:366), and
\* no more pairs are readied than were issued (batch_maker.cpp:347), whatever the
\* sizes of the samples.
THEOREM NoFailedCheck == ASSUME FlushExclusive PROVE Spec => []NoCheckFails
  <1>1. IInv => NoCheckFails
    BY DEF IInv, NoCheckFails
  <1> QED  BY <1>1, SpecInv, PTL

\* What reaches the device is, slot by slot, what the tasks of the batch ask for,
\* although the threads fill their shares of a buffer without the lock
\* (batch_maker.cpp:487-497).
THEOREM DeviceData == ASSUME FlushExclusive PROVE Spec => []DeviceDataIsTasks
  <1>1. IInv => DeviceDataIsTasks
    BY DEF IInv, StreamInv, DeviceDataIsTasks
  <1> QED  BY <1>1, SpecInv, PTL

\* No step changes a batch that was handed over.
LEMMA FrozenStep ==
  ASSUME FlushExclusive, IInv, Step, NEW b \in Batches, HandedOver(b)
  PROVE  UNCHANGED <<tasks[b], buf[b], committed[b], completed[b], closing[b]>>
  <1> DEFINE Goal == UNCHANGED <<tasks[b], buf[b], committed[b], completed[b], closing[b]>>
  <1>0. /\ tasks \in [Batches -> Seq(Samples)] /\ closing \in [Batches -> BOOLEAN]
        /\ committed \in [Batches -> Nat] /\ completed \in [Batches -> Nat]
        /\ buf \in [Batches -> [1..MaxBatchSize -> Samples \cup {Junk}]]
    BY SizesType DEF IInv, TypeOK
  <1>1. Has(ready, b) \/ Got(b) \/ Streamed(b)
    BY DEF HandedOver, Has, Got, Streamed
  <1>2. Full(b) /\ ~Returning(b) /\ Staged # b
    BY <1>1, ReadyFacts DEF IInv
  <1>3. ASSUME NEW t \in Threads, batchPtr[t] = b, tpc[t] \in {"copy", "complete"} PROVE FALSE
    <2>1. Works(t, b)
      BY <1>3 DEF Works, Active
    <2> QED  BY <1>2, <1>3, <2>1, CompletedNotShared DEF IInv
  <1>4. ASSUME UNCHANGED batchVars PROVE Goal
    BY <1>4 DEF batchVars
  <1>5. ASSUME Rests PROVE Goal
    <2>1. UNCHANGED <<tasks, committed, completed, buf>>
      BY <1>5 DEF Rests
    <2>2. CASE ClosesNot
      BY <2>1, <2>2 DEF ClosesNot
    <2>3. CASE ClosesStaged /\ ipc \notin InFlush
      <3>1. Staged = staging /\ closing' = [closing EXCEPT ![staging] = TRUE]
        BY <2>3 DEF ClosesStaged, Closes, Staged, InFlush
      <3> QED  BY <1>0, <1>2, <2>1, <3>1
    <2> QED  BY <1>5, <2>2, <2>3 DEF Rests
  <1>6. ASSUME (\E s \in Samples : IssueTask(s)) \/ FlushReady \/ FlushUnstage PROVE Goal
    <2>1. UNCHANGED batchVars
      BY <1>6 DEF IssueTask, FlushReady, FlushUnstage
    <2> QED  BY <1>4, <2>1
  <1>7. ASSUME FlushMark PROVE Goal
    <2>1. /\ Staged = staging /\ closing' = [closing EXCEPT ![staging] = TRUE]
          /\ UNCHANGED <<tasks, committed, completed, buf>>
      BY <1>7, FlushMarkStep DEF IInv
    <2> QED  BY <1>0, <1>2, <2>1
  <1>8. ASSUME NEW t \in Threads, StageBegin(t) PROVE Goal
    <2>1. UNCHANGED batchVars
      BY <1>8 DEF StageBegin, StageBeginAt
    <2> QED  BY <1>4, <2>1
  <1>9. ASSUME NEW t \in Threads, CommitTask(t) PROVE Goal
    <2>1. /\ staging = batchPtr[t] /\ tpc[t] = "commit"
          /\ committed' = [committed EXCEPT ![batchPtr[t]] = @ + Pairs[Head(tasksQ)]]
          /\ tasks' = [tasks EXCEPT ![batchPtr[t]] = Append(@, Head(tasksQ))]
      BY <1>9, CommitTaskStep DEF IInv
    <2>2. UNCHANGED <<completed, closing, buf>>
      BY <1>9 DEF CommitTask
    <2>3. ipc \notin InFlush
      <3>1. mutex = t
        BY <2>1 DEF IInv, MutexInv
      <3> QED  BY <3>1, NamesAssumption DEF IInv, MutexInv
    <2>4. batchPtr[t] # b
      BY <1>2, <2>1, <2>3 DEF Staged, InFlush
    <2> QED  BY <1>0, <2>1, <2>2, <2>4
  <1>10. ASSUME NEW t \in Threads, Copy(t) PROVE Goal
    <2>1. /\ tpc[t] = "copy" /\ UNCHANGED <<tasks, committed, completed, closing>>
          /\ \E f : buf' = [buf EXCEPT ![batchPtr[t]] = f]
      BY <1>10 DEF Copy
    <2>2. batchPtr[t] # b
      BY <1>3, <2>1
    <2> QED  BY <1>0, <2>1, <2>2
  <1>11. ASSUME NEW t \in Threads, CompleteCopies(t) PROVE Goal
    <2>1. /\ tpc[t] = "complete" /\ UNCHANGED <<tasks, committed, buf, closing>>
          /\ \E n : completed' = [completed EXCEPT ![batchPtr[t]] = n]
      BY <1>11 DEF CompleteCopies
    <2>2. batchPtr[t] # b
      BY <1>3, <2>1
    <2> QED  BY <1>0, <2>1, <2>2
  <1>12. ASSUME NEW c \in Consumers, ResetBatch(c) PROVE Goal
    <2>1. /\ Returning(resetBatch[c])
          /\ committed' = [committed EXCEPT ![resetBatch[c]] = 0]
          /\ completed' = [completed EXCEPT ![resetBatch[c]] = 0]
          /\ closing' = [closing EXCEPT ![resetBatch[c]] = FALSE]
          /\ tasks' = [tasks EXCEPT ![resetBatch[c]] = <<>>] /\ buf' = buf
      BY <1>12, ResetBatchStep DEF IInv
    <2>2. resetBatch[c] # b
      BY <1>2, <2>1
    <2> QED  BY <1>0, <2>1, <2>2
  <1>13. ASSUME NEW c \in Consumers, GetBatch(c) \/ Infer(c) \/ H2DDone(c) \/ NotifyH2D(c) \/ Deliver(c)
         PROVE  Goal
    <2>1. UNCHANGED batchVars
      BY <1>13 DEF GetBatch, Infer, H2DDone, NotifyH2D, Deliver
    <2> QED  BY <1>4, <2>1
  <1> HIDE DEF Goal
  <1>14. TypeOK /\ MutexInv /\ ThreadInv /\ FlushInv /\ PlaceInv
    BY DEF IInv
  <1>15. Goal
    BY <1>5, <1>6, <1>7, <1>8, <1>9, <1>10, <1>11, <1>12, <1>13, <1>14, RestsOrMoves
  <1> QED  BY <1>15 DEF Goal

\* From the moment a batch is ready until its copy to the device is done no one
\* adds to it or writes to its buffer, although StageBatch works without the lock
\* on a pointer it took under it (batch_maker.cpp:431, 489).
THEOREM Frozen == ASSUME FlushExclusive PROVE Spec => HandedOverIsFrozen
  <1> DEFINE Froze == \A b \in Batches : HandedOver(b) =>
                 UNCHANGED <<tasks[b], buf[b], committed[b], completed[b], closing[b]>>
  <1>1. IInv /\ [Next]_vars => [Froze]_vars
    <2> SUFFICES ASSUME IInv, Next PROVE Froze \/ UNCHANGED vars
      OBVIOUS
    <2>1. CASE Step
      BY <2>1, FrozenStep
    <2>2. Step \/ UNCHANGED vars
      BY DEF Next, Step, Stopped
    <2> HIDE DEF Froze
    <2> QED  BY <2>1, <2>2
  <1>2. Spec => []IInv
    BY SpecInv
  <1>3. HandedOverIsFrozen <=> [][Froze]_vars
    BY DEF HandedOverIsFrozen
  <1> HIDE DEF Froze
  <1> QED  BY <1>1, <1>2, <1>3, PTL DEF Spec

-----------------------------------------------------------------------------
(***************************************************************************)
(* The refinement of LoadGen's contract.                                   *)
(***************************************************************************)
\* A batch whose own list of tasks counts: once it is queued on a copy stream,
\* the list that infer noted there does.
Live(b) == ~Streamed(b) /\ ~Returning(b)

Phases == {"new", "queue", "batch", "stream", "done"}

\* Where every sample is: not issued, in mTasksQ, in a batch, in an entry of a
\* consumer's streams, or answered. at names the phase of a sample, by the batch
\* or the consumer that has it, and nth the entry of the stream.
Queued(at) == Distinct(tasksQ) /\ \A s \in Samples : Has(tasksQ, s) => at[s] = "queue"

Batched(at, by, b) == Live(b) =>
    /\ Distinct(tasks[b])
    /\ \A s \in Samples : Has(tasks[b], s) => at[s] = "batch" /\ by[s] = b

Inferred(at, by, nth, c, i) ==
    /\ Distinct(stream[c][i].tasks)
    /\ \A s \in Samples : Has(stream[c][i].tasks, s) => at[s] = "stream" /\ by[s] = c /\ nth[s] = i

Answered(at, s) ==
    /\ delivered[s] = IF at[s] = "done" THEN 1 ELSE 0
    /\ s \notin issued => at[s] = "new"

Traced(at, by, nth) ==
    /\ Queued(at)
    /\ \A b \in Batches : Batched(at, by, b)
    /\ \A c \in Consumers : \A i \in DOMAIN stream[c] : Inferred(at, by, nth, c, i)
    /\ \A s \in Samples : Answered(at, s)

AnswerInv ==
    \E at \in [Samples -> Phases] : \E by \in [Samples -> Batches \cup Consumers \cup {NoBatch}] :
    \E nth \in [Samples -> Int] : Traced(at, by, nth)

\* Steps that leave the samples where they are: the list of a batch that counts
\* is the one it had, or empty, and the streams keep theirs.
LeavesSamples ==
    /\ UNCHANGED <<tasksQ, issued, delivered>>
    /\ \A b \in Batches : Live(b)' => tasks'[b] = <<>> \/ (Live(b) /\ tasks'[b] = tasks[b])
    /\ \A c \in Consumers : \A i \in DOMAIN stream'[c] :
            i \in DOMAIN stream[c] /\ stream'[c][i].tasks = stream[c][i].tasks

\* Such a step changes nothing of where the samples are.
LEMMA LeavesTraced ==
  ASSUME AnswerInv, LeavesSamples
  PROVE  AnswerInv'
  <1>1. PICK at \in [Samples -> Phases], by \in [Samples -> Batches \cup Consumers \cup {NoBatch}],
             nth \in [Samples -> Int] : Traced(at, by, nth)
    BY DEF AnswerInv
  <1>2. Queued(at)'
    BY <1>1 DEF Traced, Queued, LeavesSamples, Distinct, Has
  <1>3. ASSUME NEW b \in Batches PROVE Batched(at, by, b)'
    <2> SUFFICES ASSUME Live(b)'
                 PROVE  /\ Distinct(tasks'[b])
                        /\ \A s \in Samples : Has(tasks'[b], s) => at[s] = "batch" /\ by[s] = b
      BY DEF Batched
    <2>1. CASE tasks'[b] = <<>>
      <3>1. DOMAIN <<>> = {}
        OBVIOUS
      <3> QED  BY <2>1, <3>1 DEF Distinct, Has
    <2>2. CASE Live(b) /\ tasks'[b] = tasks[b]
      BY <1>1, <2>2 DEF Traced, Batched
    <2> QED  BY <2>1, <2>2 DEF LeavesSamples
  <1>4. ASSUME NEW c \in Consumers, NEW i \in DOMAIN stream'[c] PROVE Inferred(at, by, nth, c, i)'
    <2>1. i \in DOMAIN stream[c] /\ stream'[c][i].tasks = stream[c][i].tasks
      BY <1>4 DEF LeavesSamples
    <2>2. Inferred(at, by, nth, c, i)
      BY <1>1, <2>1 DEF Traced
    <2> QED  BY <2>1, <2>2 DEF Inferred
  <1>5. ASSUME NEW s \in Samples PROVE Answered(at, s)'
    BY <1>1, <1>5 DEF Traced, Answered, LeavesSamples
  <1>6. Traced(at, by, nth)'
    BY <1>2, <1>3, <1>4, <1>5 DEF Traced
  <1> QED  BY <1>6 DEF AnswerInv

\* IssueQuery pushes a sample that was nowhere.
LEMMA IssueTraced ==
  ASSUME TypeOK, AnswerInv, NEW s \in Samples, IssueTask(s)
  PROVE  AnswerInv'
  <1>1. PICK at \in [Samples -> Phases], by \in [Samples -> Batches \cup Consumers \cup {NoBatch}],
             nth \in [Samples -> Int] : Traced(at, by, nth)
    BY DEF AnswerInv
  <1>2. /\ s \notin issued /\ tasksQ' = Append(tasksQ, s) /\ issued' = issued \cup {s}
        /\ UNCHANGED <<tasks, stream, resetBatch, delivered>>
    BY DEF IssueTask, batchVars, consumerVars, streamVars
  <1>3. tasksQ \in Seq(Samples) /\ at[s] = "new" /\ Distinct(tasksQ)
        /\ \A q \in Samples : Has(tasksQ, q) => at[q] = "queue"
    BY <1>1, <1>2 DEF TypeOK, Traced, Answered, Queued
  <1> DEFINE now == [at EXCEPT ![s] = "queue"]
  <1>4. now \in [Samples -> Phases] /\ now[s] = "queue"
        /\ \A q \in Samples : q # s => now[q] = at[q]
    BY DEF Phases
  <1> HIDE DEF now
  <1>5. ~Has(tasksQ, s)
    BY <1>3
  <1>6. Queued(now)'
    <2>1. /\ Distinct(Append(tasksQ, s))
          /\ \A x : Has(Append(tasksQ, s), x) <=> Has(tasksQ, x) \/ x = s
      BY <1>3, <1>5, AppendHas
    <2>2. \A q \in Samples : Has(Append(tasksQ, s), q) => now[q] = "queue"
      BY <1>3, <1>4, <2>1
    <2> QED  BY <1>2, <2>1, <2>2 DEF Queued
  <1>7. ASSUME NEW b \in Batches PROVE Batched(now, by, b)'
    <2>1. Live(b)' <=> Live(b)
      BY <1>2 DEF Live, Streamed, Returning
    <2>2. Batched(at, by, b)
      BY <1>1 DEF Traced
    <2> QED  BY <1>2, <1>3, <1>4, <2>1, <2>2 DEF Batched
  <1>8. ASSUME NEW c \in Consumers, NEW i \in DOMAIN stream'[c] PROVE Inferred(now, by, nth, c, i)'
    <2>1. Inferred(at, by, nth, c, i)
      BY <1>1, <1>2, <1>8 DEF Traced
    <2> QED  BY <1>2, <1>3, <1>4, <2>1 DEF Inferred
  <1>9. ASSUME NEW q \in Samples PROVE Answered(now, q)'
    <2>1. Answered(at, q)
      BY <1>1 DEF Traced
    <2> QED  BY <1>2, <1>3, <1>4, <2>1 DEF Answered
  <1>10. Traced(now, by, nth)'
    BY <1>6, <1>7, <1>8, <1>9 DEF Traced
  <1> QED  BY <1>4, <1>10 DEF AnswerInv

\* A staging thread moves the first task to the batch it stages, which no stream
\* has.
LEMMA CommitTraced ==
  ASSUME TypeOK, ThreadInv, AnswerInv, NEW t \in Threads, CommitTask(t)
  PROVE  AnswerInv'
  <1>1. PICK at \in [Samples -> Phases], by \in [Samples -> Batches \cup Consumers \cup {NoBatch}],
             nth \in [Samples -> Int] : Traced(at, by, nth)
    BY DEF AnswerInv
  <1>2. PICK b, s : b = batchPtr[t] /\ s = Head(tasksQ)
    OBVIOUS
  <1>3. /\ b \in Batches /\ s \in Samples /\ tasksQ # <<>> /\ Active(t)
        /\ tasks' = [tasks EXCEPT ![b] = Append(@, s)] /\ tasksQ' = Tail(tasksQ)
    BY <1>2, CommitTaskStep
  <1>4. UNCHANGED <<issued, stream, resetBatch, delivered>>
    BY DEF CommitTask, issuerVars, consumerVars, streamVars
  <1>5. Live(b)
    BY <1>2, <1>3 DEF ThreadInv, Taken, Live
  <1>6. /\ tasksQ \in Seq(Samples) /\ tasks \in [Batches -> Seq(Samples)]
        /\ Distinct(tasksQ) /\ \A q \in Samples : Has(tasksQ, q) => at[q] = "queue"
    BY <1>1 DEF TypeOK, Traced, Queued
  <1>7. /\ Has(tasksQ, s) /\ Distinct(Tail(tasksQ))
        /\ \A x : Has(Tail(tasksQ), x) <=> Has(tasksQ, x) /\ x # s
    BY <1>2, <1>3, <1>6, TailHas
  <1>8. at[s] = "queue"
    BY <1>3, <1>6, <1>7
  <1> DEFINE now == [at EXCEPT ![s] = "batch"]
             of == [by EXCEPT ![s] = b]
  <1>9. /\ now \in [Samples -> Phases] /\ of \in [Samples -> Batches \cup Consumers \cup {NoBatch}]
        /\ now[s] = "batch" /\ of[s] = b
        /\ \A q \in Samples : q # s => now[q] = at[q] /\ of[q] = by[q]
    BY <1>3 DEF Phases
  <1> HIDE DEF now, of
  <1>10. Queued(now)'
    <2>1. \A q \in Samples : Has(Tail(tasksQ), q) => now[q] = "queue"
      BY <1>6, <1>7, <1>9
    <2> QED  BY <1>3, <1>7, <2>1 DEF Queued
  <1>11. ASSUME NEW x \in Batches PROVE Batched(now, of, x)'
    <2>1. Live(x)' <=> Live(x)
      BY <1>4 DEF Live, Streamed, Returning
    <2>2. Batched(at, by, x)
      BY <1>1 DEF Traced
    <2>3. CASE x # b
      <3>1. tasks'[x] = tasks[x]
        BY <1>3, <1>6, <2>3
      <3> QED  BY <1>8, <1>9, <2>1, <2>2, <3>1 DEF Batched
    <2>4. CASE x = b
      <3>1. /\ Distinct(tasks[b]) /\ tasks[b] \in Seq(Samples)
            /\ \A q \in Samples : Has(tasks[b], q) => at[q] = "batch" /\ by[q] = b
        BY <1>3, <1>5, <1>6, <2>2, <2>4 DEF Batched
      <3>2. ~Has(tasks[b], s)
        BY <1>3, <1>8, <3>1
      <3>3. /\ Distinct(Append(tasks[b], s))
            /\ \A y : Has(Append(tasks[b], s), y) <=> Has(tasks[b], y) \/ y = s
        BY <1>3, <3>1, <3>2, AppendHas
      <3>4. tasks'[x] = Append(tasks[b], s)
        BY <1>3, <1>6, <2>4
      <3>5. \A q \in Samples : Has(Append(tasks[b], s), q) => now[q] = "batch" /\ of[q] = b
        BY <1>9, <3>1, <3>3
      <3> QED  BY <2>4, <3>3, <3>4, <3>5 DEF Batched
    <2> QED  BY <2>3, <2>4
  <1>12. ASSUME NEW c \in Consumers, NEW i \in DOMAIN stream'[c] PROVE Inferred(now, of, nth, c, i)'
    <2>1. Inferred(at, by, nth, c, i)
      BY <1>1, <1>4, <1>12 DEF Traced
    <2> QED  BY <1>4, <1>8, <1>9, <2>1 DEF Inferred
  <1>13. ASSUME NEW q \in Samples PROVE Answered(now, q)'
    <2>1. Answered(at, q) /\ Answered(at, s)
      BY <1>1, <1>3 DEF Traced
    <2> QED  BY <1>4, <1>8, <1>9, <2>1 DEF Answered
  <1>14. Traced(now, of, nth)'
    BY <1>10, <1>11, <1>12, <1>13 DEF Traced
  <1> QED  BY <1>9, <1>14 DEF AnswerInv

\* infer moves the tasks of the batch to a new entry of the consumer's streams:
\* from there on the batch's own list no longer counts.
LEMMA InferTraced ==
  ASSUME TypeOK, WaitInv, PlaceInv, AnswerInv, NEW c \in Consumers, Infer(c)
  PROVE  AnswerInv'
  <1>1. PICK at \in [Samples -> Phases], by \in [Samples -> Batches \cup Consumers \cup {NoBatch}],
             nth \in [Samples -> Int] : Traced(at, by, nth)
    BY DEF AnswerInv
  <1>2. PICK b, e, q, ts : /\ b = got[c] /\ q = stream[c] /\ ts = tasks[b]
                           /\ e = [batch |-> b, tasks |-> ts, data |-> <<>>]
    OBVIOUS
  <1>3. /\ cpc[c] = "got" /\ stream' = [stream EXCEPT ![c] = Append(q, e)]
        /\ UNCHANGED <<tasksQ, issued, delivered, tasks, resetBatch>>
    BY <1>2 DEF Infer, queueVars, batchVars, issuerVars
  <1>4. b \in Batches /\ Got(b)
    BY <1>2, <1>3 DEF WaitInv, Got, TypeOK
  <1>5. Live(b)
    BY <1>4, ReadyFacts DEF Live
  <1>6. /\ Distinct(ts) /\ ts \in Seq(Samples)
        /\ \A s \in Samples : Has(ts, s) => at[s] = "batch" /\ by[s] = b
    BY <1>1, <1>2, <1>4, <1>5 DEF TypeOK, Traced, Batched
  <1>7. stream \in [Consumers -> Seq(EntryType)] /\ q \in Seq(EntryType) /\ e \in EntryType
    <2>1. <<>> \in Seq(Samples \cup {Junk})
      BY EmptySeqType
    <2> QED  BY <1>2, <1>4, <1>6, <2>1, StreamType DEF EntryType
  <1>8. PICK n \in Nat : n = Len(q)
    BY <1>7
  <1>9. /\ stream'[c] = Append(q, e) /\ \A d \in Consumers : d # c => stream'[d] = stream[d]
        /\ DOMAIN stream[c] = 1..n /\ DOMAIN stream'[c] = 1..(n + 1)
        /\ stream'[c][n + 1] = e /\ \A i \in 1..n : stream'[c][i] = stream[c][i]
    <2>1. /\ DOMAIN q = 1..n /\ DOMAIN Append(q, e) = 1..(n + 1) /\ Append(q, e)[n + 1] = e
          /\ \A i \in 1..n : Append(q, e)[i] = q[i]
      BY <1>7, <1>8, AppendProperties
    <2>2. stream'[c] = Append(q, e) /\ \A d \in Consumers : d # c => stream'[d] = stream[d]
      BY <1>3, <1>7
    <2> QED  BY <1>2, <2>1, <2>2
  <1>k. /\ \A d \in Consumers : \A i \in DOMAIN stream[d] :
                i \in DOMAIN stream'[d] /\ stream'[d][i] = stream[d][i]
        /\ \A d \in Consumers : \A i \in DOMAIN stream'[d] : d # c \/ i # n + 1 =>
                i \in DOMAIN stream[d] /\ stream'[d][i] = stream[d][i]
    <2>1. ASSUME NEW i \in 1..(n + 1), i # n + 1 PROVE i \in 1..n
      BY <1>8, <2>1
    <2>2. 1..n \subseteq 1..(n + 1)
      BY <1>8
    <2>3. \A i \in DOMAIN stream[c] : i \in DOMAIN stream'[c] /\ stream'[c][i] = stream[c][i]
      BY <1>9, <2>2
    <2>4. \A i \in DOMAIN stream'[c] : i # n + 1 =>
                i \in DOMAIN stream[c] /\ stream'[c][i] = stream[c][i]
      BY <1>9, <2>1
    <2> QED  BY <1>9, <2>3, <2>4
  <1>10. e.batch = b /\ e.tasks = ts
    BY <1>2
  <1> DEFINE moved == {s \in Samples : Has(ts, s)}
             now == [s \in Samples |-> IF s \in moved THEN "stream" ELSE at[s]]
             of == [s \in Samples |-> IF s \in moved THEN c ELSE by[s]]
             ith == [s \in Samples |-> IF s \in moved THEN n + 1 ELSE nth[s]]
  <1>11. /\ now \in [Samples -> Phases] /\ of \in [Samples -> Batches \cup Consumers \cup {NoBatch}]
         /\ ith \in [Samples -> Int]
         /\ \A s \in moved : now[s] = "stream" /\ of[s] = c /\ ith[s] = n + 1
         /\ \A s \in Samples \ moved : now[s] = at[s] /\ of[s] = by[s] /\ ith[s] = nth[s]
    BY DEF Phases
  <1>12. \A s \in Samples : s \in moved <=> Has(ts, s)
    OBVIOUS
  <1> HIDE DEF moved, now, of, ith
  <1>13. \A s \in moved : s \in Samples => at[s] = "batch" /\ by[s] = b
    BY <1>6, <1>12
  <1>14. Queued(now)'
    <2>1. Queued(at)
      BY <1>1 DEF Traced
    <2>2. \A s \in Samples : Has(tasksQ, s) => now[s] = "queue"
      BY <1>11, <1>13, <2>1 DEF Queued
    <2> QED  BY <1>3, <2>1, <2>2 DEF Queued
  <1>15. ASSUME NEW x \in Batches PROVE Batched(now, of, x)'
    <2>1. ASSUME Live(x)' PROVE Live(x) /\ x # b
      <3>1. /\ n + 1 \in DOMAIN stream'[c] /\ stream'[c][n + 1].batch = b
        BY <1>8, <1>9, <1>10
      <3>2. Streamed(b)'
        BY <3>1 DEF Streamed
      <3>3. Streamed(x) => Streamed(x)'
        <4> SUFFICES ASSUME Streamed(x) PROVE Streamed(x)'
          OBVIOUS
        <4>1. PICK d \in Consumers : \E i \in DOMAIN stream[d] : stream[d][i].batch = x
          BY DEF Streamed
        <4>2. PICK i \in DOMAIN stream[d] : stream[d][i].batch = x
          BY <4>1
        <4>3. i \in DOMAIN stream'[d] /\ stream'[d][i] = stream[d][i]
          BY <1>k, <4>2
        <4> QED  BY <4>2, <4>3 DEF Streamed
      <3>4. Returning(x)' <=> Returning(x)
        BY <1>3 DEF Returning
      <3> QED  BY <2>1, <3>2, <3>3, <3>4 DEF Live
    <2>2. Batched(at, by, x)
      BY <1>1 DEF Traced
    <2> SUFFICES ASSUME Live(x)'
                 PROVE  /\ Distinct(tasks'[x])
                        /\ \A s \in Samples : Has(tasks'[x], s) => now[s] = "batch" /\ of[s] = x
      BY DEF Batched
    <2>3. /\ Distinct(tasks[x]) /\ x # b
          /\ \A s \in Samples : Has(tasks[x], s) => at[s] = "batch" /\ by[s] = x
      BY <2>1, <2>2 DEF Batched
    <2>4. \A s \in Samples : Has(tasks[x], s) => s \notin moved
      BY <1>13, <2>3
    <2> QED  BY <1>3, <1>11, <2>3, <2>4
  <1>16. ASSUME NEW d \in Consumers, NEW i \in DOMAIN stream'[d] PROVE Inferred(now, of, ith, d, i)'
    <2>1. CASE d = c /\ i = n + 1
      <3>1. stream'[d][i].tasks = ts
        BY <1>9, <1>10, <2>1
      <3> QED  BY <1>6, <1>11, <1>12, <2>1, <3>1 DEF Inferred
    <2>2. CASE d # c \/ i # n + 1
      <3>1. i \in DOMAIN stream[d] /\ stream'[d][i] = stream[d][i]
        BY <1>k, <1>16, <2>2
      <3>2. Inferred(at, by, nth, d, i)
        BY <1>1, <3>1 DEF Traced
      <3>3. \A s \in Samples : Has(stream[d][i].tasks, s) => s \notin moved
        BY <1>13, <3>2 DEF Inferred
      <3> QED  BY <1>11, <3>1, <3>2, <3>3 DEF Inferred
    <2> QED  BY <2>1, <2>2
  <1>17. ASSUME NEW s \in Samples PROVE Answered(now, s)'
    <2>1. Answered(at, s)
      BY <1>1 DEF Traced
    <2> QED  BY <1>3, <1>11, <1>13, <2>1 DEF Answered
  <1>18. Traced(now, of, ith)'
    BY <1>14, <1>15, <1>16, <1>17 DEF Traced
  <1> QED  BY <1>11, <1>18 DEF AnswerInv

\* A list without repetitions holds a sample once or not at all.
LEMMA CountOf ==
  ASSUME NEW ts, Distinct(ts), NEW s
  PROVE  Cardinality({i \in DOMAIN ts : ts[i] = s}) = IF Has(ts, s) THEN 1 ELSE 0
  <1>1. CASE Has(ts, s)
    <2>1. PICK i \in DOMAIN ts : ts[i] = s
      BY <1>1 DEF Has
    <2>2. {j \in DOMAIN ts : ts[j] = s} = {i}
      BY <2>1 DEF Distinct
    <2>3. Cardinality({i}) = 1
      BY FS_Singleton
    <2> QED  BY <1>1, <2>2, <2>3
  <1>2. CASE ~Has(ts, s)
    <2>1. {j \in DOMAIN ts : ts[j] = s} = {}
      BY <1>2 DEF Has
    <2> QED  BY <1>2, <2>1, FS_EmptySet
  <1> QED  BY <1>1, <1>2

\* What Deliver answers: the samples of the entry at the head of the stream, and
\* nothing was reported for any of them.
Answers(c, ss) ==
    /\ ss \subseteq issued /\ \A s \in ss : delivered[s] = 0
    /\ delivered' = [s \in Samples |-> IF s \in ss THEN 1 ELSE delivered[s]]

\* Deliver answers the samples of the first entry, and the others move up.
LEMMA DeliverTraced ==
  ASSUME TypeOK, AnswerInv, NEW c \in Consumers, Deliver(c)
  PROVE  AnswerInv' /\ \E ss \in SUBSET Samples : Answers(c, ss)
  <1>1. PICK at \in [Samples -> Phases], by \in [Samples -> Batches \cup Consumers \cup {NoBatch}],
             nth \in [Samples -> Int] : Traced(at, by, nth)
    BY DEF AnswerInv
  <1>2. PICK q, ts : q = stream[c] /\ ts = Head(q).tasks
    OBVIOUS
  <1>3. /\ q # <<>> /\ stream' = [stream EXCEPT ![c] = Tail(q)]
        /\ delivered' = [s \in Samples |->
                delivered[s] + Cardinality({i \in DOMAIN ts : ts[i] = s})]
        /\ UNCHANGED <<tasksQ, issued, tasks, resetBatch>>
    BY <1>2 DEF Deliver, queueVars, batchVars, issuerVars
  <1>4. stream \in [Consumers -> Seq(EntryType)] /\ q \in Seq(EntryType)
    BY <1>2, StreamType
  <1>5. /\ Head(q) = q[1] /\ 1 \in DOMAIN q
        /\ \A i \in DOMAIN Tail(q) : i + 1 \in DOMAIN q /\ Tail(q)[i] = q[i + 1]
        /\ \A i \in DOMAIN q \ {1} : i - 1 \in DOMAIN Tail(q) /\ Tail(q)[i - 1] = q[i]
    BY <1>3, <1>4, HeadTail
  <1>6. \A i \in DOMAIN Tail(q) : i \in Nat /\ i > 0
    <2>1. Tail(q) \in Seq(EntryType)
      BY <1>3, <1>4
    <2> QED  BY <2>1, ElementType
  <1>7. stream'[c] = Tail(q) /\ \A d \in Consumers : d # c => stream'[d] = stream[d]
    BY <1>3, <1>4
  <1>8. /\ Distinct(ts)
        /\ \A s \in Samples : Has(ts, s) => at[s] = "stream" /\ by[s] = c /\ nth[s] = 1
    <2>1. Inferred(at, by, nth, c, 1)
      BY <1>1, <1>2, <1>5 DEF Traced
    <2> QED  BY <1>2, <1>5, <2>1 DEF Inferred
  <1> DEFINE ss == {s \in Samples : Has(ts, s)}
             now == [s \in Samples |-> IF s \in ss THEN "done" ELSE at[s]]
             ith == [s \in Samples |-> IF at[s] = "stream" /\ by[s] = c THEN nth[s] - 1 ELSE nth[s]]
  <1>9. /\ now \in [Samples -> Phases] /\ ith \in [Samples -> Int]
        /\ \A s \in ss : now[s] = "done"
        /\ \A s \in Samples \ ss : now[s] = at[s]
        /\ \A s \in Samples : ith[s] = IF at[s] = "stream" /\ by[s] = c THEN nth[s] - 1 ELSE nth[s]
    BY DEF Phases
  <1>10. ss \subseteq Samples /\ \A s \in Samples : s \in ss <=> Has(ts, s)
    OBVIOUS
  <1> HIDE DEF ss, now, ith
  <1>11. \A s \in ss : at[s] = "stream" /\ by[s] = c /\ nth[s] = 1
    BY <1>8, <1>10
  <1>12. ASSUME NEW s \in Samples PROVE Answered(at, s)
    BY <1>1 DEF Traced
  <1>13. Answers(c, ss)
    <2>1. ASSUME NEW s \in ss PROVE s \in issued /\ delivered[s] = 0
      BY <1>10, <1>11, <1>12 DEF Answered
    <2>2. ASSUME NEW s \in Samples
          PROVE  delivered[s] + Cardinality({i \in DOMAIN ts : ts[i] = s})
                    = IF s \in ss THEN 1 ELSE delivered[s]
      <3>1. Cardinality({i \in DOMAIN ts : ts[i] = s}) = IF Has(ts, s) THEN 1 ELSE 0
        BY <1>8, CountOf
      <3>2. delivered[s] \in Nat
        BY DEF TypeOK
      <3> QED  BY <1>10, <2>1, <3>1, <3>2
    <2>3. delivered' = [s \in Samples |-> IF s \in ss THEN 1 ELSE delivered[s]]
      BY <1>3, <2>2
    <2> QED  BY <2>1, <2>3 DEF Answers
  <1>14. Queued(now)'
    <2>1. Queued(at)
      BY <1>1 DEF Traced
    <2>2. \A s \in Samples : Has(tasksQ, s) => now[s] = "queue"
      BY <1>9, <1>11, <2>1 DEF Queued
    <2> QED  BY <1>3, <2>1, <2>2 DEF Queued
  <1>15. ASSUME NEW x \in Batches PROVE Batched(now, by, x)'
    <2>1. Live(x)' <=> Live(x)
      <3>1. ASSUME Streamed(x) PROVE Streamed(x)'
        <4>1. PICK d \in Consumers : \E i \in DOMAIN stream[d] : stream[d][i].batch = x
          BY <3>1 DEF Streamed
        <4>2. PICK i \in DOMAIN stream[d] : stream[d][i].batch = x
          BY <4>1
        <4>3. CASE d # c
          BY <1>7, <4>2, <4>3 DEF Streamed
        <4>4. CASE d = c
          <5>1. Head(q).batch = NoBatch /\ x # NoBatch
            BY <1>2, NamesAssumption DEF Deliver
          <5>2. i \in DOMAIN q \ {1} /\ q[i].batch = x
            BY <1>2, <1>5, <4>2, <4>4, <5>1
          <5>3. i - 1 \in DOMAIN stream'[c] /\ stream'[c][i - 1].batch = x
            BY <1>5, <1>7, <5>2
          <5> QED  BY <5>3 DEF Streamed
        <4> QED  BY <4>3, <4>4
      <3>2. ASSUME Streamed(x)' PROVE Streamed(x)
        <4>1. PICK d \in Consumers : \E i \in DOMAIN stream'[d] : stream'[d][i].batch = x
          BY <3>2 DEF Streamed
        <4>2. PICK i \in DOMAIN stream'[d] : stream'[d][i].batch = x
          BY <4>1
        <4>3. CASE d # c
          BY <1>7, <4>2, <4>3 DEF Streamed
        <4>4. CASE d = c
          <5>1. i + 1 \in DOMAIN stream[c] /\ stream[c][i + 1].batch = x
            BY <1>2, <1>5, <1>7, <4>2, <4>4
          <5> QED  BY <5>1 DEF Streamed
        <4> QED  BY <4>3, <4>4
      <3>3. Returning(x)' <=> Returning(x)
        BY <1>3 DEF Returning
      <3> QED  BY <3>1, <3>2, <3>3 DEF Live
    <2>2. Batched(at, by, x)
      BY <1>1 DEF Traced
    <2> SUFFICES ASSUME Live(x)
                 PROVE  /\ Distinct(tasks[x])
                        /\ \A s \in Samples : Has(tasks[x], s) => now[s] = "batch" /\ by[s] = x
      BY <1>3, <2>1 DEF Batched
    <2>3. /\ Distinct(tasks[x])
          /\ \A s \in Samples : Has(tasks[x], s) => at[s] = "batch" /\ by[s] = x
      BY <2>2 DEF Batched
    <2>4. \A s \in Samples : Has(tasks[x], s) => s \notin ss
      BY <1>11, <2>3
    <2> QED  BY <1>9, <2>3, <2>4
  <1>16. ASSUME NEW d \in Consumers, NEW i \in DOMAIN stream'[d] PROVE Inferred(now, by, ith, d, i)'
    <2> DEFINE j == IF d = c THEN i + 1 ELSE i
    <2>1. j \in DOMAIN stream[d] /\ stream'[d][i] = stream[d][j]
      BY <1>2, <1>5, <1>7, <1>16
    <2>2. /\ d # c => j = i
          /\ d = c => i \in Nat /\ i > 0 /\ j = i + 1
      BY <1>6, <1>7, <1>16
    <2> HIDE DEF j
    <2>3. Inferred(at, by, nth, d, j)
      BY <1>1, <2>1 DEF Traced
    <2>4. \A s \in Samples : Has(stream[d][j].tasks, s) =>
                at[s] = "stream" /\ by[s] = d /\ nth[s] = j
      BY <2>3 DEF Inferred
    <2>5. ASSUME NEW s \in Samples, Has(stream[d][j].tasks, s)
          PROVE  now[s] = "stream" /\ by[s] = d /\ ith[s] = i
      <3>1. at[s] = "stream" /\ by[s] = d /\ nth[s] = j
        BY <2>4, <2>5
      <3>2. s \notin ss
        BY <1>11, <2>2, <3>1
      <3>3. now[s] = at[s]
        BY <1>9, <3>2
      <3>4. ith[s] = i
        BY <1>9, <2>2, <3>1
      <3> QED  BY <3>1, <3>3, <3>4
    <2> QED  BY <2>1, <2>3, <2>5 DEF Inferred
  <1>17. ASSUME NEW s \in Samples PROVE Answered(now, s)'
    <2>1. delivered'[s] = IF s \in ss THEN 1 ELSE delivered[s]
      BY <1>13 DEF Answers
    <2>2. s \in ss => s \in issued
      BY <1>13 DEF Answers
    <2> QED  BY <1>3, <1>9, <1>12, <2>1, <2>2 DEF Answered
  <1>18. Traced(now, by, ith)'
    BY <1>14, <1>15, <1>16, <1>17 DEF Traced
  <1>19. AnswerInv'
    BY <1>9, <1>18 DEF AnswerInv
  <1> QED  BY <1>10, <1>13, <1>19

\* Only Deliver reports to LoadGen.
LEMMA DeliveredStays ==
  ASSUME Step
  PROVE  delivered' = delivered \/ \E c \in Consumers : Deliver(c)
  <1>1. CASE Issuer
    BY <1>1 DEF Issuer, StartQuery, IssueTask, EndQuery, FlushQueries, FlushMark, FlushReady,
                FlushUnstage, FlushFlag, StopWork
  <1>2. ASSUME NEW t \in Threads, Stage(t) PROVE delivered' = delivered
    BY <1>2 DEF Stage, StageWait, StageStop, StageBegin, StageBeginAt, CommitTask, CommitFull,
                CommitEmpty, StageNothing, StageCommitted, Copy, CompleteCopies, issuerVars
  <1>3. ASSUME NEW c \in Consumers, Fetch(c) PROVE delivered' = delivered
    BY <1>3 DEF Fetch, GetReady, GetNone, GetWoken, GetSleep, GetNotified, GetStopped, GetBatch, Infer
  <1>4. ASSUME NEW c \in Consumers, CopyStream(c) PROVE delivered' = delivered
    BY <1>4 DEF CopyStream, H2DDone, ResetBatch, NotifyH2D
  <1> QED  BY <1>1, <1>2, <1>3, <1>4 DEF Step

\* What a step may report, and to which samples.
Reports ==
    \/ UNCHANGED <<issued, delivered>>
    \/ \E s \in Samples : s \notin issued /\ issued' = issued \cup {s} /\ delivered' = delivered
    \/ \E c \in Consumers : \E ss \in SUBSET Samples : Answers(c, ss) /\ issued' = issued

\* Every step keeps track of the samples and reports as it may.
LEMMA AnswerNext ==
  ASSUME FlushExclusive, IInv, AnswerInv, Step
  PROVE  AnswerInv' /\ Reports
  <1>0. TypeOK /\ MutexInv /\ WaitInv /\ ThreadInv /\ FlushInv /\ PlaceInv /\ OnceInv
    BY DEF IInv
  <1>a. ASSUME LeavesSamples PROVE AnswerInv' /\ Reports
    BY <1>a, LeavesTraced DEF LeavesSamples, Reports
  <1>b. ASSUME UNCHANGED <<tasksQ, issued, delivered, stream, resetBatch, tasks>>
        PROVE  AnswerInv' /\ Reports
    <2>1. ASSUME NEW x \in Batches PROVE Live(x)' <=> Live(x)
      BY <1>b DEF Live, Streamed, Returning
    <2>2. LeavesSamples
      BY <1>b, <2>1 DEF LeavesSamples
    <2> QED  BY <1>a, <2>2
  <1>1. ASSUME NEW c \in Consumers, Deliver(c) PROVE AnswerInv' /\ Reports
    <2>1. issued' = issued
      BY <1>1 DEF Deliver, issuerVars
    <2> QED  BY <1>0, <1>1, <2>1, DeliverTraced DEF Reports
  <1>2. CASE ~\E c \in Consumers : Deliver(c)
    <2>1. delivered' = delivered
      BY <1>2, DeliveredStays
    <2>2. CASE Rests
      BY <1>b, <2>1, <2>2 DEF Rests, streamVars
    <2>3. ASSUME NEW s \in Samples, IssueTask(s) PROVE AnswerInv' /\ Reports
      <3>1. s \notin issued /\ issued' = issued \cup {s}
        BY <2>3 DEF IssueTask
      <3> QED  BY <1>0, <2>1, <2>3, <3>1, IssueTraced DEF Reports
    <2>4. CASE FlushMark \/ FlushReady \/ FlushUnstage
      <3>1. UNCHANGED <<tasksQ, issued, stream, resetBatch, tasks>>
        BY <2>4 DEF FlushMark, FlushReady, FlushUnstage, queueVars, batchVars, consumerVars, streamVars
      <3> QED  BY <1>b, <2>1, <3>1
    <2>5. ASSUME NEW t \in Threads, StageBegin(t) \/ Copy(t) \/ CompleteCopies(t)
          PROVE  AnswerInv' /\ Reports
      <3>1. UNCHANGED <<tasksQ, issued, stream, resetBatch, tasks>>
        BY <2>5 DEF StageBegin, StageBeginAt, Copy, CompleteCopies, queueVars, batchVars,
                    consumerVars, streamVars, issuerVars
      <3> QED  BY <1>b, <2>1, <3>1
    <2>6. ASSUME NEW t \in Threads, CommitTask(t) PROVE AnswerInv' /\ Reports
      <3>1. issued' = issued
        BY <2>6 DEF CommitTask, issuerVars
      <3> QED  BY <1>0, <2>1, <2>6, <3>1, CommitTraced DEF Reports
    <2>7. ASSUME NEW c \in Consumers, GetBatch(c) PROVE AnswerInv' /\ Reports
      <3>1. UNCHANGED <<tasksQ, issued, stream, resetBatch, tasks>>
        BY <2>7 DEF GetBatch, batchVars, issuerVars
      <3> QED  BY <1>b, <2>1, <3>1
    <2>8. ASSUME NEW c \in Consumers, Infer(c) PROVE AnswerInv' /\ Reports
      <3>1. issued' = issued
        BY <2>8 DEF Infer, issuerVars
      <3> QED  BY <1>0, <2>1, <2>8, <3>1, InferTraced DEF Reports
    <2>9. ASSUME NEW c \in Consumers, H2DDone(c) PROVE AnswerInv' /\ Reports
      <3>1. PICK b \in Batches, i \in DOMAIN stream[c] : Copied(c, i, b)
        BY <1>0, <2>9, H2DStep
      <3>2. UNCHANGED <<tasksQ, issued, tasks>>
        BY <2>9 DEF H2DDone, queueVars, batchVars, issuerVars
      <3>3. \A x \in Batches : /\ Returning(x)' <=> Returning(x) \/ x = b
                               /\ Streamed(x)' <=> Streamed(x) /\ x # b
        BY <1>0, <2>9, <3>1, H2DMoves
      <3>4. \A x \in Batches : Live(x)' => Live(x) /\ tasks'[x] = tasks[x]
        BY <3>2, <3>3 DEF Live
      <3>5. ASSUME NEW d \in Consumers, NEW j \in DOMAIN stream'[d]
            PROVE  j \in DOMAIN stream[d] /\ stream'[d][j].tasks = stream[d][j].tasks
        <4>1. PICK e \in EntryType : /\ e.tasks = stream[c][i].tasks
                                     /\ stream' = [stream EXCEPT ![c] = [stream[c] EXCEPT ![i] = e]]
          BY <3>1 DEF Copied
        <4>2. stream \in [Consumers -> Seq(EntryType)]
          BY <1>0, StreamType
        <4>3. CASE d # c
          BY <3>5, <4>1, <4>2, <4>3
        <4>4. CASE d = c
          <5>1. stream'[c] = [stream[c] EXCEPT ![i] = e]
            BY <4>1, <4>2
          <5>2. DOMAIN stream'[c] = DOMAIN stream[c]
            BY <5>1
          <5>3. stream'[c][j] = IF j = i THEN e ELSE stream[c][j]
            BY <3>5, <4>4, <5>1, <5>2
          <5> QED  BY <3>5, <4>1, <4>4, <5>2, <5>3
        <4> QED  BY <4>3, <4>4
      <3>6. LeavesSamples
        BY <2>1, <3>2, <3>4, <3>5 DEF LeavesSamples
      <3> QED  BY <1>a, <3>6
    <2>10. ASSUME NEW c \in Consumers, ResetBatch(c) PROVE AnswerInv' /\ Reports
      <3>1. PICK b \in Batches : tasks' = [tasks EXCEPT ![b] = <<>>]
        BY <1>0, <2>10, ResetBatchStep
      <3>2. UNCHANGED <<tasksQ, issued, stream, resetBatch>>
        BY <2>10 DEF ResetBatch, queueVars, consumerVars, streamVars, issuerVars
      <3>3. ASSUME NEW x \in Batches
            PROVE  Live(x)' => tasks'[x] = <<>> \/ (Live(x) /\ tasks'[x] = tasks[x])
        <4>1. Live(x)' <=> Live(x)
          BY <3>2 DEF Live, Streamed, Returning
        <4>2. tasks'[x] = <<>> \/ tasks'[x] = tasks[x]
          BY <1>0, <3>1 DEF TypeOK
        <4> QED  BY <4>1, <4>2
      <3>4. LeavesSamples
        BY <2>1, <3>2, <3>3 DEF LeavesSamples
      <3> QED  BY <1>a, <3>4
    <2>11. ASSUME NEW c \in Consumers, NotifyH2D(c) PROVE AnswerInv' /\ Reports
      <3>1. PICK b : b = resetBatch[c]
        OBVIOUS
      <3>2. /\ tasks[b] = <<>>
            /\ \A x \in Batches : /\ Returning(x)' <=> Returning(x) /\ x # b
                                  /\ Streamed(x)' <=> Streamed(x)
        BY <1>0, <2>11, <3>1, NotifyMoves
      <3>3. UNCHANGED <<tasksQ, issued, tasks, stream>>
        BY <2>11 DEF NotifyH2D, batchVars, issuerVars
      <3>4. ASSUME NEW x \in Batches
            PROVE  Live(x)' => tasks'[x] = <<>> \/ (Live(x) /\ tasks'[x] = tasks[x])
        BY <3>2, <3>3 DEF Live
      <3>5. LeavesSamples
        BY <2>1, <3>3, <3>4 DEF LeavesSamples
      <3> QED  BY <1>a, <3>5
    <2> QED  BY <1>0, <1>2, <2>2, <2>3, <2>4, <2>5, <2>6, <2>7, <2>8, <2>9, <2>10, <2>11, RestsOrMoves
  <1> QED  BY <1>1, <1>2

\* At first no sample was issued.
LEMMA AnswerInit == Init => AnswerInv
  <1> SUFFICES ASSUME Init PROVE AnswerInv
    OBVIOUS
  <1> DEFINE at == [s \in Samples |-> "new"]
             by == [s \in Samples |-> NoBatch]
             nth == [s \in Samples |-> 0]
  <1>1. /\ at \in [Samples -> Phases] /\ by \in [Samples -> Batches \cup Consumers \cup {NoBatch}]
        /\ nth \in [Samples -> Int]
    BY DEF Phases
  <1>2. \A s \in Samples : at[s] = "new"
    OBVIOUS
  <1> HIDE DEF at, by, nth
  <1>3. /\ tasksQ = <<>> /\ \A b \in Batches : tasks[b] = <<>>
        /\ \A c \in Consumers : stream[c] = <<>>
        /\ \A s \in Samples : delivered[s] = 0
    BY DEF Init
  <1>4. DOMAIN <<>> = {}
    OBVIOUS
  <1>5. Distinct(<<>>) /\ \A x : ~Has(<<>>, x)
    BY <1>4 DEF Distinct, Has
  <1>6. Queued(at) /\ \A b \in Batches : Batched(at, by, b)
    BY <1>3, <1>5 DEF Queued, Batched
  <1>7. \A s \in Samples : Answered(at, s)
    BY <1>2, <1>3 DEF Answered
  <1>8. Traced(at, by, nth)
    BY <1>3, <1>4, <1>6, <1>7 DEF Traced
  <1> QED  BY <1>1, <1>8 DEF AnswerInv

\* AnswerInv always holds.
LEMMA SpecAnswer == ASSUME FlushExclusive PROVE Spec => []AnswerInv
  <1>1. IInv /\ AnswerInv /\ [Next]_vars => AnswerInv'
    <2> SUFFICES ASSUME IInv, AnswerInv, [Next]_vars PROVE AnswerInv'
      OBVIOUS
    <2>1. CASE Step
      BY <2>1, AnswerNext
    <2>2. CASE UNCHANGED vars
      <3>1. UNCHANGED <<tasksQ, issued, delivered, stream, resetBatch, tasks>>
        BY <2>2 DEF vars, queueVars, batchVars, consumerVars, streamVars, issuerVars
      <3>2. \A x \in Batches : Live(x)' <=> Live(x)
        BY <3>1 DEF Live, Streamed, Returning
      <3>3. LeavesSamples
        BY <3>1, <3>2 DEF LeavesSamples
      <3> QED  BY <3>3, LeavesTraced
    <2>3. Step \/ UNCHANGED vars
      BY DEF Next, Step, Stopped
    <2> QED  BY <2>1, <2>2, <2>3
  <1> QED  BY <1>1, AnswerInit, SpecInv, PTL DEF Spec

\* LoadGen is answered as the contract says: every answer is to a sample that was
\* issued, no sample is answered twice, and a batch's samples are answered
\* together (dlrm_v2_server.cpp:708-709), although a sample is passed from mTasksQ
\* to a batch to a copy stream by threads that share no lock.
THEOREM ImplementsContract == ASSUME FlushExclusive PROVE Spec => Contract!Spec
  <1>1. Init => Contract!Init
    BY DEF Init, Contract!Init
  <1>2. ASSUME IInv, AnswerInv, [Next]_vars PROVE [Contract!Next]_(Contract!vars)
    <2>1. ASSUME UNCHANGED <<issued, delivered>> PROVE UNCHANGED Contract!vars
      BY <2>1 DEF Contract!vars
    <2>2. CASE Step
      <3>1. Reports
        BY <1>2, <2>2, AnswerNext
      <3>2. ASSUME NEW s \in Samples, s \notin issued, issued' = issued \cup {s}, delivered' = delivered
            PROVE  Contract!Next
        <4>1. Contract!Issue(s)
          BY <3>2 DEF Contract!Issue
        <4> QED  BY <4>1 DEF Contract!Next
      <3>3. ASSUME NEW c \in Consumers, NEW ss \in SUBSET Samples, Answers(c, ss), issued' = issued
            PROVE  Contract!Next
        <4>1. Contract!CompleteBatch(ss)
          BY <3>3 DEF Contract!CompleteBatch, Answers
        <4> QED  BY <4>1 DEF Contract!Next
      <3> QED  BY <2>1, <3>1, <3>2, <3>3 DEF Reports
    <2>3. CASE UNCHANGED vars
      BY <2>1, <2>3 DEF vars, issuerVars
    <2>4. Step \/ UNCHANGED vars
      BY <1>2 DEF Next, Step, Stopped
    <2> QED  BY <2>2, <2>3, <2>4
  <1>3. IInv /\ AnswerInv /\ [Next]_vars => [Contract!Next]_(Contract!vars)
    BY <1>2
  <1> QED  BY <1>1, <1>3, SpecInv, SpecAnswer, PTL DEF Spec, Contract!Spec

=============================================================================
