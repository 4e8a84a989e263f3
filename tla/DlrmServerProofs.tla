-------------------------- MODULE DlrmServerProofs --------------------------
(***************************************************************************)
(* What holds of DlrmServer for any number of devices, cores, bundles,     *)
(* handlers and samples, any numbers of pairs and any settings.            *)
(***************************************************************************)
EXTENDS DlrmServer, CollectionLemmas

-----------------------------------------------------------------------------
(***************************************************************************)
(* The inductive invariant.                                                *)
(***************************************************************************)
\* What lies behind a copy on the D2H stream: the host function of its batch. A
\* bundle has one copy at most there.
Paired(q) ==
    /\ \A i \in DOMAIN q :
        /\ q[i].copy => /\ q[i] = CopyOf(q[i].bundle)
                        /\ i + 1 \in DOMAIN q /\ ~q[i + 1].copy
                        /\ q[i + 1].bundle = q[i].bundle
        /\ ~q[i].copy /\ i # 1 => q[i - 1].copy
    /\ \A i, j \in DOMAIN q :
        q[i].copy /\ q[j].copy /\ q[i].bundle = q[j].bundle => i = j

\* A bundle that is to be computed will be copied; a worker that gets a batch has
\* a bundle that no copy awaits.
Copied(q, b) == \E i \in DOMAIN q : q[i].copy /\ q[i].bundle = b
StreamOk(q, k, pc, b) ==
    /\ Paired(q)
    /\ Distinct(k) /\ \A x \in Bundles : Has(k, x) => Copied(q, x)
    /\ pc = "get" => ~Copied(q, b)
StreamInv == \A c \in Cores : StreamOk(d2h[c], compute[c], wpc[c], bundle[c])

\* The pairs of a batch are in the input of its bundle until that is computed, in
\* its output on the device until that is copied, and in that on the host until
\* the host function has run.
DataOk(q, k, in, dev, host) ==
    /\ \A i \in DOMAIN q : q[i].copy =>
        PairsOf(q[i + 1].tasks) = IF Has(k, q[i].bundle) THEN in[q[i].bundle] ELSE dev[q[i].bundle]
    /\ q # <<>> /\ ~q[1].copy => host[q[1].bundle] = PairsOf(q[1].tasks)
DataInv == \A c \in Cores : DataOk(d2h[c], compute[c], input[c], devOut[c], hostOut[c])

\* A result has the outputs of its pairs; a handler has one while it answers.
Computed(r) == r.outputs = PairsOf(r.tasks)
ResultInv ==
    /\ \A c \in Cores : \A i \in DOMAIN resultQ[c] : Computed(resultQ[c][i])
    /\ \A h \in Handlers : IF hpc[h] = "answer" THEN Computed(result[h]) ELSE result[h] = NoResult

\* Who has each sample: nobody yet, a batch maker, the D2H stream, the result
\* queue or a handler of a core, or LoadGen, which has been given its output.
Unissued == <<"none", 0>>
InMaker(m) == <<"maker", m>>
OnStream(c) == <<"stream", c>>
InResults(c) == <<"results", c>>
InHand(h) == <<"hand", h>>
Given == <<"given", 0>>
Owners ==
    {Unissued, Given} \cup {InMaker(m) : m \in Devices} \cup {OnStream(c) : c \in Cores}
        \cup {InResults(c) : c \in Cores} \cup {InHand(h) : h \in Handlers}

\* A list of tasks of different samples that all have the same owner.
Names(ts, s) == \E i \in DOMAIN ts : ts[i][1] = s
OwnedBy(owner, ts, party) ==
    /\ \A i \in DOMAIN ts : ts[i][1] \in Samples /\ ts[i] = Task(ts[i][1]) /\ owner[ts[i][1]] = party
    /\ \A i, j \in DOMAIN ts : ts[i][1] = ts[j][1] => i = j

\* A queue of batches that share no sample and all have the same owner.
AllOwnedBy(owner, q, party) ==
    /\ \A i \in DOMAIN q : OwnedBy(owner, Answered(q[i]), party)
    /\ \A i, j \in DOMAIN q : \A s \in Samples :
        Names(Answered(q[i]), s) /\ Names(Answered(q[j]), s) => i = j

Outputs1(s) == [k \in 1..Pairs[s] |-> s]
TellsAnswers(owner) == \A s \in Samples :
    /\ s > issued => owner[s] = Unissued
    /\ answers[s] = IF owner[s] = Given THEN <<Outputs1(s)>> ELSE <<>>
Tells(owner) ==
    /\ TellsAnswers(owner)
    /\ \A m \in Devices : OwnedBy(owner, tasks[m], InMaker(m))
    /\ \A c \in Cores : /\ AllOwnedBy(owner, d2h[c], OnStream(c))
                        /\ AllOwnedBy(owner, resultQ[c], InResults(c))
    /\ \A h \in Handlers : OwnedBy(owner, Answered(result[h]), InHand(h))
OwnerInv == \E owner \in [Samples -> Owners] : Tells(owner)

IInv == TypeOK /\ StreamInv /\ DataInv /\ ResultInv /\ OwnerInv

-----------------------------------------------------------------------------
\* What the constants are.
LEMMA ConstantTypes ==
  /\ NumDevices \in Nat /\ NumDevices > 0 /\ NumBundles \in Nat /\ NumBundles > 0
  /\ Pairs \in Seq(Nat \ {0}) /\ Samples = 1..Len(Pairs) /\ Len(Pairs) \in Nat
  /\ \A s \in Samples : s \in Nat /\ s > 0 /\ Pairs[s] \in Nat /\ Pairs[s] > 0
                        /\ Task(s) \in TaskType /\ Task(s)[1] = s /\ Task(s)[2] = Pairs[s]
  /\ \A n \in QuerySizes : n \in Nat /\ n > 0
  /\ Devices = 1..NumDevices /\ 1 \in Devices
  /\ \A c \in Cores : c[1] \in Devices
  /\ \A h \in Handlers : h[1] \in Cores
  /\ 1 \in Bundles /\ Bundles \subseteq Nat
  <1>1. /\ NumDevices \in Nat \ {0} /\ NumBundles \in Nat \ {0}
        /\ Pairs \in Seq(Nat \ {0}) /\ QuerySizes \subseteq Nat \ {0}
    BY DlrmAssumption
  <1>2. Samples = 1..Len(Pairs) /\ Len(Pairs) \in Nat
    BY <1>1 DEF Samples
  <1>3. \A s \in Samples : s \in Nat /\ s > 0 /\ Pairs[s] \in Nat /\ Pairs[s] > 0
    BY <1>1, <1>2
  <1>4. \A s \in Samples : Task(s) \in TaskType /\ Task(s)[1] = s /\ Task(s)[2] = Pairs[s]
    BY <1>3 DEF Task, TaskType
  <1>5. Devices = 1..NumDevices /\ 1 \in Devices /\ 1 \in Bundles /\ Bundles \subseteq Nat
    BY <1>1 DEF Devices, Bundles
  <1>6. (\A c \in Cores : c[1] \in Devices) /\ (\A h \in Handlers : h[1] \in Cores)
    BY DEF Cores, Handlers
  <1> QED  BY <1>1, <1>2, <1>3, <1>4, <1>5, <1>6

\* The settings, and the size that is rounded down to an even one.
LEMMA SettingTypes ==
  ASSUME settings \in Settings
  PROVE  /\ settings.maxBatchSize \in Nat
         /\ settings.startFromDevice \in BOOLEAN /\ settings.issueThreads \in BOOLEAN
         /\ settings.batcherPerGpu \in BOOLEAN
         /\ MaxBatchSize \in Nat /\ MaxBatchSize % 2 = 0
         /\ settings.maxBatchSize % 2 = 0 => MaxBatchSize = settings.maxBatchSize
         /\ NumMakers \in Devices /\ \A c \in Cores : MakerOf(c) \in Devices
  <1>1. settings \in [startFromDevice : BOOLEAN, issueThreads : BOOLEAN,
                      batcherPerGpu : BOOLEAN, maxBatchSize : Nat]
    BY DlrmAssumption
  <1>2. \A m \in Nat : m - (m % 2) \in Nat /\ (m - (m % 2)) % 2 = 0
    OBVIOUS
  <1>3. NumMakers \in Devices /\ \A c \in Cores : MakerOf(c) \in Devices
    BY ConstantTypes DEF NumMakers, MakerOf
  <1> QED  BY <1>1, <1>2, <1>3 DEF MaxBatchSize

-----------------------------------------------------------------------------
(***************************************************************************)
(* The pairs of a list of tasks.                                           *)
(***************************************************************************)
Block(t) == [k \in 1..t[2] |-> t[1]]

\* The recursive function of FlattenSeq, for the blocks of ts.
IsFlat(f, ts, n) ==
    f = [i \in 1..n |-> IF i = 1 THEN Block(ts[i]) ELSE f[i - 1] \o Block(ts[i])]

\* The pairs of one task.
LEMMA BlockType ==
  ASSUME NEW t \in TaskType
  PROVE  /\ Block(t) \in Seq(Samples) /\ Len(Block(t)) = t[2] /\ t[2] \in Nat /\ t[1] \in Samples
         /\ \A k \in 1..t[2] : Block(t)[k] = t[1]
  <1>1. t[1] \in Samples /\ t[2] \in Nat
    BY DEF TaskType
  <1> QED  BY <1>1 DEF Block

\* The function exists for every length, or for the least length that it does
\* not exist for it could be extended from the length before.
LEMMA FlatExists ==
  ASSUME NEW ts
  PROVE  \A n \in Nat : \E f : IsFlat(f, ts, n)
  <1> DEFINE bad == {n \in Nat : ~\E f : IsFlat(f, ts, n)}
  <1>1. ASSUME bad # {} PROVE FALSE
    <2>1. bad \subseteq Nat
      OBVIOUS
    <2> HIDE DEF bad
    <2>2. PICK n \in bad : \A m \in bad : n <= m
      BY <1>1, <2>1, NatMin
    <2>3. n \in Nat /\ ~\E f : IsFlat(f, ts, n)
      BY <2>2 DEF bad
    <2>4. CASE n = 0
      <3> DEFINE g == [i \in 1..0 |-> <<>>]
      <3>1. g = [i \in 1..0 |-> IF i = 1 THEN Block(ts[i]) ELSE g[i - 1] \o Block(ts[i])]
        OBVIOUS
      <3>2. IsFlat(g, ts, 0)
        BY <3>1 DEF IsFlat
      <3> QED  BY <2>3, <2>4, <3>2
    <2>5. CASE n > 0
      <3>1. n - 1 \in Nat /\ n - 1 \notin bad
        BY <2>2, <2>3, <2>5
      <3>2. PICK f : IsFlat(f, ts, n - 1)
        BY <3>1 DEF bad
      <3> DEFINE g == [i \in 1..n |-> IF i = n
                                      THEN IF n = 1 THEN Block(ts[n]) ELSE f[n - 1] \o Block(ts[n])
                                      ELSE f[i]]
      <3>3. ASSUME NEW i \in 1..n
            PROVE  g[i] = IF i = 1 THEN Block(ts[i]) ELSE g[i - 1] \o Block(ts[i])
        <4>1. CASE i = n
          <5>1. g[i] = IF n = 1 THEN Block(ts[n]) ELSE f[n - 1] \o Block(ts[n])
            BY <4>1
          <5>2. n # 1 => n - 1 \in 1..n /\ n - 1 # n
            BY <2>3, <2>5
          <5>3. n # 1 => g[n - 1] = f[n - 1]
            BY <5>2
          <5> QED  BY <4>1, <5>1, <5>3
        <4>2. CASE i # n
          <5>1. i \in 1..(n - 1) /\ g[i] = f[i]
            BY <2>3, <4>2
          <5>2. f[i] = IF i = 1 THEN Block(ts[i]) ELSE f[i - 1] \o Block(ts[i])
            BY <3>2, <5>1 DEF IsFlat
          <5>3. i # 1 => i - 1 \in 1..n /\ i - 1 # n /\ g[i - 1] = f[i - 1]
            BY <2>3, <5>1
          <5> QED  BY <5>1, <5>2, <5>3
        <4> QED  BY <4>1, <4>2
      <3>4. g = [i \in 1..n |-> g[i]]
        OBVIOUS
      <3> HIDE DEF g
      <3>5. IsFlat(g, ts, n)
        BY <3>3, <3>4 DEF IsFlat
      <3> QED  BY <2>3, <3>5
    <2> QED  BY <2>3, <2>4, <2>5
  <1> QED  BY <1>1

\* PairsOf is the value of that function at the end of the list.
LEMMA PairsDef ==
  ASSUME NEW ts \in Seq(TaskType), ts # <<>>
  PROVE  \E f : IsFlat(f, ts, Len(ts)) /\ PairsOf(ts) = f[Len(ts)]
  <1> DEFINE blocks == [i \in DOMAIN ts |-> Block(ts[i])]
             Def(f) == f = [i \in 1..Len(blocks) |->
                                IF i = 1 THEN blocks[i] ELSE f[i - 1] \o blocks[i]]
             flatten == CHOOSE f : Def(f)
  <1>1. Len(ts) \in Nat \ {0} /\ DOMAIN ts = 1..Len(ts)
    OBVIOUS
  <1>2. Len(blocks) = Len(ts) /\ \A i \in 1..Len(ts) : blocks[i] = Block(ts[i])
    BY <1>1
  <1>3. FlattenSeq(blocks) = flatten[Len(blocks)]
    <2>1. Len(blocks) # 0
      BY <1>1, <1>2
    <2> HIDE DEF blocks
    <2> QED  BY <2>1 DEF FlattenSeq
  <1>4. PairsOf(ts) = flatten[Len(ts)]
    BY <1>2, <1>3 DEF PairsOf, Block
  <1>5. \E f : IsFlat(f, ts, Len(ts))
    BY <1>1, FlatExists
  <1>6. \A f : Def(f) <=> IsFlat(f, ts, Len(ts))
    <2> SUFFICES ASSUME NEW f PROVE Def(f) <=> IsFlat(f, ts, Len(ts))
      OBVIOUS
    <2>1. [i \in 1..Len(ts) |-> IF i = 1 THEN blocks[i] ELSE f[i - 1] \o blocks[i]]
            = [i \in 1..Len(ts) |-> IF i = 1 THEN Block(ts[i]) ELSE f[i - 1] \o Block(ts[i])]
      BY <1>2
    <2> HIDE DEF blocks
    <2> QED  BY <1>2, <2>1 DEF IsFlat
  <1> HIDE DEF Def, blocks
  <1>7. \E f : Def(f)
    BY <1>5, <1>6
  <1>8. Def(flatten)
    BY <1>7
  <1> QED  BY <1>4, <1>6, <1>8

\* Two such functions agree as long as their lists do.
LEMMA FlatAgree ==
  ASSUME NEW ts, NEW us, NEW f, NEW g, NEW m \in Nat, NEW n \in Nat,
         IsFlat(f, ts, m), IsFlat(g, us, n), NEW l \in Nat, l <= m, l <= n,
         \A i \in 1..l : ts[i] = us[i]
  PROVE  \A k \in 1..l : f[k] = g[k]
  <1> DEFINE bad == {k \in 1..l : f[k] # g[k]}
  <1>1. ASSUME bad # {} PROVE FALSE
    <2>1. bad \subseteq Nat
      OBVIOUS
    <2> HIDE DEF bad
    <2>2. PICK k \in bad : \A j \in bad : k <= j
      BY <1>1, <2>1, NatMin
    <2>3. k \in 1..l /\ f[k] # g[k] /\ ts[k] = us[k]
      BY <2>2 DEF bad
    <2>4. k \in 1..m /\ k \in 1..n
      BY <2>3
    <2>5. /\ f[k] = IF k = 1 THEN Block(ts[k]) ELSE f[k - 1] \o Block(ts[k])
          /\ g[k] = IF k = 1 THEN Block(us[k]) ELSE g[k - 1] \o Block(us[k])
      BY <2>4 DEF IsFlat
    <2>6. k # 1
      BY <2>3, <2>5
    <2>7. k - 1 \in 1..l /\ k - 1 < k
      BY <2>3, <2>6
    <2>8. k - 1 \notin bad
      BY <2>2, <2>3, <2>7
    <2>9. f[k - 1] = g[k - 1]
      BY <2>7, <2>8 DEF bad
    <2> QED  BY <2>3, <2>5, <2>6, <2>9
  <1> QED  BY <1>1

\* Its values are lists of samples, and each is a beginning of the later ones.
LEMMA FlatType ==
  ASSUME NEW ts \in Seq(TaskType), NEW f, IsFlat(f, ts, Len(ts))
  PROVE  \A k \in 1..Len(ts) : f[k] \in Seq(Samples)
  <1> DEFINE bad == {k \in 1..Len(ts) : f[k] \notin Seq(Samples)}
  <1>1. ASSUME bad # {} PROVE FALSE
    <2>1. bad \subseteq Nat
      OBVIOUS
    <2> HIDE DEF bad
    <2>2. PICK k \in bad : \A j \in bad : k <= j
      BY <1>1, <2>1, NatMin
    <2>3. k \in 1..Len(ts) /\ f[k] \notin Seq(Samples)
      BY <2>2 DEF bad
    <2>4. f[k] = IF k = 1 THEN Block(ts[k]) ELSE f[k - 1] \o Block(ts[k])
      BY <2>3 DEF IsFlat
    <2>5. ts[k] \in TaskType
      BY <2>3
    <2>6. k # 1
      BY <2>3, <2>4, <2>5, BlockType
    <2>7. k - 1 \in 1..Len(ts) /\ k - 1 < k
      BY <2>3, <2>6
    <2>8. k - 1 \notin bad
      BY <2>2, <2>3, <2>7
    <2>9. f[k - 1] \in Seq(Samples)
      BY <2>7, <2>8 DEF bad
    <2>10. f[k - 1] \o Block(ts[k]) \in Seq(Samples)
      BY <2>5, <2>9, BlockType, ConcatProperties
    <2> QED  BY <2>3, <2>4, <2>6, <2>10
  <1> QED  BY <1>1

\* r begins with q.
Begins(q, r) == Len(q) <= Len(r) /\ \A j \in 1..Len(q) : r[j] = q[j]

\* A sequence that is continued, and one that is continued twice.
LEMMA BeginsConcat ==
  ASSUME NEW S, NEW q \in Seq(S), NEW r \in Seq(S)
  PROVE  Begins(q, q \o r)
  BY ConcatProperties DEF Begins

\* The beginning of a beginning.
LEMMA BeginsTransitive ==
  ASSUME NEW S, NEW q \in Seq(S), NEW r \in Seq(S), NEW t \in Seq(S), Begins(q, r), Begins(r, t)
  PROVE  Begins(q, t)
  BY DEF Begins

\* Each value begins the later ones.
LEMMA FlatGrows ==
  ASSUME NEW ts \in Seq(TaskType), NEW f, IsFlat(f, ts, Len(ts)), NEW a \in 1..Len(ts)
  PROVE  \A n \in a..Len(ts) : Begins(f[a], f[n])
  <1> DEFINE bad == {n \in a..Len(ts) : ~Begins(f[a], f[n])}
  <1>0. \A k \in 1..Len(ts) : f[k] \in Seq(Samples)
    BY FlatType
  <1>1. ASSUME bad # {} PROVE FALSE
    <2>1. bad \subseteq Nat
      OBVIOUS
    <2> HIDE DEF bad
    <2>2. PICK n \in bad : \A j \in bad : n <= j
      BY <1>1, <2>1, NatMin
    <2>3. n \in a..Len(ts) /\ ~Begins(f[a], f[n]) /\ n \in 1..Len(ts)
      BY <2>2 DEF bad
    <2>4. f[n] = IF n = 1 THEN Block(ts[n]) ELSE f[n - 1] \o Block(ts[n])
      BY <2>3 DEF IsFlat
    <2>5. f[a] \in Seq(Samples) /\ Len(f[a]) \in Nat
      BY <1>0
    <2>6. n # a
      BY <2>3, <2>5 DEF Begins
    <2>7. n - 1 \in a..Len(ts) /\ n - 1 < n /\ n - 1 \in 1..Len(ts) /\ n # 1
      BY <2>3, <2>6
    <2>8. n - 1 \notin bad
      BY <2>2, <2>3, <2>7
    <2>9. Begins(f[a], f[n - 1])
      BY <2>7, <2>8 DEF bad
    <2>10. f[n - 1] \in Seq(Samples) /\ Block(ts[n]) \in Seq(Samples)
      BY <1>0, <2>3, <2>7, BlockType
    <2>11. \A q, r \in Seq(Samples) : Begins(q, q \o r)
      BY BeginsConcat
    <2>12. f[n] = f[n - 1] \o Block(ts[n])
      BY <2>4, <2>7
    <2>13. f[n] \in Seq(Samples)
      BY <1>0, <2>3
    <2>14. Begins(f[n - 1], f[n])
      BY <2>10, <2>11, <2>12
    <2>15. \A q, r, t \in Seq(Samples) : Begins(q, r) /\ Begins(r, t) => Begins(q, t)
      BY BeginsTransitive
    <2> QED  BY <2>3, <2>5, <2>9, <2>10, <2>13, <2>14, <2>15
  <1> QED  BY <1>1

\* Its values are the pairs of the beginnings of the list.
LEMMA FlatIsPairs ==
  ASSUME NEW ts \in Seq(TaskType), NEW f, IsFlat(f, ts, Len(ts)), NEW k \in 1..Len(ts)
  PROVE  PairsOf(SubSeq(ts, 1, k)) = f[k] /\ SubSeq(ts, 1, k) \in Seq(TaskType)
  <1> DEFINE us == SubSeq(ts, 1, k)
  <1>1. us \in Seq(TaskType) /\ Len(us) = k /\ k \in Nat /\ k > 0 /\ us # <<>>
        /\ \A i \in 1..k : us[i] = ts[i]
    <2>1. k \in 0..Len(ts) /\ k \in Nat /\ k > 0
      OBVIOUS
    <2>2. us \in Seq(TaskType) /\ Len(us) = k /\ \A i \in 1..k : us[i] = ts[i]
      BY <2>1, SplitSeq
    <2> QED  BY <2>1, <2>2
  <1> HIDE DEF us
  <1>2. PICK g : IsFlat(g, us, Len(us)) /\ PairsOf(us) = g[Len(us)]
    BY <1>1, PairsDef
  <1>3. Len(ts) \in Nat /\ k <= Len(ts) /\ k <= k
    BY <1>1
  <1>4. IsFlat(g, us, k)
    BY <1>1, <1>2
  <1>5. \A i \in 1..k : f[i] = g[i]
    <2>1. \A i \in 1..k : ts[i] = us[i]
      BY <1>1
    <2> QED  BY <1>1, <1>3, <1>4, <2>1, FlatAgree, SMTT(20)
  <1>6. k \in 1..k
    BY <1>1
  <1> QED  BY <1>1, <1>2, <1>5, <1>6 DEF us

\* No task has no pairs, one more task appends its block.
LEMMA PairsEmpty == PairsOf(<<>>) = <<>>
  <1> DEFINE none == [i \in DOMAIN <<>> |-> Block(<<>>[i])]
  <1>1. none = <<>> /\ Len(none) = 0
    OBVIOUS
  <1>2. FlattenSeq(none) = none
    BY <1>1 DEF FlattenSeq
  <1>3. PairsOf(<<>>) = FlattenSeq(none)
    BY DEF PairsOf, Block
  <1> QED  BY <1>1, <1>2, <1>3

\* The pairs of tasks are samples.
LEMMA PairsType == ASSUME NEW ts \in Seq(TaskType) PROVE PairsOf(ts) \in Seq(Samples)
  <1>1. CASE ts = <<>>
    BY <1>1, PairsEmpty, EmptySeqType
  <1>2. CASE ts # <<>>
    <2>1. PICK f : IsFlat(f, ts, Len(ts)) /\ PairsOf(ts) = f[Len(ts)]
      BY <1>2, PairsDef
    <2>2. Len(ts) \in 1..Len(ts)
      BY <1>2
    <2> QED  BY <2>1, <2>2, FlatType
  <1> QED  BY <1>1, <1>2

\* One more task adds its pairs behind the others.
LEMMA PairsAppend ==
  ASSUME NEW ts \in Seq(TaskType), NEW t \in TaskType
  PROVE  PairsOf(Append(ts, t)) = PairsOf(ts) \o Block(t)
  <1> DEFINE us == Append(ts, t)
  <1>1. /\ us \in Seq(TaskType) /\ Len(us) = Len(ts) + 1 /\ us[Len(us)] = t /\ us # <<>>
        /\ \A i \in 1..Len(ts) : us[i] = ts[i]
    OBVIOUS
  <1> HIDE DEF us
  <1>2. PICK g : IsFlat(g, us, Len(us)) /\ PairsOf(us) = g[Len(us)]
    BY <1>1, PairsDef
  <1>3. Len(us) \in 1..Len(us) /\ Len(ts) \in Nat
    BY <1>1
  <1>4. g[Len(us)] = IF Len(us) = 1 THEN Block(t) ELSE g[Len(us) - 1] \o Block(t)
    BY <1>1, <1>2, <1>3 DEF IsFlat
  <1>5. CASE ts = <<>>
    <2>1. Len(us) = 1
      BY <1>1, <1>5
    <2>2. PairsOf(ts) \o Block(t) = Block(t)
      BY <1>5, PairsEmpty, BlockType, ConcatEmptySeq
    <2> QED  BY <1>2, <1>4, <2>1, <2>2 DEF us
  <1>6. CASE ts # <<>>
    <2>1. Len(ts) \in 1..Len(us) /\ Len(us) - 1 = Len(ts) /\ Len(us) # 1
      BY <1>1, <1>3, <1>6
    <2>2. SubSeq(us, 1, Len(ts)) = ts
      BY <1>1, <1>3, <2>1
    <2>3. PairsOf(ts) = g[Len(ts)]
      BY <1>1, <1>2, <2>1, <2>2, FlatIsPairs
    <2> QED  BY <1>2, <1>4, <2>1, <2>3 DEF us
  <1> QED  BY <1>5, <1>6

\* The numbers of pairs.
LEMMA PairsInType ==
  /\ PairsIn(<<>>) = 0
  /\ \A ts \in Seq(TaskType) : PairsIn(ts) \in Nat
  /\ \A ts \in Seq(TaskType), t \in TaskType : PairsIn(Append(ts, t)) = PairsIn(ts) + t[2]
  <1>1. PairsIn(<<>>) = 0
    BY PairsEmpty DEF PairsIn
  <1>2. \A ts \in Seq(TaskType) : PairsIn(ts) \in Nat
    BY PairsType DEF PairsIn
  <1>3. ASSUME NEW ts \in Seq(TaskType), NEW t \in TaskType
        PROVE  PairsIn(Append(ts, t)) = PairsIn(ts) + t[2]
    BY PairsType, PairsAppend, BlockType, ConcatProperties DEF PairsIn
  <1> QED  BY <1>1, <1>2, <1>3

\* Where HandleResult looks for the outputs of a task, its pairs are.
LEMMA PairsFound ==
  ASSUME NEW ts \in Seq(TaskType), NEW i \in 1..Len(ts)
  PROVE  LET before == PairsIn(SubSeq(ts, 1, i - 1))
         IN  SubSeq(PairsOf(ts), before + 1, before + ts[i][2]) = Block(ts[i])
  <1> DEFINE us == SubSeq(ts, 1, i - 1)
             vs == SubSeq(ts, 1, i)
             before == PairsIn(us)
             whole == PairsOf(ts)
  <1>1. i - 1 \in 0..Len(ts) /\ i \in 0..Len(ts) /\ ts # <<>> /\ ts[i] \in TaskType
        /\ Len(ts) \in i..Len(ts) /\ Len(ts) \in 1..Len(ts)
    OBVIOUS
  <1>2. /\ us \in Seq(TaskType) /\ Len(us) = i - 1 /\ (\A j \in 1..(i - 1) : us[j] = ts[j])
        /\ vs \in Seq(TaskType) /\ Len(vs) = i /\ (\A j \in 1..i : vs[j] = ts[j])
    BY <1>1, SplitSeq
  <1> HIDE DEF us, vs
  <1>3. vs = Append(us, ts[i])
    BY <1>1, <1>2
  <1>4. PairsOf(vs) = PairsOf(us) \o Block(ts[i])
    BY <1>1, <1>2, <1>3, PairsAppend
  <1>5. PICK f : IsFlat(f, ts, Len(ts)) /\ whole = f[Len(ts)]
    BY <1>1, PairsDef
  <1>6. PairsOf(vs) = f[i]
    BY <1>5, FlatIsPairs DEF vs
  <1>7. Begins(PairsOf(vs), whole)
    BY <1>1, <1>5, <1>6, FlatGrows
  <1>8. /\ PairsOf(us) \in Seq(Samples) /\ before = Len(PairsOf(us)) /\ before \in Nat
        /\ Block(ts[i]) \in Seq(Samples) /\ Len(Block(ts[i])) = ts[i][2] /\ ts[i][2] \in Nat
        /\ whole \in Seq(Samples)
    BY <1>1, <1>2, PairsType, BlockType DEF PairsIn
  <1> HIDE DEF whole, before
  <1>9. Len(PairsOf(vs)) = before + ts[i][2]
        /\ \A k \in 1..ts[i][2] : PairsOf(vs)[before + k] = Block(ts[i])[k]
    BY <1>4, <1>8, ConcatProperties
  <1>10. before + ts[i][2] <= Len(whole)
         /\ \A k \in 1..ts[i][2] : whole[before + k] = Block(ts[i])[k]
    BY <1>7, <1>8, <1>9 DEF Begins
  <1> DEFINE cut == SubSeq(whole, before + 1, before + ts[i][2])
  <1>11. Len(cut) = ts[i][2] /\ cut \in Seq(Samples)
         /\ \A k \in 1..ts[i][2] : cut[k] = whole[before + k]
    <2>1. \A k \in (before + 1)..(before + ts[i][2]) : whole[k] \in Samples
      BY <1>8, <1>10
    <2>2. /\ cut \in Seq(Samples)
          /\ Len(cut) = IF before + 1 <= before + ts[i][2]
                        THEN (before + ts[i][2]) - (before + 1) + 1 ELSE 0
          /\ \A k \in 1..((before + ts[i][2]) - (before + 1) + 1) : cut[k] = whole[(before + 1) + k - 1]
      BY <1>8, <2>1, SubSeqProperties
    <2> HIDE DEF cut
    <2> QED  BY <1>8, <2>2
  <1> HIDE DEF cut
  <1>12. cut = Block(ts[i])
    <2>1. Len(cut) = Len(Block(ts[i])) /\ \A k \in 1..Len(cut) : cut[k] = Block(ts[i])[k]
      BY <1>8, <1>10, <1>11
    <2>2. \A q, r \in Seq(Samples) : Len(q) = Len(r) /\ (\A k \in 1..Len(q) : q[k] = r[k]) => q = r
      BY SeqEqual
    <2> QED  BY <1>8, <1>11, <2>1, <2>2
  <1> QED  BY <1>12 DEF cut, before, us, whole

-----------------------------------------------------------------------------
(***************************************************************************)
(* What GetBatch takes, and what HandleResult gives to LoadGen.            *)
(***************************************************************************)
\* Some number of the first tasks is the one that fits: the empty list does, and
\* before the first list that does not there is one that does.
LEMMA FittingFits ==
  ASSUME settings \in Settings, NEW ts \in Seq(TaskType)
  PROVE  LET n == Fitting(ts)
         IN  n \in 0..Len(ts) /\ PairsIn(SubSeq(ts, 1, n)) <= MaxBatchSize
  <1> DEFINE Fits(n) == PairsIn(SubSeq(ts, 1, n)) <= MaxBatchSize
             OK(n) == Fits(n) /\ (n = Len(ts) \/ PairsIn(SubSeq(ts, 1, n + 1)) > MaxBatchSize)
             bad == {n \in 0..Len(ts) : ~Fits(n)}
  <1>0. Len(ts) \in Nat /\ MaxBatchSize \in Nat
    BY SettingTypes
  <1>1. Fits(0)
    <2>1. SubSeq(ts, 1, 0) = <<>>
      OBVIOUS
    <2>2. PairsIn(<<>>) = 0
      BY PairsInType
    <2>3. PairsIn(SubSeq(ts, 1, 0)) = 0
      BY <2>1, <2>2, Zenon
    <2> QED  BY <1>0, <2>3
  <1>a. \A n \in 0..Len(ts) : PairsIn(SubSeq(ts, 1, n)) \in Nat
    BY SplitSeq, PairsInType
  <1>2. \E n \in 0..Len(ts) : OK(n)
    <2>1. CASE bad = {}
      <3>1. Len(ts) \in 0..Len(ts)
        BY <1>0
      <3> QED  BY <2>1, <3>1
    <2>2. CASE bad # {}
      <3>1. bad \subseteq Nat
        OBVIOUS
      <3> HIDE DEF bad
      <3>2. PICK n \in bad : \A m \in bad : n <= m
        BY <2>2, <3>1, NatMin
      <3> HIDE DEF Fits
      <3>3. n \in 0..Len(ts) /\ ~Fits(n) /\ n # 0
        BY <1>1, <3>2 DEF bad
      <3>4. n - 1 \in 0..Len(ts) /\ n - 1 < n /\ (n - 1) + 1 = n
        BY <3>3
      <3>5. Fits(n - 1)
        BY <3>2, <3>3, <3>4 DEF bad
      <3>6. PairsIn(SubSeq(ts, 1, n)) > MaxBatchSize
        BY <1>0, <1>a, <3>3 DEF Fits
      <3> QED  BY <3>4, <3>5, <3>6
    <2> QED  BY <2>1, <2>2
  <1>3. Fitting(ts) = CHOOSE n \in 0..Len(ts) : OK(n)
    BY DEF Fitting
  <1> HIDE DEF OK
  <1>4. Fitting(ts) \in 0..Len(ts) /\ OK(Fitting(ts))
    BY <1>2, <1>3
  <1> QED  BY <1>4 DEF OK

\* If no sample has two tasks in a result, it is given the outputs of its task.
LEMMA OwnTaskFound ==
  ASSUME NEW r, NEW s, NEW n \in Nat, DOMAIN Answered(r) = 1..n, NEW i \in 1..n,
         \A j \in 1..n : r.tasks[j][1] = s <=> j = i
  PROVE  OwnTask(r, s, 1) = i
  <1> DEFINE upTo(k) == {j \in 1..k : r.tasks[j][1] = s}
  <1>1. \A j \in 1..n : r.tasks[j][1] = s <=> j = i
    OBVIOUS
  <1>2. upTo(i) = {i}
    <2>1. i \in 1..i /\ \A j \in 1..i : j \in 1..n
      OBVIOUS
    <2> QED  BY <1>1, <2>1
  <1>3. Cardinality({i}) = 1
    BY FS_Singleton
  <1>4. \A j \in 1..n : r.tasks[j][1] = s /\ Cardinality(upTo(j)) = 1 <=> j = i
    BY <1>1, <1>2, <1>3
  <1>5. OwnTask(r, s, 1) = CHOOSE j \in 1..n : r.tasks[j][1] = s /\ Cardinality(upTo(j)) = 1
    BY DEF OwnTask
  <1> HIDE DEF upTo
  <1>6. OwnTask(r, s, 1) = i
    BY <1>4, <1>5
  <1> QED  BY <1>6

\* What is answered of a batch, padded or not.
LEMMA AnsweredType ==
  ASSUME NEW r, r.tasks \in Seq(TaskType), r.padded \in BOOLEAN
  PROVE  /\ Answered(r) \in Seq(TaskType) /\ DOMAIN Answered(r) \subseteq 1..Len(r.tasks)
         /\ \A i \in DOMAIN Answered(r) : Answered(r)[i] = r.tasks[i]
  <1> DEFINE ts == r.tasks
  <1>1. CASE r.padded /\ ts # <<>>
    <2>1. Len(ts) - 1 \in 0..Len(ts) /\ Len(ts) \in Nat
      BY <1>1
    <2> DEFINE front == SubSeq(ts, 1, Len(ts) - 1)
    <2>2. front \in Seq(TaskType) /\ Len(front) = Len(ts) - 1
          /\ \A i \in 1..(Len(ts) - 1) : front[i] = ts[i]
      BY <2>1, SplitSeq
    <2>3. Answered(r) = front
      BY <1>1 DEF Answered, Front
    <2> HIDE DEF front, ts
    <2>4. DOMAIN front = 1..(Len(ts) - 1)
      BY <2>1, <2>2
    <2> QED  BY <2>1, <2>2, <2>3, <2>4 DEF ts
  <1>2. CASE r.padded /\ ts = <<>>
    <2>1. SubSeq(ts, 1, Len(ts) - 1) = <<>>
      BY <1>2
    <2>2. Answered(r) = <<>>
      BY <1>2, <2>1 DEF Answered, Front
    <2> QED  BY <2>2
  <1>3. CASE ~r.padded
    <2>1. Answered(r) = ts
      BY <1>3 DEF Answered
    <2> HIDE DEF ts
    <2>2. ts \in Seq(TaskType)
      BY DEF ts
    <2>3. DOMAIN ts = 1..Len(ts)
      BY <2>2
    <2> QED  BY <2>1, <2>2, <2>3 DEF ts
  <1> QED  BY <1>1, <1>2, <1>3

\* A handler gives the samples of its result their outputs, and the others nothing.
Gets(s) == Append(answers[s], Outputs1(s))
\* Every sample of the result is found once, at the place of its outputs.
LEMMA AnswerStep ==
  ASSUME NEW h \in Handlers, HandleResult(h), NEW r \in Results, r = result[h],
         answers \in [Samples -> Seq(Outputs)],
         Computed(r), NEW owner, NEW party, OwnedBy(owner, Answered(r), party)
  PROVE  /\ answers' \in [Samples -> Seq(Outputs)]
         /\ \A s \in Samples : answers'[s] = IF Names(Answered(r), s) THEN Gets(s) ELSE answers[s]
  <1> DEFINE own(s) == {i \in DOMAIN Answered(r) : r.tasks[i][1] = s}
             gifts(s) == [k \in 1..Cardinality(own(s)) |-> Response(r, OwnTask(r, s, k))]
  <1>1. /\ r.tasks \in Seq(TaskType) /\ Answered(r) \in Seq(TaskType)
        /\ DOMAIN Answered(r) \subseteq 1..Len(r.tasks)
        /\ \A i \in DOMAIN Answered(r) : Answered(r)[i] = r.tasks[i]
    BY AnsweredType DEF Results
  <1>2. answers' = [s \in Samples |-> answers[s] \o gifts(s)]
    BY DEF HandleResult
  <1> HIDE DEF gifts
  <1>3. ASSUME NEW s \in Samples, Names(Answered(r), s)
        PROVE  answers[s] \o gifts(s) = Gets(s) /\ Gets(s) \in Seq(Outputs)
    <2>1. PICK i \in DOMAIN Answered(r) : Answered(r)[i][1] = s
      BY <1>3 DEF Names
    <2>2. r.tasks[i] = Task(s) /\ r.tasks[i][1] = s /\ r.tasks[i][2] = Pairs[s]
      <3>1. Answered(r)[i] = Task(s)
        BY <2>1 DEF OwnedBy
      <3>2. Answered(r)[i] = r.tasks[i]
        BY <1>1
      <3> QED  BY <3>1, <3>2, ConstantTypes
    <2>3. \A j \in DOMAIN Answered(r) : r.tasks[j][1] = s <=> j = i
      <3>1. \A j \in DOMAIN Answered(r) : Answered(r)[j][1] = s => j = i
        BY <2>1 DEF OwnedBy
      <3> QED  BY <1>1, <2>2, <3>1
    <2>4. Cardinality(own(s)) = 1 /\ OwnTask(r, s, 1) = i
      <3>1. PICK n \in Nat : n = Len(Answered(r)) /\ DOMAIN Answered(r) = 1..n
        BY <1>1
      <3>2. i \in 1..n /\ \A j \in 1..n : r.tasks[j][1] = s <=> j = i
        BY <2>3, <3>1
      <3>3. OwnTask(r, s, 1) = i
        BY <3>1, <3>2, OwnTaskFound
      <3>4. own(s) = {i}
        BY <3>1, <3>2
      <3> QED  BY <3>3, <3>4, FS_Singleton
    <2>5. i \in 1..Len(r.tasks)
      BY <1>1
    <2>6. SubSeq(PairsOf(r.tasks), PairsIn(SubSeq(r.tasks, 1, i - 1)) + 1,
                 PairsIn(SubSeq(r.tasks, 1, i - 1)) + r.tasks[i][2]) = Block(r.tasks[i])
      BY <1>1, <2>5, PairsFound
    <2>7. Response(r, i) = Block(r.tasks[i])
      BY <2>6 DEF Response, Computed
    <2>8. Block(r.tasks[i]) = Outputs1(s)
      BY <2>2 DEF Block, Outputs1
    <2> HIDE DEF own
    <2>9. gifts(s) = [k \in 1..1 |-> Response(r, OwnTask(r, s, k))]
      BY <2>4 DEF gifts
    <2>10. \A k \in 1..1 : Response(r, OwnTask(r, s, k)) = Outputs1(s)
      BY <2>4, <2>7, <2>8
    <2>11. gifts(s) = [k \in 1..1 |-> Outputs1(s)]
      BY <2>9, <2>10
    <2>12. Outputs1(s) \in Outputs
      BY ConstantTypes DEF Outputs1, Outputs
    <2>13. answers[s] \in Seq(Outputs)
      OBVIOUS
    <2>14. <<Outputs1(s)>> = [k \in 1..1 |-> Outputs1(s)]
      OBVIOUS
    <2> QED  BY <2>11, <2>12, <2>13, <2>14, AppendIsConcat DEF Gets
  <1>4. ASSUME NEW s \in Samples, ~Names(Answered(r), s)
        PROVE  answers[s] \o gifts(s) = answers[s]
    <2>1. own(s) = {}
      BY <1>1, <1>4 DEF Names
    <2>2. Cardinality(own(s)) = 0
      BY <2>1, FS_EmptySet
    <2> HIDE DEF own
    <2>3. gifts(s) = <<>>
      BY <2>2 DEF gifts
    <2> QED  BY <2>3, ConcatEmptySeq
  <1> QED  BY <1>2, <1>3, <1>4

-----------------------------------------------------------------------------
(***************************************************************************)
(* The shares of a query.                                                  *)
(***************************************************************************)
LEMMA Quotient ==
  ASSUME NEW n \in Nat, NEW k \in Nat, k > 0
  PROVE  /\ n \div k \in Nat /\ n % k \in Nat /\ n % k < k
         /\ n = k * (n \div k) + (n % k)
  OBVIOUS

\* A product grows with its factor.
LEMMA TimesGrows ==
  ASSUME NEW a \in Nat, NEW b \in Nat, NEW d \in Nat, a <= b
  PROVE  a * d \in Nat /\ b * d \in Nat /\ a * d <= b * d
  OBVIOUS

\* Shares lie one behind the other within the query.
LEMMA ShareFacts ==
  ASSUME settings \in Settings, NEW n \in Nat, NEW m \in 1..NumMakers
  PROVE  /\ Share(n, m) \in Nat /\ Offset(n, m) \in Nat /\ Offset(n, m) + Share(n, m) <= n
         /\ \A l \in 1..NumMakers : l < m => Offset(n, l) + Share(n, l) <= Offset(n, m)
  <1> DEFINE d == n \div NumMakers
             r == n % NumMakers
  <1>1. NumMakers \in Nat /\ NumMakers > 0
    BY SettingTypes, ConstantTypes
  <1>2. d \in Nat /\ r \in Nat /\ r < NumMakers /\ n = NumMakers * d + r
    BY <1>1, Quotient
  <1> HIDE DEF d, r
  <1>3. \A l \in 1..NumMakers : /\ Share(n, l) = d + (IF l <= r THEN 1 ELSE 0)
                                /\ Offset(n, l) = (l - 1) * d + (IF l - 1 < r THEN l - 1 ELSE r)
    BY DEF Share, Offset, d, r
  <1>4. \A l \in 1..NumMakers :
            l - 1 \in Nat /\ l \in Nat /\ (l - 1) * d \in Nat /\ l * d = (l - 1) * d + d
    BY <1>1, <1>2
  <1>5. \A l \in 1..NumMakers : l * d <= NumMakers * d /\ NumMakers * d \in Nat
    BY <1>1, <1>2, TimesGrows
  <1>6. \A l \in 1..NumMakers : l < m => l * d <= (m - 1) * d
    BY <1>1, <1>2, <1>4, TimesGrows
  <1>7. Share(n, m) \in Nat /\ Offset(n, m) \in Nat /\ Offset(n, m) + Share(n, m) <= n
    BY <1>1, <1>2, <1>3, <1>4, <1>5
  <1>8. ASSUME NEW l \in 1..NumMakers, l < m
        PROVE  Offset(n, l) + Share(n, l) <= Offset(n, m)
    BY <1>1, <1>2, <1>3, <1>4, <1>6, <1>8
  <1> QED  BY <1>7, <1>8

\* What a batch maker is given.
LEMMA GiveType ==
  ASSUME NEW m, tasks[m] \in Seq(TaskType), NEW first \in Nat, NEW n \in Nat, first + n <= Len(Pairs)
  PROVE  LET given == [i \in 1..n |-> Task(first + i)]
         IN  /\ given \in Seq(TaskType) /\ Len(given) = n
             /\ \A i \in 1..n : first + i \in Samples /\ given[i] = Task(first + i)
             /\ Give(m, first, n) = tasks[m] \o given /\ Give(m, first, n) \in Seq(TaskType)
  <1> DEFINE given == [i \in 1..n |-> Task(first + i)]
  <1>1. \A i \in 1..n : first + i \in Samples /\ Task(first + i) \in TaskType
    BY ConstantTypes
  <1>2. given \in Seq(TaskType) /\ Len(given) = n /\ \A i \in 1..n : given[i] = Task(first + i)
    <2>1. given \in [1..n -> TaskType]
      BY <1>1
    <2>2. \A i \in 1..n : given[i] = Task(first + i)
      OBVIOUS
    <2> HIDE DEF given
    <2> QED  BY <2>1, <2>2
  <1>3. Give(m, first, n) = tasks[m] \o given
    BY DEF Give
  <1> HIDE DEF given
  <1>4. tasks[m] \o given \in Seq(TaskType)
    BY <1>2, ConcatProperties
  <1> QED  BY <1>1, <1>2, <1>3, <1>4 DEF given

-----------------------------------------------------------------------------
(***************************************************************************)
(* Types.                                                                  *)
(***************************************************************************)
QueueType ==
    /\ settings \in Settings /\ issued \in 0..Len(Pairs) /\ prevMaker \in 0..NumDevices
    /\ tasks \in [Devices -> Seq(TaskType)]
    /\ stopWork \in BOOLEAN /\ aborted \in BOOLEAN
Buffers == [Cores -> [Bundles -> Outputs]]
WorkerType ==
    /\ wpc \in [Cores -> {"sync", "get", "gone"}] /\ bundle \in [Cores -> Bundles]
    /\ input \in Buffers /\ compute \in [Cores -> Seq(Bundles)] /\ d2h \in [Cores -> Seq(Launches)]
OutType == devOut \in Buffers /\ hostOut \in Buffers
HandlerType ==
    /\ resultQ \in [Cores -> Seq(Results)] /\ result \in [Handlers -> Results]
    /\ hpc \in [Handlers -> {"wait", "answer", "gone"}] /\ answers \in [Samples -> Seq(Outputs)]

\* The type invariant, a group of variables at a time.
LEMMA TypeParts == TypeOK <=> QueueType /\ WorkerType /\ OutType /\ HandlerType
  BY DEF TypeOK, QueueType, WorkerType, OutType, HandlerType, Buffers

\* What does not change keeps its type.
LEMMA TypeSame ==
  /\ QueueType /\ UNCHANGED <<settings, queueVars, stopWork, aborted>> => QueueType'
  /\ WorkerType /\ UNCHANGED <<workerVars, streamVars>> => WorkerType'
  /\ OutType /\ UNCHANGED outVars => OutType'
  /\ HandlerType /\ UNCHANGED <<handlerVars, answers>> => HandlerType'
  <1>1. QueueType /\ UNCHANGED <<settings, queueVars, stopWork, aborted>> => QueueType'
    BY DEF QueueType, queueVars
  <1>2. WorkerType /\ UNCHANGED <<workerVars, streamVars>> => WorkerType'
    BY DEF WorkerType, workerVars, streamVars
  <1>3. OutType /\ UNCHANGED outVars => OutType'
    BY DEF OutType, outVars
  <1>4. HandlerType /\ UNCHANGED <<handlerVars, answers>> => HandlerType'
    BY DEF HandlerType, handlerVars
  <1> QED  BY <1>1, <1>2, <1>3, <1>4

\* The parts of the type after a step.
LEMMA TypeStep == QueueType' /\ WorkerType' /\ OutType' /\ HandlerType' => TypeOK'
  BY TypeParts, PTL

\* A batch that is taken away from a maker.
LEMMA TakeType ==
  ASSUME QueueType, NEW m \in Devices, NEW n \in 0..Len(tasks[m])
  PROVE  /\ SubSeq(tasks[m], 1, n) \in Seq(TaskType) /\ Len(SubSeq(tasks[m], 1, n)) = n
         /\ TakeAway(m, n) => tasks' \in [Devices -> Seq(TaskType)]
  <1>1. tasks \in [Devices -> Seq(TaskType)] /\ tasks[m] \in Seq(TaskType)
    BY DEF QueueType
  <1>2. /\ SubSeq(tasks[m], 1, n) \in Seq(TaskType) /\ Len(SubSeq(tasks[m], 1, n)) = n
        /\ SubSeq(tasks[m], n + 1, Len(tasks[m])) \in Seq(TaskType)
    BY <1>1, SplitSeq
  <1>3. TakeAway(m, n) => tasks' = [tasks EXCEPT ![m] = SubSeq(tasks[m], n + 1, Len(tasks[m]))]
    BY DEF TakeAway
  <1> QED  BY <1>1, <1>2, <1>3

\* What infer writes.
LEMMA InferType ==
  ASSUME WorkerType, aborted \in BOOLEAN, NEW c \in Cores, NEW batch \in Seq(TaskType),
         NEW padded \in BOOLEAN, Infer(c, batch, padded)
  PROVE  /\ aborted' \in BOOLEAN /\ bundle' \in [Cores -> Bundles] /\ input' \in Buffers
         /\ compute' \in [Cores -> Seq(Bundles)] /\ d2h' \in [Cores -> Seq(Launches)]
         /\ CopyOf(bundle[c]) \in Launches /\ HostFunction(bundle[c], batch, padded) \in Launches
  <1>1. bundle[c] \in Bundles /\ PairsOf(batch) \in Outputs
    BY PairsType DEF WorkerType, Outputs
  <1>2. NextBundle(bundle[c]) \in Bundles
    <2>1. \A b, n \in Nat : n > 0 => (b % n) + 1 \in 1..n
      OBVIOUS
    <2> QED  BY <1>1, <2>1, ConstantTypes DEF NextBundle, Bundles
  <1>3. aborted' \in BOOLEAN
    BY DEF Infer
  <1>4. bundle' \in [Cores -> Bundles]
    BY <1>2 DEF Infer, WorkerType
  <1>5. input' \in Buffers
    BY <1>1 DEF Infer, WorkerType, Buffers
  <1>6. compute' \in [Cores -> Seq(Bundles)]
    BY <1>1 DEF Infer, WorkerType
  <1>7. CopyOf(bundle[c]) \in Launches /\ HostFunction(bundle[c], batch, padded) \in Launches
    BY <1>1 DEF CopyOf, HostFunction, Launches
  <1>8. d2h' \in [Cores -> Seq(Launches)]
    <2> DEFINE new == <<CopyOf(bundle[c]), HostFunction(bundle[c], batch, padded)>>
    <2>1. new \in Seq(Launches)
      BY <1>7
    <2>2. d2h' = [d2h EXCEPT ![c] = d2h[c] \o new]
      BY DEF Infer
    <2>3. d2h \in [Cores -> Seq(Launches)] /\ d2h[c] \in Seq(Launches)
      BY DEF WorkerType
    <2> HIDE DEF new
    <2>4. d2h[c] \o new \in Seq(Launches)
      BY <2>1, <2>3, ConcatProperties
    <2> QED  BY <2>2, <2>3, <2>4
  <1> QED  BY <1>3, <1>4, <1>5, <1>6, <1>7, <1>8

-----------------------------------------------------------------------------
\* The batch makers' batches, when inputs come from the host, have an even
\* maximal size (see the README: with an odd one the CHECK of a core can fail).
EvenBatches == \A s \in Settings : ~s.startFromDevice => s.maxBatchSize % 2 = 0

\* A worker takes the first n tasks of a maker: it ends if there are none, or runs
\* them, perhaps with one more that is answered to nobody.
Runs(c, taken) == \E batch \in Seq(TaskType), padded \in BOOLEAN :
    /\ Infer(c, batch, padded) /\ wpc' = [wpc EXCEPT ![c] = "sync"]
    /\ \A b : Answered(HostFunction(b, batch, padded)) = taken
    /\ EvenBatches => PairsIn(batch) <= MaxBatchSize
Leaves(c, taken) ==
    /\ taken = <<>> /\ wpc' = [wpc EXCEPT ![c] = "gone"]
    /\ UNCHANGED <<bundle, input, streamVars, aborted>>
Takes(c, m, n) ==
    /\ wpc[c] = "get" /\ TakeAway(m, n)
    /\ Runs(c, SubSeq(tasks[m], 1, n)) \/ Leaves(c, SubSeq(tasks[m], 1, n))
    /\ UNCHANGED <<settings, issued, prevMaker, stopWork, outVars, handlerVars, answers>>

\* A batch as it is, and one that is padded.
LEMMA AnsweredAll ==
  ASSUME NEW batch
  PROVE  \A b : Answered(HostFunction(b, batch, FALSE)) = batch
  BY DEF HostFunction, Answered

\* The task that a batch was padded with is not answered.
LEMMA AnsweredPadded ==
  ASSUME NEW taken \in Seq(TaskType), NEW t \in TaskType
  PROVE  \A b : Answered(HostFunction(b, Append(taken, t), TRUE)) = taken
  <1> DEFINE batch == Append(taken, t)
  <1>1. Len(batch) - 1 = Len(taken) /\ SubSeq(batch, 1, Len(taken)) = taken
    OBVIOUS
  <1>2. Front(batch) = taken
    BY <1>1 DEF Front
  <1> HIDE DEF batch
  <1>3. \A b : Answered(HostFunction(b, batch, TRUE)) = taken
    BY <1>2 DEF HostFunction, Answered
  <1> QED  BY <1>3 DEF batch

\* Both ways to get a batch take the first tasks of a maker.
LEMMA GetStep ==
  ASSUME QueueType, NEW c \in Cores, GetFromMaker(c) \/ GetFromDevice(c)
  PROVE  \E m \in Devices : \E n \in 0..Len(tasks[m]) : Takes(c, m, n)
  <1>0. settings \in Settings /\ tasks \in [Devices -> Seq(TaskType)]
    BY DEF QueueType
  <1>1. CASE GetFromMaker(c)
    <2>1. PICK m \in Devices : m = MakerOf(c)
      BY <1>0, SettingTypes
    <2>2. PICK n \in 1..Len(tasks[m]) :
                /\ PairsIn(SubSeq(tasks[m], 1, n)) <= settings.maxBatchSize
                /\ Infer(c, SubSeq(tasks[m], 1, n), FALSE) /\ TakeAway(m, n)
      BY <1>1, <2>1 DEF GetFromMaker
    <2>3. n \in 0..Len(tasks[m])
      BY <1>0, <2>2
    <2>4. PICK taken \in Seq(TaskType) : taken = SubSeq(tasks[m], 1, n)
      BY <2>3, TakeType
    <2>5. wpc[c] = "get" /\ wpc' = [wpc EXCEPT ![c] = "sync"] /\ ~settings.startFromDevice
          /\ UNCHANGED <<settings, issued, prevMaker, stopWork, outVars, handlerVars, answers>>
      BY <1>1 DEF GetFromMaker
    <2>6. EvenBatches => PairsIn(taken) <= MaxBatchSize
      BY <1>0, <2>2, <2>4, <2>5, SettingTypes DEF EvenBatches
    <2>7. \A b : Answered(HostFunction(b, taken, FALSE)) = taken
      BY AnsweredAll
    <2>8. Runs(c, taken)
      <3>1. FALSE \in BOOLEAN /\ Infer(c, taken, FALSE)
        BY <2>2, <2>4
      <3> QED  BY <2>5, <2>6, <2>7, <3>1 DEF Runs
    <2> QED  BY <2>2, <2>3, <2>4, <2>5, <2>8 DEF Takes
  <1>2. CASE GetFromDevice(c)
    <2>1. 1 \in Devices /\ tasks[1] \in Seq(TaskType) /\ tasks[1] # <<>>
      BY <1>0, <1>2, ConstantTypes DEF GetFromDevice
    <2>2. PICK n \in 0..Len(tasks[1]) :
                n = Fitting(tasks[1]) /\ PairsIn(SubSeq(tasks[1], 1, n)) <= MaxBatchSize
      BY <1>0, <2>1, FittingFits
    <2>3. PICK taken \in Seq(TaskType) : taken = SubSeq(tasks[1], 1, n) /\ Len(taken) = n
      BY <2>1, TakeType
    <2>4. /\ wpc[c] = "get" /\ TakeAway(1, n)
          /\ IF n = 0
             THEN /\ wpc' = [wpc EXCEPT ![c] = "gone"]
                  /\ UNCHANGED <<bundle, input, streamVars, aborted>>
             ELSE /\ wpc' = [wpc EXCEPT ![c] = "sync"]
                  /\ Infer(c, IF PairsIn(taken) % 2 = 1 THEN Append(taken, <<Last(taken)[1], 1>>)
                                                        ELSE taken,
                           PairsIn(taken) % 2 = 1)
          /\ UNCHANGED <<settings, issued, prevMaker, stopWork, outVars, handlerVars, answers>>
      BY <1>2, <2>2, <2>3 DEF GetFromDevice
    <2>5. ASSUME n = 0 PROVE Leaves(c, taken)
      BY <2>3, <2>4, <2>5 DEF Leaves
    <2>6. ASSUME n # 0 PROVE Runs(c, taken)
      <3>1. PairsIn(taken) \in Nat /\ MaxBatchSize \in Nat /\ MaxBatchSize % 2 = 0
            /\ PairsIn(taken) <= MaxBatchSize
        BY <1>0, <2>2, <2>3, PairsInType, SettingTypes
      <3>2. wpc' = [wpc EXCEPT ![c] = "sync"]
        BY <2>4, <2>6
      <3>3. CASE PairsIn(taken) % 2 = 1
        <4> DEFINE more == <<Last(taken)[1], 1>>
        <4>1. taken[Len(taken)] \in TaskType
          BY <2>3, <2>6
        <4>2. more \in TaskType /\ more[2] = 1
          BY <4>1 DEF Last, TaskType
        <4>3. Append(taken, more) \in Seq(TaskType)
          BY <4>2
        <4> HIDE DEF more
        <4>4. PairsIn(Append(taken, more)) = PairsIn(taken) + 1
          BY <4>2, PairsInType
        <4>5. PairsIn(Append(taken, more)) <= MaxBatchSize
          BY <3>1, <3>3, <4>4
        <4>6. TRUE \in BOOLEAN /\ Infer(c, Append(taken, more), TRUE)
          <5>1. (PairsIn(taken) % 2 = 1) = TRUE
            BY <3>3
          <5> QED  BY <2>4, <2>6, <3>3, <5>1 DEF more
        <4>7. \A b : Answered(HostFunction(b, Append(taken, more), TRUE)) = taken
          BY <4>2, AnsweredPadded
        <4> QED  BY <3>2, <4>3, <4>5, <4>6, <4>7 DEF Runs
      <3>4. CASE PairsIn(taken) % 2 # 1
        <4>1. FALSE \in BOOLEAN /\ Infer(c, taken, FALSE)
          <5>1. (PairsIn(taken) % 2 = 1) = FALSE
            BY <3>4
          <5> QED  BY <2>4, <2>6, <3>4, <5>1
        <4>2. \A b : Answered(HostFunction(b, taken, FALSE)) = taken
          BY AnsweredAll
        <4> QED  BY <3>1, <3>2, <4>1, <4>2 DEF Runs
      <3> QED  BY <3>3, <3>4
    <2> QED  BY <2>1, <2>3, <2>4, <2>5, <2>6 DEF Takes
  <1> QED  BY <1>1, <1>2

-----------------------------------------------------------------------------
\* A query is dealt out: each maker gets the samples behind its first, no
\* sample goes to two makers.
Part(first, count, m, s) == first[m] < s /\ s <= first[m] + count[m]
Deals(n, first, count) ==
    /\ \A m \in Devices : /\ issued <= first[m] /\ first[m] + count[m] <= issued + n
                          /\ tasks'[m] = <<>> \/ tasks'[m] = Give(m, first[m], count[m])
    /\ \A m, l \in Devices : \A s \in Samples :
        Part(first, count, m, s) /\ Part(first, count, l, s) => m = l

\* Both ways to issue a query deal its samples out, none of them twice.
LEMMA IssueStep ==
  ASSUME QueueType, NEW n \in QuerySizes, IssueQuery(n)
  PROVE  /\ n \in Nat /\ issued \in Nat /\ issued + n <= Len(Pairs) /\ issued' = issued + n
         /\ tasks' = [m \in Devices |-> tasks'[m]] /\ prevMaker' \in 0..NumDevices
         /\ \E first \in [Devices -> Nat], count \in [Devices -> Nat] : Deals(n, first, count)
  <1>0. /\ settings \in Settings /\ tasks \in [Devices -> Seq(TaskType)] /\ n \in Nat
        /\ issued \in Nat /\ issued + n <= Len(Pairs) /\ issued' = issued + n
        /\ prevMaker \in 0..NumDevices
    BY ConstantTypes DEF QueueType, IssueQuery
  <1>1. NumMakers \in Devices /\ NumMakers \in Nat /\ NumMakers > 0 /\ Devices = 1..NumDevices
        /\ NumDevices \in Nat
    BY <1>0, SettingTypes, ConstantTypes
  <1>2. CASE n >= SplitThreshold /\ ~settings.issueThreads
    <2> DEFINE first == [m \in Devices |-> IF m <= NumMakers THEN issued + Offset(n, m) ELSE issued]
               count == [m \in Devices |-> IF m <= NumMakers THEN Share(n, m) ELSE 0]
    <2>1. /\ tasks' = [m \in Devices |-> IF m <= NumMakers
                            THEN Give(m, issued + Offset(n, m), Share(n, m)) ELSE <<>>]
          /\ prevMaker' = prevMaker
      BY <1>2 DEF IssueQuery
    <2>2. ASSUME NEW m \in Devices, m <= NumMakers
          PROVE  /\ Share(n, m) \in Nat /\ Offset(n, m) \in Nat /\ Offset(n, m) + Share(n, m) <= n
                 /\ \A l \in Devices : l < m => Offset(n, l) + Share(n, l) <= Offset(n, m)
      <3>1. m \in 1..NumMakers /\ \A l \in Devices : l < m => l \in 1..NumMakers
        BY <1>1, <2>2
      <3> QED  BY <1>0, <3>1, ShareFacts
    <2>3. first \in [Devices -> Nat] /\ count \in [Devices -> Nat]
      BY <1>0, <2>2
    <2>4. ASSUME NEW m \in Devices
          PROVE  /\ issued <= first[m] /\ first[m] + count[m] <= issued + n
                 /\ tasks'[m] = <<>> \/ tasks'[m] = Give(m, first[m], count[m])
      BY <1>0, <2>1, <2>2
    <2>5. ASSUME NEW m \in Devices, NEW l \in Devices, l < m, m <= NumMakers
          PROVE  first[l] + count[l] <= first[m]
      <3>1. l <= NumMakers
        BY <1>1, <2>5
      <3>2. first[l] = issued + Offset(n, l) /\ count[l] = Share(n, l) /\ first[m] = issued + Offset(n, m)
        BY <2>5, <3>1
      <3>3. Offset(n, l) + Share(n, l) <= Offset(n, m)
        BY <2>2, <2>5
      <3>4. Offset(n, l) \in Nat /\ Share(n, l) \in Nat /\ Offset(n, m) \in Nat
        BY <2>2, <2>5, <3>1
      <3> QED  BY <1>0, <3>2, <3>3, <3>4
    <2>6. \A m \in Devices : m <= NumMakers \/ count[m] = 0
      OBVIOUS
    <2> HIDE DEF first, count
    <2>7. ASSUME NEW m \in Devices, NEW l \in Devices, NEW s \in Samples,
                 Part(first, count, m, s), Part(first, count, l, s)
          PROVE  m = l
      <3>1. /\ first[m] \in Nat /\ count[m] \in Nat /\ first[l] \in Nat /\ count[l] \in Nat
            /\ s \in Nat /\ m \in Nat /\ l \in Nat
        BY <1>1, <2>3, ConstantTypes
      <3>2. m <= NumMakers /\ l <= NumMakers
        BY <2>6, <2>7, <3>1 DEF Part
      <3>3. ~(l < m) /\ ~(m < l)
        BY <2>5, <2>7, <3>1, <3>2 DEF Part
      <3> QED  BY <3>1, <3>3
    <2>8. Deals(n, first, count)
      BY <2>4, <2>7 DEF Deals
    <2>9. tasks' = [m \in Devices |-> tasks'[m]]
      BY <2>1
    <2> QED  BY <1>0, <2>1, <2>3, <2>8, <2>9
  <1>3. CASE ~(n >= SplitThreshold /\ ~settings.issueThreads)
    <2>1. PICK m0 \in Devices : /\ tasks' = [tasks EXCEPT ![m0] = Give(m0, issued, n)]
                                /\ prevMaker' \in {prevMaker, m0}
      <3>1. \A p, k \in Nat : k > 0 => (p % k) + 1 \in 1..k
        OBVIOUS
      <3>2. (prevMaker % NumMakers) + 1 \in Devices
        BY <1>0, <1>1, <3>1
      <3> QED  BY <1>3, <3>2 DEF IssueQuery
    <2> DEFINE first == [m \in Devices |-> issued]
               count == [m \in Devices |-> IF m = m0 THEN n ELSE 0]
    <2>2. first \in [Devices -> Nat] /\ count \in [Devices -> Nat]
      BY <1>0
    <2>3. ASSUME NEW m \in Devices
          PROVE  /\ issued <= first[m] /\ first[m] + count[m] <= issued + n
                 /\ tasks'[m] = <<>> \/ tasks'[m] = Give(m, first[m], count[m])
      <3>1. issued <= first[m] /\ first[m] + count[m] <= issued + n
        BY <1>0
      <3>2. CASE m = m0
        BY <1>0, <2>1, <3>2
      <3>3. CASE m # m0
        <4>1. tasks'[m] = tasks[m] /\ first[m] = issued /\ count[m] = 0
          BY <1>0, <2>1, <3>3
        <4>2. [i \in 1..0 |-> Task(issued + i)] = <<>>
          OBVIOUS
        <4>3. Give(m, issued, 0) = tasks[m]
          BY <1>0, <4>2, ConcatEmptySeq DEF Give
        <4> HIDE DEF first, count
        <4> QED  BY <3>1, <4>1, <4>3
      <3> QED  BY <3>2, <3>3
    <2>4. ASSUME NEW m \in Devices, NEW s \in Samples, Part(first, count, m, s)
          PROVE  m = m0
      <3>1. s \in Nat
        BY ConstantTypes
      <3> QED  BY <1>0, <2>4, <3>1 DEF Part
    <2> HIDE DEF first, count
    <2>5. Deals(n, first, count)
      BY <2>3, <2>4 DEF Deals
    <2>6. tasks' = [m \in Devices |-> tasks'[m]] /\ prevMaker' \in 0..NumDevices
      <3>1. prevMaker' \in 0..NumDevices
        BY <1>0, <1>1, <2>1
      <3>2. DOMAIN tasks = Devices
        BY <1>0
      <3>3. tasks' = [m \in Devices |-> IF m = m0 THEN Give(m0, issued, n) ELSE tasks[m]]
        BY <2>1, <3>2
      <3> QED  BY <3>1, <3>3
    <2> QED  BY <1>0, <2>2, <2>5, <2>6
  <1> QED  BY <1>2, <1>3

\* Dealt samples are tasks.
LEMMA DealsType ==
  ASSUME QueueType, NEW n \in QuerySizes, IssueQuery(n),
         NEW first \in [Devices -> Nat], NEW count \in [Devices -> Nat], Deals(n, first, count)
  PROVE  tasks' \in [Devices -> Seq(TaskType)]
  <1>1. tasks \in [Devices -> Seq(TaskType)]
    BY DEF QueueType
  <1>2. /\ n \in Nat /\ issued \in Nat /\ issued + n <= Len(Pairs)
        /\ tasks' = [m \in Devices |-> tasks'[m]] /\ Len(Pairs) \in Nat
    BY IssueStep, ConstantTypes
  <1>3. ASSUME NEW m \in Devices PROVE tasks'[m] \in Seq(TaskType)
    <2>1. PICK f, k \in Nat : f = first[m] /\ k = count[m]
      OBVIOUS
    <2>2. f + k <= issued + n /\ (tasks'[m] = <<>> \/ tasks'[m] = Give(m, f, k))
      BY <2>1 DEF Deals
    <2>3. Give(m, f, k) \in Seq(TaskType)
      <3>1. tasks[m] \in Seq(TaskType) /\ f + k <= Len(Pairs)
        BY <1>1, <1>2, <2>2
      <3> QED  BY <3>1, GiveType
    <2>4. <<>> \in Seq(TaskType)
      OBVIOUS
    <2> QED  BY <2>2, <2>3, <2>4
  <1> QED  BY <1>2, <1>3

\* A queue, and what a thread takes from its head.
LEMMA TakeHead ==
  ASSUME NEW S, NEW D, NEW q \in [D -> Seq(S)], NEW d \in D, q[d] # <<>>
  PROVE  Head(q[d]) \in S /\ [q EXCEPT ![d] = Tail(@)] \in [D -> Seq(S)]
  <1>1. q[d] \in Seq(S)
    OBVIOUS
  <1>2. Head(q[d]) \in S /\ Tail(q[d]) \in Seq(S)
    BY <1>1, HeadTail
  <1> QED  BY <1>2

\* A batch that is run, or none.
LEMMA TypeTakes ==
  ASSUME TypeOK, NEW c \in Cores, NEW m \in Devices, NEW n \in 0..Len(tasks[m]), Takes(c, m, n)
  PROVE  TypeOK'
  <1>0. QueueType /\ WorkerType /\ OutType /\ HandlerType
    BY TypeParts
  <1>1. tasks' \in [Devices -> Seq(TaskType)]
    BY <1>0, TakeType DEF Takes
  <1>2. aborted' \in BOOLEAN /\ WorkerType'
    <2>1. CASE Runs(c, SubSeq(tasks[m], 1, n))
      <3>1. PICK batch \in Seq(TaskType), padded \in BOOLEAN :
                Infer(c, batch, padded) /\ wpc' = [wpc EXCEPT ![c] = "sync"]
        BY <2>1 DEF Runs
      <3>2. aborted \in BOOLEAN
        BY <1>0 DEF QueueType
      <3>3. /\ aborted' \in BOOLEAN /\ bundle' \in [Cores -> Bundles] /\ input' \in Buffers
            /\ compute' \in [Cores -> Seq(Bundles)] /\ d2h' \in [Cores -> Seq(Launches)]
        BY <1>0, <3>1, <3>2, InferType
      <3> QED  BY <1>0, <3>1, <3>3 DEF WorkerType, Buffers
    <2>2. CASE Leaves(c, SubSeq(tasks[m], 1, n))
      BY <1>0, <2>2 DEF Leaves, WorkerType, QueueType, streamVars
    <2> QED  BY <2>1, <2>2 DEF Takes
  <1>3. QueueType'
    BY <1>0, <1>1, <1>2 DEF Takes, QueueType
  <1>4. OutType' /\ HandlerType'
    BY <1>0, TypeSame DEF Takes
  <1> QED  BY <1>2, <1>3, <1>4, TypeStep

\* The steps of LoadGen keep the types.
LEMMA TypeLoadGen ==
  ASSUME TypeOK, LoadGen
  PROVE  TypeOK'
  <1>0. QueueType /\ WorkerType /\ OutType /\ HandlerType
    BY TypeParts
  <1>1. CASE StopWork
    <2>1. QueueType'
      BY <1>0, <1>1 DEF StopWork, QueueType, queueVars
    <2> QED  BY <1>0, <1>1, <2>1, TypeSame, TypeStep DEF StopWork
  <1>2. ASSUME NEW n \in QuerySizes, IssueQuery(n) PROVE TypeOK'
    <2>1. PICK first \in [Devices -> Nat], count \in [Devices -> Nat] : Deals(n, first, count)
      BY <1>0, <1>2, IssueStep
    <2>2. tasks' \in [Devices -> Seq(TaskType)]
      BY <1>0, <1>2, <2>1, DealsType
    <2>3. issued' \in 0..Len(Pairs) /\ prevMaker' \in 0..NumDevices
      BY <1>0, <1>2, IssueStep, ConstantTypes
    <2>4. UNCHANGED <<settings, stopWork, aborted, workerVars, streamVars, outVars, handlerVars, answers>>
      BY <1>2 DEF IssueQuery
    <2>5. QueueType'
      BY <1>0, <2>2, <2>3, <2>4 DEF QueueType
    <2> QED  BY <1>0, <2>4, <2>5, TypeSame, TypeStep
  <1> QED  BY <1>1, <1>2 DEF LoadGen

\* The steps of the workers and of the streams keep the types.
LEMMA TypeCore ==
  ASSUME TypeOK, NEW c \in Cores, Worker(c) \/ Compute(c) \/ CopyOut(c) \/ Enqueue(c)
  PROVE  TypeOK'
  <1>0. QueueType /\ WorkerType /\ OutType /\ HandlerType
    BY TypeParts
  <1>1. CASE GetFromMaker(c) \/ GetFromDevice(c)
    <2>1. PICK m \in Devices : \E n \in 0..Len(tasks[m]) : Takes(c, m, n)
      BY <1>0, <1>1, GetStep
    <2> QED  BY <2>1, TypeTakes
  <1>2. CASE SyncBundle(c) \/ WorkerEnds(c)
    <2>1. WorkerType'
      BY <1>0, <1>2 DEF SyncBundle, WorkerEnds, WorkerType, streamVars
    <2> QED  BY <1>0, <1>2, <2>1, TypeSame, TypeStep DEF SyncBundle, WorkerEnds
  <1>3. CASE Compute(c)
    <2>1. compute \in [Cores -> Seq(Bundles)] /\ compute[c] # <<>>
      BY <1>0, <1>3 DEF Compute, WorkerType
    <2>2. Head(compute[c]) \in Bundles /\ compute' \in [Cores -> Seq(Bundles)]
      BY <1>3, <2>1, TakeHead DEF Compute
    <2>3. OutType'
      BY <1>0, <1>3, <2>2 DEF Compute, OutType, WorkerType, Buffers
    <2>4. WorkerType'
      BY <1>0, <1>3, <2>2 DEF Compute, WorkerType, workerVars
    <2> QED  BY <1>0, <1>3, <2>3, <2>4, TypeSame, TypeStep DEF Compute
  <1>4. CASE CopyOut(c)
    <2>1. d2h \in [Cores -> Seq(Launches)] /\ d2h[c] # <<>>
      BY <1>0, <1>4 DEF CopyOut, WorkerType
    <2>2. Head(d2h[c]) \in Launches /\ d2h' \in [Cores -> Seq(Launches)]
      BY <1>4, <2>1, TakeHead DEF CopyOut
    <2>3. Head(d2h[c]).bundle \in Bundles
      BY <2>2 DEF Launches
    <2>4. OutType'
      BY <1>0, <1>4, <2>3 DEF CopyOut, OutType, Buffers
    <2>5. WorkerType'
      BY <1>0, <1>4, <2>2 DEF CopyOut, WorkerType, workerVars
    <2> QED  BY <1>0, <1>4, <2>4, <2>5, TypeSame, TypeStep DEF CopyOut
  <1>5. CASE Enqueue(c)
    <2>1. d2h \in [Cores -> Seq(Launches)] /\ d2h[c] # <<>>
      BY <1>0, <1>5 DEF Enqueue, WorkerType
    <2>2. Head(d2h[c]) \in Launches /\ d2h' \in [Cores -> Seq(Launches)]
      BY <1>5, <2>1, TakeHead DEF Enqueue
    <2> DEFINE r == [outputs |-> hostOut[c][Head(d2h[c]).bundle], tasks |-> Head(d2h[c]).tasks,
                     padded |-> Head(d2h[c]).padded]
    <2>3. r \in Results
      BY <1>0, <2>2 DEF Launches, Results, OutType, Buffers
    <2>4. resultQ' = [resultQ EXCEPT ![c] = Append(resultQ[c], r)]
      BY <1>5 DEF Enqueue
    <2> HIDE DEF r
    <2>5. HandlerType'
      <3>1. Append(resultQ[c], r) \in Seq(Results)
        BY <1>0, <2>3 DEF HandlerType
      <3> QED  BY <1>0, <1>5, <2>4, <3>1 DEF HandlerType, Enqueue
    <2>6. WorkerType'
      BY <1>0, <1>5, <2>2 DEF Enqueue, WorkerType, workerVars
    <2> QED  BY <1>0, <1>5, <2>5, <2>6, TypeSame, TypeStep DEF Enqueue
  <1> QED  BY <1>1, <1>2, <1>3, <1>4, <1>5 DEF Worker

\* The steps of the handlers keep the types.
LEMMA TypeHandler ==
  ASSUME TypeOK, ResultInv, OwnerInv, NEW h \in Handlers, Handler(h)
  PROVE  TypeOK'
  <1>0. QueueType /\ WorkerType /\ OutType /\ HandlerType
    BY TypeParts
  <1>1. CASE TakeResult(h)
    <2>1. h[1] \in Cores /\ resultQ \in [Cores -> Seq(Results)] /\ resultQ[h[1]] # <<>>
      BY <1>0, <1>1, ConstantTypes DEF TakeResult, HandlerType
    <2>2. Head(resultQ[h[1]]) \in Results /\ resultQ' \in [Cores -> Seq(Results)]
      BY <1>1, <2>1, TakeHead DEF TakeResult
    <2>3. HandlerType'
      BY <1>0, <1>1, <2>2 DEF TakeResult, HandlerType
    <2> QED  BY <1>0, <1>1, <2>3, TypeSame, TypeStep DEF TakeResult
  <1>2. CASE HandleResult(h)
    <2>1. NoResult \in Results
      <3>1. <<>> \in Outputs /\ <<>> \in Seq(TaskType)
        BY DEF Outputs
      <3> QED  BY <3>1 DEF NoResult, Results
    <2>2. PICK r \in Results : r = result[h]
      BY <1>0 DEF HandlerType
    <2>3. Computed(r)
      BY <1>2, <2>2 DEF ResultInv, HandleResult
    <2>4. PICK owner \in [Samples -> Owners] : Tells(owner)
      BY DEF OwnerInv
    <2>5. OwnedBy(owner, Answered(r), InHand(h))
      BY <2>2, <2>4 DEF Tells
    <2>6. answers \in [Samples -> Seq(Outputs)]
      BY <1>0 DEF HandlerType
    <2>7. answers' \in [Samples -> Seq(Outputs)]
      BY <1>2, <2>2, <2>3, <2>5, <2>6, AnswerStep
    <2>8. HandlerType'
      BY <1>0, <1>2, <2>1, <2>7 DEF HandleResult, HandlerType
    <2> QED  BY <1>0, <1>2, <2>8, TypeSame, TypeStep DEF HandleResult
  <1>3. CASE HandlerEnds(h)
    <2>1. HandlerType'
      BY <1>0, <1>3 DEF HandlerEnds, HandlerType
    <2> QED  BY <1>0, <1>3, <2>1, TypeSame, TypeStep DEF HandlerEnds
  <1> QED  BY <1>1, <1>2, <1>3 DEF Handler

-----------------------------------------------------------------------------
(***************************************************************************)
(* The streams of a core.                                                  *)
(***************************************************************************)
\* The launches of a stream.
LEMMA LaunchType ==
  ASSUME NEW q \in Seq(Launches), NEW i \in DOMAIN q
  PROVE  /\ q[i] \in Launches /\ q[i].bundle \in Bundles /\ q[i].copy \in BOOLEAN
         /\ q[i].tasks \in Seq(TaskType) /\ q[i].padded \in BOOLEAN
  <1>1. q[i] \in Launches
    OBVIOUS
  <1> QED  BY <1>1 DEF Launches

\* A launch appends a copy and a host function.
Launched(q, r, b, f) ==
    /\ Paired(r) /\ \A x : Copied(r, x) <=> Copied(q, x) \/ x = b
    /\ DOMAIN q = 1..Len(q) /\ DOMAIN r = 1..(Len(q) + 2) /\ Len(q) \in Nat
    /\ \A i \in 1..Len(q) : r[i] = q[i]
    /\ r[Len(q) + 1] = CopyOf(b) /\ r[Len(q) + 2] = f
    /\ CopyOf(b).copy /\ CopyOf(b).bundle = b

\* The copy of a bundle that has none on the stream keeps copies and host functions
\* paired.
LEMMA PairedGrows ==
  ASSUME NEW q \in Seq(Launches), Paired(q), NEW b \in Bundles, ~Copied(q, b),
         NEW f \in Launches, ~f.copy, f.bundle = b
  PROVE  Launched(q, q \o <<CopyOf(b), f>>, b, f)
  <1>0. PICK r : r = q \o <<CopyOf(b), f>>
    OBVIOUS
  <1> DEFINE e == CopyOf(b)
  <1>1. e \in Launches /\ e.copy /\ e.bundle = b
    BY DEF CopyOf, Launches
  <1> HIDE DEF e
  <1>2. <<e, f>> \in Seq(Launches) /\ Len(<<e, f>>) = 2 /\ <<e, f>>[1] = e /\ <<e, f>>[2] = f
    BY <1>1
  <1>3. /\ r \in Seq(Launches) /\ Len(r) = Len(q) + 2
        /\ \A i \in 1..Len(q) : r[i] = q[i]
        /\ r[Len(q) + 1] = e /\ r[Len(q) + 2] = f
    <2> DEFINE new == <<e, f>>
    <2>1. r = q \o new /\ new \in Seq(Launches) /\ Len(new) = 2 /\ new[1] = e /\ new[2] = f
      BY <1>0, <1>2 DEF e
    <2> HIDE DEF new
    <2>2. /\ r \in Seq(Launches) /\ Len(r) = Len(q) + Len(new)
          /\ \A i \in 1..(Len(q) + Len(new)) :
                r[i] = IF i <= Len(q) THEN q[i] ELSE new[i - Len(q)]
      BY <2>1, ConcatProperties
    <2> QED  BY <2>1, <2>2
  <1>4. Len(q) \in Nat /\ DOMAIN q = 1..Len(q) /\ DOMAIN r = 1..(Len(q) + 2)
    BY <1>3
  <1>5. \A i \in DOMAIN r : i \in DOMAIN q \/ i = Len(q) + 1 \/ i = Len(q) + 2
    BY <1>4
  <1>6. ASSUME NEW i \in DOMAIN r, r[i].copy
        PROVE  \/ i \in DOMAIN q /\ r[i] = q[i] /\ q[i].bundle # b
               \/ i = Len(q) + 1
    BY <1>3, <1>4, <1>5, <1>6 DEF Copied
  <1>7. ASSUME NEW i \in DOMAIN r, r[i].copy
        PROVE  r[i] = CopyOf(r[i].bundle) /\ i + 1 \in DOMAIN r /\ ~r[i + 1].copy
               /\ r[i + 1].bundle = r[i].bundle
    <2>1. CASE i \in DOMAIN q /\ r[i] = q[i]
      <3>1. i + 1 \in DOMAIN q /\ q[i] = CopyOf(q[i].bundle) /\ ~q[i + 1].copy
            /\ q[i + 1].bundle = q[i].bundle
        BY <1>7, <2>1 DEF Paired
      <3>2. r[i + 1] = q[i + 1] /\ i + 1 \in DOMAIN r
        BY <1>3, <1>4, <3>1
      <3> QED  BY <2>1, <3>1, <3>2
    <2>2. CASE i = Len(q) + 1
      <3>1. i + 1 = Len(q) + 2 /\ i + 1 \in DOMAIN r
        BY <1>4, <2>2
      <3>2. r[i] = e /\ r[i + 1] = f
        BY <1>3, <2>2, <3>1
      <3> QED  BY <1>1, <3>1, <3>2 DEF e
    <2> QED  BY <1>6, <1>7, <2>1, <2>2
  <1>8. ASSUME NEW i \in DOMAIN r, ~r[i].copy, i # 1
        PROVE  r[i - 1].copy
    <2>1. CASE i \in DOMAIN q
      <3>1. r[i] = q[i] /\ i - 1 \in DOMAIN q /\ r[i - 1] = q[i - 1]
        BY <1>3, <1>4, <1>8, <2>1
      <3> QED  BY <1>8, <2>1, <3>1 DEF Paired
    <2>2. CASE i = Len(q) + 1
      BY <1>1, <1>3, <1>8, <2>2
    <2>3. CASE i = Len(q) + 2
      <3>1. i - 1 = Len(q) + 1
        BY <1>4, <2>3
      <3> QED  BY <1>1, <1>3, <3>1
    <2> QED  BY <1>5, <2>1, <2>2, <2>3
  <1>9. ASSUME NEW i \in DOMAIN r, NEW j \in DOMAIN r, r[i].copy, r[j].copy,
               r[i].bundle = r[j].bundle
        PROVE  i = j
    BY <1>1, <1>3, <1>6, <1>9 DEF Paired
  <1>10. Paired(r)
    BY <1>7, <1>8, <1>9 DEF Paired
  <1>11. \A x : Copied(r, x) <=> Copied(q, x) \/ x = b
    <2>1. Len(q) + 1 \in DOMAIN r /\ \A i \in DOMAIN q : i \in DOMAIN r
      BY <1>4
    <2> QED  BY <1>1, <1>3, <1>4, <1>6, <2>1 DEF Copied
  <1>12. Launched(q, r, b, f)
    BY <1>1, <1>3, <1>4, <1>10, <1>11 DEF e, Launched
  <1> QED  BY <1>0, <1>12

\* The stream goes on to what lies behind its head.
Left(q, r) ==
    /\ Paired(r) /\ Head(q) = q[1] /\ 1 \in DOMAIN q
    /\ \A x : Copied(r, x) <=> Copied(q, x) /\ ~(q[1].copy /\ x = q[1].bundle)
    /\ \A i \in DOMAIN r : i \in Nat /\ i + 1 \in DOMAIN q /\ r[i] = q[i + 1]
    /\ \A i \in DOMAIN r : r[i].copy => i + 1 \in DOMAIN r /\ r[i + 1] = q[i + 2]
    /\ q[1].copy => r # <<>> /\ ~r[1].copy
    /\ r # <<>> /\ ~q[1].copy => r[1].copy

\* What is left is paired: a host function that becomes the head has had its copy.
LEMMA PairedTail ==
  ASSUME NEW q \in Seq(Launches), Paired(q), q # <<>>
  PROVE  Left(q, Tail(q))
  <1>0. PICK r : r = Tail(q)
    OBVIOUS
  <1>1. /\ r \in Seq(Launches) /\ Len(r) = Len(q) - 1 /\ Len(q) \in Nat /\ Len(q) > 0
        /\ \A i \in 1..(Len(q) - 1) : r[i] = q[i + 1]
    BY <1>0, HeadTailProperties
  <1>2. DOMAIN q = 1..Len(q) /\ DOMAIN r = 1..(Len(q) - 1) /\ Head(q) = q[1] /\ 1 \in DOMAIN q
    BY <1>1
  <1>3. \A i \in DOMAIN r : i \in Nat /\ i + 1 \in DOMAIN q /\ r[i] = q[i + 1]
    BY <1>1, <1>2
  <1>4. ASSUME NEW i \in DOMAIN r, r[i].copy
        PROVE  /\ r[i] = CopyOf(r[i].bundle) /\ i + 1 \in DOMAIN r /\ ~r[i + 1].copy
               /\ r[i + 1].bundle = r[i].bundle /\ r[i + 1] = q[i + 2]
    <2>1. /\ q[i + 1] = CopyOf(q[i + 1].bundle) /\ (i + 1) + 1 \in DOMAIN q /\ ~q[(i + 1) + 1].copy
          /\ q[(i + 1) + 1].bundle = q[i + 1].bundle
      BY <1>3, <1>4 DEF Paired
    <2>2. (i + 1) + 1 = i + 2 /\ i + 1 \in DOMAIN r
      BY <1>2, <1>3, <2>1
    <2>3. r[i + 1] = q[(i + 1) + 1]
      BY <1>3, <2>2
    <2> QED  BY <1>3, <2>1, <2>2, <2>3
  <1>5. ASSUME NEW i \in DOMAIN r, ~r[i].copy, i # 1
        PROVE  r[i - 1].copy
    <2>1. i - 1 \in DOMAIN r /\ (i - 1) + 1 = i /\ i + 1 # 1 /\ (i + 1) - 1 = i
      BY <1>2, <1>5
    <2>2. q[i].copy
      BY <1>3, <1>5, <2>1 DEF Paired
    <2> QED  BY <1>3, <2>1, <2>2
  <1>6. ASSUME NEW i \in DOMAIN r, NEW j \in DOMAIN r, r[i].copy, r[j].copy,
               r[i].bundle = r[j].bundle
        PROVE  i = j
    <2>1. i + 1 = j + 1
      BY <1>3, <1>6 DEF Paired
    <2> QED  BY <1>3, <2>1
  <1>7. Paired(r)
    BY <1>4, <1>5, <1>6 DEF Paired
  <1>8. \A i \in DOMAIN q : i = 1 \/ (i - 1 \in DOMAIN r /\ r[i - 1] = q[i] /\ i # 1)
    BY <1>1, <1>2
  <1>9. ASSUME NEW x PROVE Copied(r, x) <=> Copied(q, x) /\ ~(q[1].copy /\ x = q[1].bundle)
    <2>1. ASSUME Copied(r, x) PROVE Copied(q, x) /\ ~(q[1].copy /\ x = q[1].bundle)
      <3>1. PICK i \in DOMAIN r : r[i].copy /\ r[i].bundle = x
        BY <2>1 DEF Copied
      <3>2. i + 1 \in DOMAIN q /\ q[i + 1] = r[i] /\ i + 1 # 1
        BY <1>2, <1>3
      <3> QED  BY <1>2, <3>1, <3>2 DEF Copied, Paired
    <2>2. ASSUME Copied(q, x), ~(q[1].copy /\ x = q[1].bundle) PROVE Copied(r, x)
      BY <1>8, <2>2 DEF Copied
    <2> QED  BY <2>1, <2>2
  <1>10. ASSUME q[1].copy PROVE r # <<>> /\ ~r[1].copy
    <2>1. 1 + 1 \in DOMAIN q /\ ~q[1 + 1].copy
      BY <1>2, <1>10 DEF Paired
    <2>2. 1 \in DOMAIN r
      BY <1>2, <2>1
    <2> QED  BY <1>3, <2>1, <2>2
  <1>11. ASSUME r # <<>>, ~q[1].copy PROVE r[1].copy
    <2>1. 1 \in DOMAIN r
      BY <1>1, <1>2, <1>11
    <2>2. 1 + 1 \in DOMAIN q /\ r[1] = q[1 + 1] /\ 1 + 1 # 1 /\ (1 + 1) - 1 = 1
      BY <1>3, <2>1
    <2>3. ~q[1 + 1].copy /\ 1 + 1 # 1 => q[(1 + 1) - 1].copy
      BY <2>2 DEF Paired
    <2> QED  BY <1>11, <2>2, <2>3
  <1>12. Left(q, r)
    BY <1>2, <1>3, <1>4, <1>7, <1>9, <1>10, <1>11 DEF Left
  <1> QED  BY <1>0, <1>12

\* The pairs of a batch are put into the input of its bundle.
Feeds(f, b, in, in2) ==
    /\ ~f.copy /\ f.bundle = b /\ in2[b] = PairsOf(f.tasks)
    /\ \A x \in Bundles \ {b} : in2[x] = in[x]

\* What a launch, the computation of a batch, a copy and a host function mean for
\* the buffers.
LEMMA CoreLaunch ==
  ASSUME NEW q \in Seq(Launches), NEW k \in Seq(Bundles), NEW in, NEW dev, NEW host,
         NEW b \in Bundles, StreamOk(q, k, "get", b), DataOk(q, k, in, dev, host),
         NEW f \in Launches, NEW in2, Feeds(f, b, in, in2), NEW b2
  PROVE  /\ StreamOk(q \o <<CopyOf(b), f>>, Append(k, b), "sync", b2)
         /\ DataOk(q \o <<CopyOf(b), f>>, Append(k, b), in2, dev, host)
  <1>0. /\ ~f.copy /\ f.bundle = b /\ in2[b] = PairsOf(f.tasks)
        /\ (\A x \in Bundles \ {b} : in2[x] = in[x]) /\ \A i \in DOMAIN q : q[i].bundle \in Bundles
    BY LaunchType DEF Feeds
  <1> DEFINE r == q \o <<CopyOf(b), f>>
             l == Append(k, b)
  <1>1. ~Copied(q, b) /\ Paired(q) /\ Distinct(k) /\ ~Has(k, b)
        /\ \A x \in Bundles : Has(k, x) => Copied(q, x)
    BY DEF StreamOk
  <1>2. PICK r0 : r0 = r
    OBVIOUS
  <1>3. /\ Paired(r0) /\ \A x : Copied(r0, x) <=> Copied(q, x) \/ x = b
        /\ DOMAIN q = 1..Len(q) /\ DOMAIN r0 = 1..(Len(q) + 2) /\ Len(q) \in Nat
        /\ \A i \in 1..Len(q) : r0[i] = q[i]
        /\ r0[Len(q) + 1] = CopyOf(b) /\ r0[Len(q) + 2] = f
        /\ CopyOf(b).copy /\ CopyOf(b).bundle = b
    <2>1. Launched(q, r, b, f)
      BY <1>0, <1>1, PairedGrows
    <2> HIDE DEF r, l
    <2> QED  BY <1>2, <2>1 DEF Launched
  <1>4. (\A x : Has(l, x) <=> Has(k, x) \/ x = b) /\ Distinct(l)
    BY <1>1, AppendHas
  <1> HIDE DEF r, l
  <1>5. StreamOk(r0, l, "sync", b2)
    BY <1>1, <1>3, <1>4 DEF StreamOk
  <1>6. ASSUME NEW i \in DOMAIN r0, r0[i].copy
        PROVE  PairsOf(r0[i + 1].tasks) = IF Has(l, r0[i].bundle) THEN in2[r0[i].bundle]
                                                                 ELSE dev[r0[i].bundle]
    <2>1. CASE i \in DOMAIN q
      <3>1. q[i].copy /\ r0[i] = q[i] /\ q[i].bundle # b /\ q[i].bundle \in Bundles
        BY <1>0, <1>1, <1>3, <1>6, <2>1 DEF Copied
      <3>2. i + 1 \in DOMAIN q
        BY <1>1, <2>1, <3>1 DEF Paired
      <3>3. r0[i + 1] = q[i + 1]
        BY <1>3, <3>2
      <3>4. PairsOf(q[i + 1].tasks) = IF Has(k, q[i].bundle) THEN in[q[i].bundle] ELSE dev[q[i].bundle]
        BY <2>1, <3>1 DEF DataOk
      <3> QED  BY <1>0, <1>4, <3>1, <3>3, <3>4
    <2>2. CASE i = Len(q) + 1
      <3>1. i + 1 = Len(q) + 2
        BY <1>3, <2>2
      <3>2. r0[i].bundle = b /\ r0[i + 1] = f /\ Has(l, b)
        BY <1>0, <1>3, <1>4, <2>2, <3>1
      <3> QED  BY <1>0, <3>2
    <2>3. CASE i = Len(q) + 2
      BY <1>0, <1>3, <1>6, <2>3
    <2>4. i \in DOMAIN q \/ i = Len(q) + 1 \/ i = Len(q) + 2
      BY <1>3
    <2> QED  BY <2>1, <2>2, <2>3, <2>4
  <1>7. ASSUME r0 # <<>>, ~r0[1].copy PROVE host[r0[1].bundle] = PairsOf(r0[1].tasks)
    <2>1. CASE q = <<>>
      <3>1. Len(q) = 0
        BY <2>1
      <3> QED  BY <1>3, <1>7, <3>1
    <2>2. CASE q # <<>>
      <3>1. 1 \in 1..Len(q)
        BY <1>3, <2>2
      <3>2. r0[1] = q[1]
        BY <1>3, <3>1
      <3> QED  BY <1>7, <2>2, <3>2 DEF DataOk
    <2> QED  BY <2>1, <2>2
  <1>8. DataOk(r0, l, in2, dev, host)
    BY <1>6, <1>7 DEF DataOk
  <1> QED  BY <1>2, <1>5, <1>8 DEF r, l

\* The computation of a batch moves its pairs from the input to the output.
LEMMA CoreCompute ==
  ASSUME NEW q \in Seq(Launches), NEW k \in Seq(Bundles), NEW in, NEW dev, NEW host, NEW pc, NEW b,
         StreamOk(q, k, pc, b), DataOk(q, k, in, dev, host), k # <<>>,
         NEW dev2, dev2[Head(k)] = in[Head(k)], \A x \in Bundles \ {Head(k)} : dev2[x] = dev[x],
         \A i \in DOMAIN q : q[i].bundle \in Bundles
  PROVE  StreamOk(q, Tail(k), pc, b) /\ DataOk(q, Tail(k), in, dev2, host)
  <1>1. /\ Head(k) \in Bundles /\ Has(k, Head(k)) /\ Distinct(Tail(k))
        /\ \A x : Has(Tail(k), x) <=> Has(k, x) /\ x # Head(k)
    BY TailHas DEF StreamOk
  <1>2. StreamOk(q, Tail(k), pc, b)
    BY <1>1 DEF StreamOk
  <1>3. ASSUME NEW i \in DOMAIN q, q[i].copy
        PROVE  PairsOf(q[i + 1].tasks) = IF Has(Tail(k), q[i].bundle) THEN in[q[i].bundle]
                                                                     ELSE dev2[q[i].bundle]
    <2>1. PairsOf(q[i + 1].tasks) = IF Has(k, q[i].bundle) THEN in[q[i].bundle] ELSE dev[q[i].bundle]
      BY <1>3 DEF DataOk
    <2> QED  BY <1>1, <2>1
  <1> QED  BY <1>2, <1>3 DEF DataOk

\* The copy of a batch moves its pairs to the output on the host.
LEMMA CoreCopy ==
  ASSUME NEW q \in Seq(Launches), NEW k \in Seq(Bundles), NEW in, NEW dev, NEW host, NEW pc, NEW b,
         StreamOk(q, k, pc, b), DataOk(q, k, in, dev, host),
         q # <<>>, q[1].copy, ~Has(k, q[1].bundle),
         NEW host2, host2[q[1].bundle] = dev[q[1].bundle]
  PROVE  StreamOk(Tail(q), k, pc, b) /\ DataOk(Tail(q), k, in, dev, host2)
  <1>1. PICK r : r = Tail(q)
    OBVIOUS
  <1>2. /\ Paired(r) /\ Head(q) = q[1] /\ 1 \in DOMAIN q
        /\ \A x : Copied(r, x) <=> Copied(q, x) /\ ~(q[1].copy /\ x = q[1].bundle)
        /\ \A i \in DOMAIN r : i \in Nat /\ i + 1 \in DOMAIN q /\ r[i] = q[i + 1]
        /\ \A i \in DOMAIN r : r[i].copy => i + 1 \in DOMAIN r /\ r[i + 1] = q[i + 2]
        /\ q[1].copy => r # <<>> /\ ~r[1].copy
    <2>1. Left(q, r)
      BY <1>1, PairedTail DEF StreamOk
    <2> QED  BY <2>1 DEF Left
  <1>3. StreamOk(r, k, pc, b)
    BY <1>2 DEF StreamOk
  <1>4. ASSUME NEW i \in DOMAIN r, r[i].copy
        PROVE  PairsOf(r[i + 1].tasks) = IF Has(k, r[i].bundle) THEN in[r[i].bundle]
                                                               ELSE dev[r[i].bundle]
    <2>1. i + 1 \in DOMAIN q /\ r[i] = q[i + 1] /\ r[i + 1] = q[(i + 1) + 1]
      <3>1. (i + 1) + 1 = i + 2
        BY <1>2
      <3> QED  BY <1>2, <1>4, <3>1
    <2> QED  BY <1>4, <2>1 DEF DataOk
  <1>5. host2[r[1].bundle] = PairsOf(r[1].tasks)
    <2>1. 1 + 1 \in DOMAIN q /\ q[1 + 1].bundle = q[1].bundle
      BY <1>2 DEF StreamOk, Paired
    <2>2. 1 \in DOMAIN r /\ r[1] = q[1 + 1]
      <3>1. r \in Seq(Launches) /\ r # <<>>
        BY <1>1, <1>2
      <3>2. 1 \in DOMAIN r
        BY <3>1
      <3> QED  BY <1>2, <3>2
    <2>3. PairsOf(q[1 + 1].tasks) = dev[q[1].bundle]
      BY <1>2 DEF DataOk
    <2> QED  BY <2>1, <2>2, <2>3
  <1>6. DataOk(r, k, in, dev, host2)
    BY <1>4, <1>5 DEF DataOk
  <1> QED  BY <1>1, <1>3, <1>6

\* The host function finds the pairs of its own batch there.
LEMMA CoreEnqueue ==
  ASSUME NEW q \in Seq(Launches), NEW k \in Seq(Bundles), NEW in, NEW dev, NEW host, NEW pc, NEW b,
         StreamOk(q, k, pc, b), DataOk(q, k, in, dev, host), q # <<>>, ~q[1].copy
  PROVE  /\ StreamOk(Tail(q), k, pc, b) /\ DataOk(Tail(q), k, in, dev, host)
         /\ host[q[1].bundle] = PairsOf(q[1].tasks)
  <1>1. PICK r : r = Tail(q)
    OBVIOUS
  <1>2. /\ Paired(r)
        /\ \A x : Copied(r, x) <=> Copied(q, x) /\ ~(q[1].copy /\ x = q[1].bundle)
        /\ \A i \in DOMAIN r : i \in Nat /\ i + 1 \in DOMAIN q /\ r[i] = q[i + 1]
        /\ \A i \in DOMAIN r : r[i].copy => i + 1 \in DOMAIN r /\ r[i + 1] = q[i + 2]
        /\ r # <<>> /\ ~q[1].copy => r[1].copy
    <2>1. Left(q, r)
      BY <1>1, PairedTail DEF StreamOk
    <2> QED  BY <2>1 DEF Left
  <1>3. StreamOk(r, k, pc, b)
    BY <1>2 DEF StreamOk
  <1>4. ASSUME NEW i \in DOMAIN r, r[i].copy
        PROVE  PairsOf(r[i + 1].tasks) = IF Has(k, r[i].bundle) THEN in[r[i].bundle]
                                                               ELSE dev[r[i].bundle]
    <2>1. i + 1 \in DOMAIN q /\ r[i] = q[i + 1] /\ r[i + 1] = q[(i + 1) + 1]
      <3>1. (i + 1) + 1 = i + 2
        BY <1>2
      <3> QED  BY <1>2, <1>4, <3>1
    <2> QED  BY <1>4, <2>1 DEF DataOk
  <1>5. DataOk(r, k, in, dev, host)
    BY <1>2, <1>4 DEF DataOk
  <1> QED  BY <1>1, <1>3, <1>5 DEF DataOk

\* A step of one core leaves the streams and buffers of the others alone.
Elsewhere(c) == \A d \in Cores \ {c} :
    /\ d2h'[d] = d2h[d] /\ compute'[d] = compute[d] /\ wpc'[d] = wpc[d] /\ bundle'[d] = bundle[d]
    /\ input'[d] = input[d] /\ devOut'[d] = devOut[d] /\ hostOut'[d] = hostOut[d]

\* So that it is enough to look at its own.
LEMMA CoreSplit ==
  ASSUME StreamInv, DataInv, NEW c \in Cores, Elsewhere(c),
         StreamOk(d2h'[c], compute'[c], wpc'[c], bundle'[c]),
         DataOk(d2h'[c], compute'[c], input'[c], devOut'[c], hostOut'[c])
  PROVE  StreamInv' /\ DataInv'
  <1>1. \A d \in Cores : StreamOk(d2h'[d], compute'[d], wpc'[d], bundle'[d])
    BY DEF StreamInv, Elsewhere
  <1>2. \A d \in Cores : DataOk(d2h'[d], compute'[d], input'[d], devOut'[d], hostOut'[d])
    BY DEF DataInv, Elsewhere
  <1> QED  BY <1>1, <1>2 DEF StreamInv, DataInv

\* A batch that is run: a launch of the foreground bundle.
LEMMA CoreRuns ==
  ASSUME TypeOK, StreamInv, DataInv, NEW c \in Cores, wpc[c] = "get",
         NEW batch \in Seq(TaskType), NEW padded \in BOOLEAN, Infer(c, batch, padded),
         wpc' = [wpc EXCEPT ![c] = "sync"], UNCHANGED outVars
  PROVE  StreamInv' /\ DataInv'
  <1>1. WorkerType /\ aborted \in BOOLEAN
    BY TypeParts DEF QueueType
  <1>2. PICK b \in Bundles : b = bundle[c]
    BY <1>1 DEF WorkerType
  <1>3. PICK f \in Launches : f = HostFunction(b, batch, padded)
    BY <1>1, <1>2, InferType
  <1>4. ~f.copy /\ f.bundle = b /\ f.tasks = batch
    BY <1>3 DEF HostFunction
  <1>5. PICK q \in Seq(Launches) : q = d2h[c]
    BY <1>1 DEF WorkerType
  <1>6. PICK k \in Seq(Bundles) : k = compute[c]
    BY <1>1 DEF WorkerType
  <1>7. /\ d2h' = [d2h EXCEPT ![c] = q \o <<CopyOf(b), f>>]
        /\ compute' = [compute EXCEPT ![c] = Append(k, b)]
        /\ input' = [input EXCEPT ![c][b] = PairsOf(batch)]
        /\ bundle' = [bundle EXCEPT ![c] = NextBundle(b)]
    BY <1>2, <1>3, <1>5, <1>6 DEF Infer
  <1>8. Elsewhere(c)
    BY <1>1, <1>7 DEF Elsewhere, WorkerType, outVars
  <1>9. /\ d2h'[c] = q \o <<CopyOf(b), f>> /\ compute'[c] = Append(k, b) /\ wpc'[c] = "sync"
        /\ devOut'[c] = devOut[c] /\ hostOut'[c] = hostOut[c]
    BY <1>1, <1>7 DEF WorkerType, outVars
  <1>10. input'[c][b] = PairsOf(f.tasks) /\ \A x \in Bundles \ {b} : input'[c][x] = input[c][x]
    BY <1>1, <1>4, <1>7 DEF WorkerType, Buffers
  <1>11. StreamOk(q, k, "get", b)
    BY <1>2, <1>5, <1>6 DEF StreamInv
  <1>12. PICK in, dev, host : in = input[c] /\ dev = devOut[c] /\ host = hostOut[c]
    OBVIOUS
  <1>d. DataOk(q, k, in, dev, host)
    BY <1>5, <1>6, <1>12 DEF DataInv
  <1>14. PICK in2, b2 : in2 = input'[c] /\ b2 = bundle'[c]
    OBVIOUS
  <1>15. Feeds(f, b, in, in2)
    BY <1>4, <1>10, <1>12, <1>14 DEF Feeds
  <1>16. /\ StreamOk(q \o <<CopyOf(b), f>>, Append(k, b), "sync", b2)
         /\ DataOk(q \o <<CopyOf(b), f>>, Append(k, b), in2, dev, host)
    BY <1>11, <1>15, <1>d, CoreLaunch
  <1> QED  BY <1>8, <1>9, <1>12, <1>14, <1>16, CoreSplit

\* The steps of a core keep what its streams and buffers hold.
LEMMA CoreStep ==
  ASSUME TypeOK, StreamInv, DataInv, NEW c \in Cores, Worker(c) \/ Compute(c) \/ CopyOut(c) \/ Enqueue(c)
  PROVE  StreamInv' /\ DataInv'
  <1>1. WorkerType /\ OutType /\ QueueType
    BY TypeParts
  <1>2. PICK q \in Seq(Launches) : q = d2h[c]
    BY <1>1 DEF WorkerType
  <1>3. PICK k \in Seq(Bundles) : k = compute[c]
    BY <1>1 DEF WorkerType
  <1>4. StreamOk(q, k, wpc[c], bundle[c]) /\ DataOk(q, k, input[c], devOut[c], hostOut[c])
    BY <1>2, <1>3 DEF StreamInv, DataInv
  <1>5. \A i \in DOMAIN q : q[i].bundle \in Bundles
    BY LaunchType
  <1>6. CASE SyncBundle(c) \/ WorkerEnds(c) \/ \E taken : Leaves(c, taken) /\ UNCHANGED outVars
    <2>1. Elsewhere(c) /\ UNCHANGED <<bundle, input, streamVars, outVars>>
      BY <1>1, <1>6 DEF SyncBundle, WorkerEnds, Leaves, Elsewhere, WorkerType, streamVars, outVars
    <2>2. UNCHANGED <<bundle, input, d2h, compute, devOut, hostOut>>
      BY <2>1 DEF streamVars, outVars
    <2>3. wpc'[c] = "get" => ~Copied(q, bundle[c])
      <3>1. CASE SyncBundle(c)
        <4>1. \A i \in DOMAIN q : q[i] # CopyOf(bundle[c])
          BY <1>2, <3>1 DEF SyncBundle, Synced
        <4>2. \A i \in DOMAIN q : q[i].copy => q[i] = CopyOf(q[i].bundle)
          BY <1>4 DEF StreamOk, Paired
        <4> QED  BY <4>1, <4>2 DEF Copied
      <3>2. CASE WorkerEnds(c) \/ \E taken : Leaves(c, taken)
        BY <1>1, <3>2 DEF WorkerEnds, Leaves, WorkerType
      <3> QED  BY <1>6, <3>1, <3>2
    <2>4. StreamOk(q, k, wpc'[c], bundle[c])
      BY <1>4, <2>3 DEF StreamOk
    <2> QED  BY <1>2, <1>3, <1>4, <2>1, <2>2, <2>4, CoreSplit
  <1>7. CASE GetFromMaker(c) \/ GetFromDevice(c)
    <2>1. PICK m \in Devices : \E n \in 0..Len(tasks[m]) : Takes(c, m, n)
      BY <1>1, <1>7, GetStep
    <2>2. PICK n \in 0..Len(tasks[m]) : Takes(c, m, n)
      BY <2>1
    <2>3. PICK taken : taken = SubSeq(tasks[m], 1, n)
      OBVIOUS
    <2>4. wpc[c] = "get" /\ UNCHANGED outVars /\ (Runs(c, taken) \/ Leaves(c, taken))
      BY <2>2, <2>3 DEF Takes
    <2>5. CASE Runs(c, taken)
      <3>1. PICK batch \in Seq(TaskType), padded \in BOOLEAN :
                Infer(c, batch, padded) /\ wpc' = [wpc EXCEPT ![c] = "sync"]
        BY <2>5 DEF Runs
      <3> QED  BY <2>4, <3>1, CoreRuns
    <2> QED  BY <1>6, <2>4, <2>5
  <1>8. CASE Compute(c)
    <2>1. k # <<>> /\ Head(k) \in Bundles
      BY <1>3, <1>8 DEF Compute
    <2>2. /\ devOut' = [devOut EXCEPT ![c][Head(k)] = input[c][Head(k)]]
          /\ compute' = [compute EXCEPT ![c] = Tail(k)]
          /\ UNCHANGED <<wpc, bundle, input, d2h, hostOut>>
      BY <1>3, <1>8 DEF Compute, workerVars
    <2>3. Elsewhere(c)
      BY <1>1, <2>2 DEF Elsewhere, WorkerType, OutType, Buffers
    <2>4. compute'[c] = Tail(k)
      BY <1>1, <2>2 DEF WorkerType
    <2>5. PICK dev2 : dev2 = devOut'[c]
      OBVIOUS
    <2>6. dev2[Head(k)] = input[c][Head(k)] /\ \A x \in Bundles \ {Head(k)} : dev2[x] = devOut[c][x]
      BY <1>1, <2>1, <2>2, <2>5 DEF OutType, Buffers
    <2>7. StreamOk(q, Tail(k), wpc[c], bundle[c]) /\ DataOk(q, Tail(k), input[c], dev2, hostOut[c])
      BY <1>4, <1>5, <2>1, <2>6, CoreCompute
    <2> QED  BY <1>2, <2>2, <2>3, <2>4, <2>5, <2>7, CoreSplit
  <1>9. CASE CopyOut(c)
    <2>1. q # <<>> /\ q[1].copy /\ Head(q) = q[1] /\ q[1].bundle \in Bundles
      <3>1. q # <<>> /\ Head(q).copy
        BY <1>2, <1>9 DEF CopyOut
      <3>2. Head(q) = q[1] /\ 1 \in DOMAIN q
        BY <3>1, HeadTail
      <3> QED  BY <1>5, <3>1, <3>2
    <2>2. /\ hostOut' = [hostOut EXCEPT ![c][q[1].bundle] = devOut[c][q[1].bundle]]
          /\ d2h' = [d2h EXCEPT ![c] = Tail(q)]
          /\ UNCHANGED <<wpc, bundle, input, compute, devOut>>
          /\ ~Contains(k, q[1].bundle)
      BY <1>2, <1>3, <1>9, <2>1 DEF CopyOut, workerVars
    <2>3. Elsewhere(c)
      BY <1>1, <2>2 DEF Elsewhere, WorkerType, OutType, Buffers
    <2>4. d2h'[c] = Tail(q)
      BY <1>1, <2>2 DEF WorkerType
    <2>5. PICK host2 : host2 = hostOut'[c]
      OBVIOUS
    <2>6. host2[q[1].bundle] = devOut[c][q[1].bundle]
      BY <1>1, <2>1, <2>2, <2>5 DEF OutType, Buffers
    <2>7. ~Has(k, q[1].bundle)
      <3>1. DOMAIN k = 1..Len(k)
        OBVIOUS
      <3> QED  BY <2>2, <3>1 DEF Contains, Has
    <2>8. StreamOk(Tail(q), k, wpc[c], bundle[c]) /\ DataOk(Tail(q), k, input[c], devOut[c], host2)
      BY <1>4, <2>1, <2>6, <2>7, CoreCopy
    <2> QED  BY <1>3, <2>2, <2>3, <2>4, <2>5, <2>8, CoreSplit
  <1>10. CASE Enqueue(c)
    <2>1. q # <<>> /\ ~q[1].copy
      <3>1. q # <<>> /\ ~Head(q).copy
        BY <1>2, <1>10 DEF Enqueue
      <3> QED  BY <3>1, HeadTail
    <2>2. d2h' = [d2h EXCEPT ![c] = Tail(q)] /\ UNCHANGED <<wpc, bundle, input, compute, devOut, hostOut>>
      BY <1>2, <1>10 DEF Enqueue, workerVars, outVars
    <2>3. Elsewhere(c) /\ d2h'[c] = Tail(q)
      BY <1>1, <2>2 DEF Elsewhere, WorkerType
    <2>4. StreamOk(Tail(q), k, wpc[c], bundle[c]) /\ DataOk(Tail(q), k, input[c], devOut[c], hostOut[c])
      BY <1>4, <2>1, CoreEnqueue
    <2> QED  BY <1>3, <2>2, <2>3, <2>4, CoreSplit
  <1> QED  BY <1>6, <1>7, <1>8, <1>9, <1>10 DEF Worker

\* And so does every step.
LEMMA CoreNext ==
  ASSUME TypeOK, StreamInv, DataInv, Next
  PROVE  StreamInv' /\ DataInv'
  <1>1. ASSUME UNCHANGED <<workerVars, streamVars, outVars>> PROVE StreamInv' /\ DataInv'
    BY <1>1 DEF StreamInv, DataInv, workerVars, streamVars, outVars
  <1>2. CASE LoadGen
    BY <1>1, <1>2 DEF LoadGen, IssueQuery, StopWork
  <1>3. CASE Finished
    BY <1>1, <1>3 DEF Finished, vars
  <1>4. ASSUME NEW h \in Handlers, Handler(h) PROVE StreamInv' /\ DataInv'
    BY <1>1, <1>4 DEF Handler, TakeResult, HandleResult, HandlerEnds
  <1> QED  BY <1>2, <1>3, <1>4, CoreStep DEF Next

-----------------------------------------------------------------------------
(***************************************************************************)
(* Results and owners.                                                     *)
(***************************************************************************)
\* What the host function of a batch puts into the result queue.
Queues(c, f, r) ==
    /\ f = d2h[c][1] /\ ~f.copy /\ d2h[c] # <<>>
    /\ r.tasks = f.tasks /\ r.padded = f.padded /\ Answered(r) = Answered(f)
    /\ d2h' = [d2h EXCEPT ![c] = Tail(d2h[c])]
    /\ resultQ' = [resultQ EXCEPT ![c] = Append(resultQ[c], r)]

\* The outputs of the result are those of the tasks in it.
LEMMA EnqueueStep ==
  ASSUME TypeOK, StreamInv, DataInv, NEW c \in Cores, Enqueue(c)
  PROVE  \E f \in Launches, r \in Results : Queues(c, f, r) /\ Computed(r)
  <1>1. WorkerType /\ OutType
    BY TypeParts
  <1>2. PICK q \in Seq(Launches) : q = d2h[c]
    BY <1>1 DEF WorkerType
  <1>3. q # <<>> /\ ~Head(q).copy
    BY <1>2 DEF Enqueue
  <1>4. Head(q) \in Launches /\ Head(q) = q[1] /\ 1 \in DOMAIN q
    BY <1>3, HeadTail
  <1>5. PICK f \in Launches : f = q[1] /\ f = Head(d2h[c])
    BY <1>2, <1>4
  <1>6. ~f.copy /\ f.bundle \in Bundles /\ f.tasks \in Seq(TaskType) /\ f.padded \in BOOLEAN
    BY <1>3, <1>4, <1>5, LaunchType
  <1>7. hostOut[c][f.bundle] = PairsOf(f.tasks)
    BY <1>2, <1>3, <1>5, <1>6 DEF DataInv, DataOk
  <1>8. hostOut[c][f.bundle] \in Outputs
    BY <1>1, <1>6 DEF OutType, Buffers
  <1> DEFINE r0 == [outputs |-> hostOut[c][f.bundle], tasks |-> f.tasks, padded |-> f.padded]
  <1>9. PICK r \in Results : r = r0
    BY <1>6, <1>8 DEF Results
  <1>10. r.tasks = f.tasks /\ r.padded = f.padded /\ Computed(r)
    BY <1>7, <1>9 DEF Computed
  <1>11. /\ resultQ' = [resultQ EXCEPT ![c] = Append(resultQ[c], r)]
         /\ d2h' = [d2h EXCEPT ![c] = Tail(d2h[c])]
    BY <1>5, <1>9 DEF Enqueue
  <1>12. Answered(r) = Answered(f)
    BY <1>10 DEF Answered
  <1>13. Queues(c, f, r)
    BY <1>2, <1>3, <1>5, <1>6, <1>10, <1>11, <1>12 DEF Queues
  <1> QED  BY <1>10, <1>13

\* Results have the outputs of their tasks.
LEMMA ResultNext ==
  ASSUME TypeOK, StreamInv, DataInv, ResultInv, Next
  PROVE  ResultInv'
  <1>0. /\ resultQ \in [Cores -> Seq(Results)] /\ result \in [Handlers -> Results]
        /\ hpc \in [Handlers -> {"wait", "answer", "gone"}]
    BY TypeParts DEF HandlerType
  <1>1. ASSUME UNCHANGED <<resultQ, result, hpc>> PROVE ResultInv'
    BY <1>1 DEF ResultInv
  <1>2. CASE LoadGen
    BY <1>1, <1>2 DEF LoadGen, IssueQuery, StopWork, handlerVars
  <1>3. CASE Finished
    BY <1>1, <1>3 DEF Finished, vars, handlerVars
  <1>4. ASSUME NEW c \in Cores, Worker(c) \/ Compute(c) \/ CopyOut(c) PROVE ResultInv'
    BY <1>1, <1>4 DEF Worker, SyncBundle, GetFromMaker, GetFromDevice, WorkerEnds, Compute, CopyOut,
                      handlerVars
  <1>5. ASSUME NEW c \in Cores, Enqueue(c) PROVE ResultInv'
    <2>1. PICK r \in Results : Computed(r) /\ resultQ' = [resultQ EXCEPT ![c] = Append(resultQ[c], r)]
      BY <1>5, EnqueueStep DEF Queues
    <2>2. UNCHANGED <<result, hpc>>
      BY <1>5 DEF Enqueue
    <2>3. ASSUME NEW d \in Cores, NEW i \in DOMAIN resultQ'[d] PROVE Computed(resultQ'[d][i])
      <3>1. CASE d = c
        <4>1. resultQ[c] \in Seq(Results) /\ resultQ'[d] = Append(resultQ[c], r)
          BY <1>0, <2>1, <3>1
        <4>2. resultQ'[d][i] = r \/ (i \in DOMAIN resultQ[c] /\ resultQ'[d][i] = resultQ[c][i])
          BY <4>1, Extended
        <4> QED  BY <2>1, <4>2 DEF ResultInv
      <3>2. CASE d # c
        BY <1>0, <2>1, <2>3, <3>2 DEF ResultInv
      <3> QED  BY <3>1, <3>2
    <2> QED  BY <2>2, <2>3 DEF ResultInv
  <1>6. ASSUME NEW h \in Handlers, TakeResult(h) PROVE ResultInv'
    <2>1. h[1] \in Cores /\ resultQ[h[1]] \in Seq(Results) /\ resultQ[h[1]] # <<>>
      BY <1>0, <1>6, ConstantTypes DEF TakeResult
    <2>2. PICK c \in Cores : c = h[1]
      BY <2>1
    <2>3. /\ resultQ' = [resultQ EXCEPT ![c] = Tail(resultQ[c])]
          /\ result' = [result EXCEPT ![h] = Head(resultQ[c])]
          /\ hpc' = [hpc EXCEPT ![h] = "answer"]
      BY <1>6, <2>2 DEF TakeResult
    <2>4. Computed(Head(resultQ[c]))
      <3>1. Head(resultQ[c]) = resultQ[c][1] /\ 1 \in DOMAIN resultQ[c]
        BY <2>1, <2>2, HeadTail
      <3> QED  BY <3>1 DEF ResultInv
    <2>5. ASSUME NEW d \in Cores, NEW i \in DOMAIN resultQ'[d] PROVE Computed(resultQ'[d][i])
      <3>1. CASE d = c
        <4>1. resultQ'[d] = Tail(resultQ[c])
          BY <1>0, <2>3, <3>1
        <4>2. i + 1 \in DOMAIN resultQ[c] /\ resultQ'[d][i] = resultQ[c][i + 1]
          BY <2>1, <2>2, <4>1, HeadTail
        <4> QED  BY <4>2 DEF ResultInv
      <3>2. CASE d # c
        BY <1>0, <2>3, <2>5, <3>2 DEF ResultInv
      <3> QED  BY <3>1, <3>2
    <2>6. \A x \in Handlers : IF hpc'[x] = "answer" THEN Computed(result'[x]) ELSE result'[x] = NoResult
      BY <1>0, <2>3, <2>4 DEF ResultInv
    <2> QED  BY <2>5, <2>6 DEF ResultInv
  <1>7. ASSUME NEW h \in Handlers, HandleResult(h) \/ HandlerEnds(h) PROVE ResultInv'
    <2>1. \A x \in Handlers : IF hpc'[x] = "answer" THEN Computed(result'[x]) ELSE result'[x] = NoResult
      BY <1>0, <1>7 DEF ResultInv, HandleResult, HandlerEnds
    <2> QED  BY <1>7, <2>1 DEF ResultInv, HandleResult, HandlerEnds
  <1> QED  BY <1>2, <1>3, <1>4, <1>5, <1>6, <1>7 DEF Next, Handler

\* Owners that are not the same.
LEMMA Parties ==
  /\ Unissued # Given
  /\ \A m, x : /\ InMaker(m) # Unissued /\ InMaker(m) # Given /\ InMaker(m) # OnStream(x)
               /\ InMaker(m) # InResults(x) /\ InMaker(m) # InHand(x)
  /\ \A c, x : /\ OnStream(c) # Unissued /\ OnStream(c) # Given /\ OnStream(c) # InMaker(x)
               /\ OnStream(c) # InResults(x) /\ OnStream(c) # InHand(x)
  /\ \A c, x : /\ InResults(c) # Unissued /\ InResults(c) # Given /\ InResults(c) # InMaker(x)
               /\ InResults(c) # OnStream(x) /\ InResults(c) # InHand(x)
  /\ \A h, x : /\ InHand(h) # Unissued /\ InHand(h) # Given /\ InHand(h) # InMaker(x)
               /\ InHand(h) # OnStream(x) /\ InHand(h) # InResults(x)
  /\ \A a, b : /\ InMaker(a) = InMaker(b) => a = b
               /\ OnStream(a) = OnStream(b) => a = b
               /\ InResults(a) = InResults(b) => a = b
               /\ InHand(a) = InHand(b) => a = b
  BY DEF Unissued, Given, InMaker, OnStream, InResults, InHand

\* Samples that are not handed on stay where they are.
Same(owner, owner2, ts) == \A s \in Samples : Names(ts, s) => owner2[s] = owner[s]
\* A list of which no sample is handed on.
LEMMA OwnedSame ==
  ASSUME NEW owner, NEW owner2, NEW ts, NEW party, OwnedBy(owner, ts, party), Same(owner, owner2, ts)
  PROVE  OwnedBy(owner2, ts, party)
  BY DEF OwnedBy, Same, Names

\* A queue of which no sample is handed on.
LEMMA AllSame ==
  ASSUME NEW owner, NEW owner2, NEW q, NEW party, AllOwnedBy(owner, q, party),
         \A i \in DOMAIN q : Same(owner, owner2, Answered(q[i]))
  PROVE  AllOwnedBy(owner2, q, party)
  <1>1. \A i \in DOMAIN q : OwnedBy(owner2, Answered(q[i]), party)
    BY OwnedSame DEF AllOwnedBy
  <1> QED  BY <1>1 DEF AllOwnedBy

\* The samples of ts get another owner.
Passes(owner, ts, party) == [s \in Samples |-> IF Names(ts, s) THEN party ELSE owner[s]]
Kept(owner, owner2, from) ==
    /\ \A theirs, other : OwnedBy(owner, theirs, other) /\ other # from => OwnedBy(owner2, theirs, other)
    /\ \A q, other : AllOwnedBy(owner, q, other) /\ other # from => AllOwnedBy(owner2, q, other)

Hands(owner, owner2, ts, from, party) ==
    \A s \in Samples : /\ Names(ts, s) => owner[s] = from /\ owner2[s] = party
                       /\ ~Names(ts, s) => owner2[s] = owner[s]

\* The samples of one list change hands, all other lists and queues stay.
LEMMA PassesStep ==
  ASSUME NEW owner \in [Samples -> Owners], NEW ts, NEW from, OwnedBy(owner, ts, from),
         NEW party \in Owners, NEW owner2, owner2 = Passes(owner, ts, party)
  PROVE  /\ owner2 \in [Samples -> Owners] /\ OwnedBy(owner2, ts, party)
         /\ Kept(owner, owner2, from) /\ Hands(owner, owner2, ts, from, party)
  <1>1. owner2 \in [Samples -> Owners]
    BY DEF Passes
  <1>2. \A s \in Samples : /\ Names(ts, s) => owner[s] = from /\ owner2[s] = party
                           /\ ~Names(ts, s) => owner2[s] = owner[s]
    BY DEF Passes, OwnedBy, Names
  <1>3. OwnedBy(owner2, ts, party)
    BY <1>2 DEF OwnedBy, Names
  <1>4. ASSUME NEW theirs, NEW other, OwnedBy(owner, theirs, other), other # from
        PROVE  Same(owner, owner2, theirs)
    BY <1>2, <1>4 DEF OwnedBy, Same, Names
  <1>5. ASSUME NEW theirs, NEW other, OwnedBy(owner, theirs, other), other # from
        PROVE  OwnedBy(owner2, theirs, other)
    BY <1>4, <1>5, OwnedSame
  <1>6. ASSUME NEW q, NEW other, AllOwnedBy(owner, q, other), other # from
        PROVE  AllOwnedBy(owner2, q, other)
    <2>1. \A i \in DOMAIN q : Same(owner, owner2, Answered(q[i]))
      BY <1>4, <1>6 DEF AllOwnedBy
    <2> QED  BY <1>6, <2>1, AllSame
  <1>7. Kept(owner, owner2, from)
    BY <1>5, <1>6 DEF Kept
  <1> QED  BY <1>1, <1>2, <1>3, <1>7 DEF Hands

\* The first tasks of a maker, and those behind them.
LEMMA OwnedSplit ==
  ASSUME NEW owner, NEW ts \in Seq(TaskType), NEW n \in 0..Len(ts), NEW party, OwnedBy(owner, ts, party),
         NEW front, front = SubSeq(ts, 1, n), NEW back, back = SubSeq(ts, n + 1, Len(ts))
  PROVE  /\ OwnedBy(owner, front, party) /\ OwnedBy(owner, back, party)
         /\ \A s : ~(Names(front, s) /\ Names(back, s))
  <1>1. /\ front \in Seq(TaskType) /\ Len(front) = n /\ back \in Seq(TaskType) /\ Len(back) = Len(ts) - n
        /\ \A i \in 1..n : front[i] = ts[i]
        /\ \A i \in 1..(Len(ts) - n) : back[i] = ts[n + i]
    BY SplitSeq
  <1>2. Len(ts) \in Nat /\ n \in Nat /\ DOMAIN ts = 1..Len(ts)
        /\ DOMAIN front = 1..n /\ DOMAIN back = 1..(Len(ts) - n)
    BY <1>1
  <1>3. \A i \in DOMAIN front : i \in DOMAIN ts /\ front[i] = ts[i] /\ i <= n /\ i \in Nat
    BY <1>1, <1>2
  <1>4. \A i \in DOMAIN back : n + i \in DOMAIN ts /\ back[i] = ts[n + i] /\ i > 0 /\ i \in Nat
    <2>1. \A i \in 1..(Len(ts) - n) : n + i \in 1..Len(ts) /\ i > 0 /\ i \in Nat
      BY <1>2
    <2> QED  BY <1>1, <1>2, <2>1
  <1>5. OwnedBy(owner, front, party)
    BY <1>3 DEF OwnedBy
  <1>6. OwnedBy(owner, back, party)
    <2>1. \A i, j \in DOMAIN back : n + i = n + j => i = j
      BY <1>2, <1>4
    <2>2. \A i \in DOMAIN back : back[i][1] \in Samples /\ back[i] = Task(back[i][1])
                                 /\ owner[back[i][1]] = party
      BY <1>4 DEF OwnedBy
    <2>3. \A i, j \in DOMAIN back : back[i][1] = back[j][1] => n + i = n + j
      BY <1>4 DEF OwnedBy
    <2> QED  BY <2>1, <2>2, <2>3 DEF OwnedBy
  <1>7. ASSUME NEW s, Names(front, s), Names(back, s) PROVE FALSE
    <2>1. PICK i \in DOMAIN front : front[i][1] = s
      BY <1>7 DEF Names
    <2>2. PICK j \in DOMAIN back : back[j][1] = s
      BY <1>7 DEF Names
    <2>3. i = n + j
      BY <1>3, <1>4, <2>1, <2>2 DEF OwnedBy
    <2> QED  BY <1>2, <1>3, <1>4, <2>3
  <1> QED  BY <1>5, <1>6, <1>7

\* A queue without its first batch: its samples are not named behind it.
LEMMA AllTail ==
  ASSUME NEW S, NEW q \in Seq(S), q # <<>>, NEW owner, NEW party, AllOwnedBy(owner, q, party)
  PROVE  /\ AllOwnedBy(owner, Tail(q), party) /\ OwnedBy(owner, Answered(q[1]), party)
         /\ \A i \in DOMAIN Tail(q) : \A s \in Samples :
                ~(Names(Answered(q[1]), s) /\ Names(Answered(Tail(q)[i]), s))
  <1>1. PICK r \in Seq(S) : r = Tail(q)
    BY HeadTail
  <1>2. 1 \in DOMAIN q /\ \A i \in DOMAIN r : i \in Nat \ {0} /\ i + 1 \in DOMAIN q /\ r[i] = q[i + 1]
    BY <1>1, HeadTail, ElementType
  <1>3. OwnedBy(owner, Answered(q[1]), party)
    BY <1>2 DEF AllOwnedBy
  <1>4. \A i, j \in DOMAIN r : i + 1 = j + 1 => i = j
    BY <1>2
  <1>5. AllOwnedBy(owner, r, party)
    BY <1>2, <1>4 DEF AllOwnedBy
  <1>6. ASSUME NEW i \in DOMAIN r, NEW s \in Samples, Names(Answered(q[1]), s), Names(Answered(r[i]), s)
        PROVE  FALSE
    <2>1. i + 1 = 1
      BY <1>2, <1>6 DEF AllOwnedBy
    <2> QED  BY <1>2, <2>1
  <1> QED  BY <1>1, <1>3, <1>5, <1>6

\* A queue with one more batch.
LEMMA AllAppend ==
  ASSUME NEW S, NEW q \in Seq(S), NEW e \in S, NEW owner, NEW party, AllOwnedBy(owner, q, party),
         OwnedBy(owner, Answered(e), party),
         \A i \in DOMAIN q : \A s \in Samples : ~(Names(Answered(e), s) /\ Names(Answered(q[i]), s))
  PROVE  AllOwnedBy(owner, Append(q, e), party)
  <1>1. PICK r \in Seq(S) : r = Append(q, e)
    BY Extended
  <1>2. Len(q) \in Nat /\ DOMAIN q = 1..Len(q) /\ DOMAIN r = 1..(Len(q) + 1)
        /\ (\A i \in 1..Len(q) : r[i] = q[i]) /\ r[Len(q) + 1] = e
    BY <1>1
  <1>3. \A i \in DOMAIN r : (i \in DOMAIN q /\ r[i] = q[i]) \/ (i = Len(q) + 1 /\ r[i] = e)
    BY <1>2
  <1>4. \A i \in DOMAIN r : OwnedBy(owner, Answered(r[i]), party)
    BY <1>3 DEF AllOwnedBy
  <1>5. ASSUME NEW i \in DOMAIN r, NEW j \in DOMAIN r, NEW s \in Samples,
               Names(Answered(r[i]), s), Names(Answered(r[j]), s)
        PROVE  i = j
    BY <1>3, <1>5 DEF AllOwnedBy
  <1>6. AllOwnedBy(owner, r, party)
    BY <1>4, <1>5 DEF AllOwnedBy
  <1> QED  BY <1>1, <1>6

\* A stream with one more launch.
LEMMA AllLaunched ==
  ASSUME NEW q \in Seq(Launches), NEW b \in Bundles, NEW f \in Launches, NEW owner, NEW party,
         AllOwnedBy(owner, q, party), OwnedBy(owner, Answered(f), party),
         \A i \in DOMAIN q : \A s \in Samples : ~(Names(Answered(f), s) /\ Names(Answered(q[i]), s))
  PROVE  AllOwnedBy(owner, q \o <<CopyOf(b), f>>, party)
  <1>0. CopyOf(b) \in Launches
    BY DEF CopyOf, Launches
  <1>1. PICK e \in Launches : e = CopyOf(b)
    BY <1>0
  <1>2. Answered(e) = <<>>
    BY <1>1 DEF CopyOf, Answered
  <1>3. (\A s : ~Names(Answered(e), s)) /\ OwnedBy(owner, Answered(e), party)
    BY <1>2 DEF Names, OwnedBy
  <1>4. PICK r \in Seq(Launches) : r = Append(q, e)
    BY Extended
  <1>5. AllOwnedBy(owner, r, party)
    BY <1>3, <1>4, AllAppend
  <1>6. \A i \in DOMAIN r : (i \in DOMAIN q /\ r[i] = q[i]) \/ r[i] = e
    BY <1>4, Extended
  <1>7. \A i \in DOMAIN r : \A s \in Samples : ~(Names(Answered(f), s) /\ Names(Answered(r[i]), s))
    BY <1>3, <1>6
  <1>8. AllOwnedBy(owner, Append(r, f), party)
    BY <1>5, <1>7, AllAppend
  <1>9. Append(r, f) = q \o <<e, f>>
    <2>0. <<e, f>> \in Seq(Launches) /\ Len(<<e, f>>) = 2 /\ <<e, f>>[1] = e /\ <<e, f>>[2] = f
      OBVIOUS
    <2>1. PICK new \in Seq(Launches) : new = <<e, f>> /\ Len(new) = 2 /\ new[1] = e /\ new[2] = f
      BY <2>0
    <2>2. /\ q \o new \in Seq(Launches) /\ Len(q \o new) = Len(q) + Len(new)
          /\ \A i \in 1..(Len(q) + Len(new)) :
                (q \o new)[i] = IF i <= Len(q) THEN q[i] ELSE new[i - Len(q)]
      BY <2>1, ConcatProperties
    <2>3. /\ Append(r, f) \in Seq(Launches) /\ Len(Append(r, f)) = Len(q) + 2
          /\ \A i \in 1..Len(q) : Append(r, f)[i] = q[i]
          /\ Append(r, f)[Len(q) + 1] = e /\ Append(r, f)[Len(q) + 2] = f
      BY <1>4
    <2>4. \A i \in 1..(Len(q) + 2) : (q \o new)[i] = Append(r, f)[i]
      BY <2>1, <2>2, <2>3
    <2> QED  BY <2>1, <2>2, <2>3, <2>4, SeqEqual
  <1> QED  BY <1>1, <1>4, <1>8, <1>9

\* A step in which owner2 tells, given what it does to each part.
LEMMA OwnerPrimes ==
  ASSUME NEW owner2 \in [Samples -> Owners],
         TellsAnswers(owner2)',
         \A m \in Devices : OwnedBy(owner2, tasks'[m], InMaker(m)),
         \A c \in Cores : AllOwnedBy(owner2, d2h'[c], OnStream(c)),
         \A c \in Cores : AllOwnedBy(owner2, resultQ'[c], InResults(c)),
         \A h \in Handlers : OwnedBy(owner2, Answered(result'[h]), InHand(h))
  PROVE  OwnerInv'
  BY DEF OwnerInv, Tells

\* What is handed on, other than to LoadGen, is issued and unanswered.
LEMMA AnswersKept ==
  ASSUME NEW owner, NEW owner2, TellsAnswers(owner), UNCHANGED <<issued, answers>>,
         NEW ts, NEW from, NEW party, from # Unissued, from # Given, party # Given,
         Hands(owner, owner2, ts, from, party)
  PROVE  TellsAnswers(owner2)'
  <1>1. ASSUME NEW s \in Samples
        PROVE  /\ s > issued => owner2[s] = Unissued
               /\ answers[s] = IF owner2[s] = Given THEN <<Outputs1(s)>> ELSE <<>>
    <2>1. /\ s > issued => owner[s] = Unissued
          /\ answers[s] = IF owner[s] = Given THEN <<Outputs1(s)>> ELSE <<>>
      BY DEF TellsAnswers
    <2>2. CASE Names(ts, s)
      BY <2>1, <2>2 DEF Hands
    <2>3. CASE ~Names(ts, s)
      BY <2>1, <2>3 DEF Hands
    <2> QED  BY <2>2, <2>3
  <1> QED  BY <1>1 DEF TellsAnswers

\* A batch that is taken from a maker goes to the stream of the core.
LEMMA OwnerRuns ==
  ASSUME TypeOK, NEW owner \in [Samples -> Owners], Tells(owner),
         NEW c \in Cores, NEW m \in Devices, NEW n \in 0..Len(tasks[m]), Takes(c, m, n),
         Runs(c, SubSeq(tasks[m], 1, n))
  PROVE  OwnerInv'
  <1>1. QueueType /\ WorkerType /\ aborted \in BOOLEAN
    BY TypeParts DEF QueueType
  <1>2. PICK ts \in Seq(TaskType) : ts = tasks[m]
    BY <1>1 DEF QueueType
  <1>3. n \in 0..Len(ts) /\ OwnedBy(owner, ts, InMaker(m))
    BY <1>2 DEF Tells
  <1>4. PICK taken \in Seq(TaskType), back \in Seq(TaskType) :
            taken = SubSeq(ts, 1, n) /\ back = SubSeq(ts, n + 1, Len(ts))
    BY <1>3, SplitSeq
  <1>5. /\ OwnedBy(owner, taken, InMaker(m)) /\ OwnedBy(owner, back, InMaker(m))
        /\ \A s : ~(Names(taken, s) /\ Names(back, s))
    BY <1>3, <1>4, OwnedSplit
  <1>6. PICK batch \in Seq(TaskType), padded \in BOOLEAN :
            /\ Infer(c, batch, padded)
            /\ \A b : Answered(HostFunction(b, batch, padded)) = taken
    BY <1>2, <1>4 DEF Runs
  <1>7. PICK b \in Bundles : b = bundle[c]
    BY <1>1 DEF WorkerType
  <1>8. PICK f \in Launches : f = HostFunction(b, batch, padded)
    BY <1>1, <1>6, <1>7, InferType
  <1>9. PICK q \in Seq(Launches) : q = d2h[c]
    BY <1>1 DEF WorkerType
  <1>10. /\ d2h' = [d2h EXCEPT ![c] = q \o <<CopyOf(b), f>>]
         /\ tasks' = [tasks EXCEPT ![m] = back] /\ Answered(f) = taken
         /\ UNCHANGED <<issued, answers, resultQ, result>>
    BY <1>2, <1>4, <1>6, <1>7, <1>8, <1>9 DEF Infer, Takes, TakeAway, handlerVars
  <1>11. OnStream(c) \in Owners
    BY DEF Owners
  <1>12. PICK owner2 : owner2 = Passes(owner, taken, OnStream(c))
    OBVIOUS
  <1>13. /\ owner2 \in [Samples -> Owners] /\ OwnedBy(owner2, taken, OnStream(c))
         /\ Kept(owner, owner2, InMaker(m)) /\ Hands(owner, owner2, taken, InMaker(m), OnStream(c))
    <2>1. OwnedBy(owner, taken, InMaker(m))
      BY <1>5
    <2> QED  BY <1>11, <1>12, <2>1, PassesStep
  <1>14. TellsAnswers(owner2)'
    <2>1. TellsAnswers(owner) /\ UNCHANGED <<issued, answers>>
      BY <1>10 DEF Tells
    <2>2. InMaker(m) # Unissued /\ InMaker(m) # Given /\ OnStream(c) # Given
      BY Parties
    <2> QED  BY <1>13, <2>1, <2>2, AnswersKept
  <1>15. ASSUME NEW l \in Devices PROVE OwnedBy(owner2, tasks'[l], InMaker(l))
    <2>1. CASE l = m
      <3>1. Same(owner, owner2, back)
        BY <1>5, <1>13 DEF Same, Hands
      <3>2. OwnedBy(owner2, back, InMaker(m))
        BY <1>5, <3>1, OwnedSame
      <3> QED  BY <1>1, <1>10, <2>1, <3>2 DEF QueueType
    <2>2. CASE l # m
      <3>1. tasks'[l] = tasks[l] /\ InMaker(l) # InMaker(m)
        BY <1>1, <1>10, <2>2, Parties DEF QueueType
      <3> QED  BY <1>13, <3>1 DEF Kept, Tells
    <2> QED  BY <2>1, <2>2
  <1>16. ASSUME NEW d \in Cores PROVE AllOwnedBy(owner2, d2h'[d], OnStream(d))
    <2>1. AllOwnedBy(owner2, d2h[d], OnStream(d))
      BY <1>13, Parties DEF Kept, Tells
    <2>2. CASE d = c
      <3>1. \A i \in DOMAIN q : \A s \in Samples : ~(Names(taken, s) /\ Names(Answered(q[i]), s))
        <4>1. \A i \in DOMAIN q : OwnedBy(owner, Answered(q[i]), OnStream(c))
          BY <1>9 DEF Tells, AllOwnedBy
        <4>2. \A i \in DOMAIN q : \A s \in Samples : Names(Answered(q[i]), s) => owner[s] = OnStream(c)
          BY <4>1 DEF OwnedBy, Names
        <4> QED  BY <1>13, <4>2, Parties DEF Hands
      <3>2. AllOwnedBy(owner2, q \o <<CopyOf(b), f>>, OnStream(c))
        BY <1>9, <1>10, <1>13, <2>1, <2>2, <3>1, AllLaunched
      <3> QED  BY <1>1, <1>10, <2>2, <3>2 DEF WorkerType
    <2>3. CASE d # c
      BY <1>1, <1>10, <2>1, <2>3 DEF WorkerType
    <2> QED  BY <2>2, <2>3
  <1>17. \A d \in Cores : AllOwnedBy(owner2, resultQ'[d], InResults(d))
    BY <1>10, <1>13, Parties DEF Kept, Tells
  <1>18. \A h \in Handlers : OwnedBy(owner2, Answered(result'[h]), InHand(h))
    BY <1>10, <1>13, Parties DEF Kept, Tells
  <1> QED  BY <1>13, <1>14, <1>15, <1>16, <1>17, <1>18, OwnerPrimes

\* A worker that ends takes nothing, a copy has no tasks: no owner changes.
LEMMA OwnerSame ==
  ASSUME NEW owner \in [Samples -> Owners], Tells(owner), UNCHANGED <<issued, answers, resultQ, result>>,
         \A m \in Devices : OwnedBy(owner, tasks'[m], InMaker(m)),
         \A c \in Cores : AllOwnedBy(owner, d2h'[c], OnStream(c))
  PROVE  OwnerInv'
  <1>1. TellsAnswers(owner)'
    BY DEF Tells, TellsAnswers
  <1> QED  BY <1>1, OwnerPrimes DEF Tells

\* A worker that takes the first tasks of a maker.
LEMMA OwnerTakes ==
  ASSUME TypeOK, OwnerInv, NEW c \in Cores, NEW m \in Devices, NEW n \in 0..Len(tasks[m]), Takes(c, m, n)
  PROVE  OwnerInv'
  <1>1. PICK owner \in [Samples -> Owners] : Tells(owner)
    BY DEF OwnerInv
  <1>2. CASE Runs(c, SubSeq(tasks[m], 1, n))
    BY <1>1, <1>2, OwnerRuns
  <1>3. CASE Leaves(c, SubSeq(tasks[m], 1, n))
    <2>1. tasks \in [Devices -> Seq(TaskType)]
      BY TypeParts DEF QueueType
    <2>2. PICK ts \in Seq(TaskType) : ts = tasks[m]
      BY <2>1
    <2>3. n \in 0..Len(ts) /\ OwnedBy(owner, ts, InMaker(m))
      BY <1>1, <2>2 DEF Tells
    <2>4. PICK front \in Seq(TaskType), back \in Seq(TaskType) :
            front = SubSeq(ts, 1, n) /\ back = SubSeq(ts, n + 1, Len(ts))
      BY <2>3, SplitSeq
    <2>5. OwnedBy(owner, back, InMaker(m))
      BY <2>3, <2>4, OwnedSplit
    <2>6. /\ tasks' = [tasks EXCEPT ![m] = back]
          /\ UNCHANGED <<issued, answers, resultQ, result, d2h>>
      BY <1>3, <2>2, <2>4 DEF Takes, TakeAway, Leaves, streamVars, handlerVars
    <2>7. \A l \in Devices : OwnedBy(owner, tasks'[l], InMaker(l))
      BY <1>1, <2>1, <2>5, <2>6 DEF Tells
    <2>8. \A d \in Cores : AllOwnedBy(owner, d2h'[d], OnStream(d))
      BY <1>1, <2>6 DEF Tells
    <2> QED  BY <1>1, <2>6, <2>7, <2>8, OwnerSame
  <1> QED  BY <1>2, <1>3 DEF Takes

\* A copy takes nothing with it.
LEMMA OwnerCopyOut ==
  ASSUME TypeOK, OwnerInv, NEW c \in Cores, CopyOut(c)
  PROVE  OwnerInv'
  <1>1. PICK owner \in [Samples -> Owners] : Tells(owner)
    BY DEF OwnerInv
  <1>2. d2h \in [Cores -> Seq(Launches)]
    BY TypeParts DEF WorkerType
  <1>3. /\ d2h[c] # <<>> /\ d2h' = [d2h EXCEPT ![c] = Tail(d2h[c])]
        /\ UNCHANGED <<tasks, issued, answers, resultQ, result>>
    BY DEF CopyOut, queueVars, handlerVars
  <1>4. PICK q \in Seq(Launches) : q = d2h[c]
    BY <1>2
  <1>5. AllOwnedBy(owner, q, OnStream(c)) /\ q # <<>>
    BY <1>1, <1>3, <1>4 DEF Tells
  <1>6. AllOwnedBy(owner, Tail(q), OnStream(c))
    BY <1>5, AllTail
  <1>7. \A d \in Cores : AllOwnedBy(owner, d2h'[d], OnStream(d))
    BY <1>1, <1>2, <1>3, <1>4, <1>6 DEF Tells
  <1>8. \A m \in Devices : OwnedBy(owner, tasks'[m], InMaker(m))
    BY <1>1, <1>3 DEF Tells
  <1> QED  BY <1>1, <1>3, <1>7, <1>8, OwnerSame

\* The tasks of the host function go to the result queue of the core.
LEMMA OwnerEnqueue ==
  ASSUME TypeOK, OwnerInv, StreamInv, DataInv, NEW c \in Cores, Enqueue(c)
  PROVE  OwnerInv'
  <1>1. PICK owner \in [Samples -> Owners] : Tells(owner)
    BY DEF OwnerInv
  <1>2. d2h \in [Cores -> Seq(Launches)] /\ resultQ \in [Cores -> Seq(Results)]
    BY TypeParts DEF WorkerType, HandlerType
  <1>3. PICK f \in Launches, r \in Results : Queues(c, f, r)
    BY EnqueueStep
  <1>4. PICK q \in Seq(Launches), p \in Seq(Results) : q = d2h[c] /\ p = resultQ[c]
    BY <1>2
  <1>5. /\ q # <<>> /\ f = q[1] /\ Answered(r) = Answered(f)
        /\ d2h' = [d2h EXCEPT ![c] = Tail(q)] /\ resultQ' = [resultQ EXCEPT ![c] = Append(p, r)]
        /\ UNCHANGED <<tasks, issued, answers, result>>
    BY <1>3, <1>4 DEF Queues, Enqueue, queueVars
  <1>6. AllOwnedBy(owner, q, OnStream(c)) /\ AllOwnedBy(owner, p, InResults(c))
    BY <1>1, <1>4 DEF Tells
  <1>7. /\ AllOwnedBy(owner, Tail(q), OnStream(c)) /\ OwnedBy(owner, Answered(q[1]), OnStream(c))
        /\ \A i \in DOMAIN Tail(q) : \A s \in Samples :
                ~(Names(Answered(q[1]), s) /\ Names(Answered(Tail(q)[i]), s))
    BY <1>5, <1>6, AllTail
  <1>8. PICK ts : ts = Answered(q[1]) /\ ts = Answered(r)
    BY <1>5
  <1>9. InResults(c) \in Owners /\ OwnedBy(owner, ts, OnStream(c))
    BY <1>7, <1>8 DEF Owners
  <1>10. PICK owner2 : owner2 = Passes(owner, ts, InResults(c))
    OBVIOUS
  <1>11. /\ owner2 \in [Samples -> Owners] /\ OwnedBy(owner2, ts, InResults(c))
         /\ Kept(owner, owner2, OnStream(c)) /\ Hands(owner, owner2, ts, OnStream(c), InResults(c))
    BY <1>9, <1>10, PassesStep
  <1>12. TellsAnswers(owner2)'
    <2>1. TellsAnswers(owner) /\ UNCHANGED <<issued, answers>>
      BY <1>1, <1>5 DEF Tells
    <2>2. OnStream(c) # Unissued /\ OnStream(c) # Given /\ InResults(c) # Given
      BY Parties
    <2> QED  BY <1>11, <2>1, <2>2, AnswersKept
  <1>13. \A m \in Devices : OwnedBy(owner2, tasks'[m], InMaker(m))
    BY <1>1, <1>5, <1>11, Parties DEF Kept, Tells
  <1>14. ASSUME NEW d \in Cores PROVE AllOwnedBy(owner2, d2h'[d], OnStream(d))
    <2>1. CASE d = c
      <3>1. \A i \in DOMAIN Tail(q) : Same(owner, owner2, Answered(Tail(q)[i]))
        BY <1>7, <1>8, <1>11 DEF Same, Hands
      <3>2. AllOwnedBy(owner2, Tail(q), OnStream(c))
        BY <1>7, <3>1, AllSame
      <3> QED  BY <1>2, <1>5, <2>1, <3>2
    <2>2. CASE d # c
      <3>1. d2h'[d] = d2h[d] /\ OnStream(d) # OnStream(c)
        BY <1>2, <1>5, <2>2, Parties
      <3> QED  BY <1>1, <1>11, <3>1 DEF Kept, Tells
    <2> QED  BY <2>1, <2>2
  <1>15. ASSUME NEW d \in Cores PROVE AllOwnedBy(owner2, resultQ'[d], InResults(d))
    <2>1. AllOwnedBy(owner2, resultQ[d], InResults(d))
      BY <1>1, <1>11, Parties DEF Kept, Tells
    <2>2. CASE d = c
      <3>1. \A i \in DOMAIN p : \A s \in Samples : ~(Names(ts, s) /\ Names(Answered(p[i]), s))
        <4>1. \A i \in DOMAIN p : OwnedBy(owner, Answered(p[i]), InResults(c))
          BY <1>6 DEF AllOwnedBy
        <4>2. \A i \in DOMAIN p : \A s \in Samples : Names(Answered(p[i]), s) => owner[s] = InResults(c)
          BY <4>1 DEF OwnedBy, Names
        <4> QED  BY <1>11, <4>2, Parties DEF Hands
      <3>2. AllOwnedBy(owner2, Append(p, r), InResults(c))
        BY <1>4, <1>8, <1>11, <2>1, <2>2, <3>1, AllAppend
      <3> QED  BY <1>2, <1>5, <2>2, <3>2
    <2>3. CASE d # c
      BY <1>2, <1>5, <2>1, <2>3
    <2> QED  BY <2>2, <2>3
  <1>16. \A h \in Handlers : OwnedBy(owner2, Answered(result'[h]), InHand(h))
    BY <1>1, <1>5, <1>11, Parties DEF Kept, Tells
  <1> QED  BY <1>11, <1>12, <1>13, <1>14, <1>15, <1>16, OwnerPrimes

\* The tasks of a result go to the handler that takes it.
LEMMA OwnerTakeResult ==
  ASSUME TypeOK, OwnerInv, NEW h \in Handlers, TakeResult(h)
  PROVE  OwnerInv'
  <1>1. PICK owner \in [Samples -> Owners] : Tells(owner)
    BY DEF OwnerInv
  <1>2. resultQ \in [Cores -> Seq(Results)] /\ result \in [Handlers -> Results]
    BY TypeParts DEF HandlerType
  <1>3. PICK c \in Cores : c = h[1]
    BY ConstantTypes
  <1>4. PICK p \in Seq(Results) : p = resultQ[c]
    BY <1>2
  <1>5. p # <<>>
    BY <1>3, <1>4 DEF TakeResult
  <1>6. PICK r \in Results : r = Head(p) /\ r = p[1]
    BY <1>5, HeadTail
  <1>7. /\ resultQ' = [resultQ EXCEPT ![c] = Tail(p)] /\ result' = [result EXCEPT ![h] = r]
        /\ UNCHANGED <<tasks, issued, answers, d2h>>
    BY <1>3, <1>4, <1>6 DEF TakeResult, queueVars, streamVars
  <1>8. AllOwnedBy(owner, p, InResults(c))
    BY <1>1, <1>4 DEF Tells
  <1>9. /\ AllOwnedBy(owner, Tail(p), InResults(c)) /\ OwnedBy(owner, Answered(p[1]), InResults(c))
        /\ \A i \in DOMAIN Tail(p) : \A s \in Samples :
                ~(Names(Answered(p[1]), s) /\ Names(Answered(Tail(p)[i]), s))
    BY <1>5, <1>8, AllTail
  <1>10. PICK ts : ts = Answered(r) /\ ts = Answered(p[1])
    BY <1>6
  <1>11. InHand(h) \in Owners /\ OwnedBy(owner, ts, InResults(c))
    BY <1>9, <1>10 DEF Owners
  <1>12. PICK owner2 : owner2 = Passes(owner, ts, InHand(h))
    OBVIOUS
  <1>13. /\ owner2 \in [Samples -> Owners] /\ OwnedBy(owner2, ts, InHand(h))
         /\ Kept(owner, owner2, InResults(c)) /\ Hands(owner, owner2, ts, InResults(c), InHand(h))
    BY <1>11, <1>12, PassesStep
  <1>14. TellsAnswers(owner2)'
    <2>1. TellsAnswers(owner) /\ UNCHANGED <<issued, answers>>
      BY <1>1, <1>7 DEF Tells
    <2>2. InResults(c) # Unissued /\ InResults(c) # Given /\ InHand(h) # Given
      BY Parties
    <2> QED  BY <1>13, <2>1, <2>2, AnswersKept
  <1>15. \A m \in Devices : OwnedBy(owner2, tasks'[m], InMaker(m))
    BY <1>1, <1>7, <1>13, Parties DEF Kept, Tells
  <1>16. \A d \in Cores : AllOwnedBy(owner2, d2h'[d], OnStream(d))
    BY <1>1, <1>7, <1>13, Parties DEF Kept, Tells
  <1>17. ASSUME NEW d \in Cores PROVE AllOwnedBy(owner2, resultQ'[d], InResults(d))
    <2>1. CASE d = c
      <3>1. \A i \in DOMAIN Tail(p) : Same(owner, owner2, Answered(Tail(p)[i]))
        BY <1>9, <1>10, <1>13 DEF Same, Hands
      <3>2. AllOwnedBy(owner2, Tail(p), InResults(c))
        BY <1>9, <3>1, AllSame
      <3> QED  BY <1>2, <1>7, <2>1, <3>2
    <2>2. CASE d # c
      <3>1. resultQ'[d] = resultQ[d] /\ InResults(d) # InResults(c)
        BY <1>2, <1>7, <2>2, Parties
      <3> QED  BY <1>1, <1>13, <3>1 DEF Kept, Tells
    <2> QED  BY <2>1, <2>2
  <1>18. ASSUME NEW x \in Handlers PROVE OwnedBy(owner2, Answered(result'[x]), InHand(x))
    <2>1. CASE x = h
      BY <1>2, <1>7, <1>10, <1>13, <2>1
    <2>2. CASE x # h
      BY <1>1, <1>2, <1>7, <1>13, <2>2, Parties DEF Kept, Tells
    <2> QED  BY <2>1, <2>2
  <1> QED  BY <1>13, <1>14, <1>15, <1>16, <1>17, <1>18, OwnerPrimes

\* A handler gives LoadGen the outputs of its tasks.
LEMMA OwnerHandleResult ==
  ASSUME TypeOK, ResultInv, OwnerInv, NEW h \in Handlers, HandleResult(h)
  PROVE  OwnerInv'
  <1>1. PICK owner \in [Samples -> Owners] : Tells(owner)
    BY DEF OwnerInv
  <1>2. result \in [Handlers -> Results] /\ answers \in [Samples -> Seq(Outputs)]
    BY TypeParts DEF HandlerType
  <1>3. PICK r \in Results : r = result[h]
    BY <1>2
  <1>4. Computed(r)
    BY <1>3 DEF ResultInv, HandleResult
  <1>5. PICK ts : ts = Answered(r)
    OBVIOUS
  <1>6. OwnedBy(owner, ts, InHand(h)) /\ Given \in Owners
    BY <1>1, <1>3, <1>5 DEF Tells, Owners
  <1>7. \A s \in Samples : answers'[s] = IF Names(ts, s) THEN Gets(s) ELSE answers[s]
    BY <1>2, <1>3, <1>4, <1>5, <1>6, AnswerStep
  <1>8. result' = [result EXCEPT ![h] = NoResult] /\ UNCHANGED <<tasks, issued, d2h, resultQ>>
    BY DEF HandleResult, queueVars, streamVars
  <1>9. PICK owner2 : owner2 = Passes(owner, ts, Given)
    OBVIOUS
  <1>10. /\ owner2 \in [Samples -> Owners]
         /\ Kept(owner, owner2, InHand(h)) /\ Hands(owner, owner2, ts, InHand(h), Given)
    BY <1>6, <1>9, PassesStep
  <1>11. ASSUME NEW s \in Samples
         PROVE  /\ s > issued' => owner2[s] = Unissued
                /\ answers'[s] = IF owner2[s] = Given THEN <<Outputs1(s)>> ELSE <<>>
    <2>1. /\ s > issued => owner[s] = Unissued
          /\ answers[s] = IF owner[s] = Given THEN <<Outputs1(s)>> ELSE <<>>
      BY <1>1 DEF Tells, TellsAnswers
    <2>2. CASE Names(ts, s)
      <3>1. owner[s] = InHand(h) /\ owner2[s] = Given
        BY <1>10, <2>2 DEF Hands
      <3>2. ~(s > issued) /\ answers[s] = <<>>
        BY <2>1, <3>1, Parties
      <3>3. Append(<<>>, Outputs1(s)) = <<Outputs1(s)>>
        OBVIOUS
      <3> QED  BY <1>7, <1>8, <2>2, <3>1, <3>2, <3>3 DEF Gets
    <2>3. CASE ~Names(ts, s)
      BY <1>7, <1>8, <1>10, <2>1, <2>3 DEF Hands
    <2> QED  BY <2>2, <2>3
  <1>12. TellsAnswers(owner2)'
    BY <1>11 DEF TellsAnswers
  <1>13. \A m \in Devices : OwnedBy(owner2, tasks'[m], InMaker(m))
    BY <1>1, <1>8, <1>10, Parties DEF Kept, Tells
  <1>14. \A c \in Cores : AllOwnedBy(owner2, d2h'[c], OnStream(c))
    BY <1>1, <1>8, <1>10, Parties DEF Kept, Tells
  <1>15. \A c \in Cores : AllOwnedBy(owner2, resultQ'[c], InResults(c))
    BY <1>1, <1>8, <1>10, Parties DEF Kept, Tells
  <1>16. ASSUME NEW x \in Handlers PROVE OwnedBy(owner2, Answered(result'[x]), InHand(x))
    <2>1. CASE x = h
      <3>1. result'[x] = NoResult
        BY <1>2, <1>8, <2>1
      <3>2. Answered(NoResult) = <<>>
        BY DEF NoResult, Answered
      <3> QED  BY <3>1, <3>2 DEF OwnedBy
    <2>2. CASE x # h
      BY <1>1, <1>2, <1>8, <1>10, <2>2, Parties DEF Kept, Tells
    <2> QED  BY <2>1, <2>2
  <1> QED  BY <1>10, <1>12, <1>13, <1>14, <1>15, <1>16, OwnerPrimes

\* Two lists of different tasks of an owner make one.
LEMMA OwnedConcat ==
  ASSUME NEW ts \in Seq(TaskType), NEW us \in Seq(TaskType), NEW owner, NEW party,
         OwnedBy(owner, ts, party), OwnedBy(owner, us, party), \A s : ~(Names(ts, s) /\ Names(us, s))
  PROVE  OwnedBy(owner, ts \o us, party)
  <1>1. PICK r \in Seq(TaskType) : /\ r = ts \o us /\ Len(r) = Len(ts) + Len(us)
                                   /\ \A i \in 1..(Len(ts) + Len(us)) :
                                        r[i] = IF i <= Len(ts) THEN ts[i] ELSE us[i - Len(ts)]
    <2>1. /\ ts \o us \in Seq(TaskType) /\ Len(ts \o us) = Len(ts) + Len(us)
          /\ \A i \in 1..(Len(ts) + Len(us)) :
                (ts \o us)[i] = IF i <= Len(ts) THEN ts[i] ELSE us[i - Len(ts)]
      BY ConcatProperties
    <2> QED  BY <2>1
  <1>2. Len(ts) \in Nat /\ Len(us) \in Nat /\ DOMAIN ts = 1..Len(ts) /\ DOMAIN us = 1..Len(us)
        /\ DOMAIN r = 1..(Len(ts) + Len(us))
    BY <1>1
  <1>3. \A i \in DOMAIN r : \/ i \in DOMAIN ts /\ r[i] = ts[i]
                            \/ i - Len(ts) \in DOMAIN us /\ r[i] = us[i - Len(ts)]
    BY <1>1, <1>2
  <1>4. \A i \in DOMAIN r :
            r[i][1] \in Samples /\ r[i] = Task(r[i][1]) /\ owner[r[i][1]] = party
    BY <1>3 DEF OwnedBy
  <1>5. ASSUME NEW i \in DOMAIN r, NEW j \in DOMAIN r, r[i][1] = r[j][1] PROVE i = j
    <2>1. CASE i \in DOMAIN ts /\ r[i] = ts[i] /\ j \in DOMAIN ts /\ r[j] = ts[j]
      BY <1>5, <2>1 DEF OwnedBy
    <2>2. CASE /\ i - Len(ts) \in DOMAIN us /\ r[i] = us[i - Len(ts)]
               /\ j - Len(ts) \in DOMAIN us /\ r[j] = us[j - Len(ts)]
      <3>1. i - Len(ts) = j - Len(ts)
        BY <1>5, <2>2 DEF OwnedBy
      <3> QED  BY <1>2, <3>1
    <2>3. CASE i \in DOMAIN ts /\ r[i] = ts[i] /\ j - Len(ts) \in DOMAIN us /\ r[j] = us[j - Len(ts)]
      BY <1>5, <2>3 DEF Names
    <2>4. CASE i - Len(ts) \in DOMAIN us /\ r[i] = us[i - Len(ts)] /\ j \in DOMAIN ts /\ r[j] = ts[j]
      BY <1>5, <2>4 DEF Names
    <2> QED  BY <1>3, <2>1, <2>2, <2>3, <2>4
  <1>6. OwnedBy(owner, r, party)
    BY <1>4, <1>5 DEF OwnedBy
  <1> QED  BY <1>1, <1>6

\* The samples of a query, none of which was issued before, go to the batch makers.
LEMMA OwnerIssue ==
  ASSUME TypeOK, OwnerInv, NEW n \in QuerySizes, IssueQuery(n)
  PROVE  OwnerInv'
  <1>0. QueueType
    BY TypeParts
  <1>1. PICK owner \in [Samples -> Owners] : Tells(owner)
    BY DEF OwnerInv
  <1>2. PICK first \in [Devices -> Nat], count \in [Devices -> Nat] : Deals(n, first, count)
    BY <1>0, IssueStep
  <1>3. /\ n \in Nat /\ issued \in Nat /\ issued + n <= Len(Pairs) /\ issued' = issued + n
        /\ UNCHANGED <<answers, d2h, resultQ, result>>
    BY <1>0, IssueStep DEF IssueQuery, streamVars, handlerVars
  <1> DEFINE maker(s) == CHOOSE m \in Devices : Part(first, count, m, s)
             Dealt(s) == \E m \in Devices : Part(first, count, m, s)
  <1>4. PICK owner2 : owner2 = [s \in Samples |-> IF Dealt(s) THEN InMaker(maker(s)) ELSE owner[s]]
    OBVIOUS
  <1>5. ASSUME NEW s \in Samples, NEW m \in Devices, Part(first, count, m, s)
        PROVE  /\ owner2[s] = InMaker(m) /\ owner[s] = Unissued /\ answers[s] = <<>>
               /\ s > issued /\ s <= issued + n
    <2>1. maker(s) = m
      BY <1>2, <1>5 DEF Deals
    <2>2. s > issued /\ s <= issued + n
      <3>1. PICK f, k \in Nat : f = first[m] /\ k = count[m]
        OBVIOUS
      <3>2. issued <= f /\ f + k <= issued + n /\ f < s /\ s <= f + k
        BY <1>2, <1>5, <3>1 DEF Deals, Part
      <3> QED  BY <1>3, <3>1, <3>2, ConstantTypes
    <2>3. owner[s] = Unissued /\ answers[s] = <<>>
      BY <1>1, <2>2, Parties DEF Tells, TellsAnswers
    <2> HIDE DEF maker
    <2> QED  BY <1>4, <1>5, <2>1, <2>2, <2>3
  <1>6. \A s \in Samples : ~Dealt(s) => owner2[s] = owner[s]
    BY <1>4
  <1>7. owner2 \in [Samples -> Owners]
    <2>1. ASSUME NEW s \in Samples PROVE owner2[s] \in Owners
      BY <1>5, <1>6 DEF Owners
    <2> HIDE DEF maker, Dealt
    <2> QED  BY <1>4, <2>1
  <1>8. ASSUME NEW ts, NEW party, OwnedBy(owner, ts, party), party # Unissued
        PROVE  OwnedBy(owner2, ts, party) /\ \A s \in Samples : Names(ts, s) => s <= issued
    <2>1. \A s \in Samples : Names(ts, s) => owner[s] = party
      BY <1>8 DEF OwnedBy, Names
    <2>2. Same(owner, owner2, ts)
      BY <1>5, <1>6, <1>8, <2>1 DEF Same
    <2>3. \A s \in Samples : Names(ts, s) => ~(s > issued)
      <3>1. \A s \in Samples : s > issued => owner[s] = Unissued
        BY <1>1 DEF Tells, TellsAnswers
      <3> QED  BY <1>8, <2>1, <3>1
    <2>4. \A s \in Samples : ~(s > issued) => s <= issued
      BY <1>3, ConstantTypes
    <2> QED  BY <1>8, <2>2, <2>3, <2>4, OwnedSame
  <1>9. ASSUME NEW q, NEW party, AllOwnedBy(owner, q, party), party # Unissued
        PROVE  AllOwnedBy(owner2, q, party)
    BY <1>8, <1>9 DEF AllOwnedBy
  <1>10. ASSUME NEW m \in Devices PROVE OwnedBy(owner2, tasks'[m], InMaker(m))
    <2>1. PICK f, k \in Nat : f = first[m] /\ k = count[m]
      OBVIOUS
    <2>2. issued <= f /\ f + k <= issued + n /\ (tasks'[m] = <<>> \/ tasks'[m] = Give(m, f, k))
      BY <1>2, <2>1 DEF Deals
    <2>3. f + k <= Len(Pairs) /\ tasks[m] \in Seq(TaskType)
      BY <1>0, <1>3, <2>1, <2>2, ConstantTypes DEF QueueType
    <2>4. PICK given \in Seq(TaskType) :
            /\ Len(given) = k /\ Give(m, f, k) = tasks[m] \o given
            /\ \A i \in 1..k : f + i \in Samples /\ given[i] = Task(f + i)
      <3> DEFINE new == [i \in 1..k |-> Task(f + i)]
      <3>1. /\ new \in Seq(TaskType) /\ Len(new) = k /\ Give(m, f, k) = tasks[m] \o new
            /\ \A i \in 1..k : f + i \in Samples /\ new[i] = Task(f + i)
        BY <2>3, GiveType
      <3> HIDE DEF new
      <3> QED  BY <3>1
    <2>5. DOMAIN given = 1..k
      BY <2>4
    <2>6. \A i \in 1..k : f + i \in Samples /\ given[i] = Task(f + i) /\ given[i][1] = f + i
      BY <2>4, ConstantTypes
    <2>7. \A i \in 1..k : Part(first, count, m, f + i)
      BY <2>1 DEF Part
    <2>8. OwnedBy(owner2, given, InMaker(m))
      <3>1. \A i \in 1..k : owner2[f + i] = InMaker(m)
        BY <1>5, <2>6, <2>7
      <3>2. \A i, j \in 1..k : f + i = f + j => i = j
        BY <2>1
      <3>3. \A i \in 1..k : given[i][1] \in Samples /\ given[i] = Task(given[i][1])
                            /\ owner2[given[i][1]] = InMaker(m)
        BY <2>6, <3>1
      <3>4. \A i, j \in 1..k : given[i][1] = given[j][1] => i = j
        BY <2>6, <3>2
      <3> QED  BY <2>5, <3>3, <3>4 DEF OwnedBy
    <2>9. OwnedBy(owner2, tasks[m], InMaker(m)) /\ \A s \in Samples : Names(tasks[m], s) => s <= issued
      BY <1>1, <1>8, Parties DEF Tells
    <2>10. ASSUME NEW s, Names(tasks[m], s), Names(given, s) PROVE FALSE
      <3>1. PICK i \in 1..k : s = f + i
        BY <2>5, <2>6, <2>10 DEF Names
      <3>2. s \in Samples /\ s <= issued
        BY <2>6, <2>9, <2>10, <3>1
      <3> QED  BY <1>3, <2>1, <2>2, <3>1, <3>2
    <2>11. OwnedBy(owner2, tasks[m] \o given, InMaker(m))
      BY <2>3, <2>8, <2>9, <2>10, OwnedConcat
    <2>12. OwnedBy(owner2, <<>>, InMaker(m))
      BY DEF OwnedBy
    <2> QED  BY <2>2, <2>4, <2>11, <2>12
  <1>11. \A c \in Cores : AllOwnedBy(owner2, d2h'[c], OnStream(c))
    BY <1>1, <1>3, <1>9, Parties DEF Tells
  <1>12. \A c \in Cores : AllOwnedBy(owner2, resultQ'[c], InResults(c))
    BY <1>1, <1>3, <1>9, Parties DEF Tells
  <1>13. \A h \in Handlers : OwnedBy(owner2, Answered(result'[h]), InHand(h))
    BY <1>1, <1>3, <1>8, Parties DEF Tells
  <1>14. ASSUME NEW s \in Samples
         PROVE  /\ s > issued' => owner2[s] = Unissued
                /\ answers'[s] = IF owner2[s] = Given THEN <<Outputs1(s)>> ELSE <<>>
    <2>1. CASE Dealt(s)
      <3>1. PICK m \in Devices : Part(first, count, m, s)
        BY <2>1
      <3>2. owner2[s] = InMaker(m) /\ answers[s] = <<>> /\ s <= issued + n
        BY <1>5, <3>1
      <3>3. ~(s > issued')
        BY <1>3, <3>2, ConstantTypes
      <3> QED  BY <1>3, <3>2, <3>3, Parties
    <2>2. CASE ~Dealt(s)
      <3>1. s > issued' => s > issued
        BY <1>3, ConstantTypes
      <3> QED  BY <1>1, <1>3, <1>6, <2>2, <3>1 DEF Tells, TellsAnswers
    <2> QED  BY <2>1, <2>2
  <1>15. TellsAnswers(owner2)'
    BY <1>14 DEF TellsAnswers
  <1> QED  BY <1>7, <1>10, <1>11, <1>12, <1>13, <1>15, OwnerPrimes

\* Every step keeps the owners.
LEMMA OwnerNext ==
  ASSUME TypeOK, StreamInv, DataInv, ResultInv, OwnerInv, Next
  PROVE  OwnerInv'
  <1>1. ASSUME UNCHANGED <<issued, tasks, answers, d2h, resultQ, result>> PROVE OwnerInv'
    <2>1. PICK owner \in [Samples -> Owners] : Tells(owner)
      BY DEF OwnerInv
    <2> QED  BY <1>1, <2>1, OwnerSame DEF Tells
  <1>2. CASE LoadGen
    BY <1>1, <1>2, OwnerIssue DEF LoadGen, StopWork, queueVars, streamVars, handlerVars
  <1>3. CASE Finished
    BY <1>1, <1>3 DEF Finished, vars, queueVars, streamVars, handlerVars
  <1>4. ASSUME NEW c \in Cores, Worker(c) PROVE OwnerInv'
    <2>1. CASE GetFromMaker(c) \/ GetFromDevice(c)
      <3>1. QueueType
        BY TypeParts
      <3>2. PICK m \in Devices : \E n \in 0..Len(tasks[m]) : Takes(c, m, n)
        BY <2>1, <3>1, GetStep
      <3> QED  BY <3>2, OwnerTakes
    <2>2. CASE SyncBundle(c) \/ WorkerEnds(c)
      BY <1>1, <2>2 DEF SyncBundle, WorkerEnds, queueVars, streamVars, handlerVars
    <2> QED  BY <1>4, <2>1, <2>2 DEF Worker
  <1>5. ASSUME NEW c \in Cores, Compute(c) PROVE OwnerInv'
    BY <1>1, <1>5 DEF Compute, queueVars, handlerVars
  <1>6. ASSUME NEW h \in Handlers, HandlerEnds(h) PROVE OwnerInv'
    BY <1>1, <1>6 DEF HandlerEnds, queueVars, streamVars
  <1> QED  BY <1>2, <1>3, <1>4, <1>5, <1>6, OwnerCopyOut, OwnerEnqueue, OwnerTakeResult,
              OwnerHandleResult DEF Next, Handler

-----------------------------------------------------------------------------
(***************************************************************************)
(* The inductive invariant, and what follows from it.                      *)
(***************************************************************************)
LEMMA InitInv == Init => IInv
  <1> SUFFICES ASSUME Init PROVE IInv
    OBVIOUS
  <1>1. /\ settings \in Settings /\ issued = 0 /\ prevMaker = 0
        /\ tasks = [m \in Devices |-> <<>>] /\ stopWork = FALSE
        /\ wpc = [c \in Cores |-> "sync"] /\ bundle = [c \in Cores |-> 1]
        /\ input = [c \in Cores |-> [b \in Bundles |-> <<>>]]
        /\ compute = [c \in Cores |-> <<>>] /\ d2h = [c \in Cores |-> <<>>]
        /\ devOut = input /\ hostOut = input
        /\ resultQ = [c \in Cores |-> <<>>]
        /\ result = [h \in Handlers |-> NoResult] /\ hpc = [h \in Handlers |-> "wait"]
        /\ answers = [s \in Samples |-> <<>>] /\ aborted = FALSE
    BY DEF Init
  <1>2. <<>> \in Outputs /\ <<>> \in Seq(TaskType) /\ <<>> \in Seq(Bundles) /\ <<>> \in Seq(Launches)
        /\ <<>> \in Seq(Results) /\ <<>> \in Seq(Outputs)
    BY EmptySeqType DEF Outputs
  <1>3. NoResult \in Results /\ Answered(NoResult) = <<>>
    BY <1>2 DEF NoResult, Results, Answered
  <1>4. QueueType
    <2>1. 0 \in 0..Len(Pairs) /\ 0 \in 0..NumDevices
      BY ConstantTypes
    <2>2. tasks \in [Devices -> Seq(TaskType)]
      BY <1>1, <1>2
    <2>3. settings \in Settings /\ issued = 0 /\ prevMaker = 0 /\ stopWork \in BOOLEAN /\ aborted \in BOOLEAN
      BY <1>1
    <2> QED  BY <2>1, <2>2, <2>3 DEF QueueType
  <1>5. WorkerType /\ OutType
    BY <1>1, <1>2, ConstantTypes DEF WorkerType, OutType, Buffers
  <1>6. HandlerType
    BY <1>1, <1>2, <1>3 DEF HandlerType
  <1>7. TypeOK
    BY <1>4, <1>5, <1>6, TypeParts
  <1>8. DOMAIN <<>> = {}
    OBVIOUS
  <1>9. StreamInv
    <2>1. \A b : ~Copied(<<>>, b)
      BY <1>8 DEF Copied
    <2>2. Paired(<<>>) /\ Distinct(<<>>) /\ \A b : ~Has(<<>>, b)
      BY <1>8 DEF Paired, Distinct, Has
    <2>3. \A b : StreamOk(<<>>, <<>>, "sync", b)
      BY <2>1, <2>2 DEF StreamOk
    <2> QED  BY <1>1, <2>3 DEF StreamInv
  <1>10. DataInv
    <2>1. \A in, dev, host : DataOk(<<>>, <<>>, in, dev, host)
      BY <1>8 DEF DataOk
    <2> QED  BY <1>1, <2>1 DEF DataInv
  <1>11. ResultInv
    BY <1>1, <1>8 DEF ResultInv
  <1>12. OwnerInv
    <2>1. PICK owner \in [Samples -> Owners] : owner = [s \in Samples |-> Unissued]
      BY DEF Owners
    <2>2. TellsAnswers(owner)
      BY <1>1, <2>1, Parties DEF TellsAnswers
    <2>3. \A party : OwnedBy(owner, <<>>, party) /\ AllOwnedBy(owner, <<>>, party)
      BY <1>8 DEF OwnedBy, AllOwnedBy
    <2>4. Tells(owner)
      BY <1>1, <1>3, <2>2, <2>3 DEF Tells
    <2> QED  BY <2>4 DEF OwnerInv
  <1> QED  BY <1>7, <1>9, <1>10, <1>11, <1>12 DEF IInv

\* Every step keeps the invariant.
LEMMA StepInv == IInv /\ [Next]_vars => IInv'
  <1> SUFFICES ASSUME IInv, [Next]_vars PROVE IInv'
    OBVIOUS
  <1>0. TypeOK /\ StreamInv /\ DataInv /\ ResultInv /\ OwnerInv
    BY DEF IInv
  <1>1. ASSUME UNCHANGED vars PROVE IInv'
    <2>1. TypeOK'
      BY <1>0, <1>1, TypeParts, TypeSame, TypeStep DEF vars
    <2>2. StreamInv' /\ DataInv' /\ ResultInv'
      BY <1>0, <1>1 DEF vars, workerVars, streamVars, outVars, handlerVars, StreamInv, DataInv, ResultInv
    <2>3. OwnerInv'
      <3>1. PICK owner \in [Samples -> Owners] : Tells(owner)
        BY <1>0 DEF OwnerInv
      <3> QED  BY <1>1, <3>1, OwnerSame DEF Tells, vars, queueVars, streamVars, handlerVars
    <2> QED  BY <2>1, <2>2, <2>3 DEF IInv
  <1>2. ASSUME Next PROVE IInv'
    <2>1. TypeOK'
      <3>1. ASSUME Finished PROVE TypeOK'
        BY <1>0, <3>1, TypeParts, TypeSame, TypeStep DEF Finished, vars
      <3> QED  BY <1>0, <1>2, <3>1, TypeLoadGen, TypeCore, TypeHandler DEF Next
    <2>2. StreamInv' /\ DataInv'
      BY <1>0, <1>2, CoreNext
    <2>3. ResultInv'
      BY <1>0, <1>2, ResultNext
    <2>4. OwnerInv'
      BY <1>0, <1>2, OwnerNext
    <2> QED  BY <2>1, <2>2, <2>3, <2>4 DEF IInv
  <1> QED  BY <1>1, <1>2

\* The invariant holds of every reachable state: what the D2H stream and the
\* buffers of a core hold, what a result has, and who has each sample.
THEOREM Invariance == Spec => []IInv
  BY InitInv, StepInv, PTL DEF Spec

\* Every variable keeps its type, for every server and every load.
THEOREM TypeCorrect == Spec => []TypeOK
  <1>1. IInv => TypeOK
    BY DEF IInv
  <1> QED  BY <1>1, Invariance, PTL

\* A sample is answered with the outputs of its own pairs, all of them, and once
\* (dlrm_v2_server.cpp, HandleResult), although bundles are used again before the
\* host functions of their batches have run, and batches are padded.
THEOREM OwnAnswers == Spec => []AnswerIsOwn
  <1>1. IInv => AnswerIsOwn
    BY DEF IInv, OwnerInv, Tells, TellsAnswers, AnswerIsOwn, Outputs1
  <1> QED  BY <1>1, Invariance, PTL

\* No batch is too large: one that is run has what fits into the buffers of a core.
LEMMA CheckStep ==
  ASSUME EvenBatches, IInv, ~aborted, [Next]_vars
  PROVE  ~aborted'
  <1>0. QueueType
    BY TypeParts DEF IInv
  <1>1. ASSUME NEW c \in Cores, GetFromMaker(c) \/ GetFromDevice(c) PROVE ~aborted'
    <2>1. PICK m \in Devices : \E n \in 0..Len(tasks[m]) : Takes(c, m, n)
      BY <1>0, <1>1, GetStep
    <2>2. PICK n \in 0..Len(tasks[m]) : Takes(c, m, n)
      BY <2>1
    <2>3. PICK taken : taken = SubSeq(tasks[m], 1, n)
      OBVIOUS
    <2>4. CASE Runs(c, taken)
      <3>1. PICK batch \in Seq(TaskType), padded \in BOOLEAN :
                Infer(c, batch, padded) /\ PairsIn(batch) <= MaxBatchSize
        BY <2>4 DEF Runs
      <3>2. PairsIn(batch) \in Nat /\ MaxBatchSize \in Nat
        BY <1>0, PairsInType, SettingTypes DEF QueueType
      <3>3. aborted' = (aborted \/ PairsIn(batch) > MaxBatchSize)
        BY <3>1 DEF Infer
      <3>4. ~(PairsIn(batch) > MaxBatchSize)
        BY <3>1, <3>2
      <3> QED  BY <3>3, <3>4
    <2>5. CASE Leaves(c, taken)
      BY <2>5 DEF Leaves
    <2> QED  BY <2>2, <2>3, <2>4, <2>5 DEF Takes
  <1>2. ASSUME UNCHANGED aborted PROVE ~aborted'
    BY <1>2
  <1>3. CASE UNCHANGED vars
    BY <1>2, <1>3 DEF vars
  <1>4. CASE LoadGen \/ Finished
    BY <1>2, <1>4 DEF LoadGen, IssueQuery, StopWork, Finished, vars
  <1>5. ASSUME NEW c \in Cores, SyncBundle(c) \/ WorkerEnds(c) \/ Compute(c) \/ CopyOut(c) \/ Enqueue(c)
        PROVE  ~aborted'
    BY <1>2, <1>5 DEF SyncBundle, WorkerEnds, Compute, CopyOut, Enqueue
  <1>6. ASSUME NEW h \in Handlers, Handler(h) PROVE ~aborted'
    BY <1>2, <1>6 DEF Handler, TakeResult, HandleResult, HandlerEnds
  <1> QED  BY <1>1, <1>3, <1>4, <1>5, <1>6 DEF Next, Worker

\* No CHECK on the size of a batch fails (dlrm_v2_server.cpp:132, 197), provided
\* that batch makers, who do not round the size down as the cores do, are given
\* an even one.
THEOREM NoFailedCheck ==
  ASSUME EvenBatches
  PROVE  Spec => []NoCheckFails
  <1>1. Init => ~aborted
    BY DEF Init
  <1>2. ~aborted /\ IInv /\ [Next]_vars => ~aborted'
    BY CheckStep
  <1>3. NoCheckFails <=> ~aborted
    BY DEF NoCheckFails
  <1> QED  BY <1>1, <1>2, <1>3, Invariance, PTL DEF Spec

=============================================================================
