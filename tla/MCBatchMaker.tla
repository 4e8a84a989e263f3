---------------------------- MODULE MCBatchMaker ----------------------------
(***************************************************************************)
(* Small instances of BatchMaker: samples of one and two pairs.            *)
(***************************************************************************)
EXTENDS BatchMaker, TLC

CONSTANTS s1, s2, s3, th1, th2, b1, b2, c1, c2

OneSample == {s1}
TwoSamples == {s1, s2}
ThreeSamples == {s1, s2, s3}
OneTwo == s1 :> 1 @@ s2 :> 2
OneTwoOne == s1 :> 1 @@ s2 :> 2 @@ s3 :> 1
Ones == [s \in Samples |-> 1]
Twos == [s \in Samples |-> 2]
OneThread == {th1}
TwoThreads == {th1, th2}
OneBatch == {b1}
TwoBatches == {b1, b2}
OneConsumer == {c1}
TwoConsumers == {c1, c2}

Symmetric == Permutations(TwoThreads) \cup Permutations(TwoBatches)
             \cup Permutations(TwoConsumers)

=============================================================================
