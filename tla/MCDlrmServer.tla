---------------------------- MODULE MCDlrmServer ----------------------------
(***************************************************************************)
(* Instances of DlrmServer for TLC: samples of one and two pairs, queries  *)
(* below and at the threshold.                                             *)
(***************************************************************************)
EXTENDS DlrmServer

FourSamples == <<1, 2, 1, 2>>
OneOrThree == {1, 3}

Set(d, i, b, m) ==
    [startFromDevice |-> d, issueThreads |-> i, batcherPerGpu |-> b, maxBatchSize |-> m]

\* From the device with an odd maximal batch, one batch maker, one per device,
\* and one per device with an issuing thread each.
AllSettings == {Set(TRUE, FALSE, TRUE, 3), Set(FALSE, FALSE, FALSE, 2),
                Set(FALSE, FALSE, TRUE, 2), Set(FALSE, TRUE, TRUE, 2)}

=============================================================================
