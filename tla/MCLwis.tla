------------------------------- MODULE MCLwis -------------------------------
(***************************************************************************)
(* Instances of Lwis for TLC: two devices with batches of different size,  *)
(* four samples whose places in memory have gaps, repeats and runs.        *)
(***************************************************************************)
EXTENDS Lwis

Sizes == <<3, 2>>
Memory == <<2, 5, 4, 5>>
OneOrThree == {1, 3}

Set(b, c, l) == [batcherPerDevice |-> b, cudaThread |-> c, dequeLimit |-> l]

\* One batcher for all devices, with and without limit, and one per device,
\* issuing itself or through the device's thread.
AllSettings ==
    {Set(FALSE, FALSE, FALSE), Set(FALSE, TRUE, TRUE), Set(TRUE, TRUE, FALSE)}

=============================================================================
