---------------------------- MODULE MCLLMCore ----------------------------
(***************************************************************************)
(* Instances of LLMCore for TLC. One warm-up query and one or two samples  *)
(* show every race of the core: two requests are needed for a response of  *)
(* one to meet the enqueue of the other.                                   *)
(***************************************************************************)
EXTENDS LLMCore

CONSTANTS w1, t1, t2

NoReqs == {}
OneWarmup == {w1}
OneSample == {t1}
TwoSamples == {t1, t2}

OneToken == {1}
UpToTwo == {0, 1, 2}

==========================================================================
