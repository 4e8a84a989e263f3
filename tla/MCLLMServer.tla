---------------------------- MODULE MCLLMServer ----------------------------
(***************************************************************************)
(* Instances of LLMServer for TLC: two cores, one warm-up query and three  *)
(* samples, so that the cores cannot share them evenly, of two lengths.    *)
(***************************************************************************)
EXTENDS LLMServer

OneWarmup == {0}
ThreeSamples == 1..3
Lengths == [r \in ThreeSamples |-> IF r = 1 THEN 2 ELSE 1]

AllPolicies == {"round_robin", "load_balancing", "isl_load_balancing"}

============================================================================
