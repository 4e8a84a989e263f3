---------------------------- MODULE MCMpiServer ----------------------------
(***************************************************************************)
(* Small instances of MpiServer: mostly fewer buffer entries than samples, *)
(* so that the receivers wait for them.                                    *)
(***************************************************************************)
EXTENDS MpiServer, TLC

CONSTANTS s1, s2

TwoSamples == {s1, s2}

\* One group that streams, two that do not with each way to share out, and one
\* that has two transactions in flight, which may be counted down at once.
OneStreaming ==
    {[groups |-> 1, numTrx |-> 1, streaming |-> TRUE, policy |-> "roundRobin"]}
TwoGroups ==
    {[groups |-> 2, numTrx |-> 1, streaming |-> FALSE, policy |-> p] :
        p \in {"roundRobin", "staticChop", "loadBalancing"}}
TwoInFlight ==
    {[groups |-> 1, numTrx |-> 2, streaming |-> FALSE, policy |-> "roundRobin"]}
AllSettings == OneStreaming \cup TwoGroups \cup TwoInFlight

=============================================================================
