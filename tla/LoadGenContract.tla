-------------------------- MODULE LoadGenContract --------------------------
(***************************************************************************)
(* What MLPerf LoadGen is promised by the harness (the system under test), *)
(* whatever backend serves the requests: a sample that was issued gets at  *)
(* most one FirstTokenComplete, then exactly one QuerySamplesComplete, and *)
(* nothing is ever reported for a sample that LoadGen did not issue.       *)
(* src/code/llmlib/factory.py:30-83 is the only place of the Python        *)
(* harness that talks back to LoadGen; the DLRMv2 harness answers a batch  *)
(* of samples with one call (dlrm_v2_server.cpp:708-709).                  *)
(***************************************************************************)
EXTENDS Naturals

CONSTANT Samples        \* the samples LoadGen may issue

VARIABLES
    issued,             \* samples handed to issue_queries
    firstTokens,        \* [Samples -> Nat]: FirstTokenComplete calls
    completions         \* [Samples -> Nat]: QuerySamplesComplete calls

vars == <<issued, firstTokens, completions>>

Init ==
    /\ issued = {}
    /\ firstTokens = [s \in Samples |-> 0]
    /\ completions = [s \in Samples |-> 0]

Issue(s) ==
    /\ s \notin issued
    /\ issued' = issued \cup {s}
    /\ UNCHANGED <<firstTokens, completions>>

\* The first token of s, reported before anything else about s.
FirstToken(s) ==
    /\ s \in issued
    /\ firstTokens[s] = 0 /\ completions[s] = 0
    /\ firstTokens' = [firstTokens EXCEPT ![s] = 1]
    /\ UNCHANGED <<issued, completions>>

Complete(s) ==
    /\ s \in issued
    /\ completions[s] = 0
    /\ completions' = [completions EXCEPT ![s] = 1]
    /\ UNCHANGED <<issued, firstTokens>>

\* MLPINF_USE_DYNAMO: both calls out of one response, first token first.
FirstTokenAndComplete(s) ==
    /\ s \in issued
    /\ firstTokens[s] = 0 /\ completions[s] = 0
    /\ firstTokens' = [firstTokens EXCEPT ![s] = 1]
    /\ completions' = [completions EXCEPT ![s] = 1]
    /\ UNCHANGED issued

\* QuerySamplesComplete takes an array of responses.
CompleteBatch(ss) ==
    /\ ss \subseteq issued
    /\ \A s \in ss : completions[s] = 0
    /\ completions' = [s \in Samples |-> IF s \in ss THEN 1 ELSE completions[s]]
    /\ UNCHANGED <<issued, firstTokens>>

Next ==
    \/ \E s \in Samples :
        Issue(s) \/ FirstToken(s) \/ Complete(s) \/ FirstTokenAndComplete(s)
    \/ \E ss \in SUBSET Samples : CompleteBatch(ss)

Answer(s) == Complete(s) \/ FirstTokenAndComplete(s)

Spec == Init /\ [][Next]_vars

\* Every issued sample is completed.
FairSpec == Spec /\ \A s \in Samples : WF_vars(Answer(s))

============================================================================
