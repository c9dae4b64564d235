----------------------------- MODULE MCWebClient -----------------------------
(* Small instances of WebClient for TLC. *)
EXTENDS WebClient, TLC

CONSTANTS r1, r2, r3, i1, i2, lima, oslo

\* Every question is on one topic.
MCTopic == [plan |-> "plans"]

MCQuestions == { [query |-> "plan", session |-> p] : p \in Sessions }

RequestAndJobSymmetry == Permutations(Requests) \cup Permutations(Jobs)
=============================================================================
