-------------------------- MODULE MCAgentPipeline --------------------------
(* Small instances of AgentPipeline for TLC. *)
EXTENDS AgentPipeline, TLC

CONSTANTS r1, r2, r3, r4, i1, i2, i3, s1, s2

\* Two ways to type one short factual question, a question that needs reasoning and
\* one that is neither.
MCNorm == [q \in Queries |->
    CASE q = "Compare" -> "compare" [] q = "Describe" -> "describe" [] OTHER -> "what is"]
MCFactual == {"what is"}
MCReasoning == {"compare"}

OneDocEach == [i \in Ingests |-> 1]
ThirdIsEmpty == [i \in Ingests |-> IF i = i3 THEN 0 ELSE 1]

RequestSymmetry == Permutations(Requests)
RequestAndSessionSymmetry == Permutations(Requests) \cup Permutations(Sessions)
=============================================================================
