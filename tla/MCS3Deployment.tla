-------------------------- MODULE MCS3Deployment --------------------------
(* Small instances of S3Deployment for TLC. *)
EXTENDS S3Deployment, TLC

CONSTANTS p1, p2, j1, j2, j3, c1, c2

\* Two batches of at most two, one batch, none.
MCDocs == [j \in Jobs |-> CASE j = j1 -> 3 [] j = j2 -> 1 [] OTHER -> 0]

ProcSymmetry == Permutations(Procs) \cup Permutations(Chats)
=============================================================================
