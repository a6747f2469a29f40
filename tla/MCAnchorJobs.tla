---------------------------- MODULE MCAnchorJobs ----------------------------
(* Instances of AnchorJobs for TLC. *)
EXTENDS AnchorJobs, TLC

CONSTANTS u1, u2, j1, j2, c1, c2, c3

\* Every job belongs to the same account.
OneOwner == [j \in Jobs |-> u1]

Symm == Permutations({j1, j2}) \cup Permutations({c1, c2})
=============================================================================
