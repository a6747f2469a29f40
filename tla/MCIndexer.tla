----------------------------- MODULE MCIndexer -----------------------------
(* Instances of Indexer for TLC. *)
EXTENDS Indexer, TLC

CONSTANTS t1, t2, s1, s2, i1

\* The anchor that can be stored is mined in different places of a block.
MCIndexes == t1 :> {0, 1} @@ t2 :> {1}
=============================================================================
