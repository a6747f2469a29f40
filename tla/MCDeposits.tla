----------------------------- MODULE MCDeposits -----------------------------
(* Instances of Deposits for TLC. *)
EXTENDS Deposits, TLC

CONSTANTS u1, u2, t1, t2, T1, d1, d2, w1, w2, r1, r2

\* T1 is the hash of t1 typed in upper case.
SpelledTx == [h \in Hashes |-> IF h = T1 THEN t1 ELSE h]

\* Two transactions to the same address, one exact for each declared amount.
SameUserLogs == t1 :> {[to |-> u1, value |-> 1]} @@ t2 :> {[to |-> u1, value |-> 2]}

\* One exact payment.
OneLog == t1 :> {[to |-> u1, value |-> 1]}

Symm == Permutations({d1, d2}) \cup Permutations({r1, r2})
=============================================================================
