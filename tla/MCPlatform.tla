----------------------------- MODULE MCPlatform -----------------------------
(* The instance of Platform for TLC. *)
EXTENDS Platform, TLC

CONSTANTS
  e1, e2, v1, v2, s1, s2,               \* retention
  o1, pr1, k1, k2, n1, n2, n3,          \* sealing
  u1, u2, p1, r1, r2,                   \* membership
  q1, q2, i1, ak1,                      \* rate limits
  a1, a2, t1, c1,                       \* cache payments
  h1, h2, d1,                           \* donations
  l1, l2,                               \* leaves
  f1, f2, x1, x2, m1, m2, m3, z1, z2, b1, b2,   \* sign-in
  w1, w2, g1, y1, tx0, tx1, tx2, tx3, tx4    \* verification

\* Both rotations are of the project's signer.
Signers == [k \in {k1, k2} |-> pr1]

\* The organisation's own key serves one of the intakes.
Keys == [i \in {n1, n2, n3} |-> IF i = n1 THEN {o1, pr1} ELSE {pr1}]

OneAMinute == [s \in {i1, ak1} |-> 1]

\* Lists as the contract has left them before the grant became idempotent.
Listed == {<<>>, <<a1, a1>>, <<a1, a2, a1>>, <<a1, a1, a2>>}

Prices == {[file |-> 1, folder |-> 1, permanent |-> 2]}

\* b1 has already proved a wallet, with the nonce m3.
LinkedBefore == {[user |-> b1, wallet |-> [family |-> f1, address |-> x1], proof |-> m3]}

TheLeaves == [r \in {g1} |-> {w1}]

\* One anchors the root, one names a subject and reverts, one anchors the root
\* on a chain that has no online check, and one has no hash for a hash.
TheAnchors ==
  (tx0 :> [evm |-> FALSE, hash |-> "none", ok |-> FALSE, binds |-> {}])
  @@ (tx1 :> [evm |-> TRUE, hash |-> "well-formed", ok |-> TRUE, binds |-> {g1}])
  @@ (tx2 :> [evm |-> TRUE, hash |-> "well-formed", ok |-> FALSE, binds |-> {w1}])
  @@ (tx3 :> [evm |-> FALSE, hash |-> "well-formed", ok |-> TRUE, binds |-> {g1}])
  @@ (tx4 :> [evm |-> TRUE, hash |-> "malformed", ok |-> FALSE, binds |-> {}])

StoredCopy(root) == [InclusionReceipt(root, NoLeaf) EXCEPT !.adapter = "storage", !.located = "pass"]

\* Receipts of every transaction and of another block, and one that no adapter
\* is registered for.
TheSettlements ==
  {SettlementReceipt(t) : t \in {tx0, tx1, tx2, tx4}}
  \cup {[SettlementReceipt(tx1) EXCEPT !.otherBlock = TRUE],
        [SettlementReceipt(tx1) EXCEPT !.adapter = "other"]}

\* Proofs of another leaf and of a leaf that is not under the root, stored
\* copies with and without a root, and a transaction.
TheInclusions ==
  {[InclusionReceipt(g1, s) EXCEPT !.leafDigest = s] : s \in {w1, w2}}
  \cup {StoredCopy(NoRoot), StoredCopy(g1), SettlementReceipt(tx1), SettlementReceipt(tx4)}
=============================================================================
