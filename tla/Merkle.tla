------------------------------- MODULE Merkle -------------------------------
(***************************************************************************)
(* The Merkle trees of manifest receipts, packages/protocol/src/merkle.ts, *)
(* over a list of leaf digests that grows; no tree has zero leaves.        *)
(* A hash is the tuple of what is hashed, so that two hashes are equal     *)
(* exactly when their inputs are.  Leaf indices count from 0, as in the    *)
(* source.                                                                 *)
(***************************************************************************)
EXTENDS Integers, Sequences

CONSTANTS
  LeafDigests,      \* digests of subjects
  MaxLeaves         \* bound: leaves of a tree

ASSUME MerkleAssumption == MaxLeaves \in Nat \ {0}

VARIABLES leaves

merkleVars == <<leaves>>

HashLeaf(leaf) == <<"leaf", leaf>>

HashPair(left, right) == <<"node", left, right>>

-----------------------------------------------------------------------------
(* Building a tree. *)

\* A lone trailing node is promoted unchanged.
NextLevel(prev) ==
  [i \in 1 .. (Len(prev) + 1) \div 2 |->
     IF 2 * i <= Len(prev) THEN HashPair(prev[2 * i - 1], prev[2 * i]) ELSE prev[2 * i - 1]]

\* Levels(s)[k]: the nodes k levels above the leaves.  A level of one node is
\* its own next level, so that the last level is Levels(s)[Len(s)].
Levels(s) ==
  LET level[k \in Nat] ==
        IF k = 0 THEN [i \in 1 .. Len(s) |-> HashLeaf(s[i])] ELSE NextLevel(level[k - 1])
  IN level

Root(s) == Levels(s)[Len(s)][1]

\* Places(i)[k]: the index at level k of the node that leaf i is below.
Places(leafIndex) ==
  LET index[k \in Nat] == IF k = 0 THEN leafIndex ELSE index[k - 1] \div 2 IN index

Sibling(index) == IF index % 2 = 0 THEN index + 1 ELSE index - 1

\* A promoted node has no sibling at its level.
SiblingIn(nodes, index) ==
  IF Sibling(index) < Len(nodes) THEN <<nodes[Sibling(index) + 1]>> ELSE <<>>

ProofFor(s, leafIndex) ==
  LET proof[k \in Nat] ==
        IF k = 0 THEN <<>>
        ELSE proof[k - 1] \o SiblingIn(Levels(s)[k - 1], Places(leafIndex)[k - 1])
  IN proof[Len(s)]

-----------------------------------------------------------------------------
(* Verifying an inclusion. *)

\* What has been computed of fn, sn and hash.
Climb(fn, sn, hash) == [fn |-> fn, sn |-> sn, hash |-> hash]

\* One round of the loop over the levels of a promoted node.  Indices are below
\* 2^31, where >> halves a number.
Halved(fn, sn) == IF fn # 0 /\ fn % 2 = 0 THEN <<fn \div 2, sn \div 2>> ELSE <<fn, sn>>

\* As many rounds as there can be.
Skip(fn, sn) ==
  LET up[k \in Nat] == IF k = 0 THEN <<fn, sn>> ELSE Halved(up[k - 1][1], up[k - 1][2])
  IN up[fn]

\* Mutant: levels of a promoted node are not skipped.
MutAfterSibling(c, sibling) ==
  IF c.fn % 2 = 1 \/ c.fn = c.sn
    THEN Climb(c.fn \div 2, c.sn \div 2, HashPair(sibling, c.hash))
    ELSE Climb(c.fn \div 2, c.sn \div 2, HashPair(c.hash, sibling))

AfterSibling(c, sibling) ==
  IF c.fn % 2 = 1 \/ c.fn = c.sn
    THEN LET skipped == Skip(c.fn, c.sn) IN
         Climb(skipped[1] \div 2, skipped[2] \div 2, HashPair(sibling, c.hash))
    ELSE Climb(c.fn \div 2, c.sn \div 2, HashPair(c.hash, sibling))

\* sn is 0 before the proof has ended: the proof is too long.
VerifyMerkleInclusion(leaf, leafIndex, proof, root, leafCount) ==
  LET after[i \in Nat] ==
        IF i = 0 THEN Climb(leafIndex, leafCount - 1, HashLeaf(leaf))
        ELSE AfterSibling(after[i - 1], proof[i])
  IN /\ leafIndex \in 0 .. leafCount - 1
     /\ \A i \in 1 .. Len(proof) : after[i - 1].sn # 0
     /\ after[Len(proof)].sn = 0 /\ after[Len(proof)].hash = root

-----------------------------------------------------------------------------
MerkleTypeOK == leaves \in Seq(LeafDigests)

MerkleInit == leaves = <<>>

AddLeaf(d) == Len(leaves) < MaxLeaves /\ leaves' = Append(leaves, d)

MerkleNext == \E d \in LeafDigests : AddLeaf(d)

MerkleSpec == MerkleInit /\ [][MerkleNext]_merkleVars

-----------------------------------------------------------------------------
(* What the trees promise. *)

Indices == 0 .. Len(leaves) - 1

\* The tree is that of RFC 6962, which splits a list at the largest power of
\* two that is smaller than its length.
TwoTo == LET power[k \in Nat] == IF k = 0 THEN 1 ELSE 2 * power[k - 1] IN power

Split(n) == CHOOSE p \in 1 .. n - 1 : (\E k \in 0 .. n : p = TwoTo[k]) /\ 2 * p >= n

\* tree[n][lo]: of the n leaves from place lo on.
Reference(s) ==
  LET tree[n \in Nat \ {0}] ==
        [lo \in Nat |->
           IF n = 1 THEN HashLeaf(s[lo])
           ELSE HashPair(tree[Split(n)][lo], tree[n - Split(n)][lo + Split(n)])]
  IN tree[Len(s)][1]

RootIsReference == leaves # <<>> => Root(leaves) = Reference(leaves)

\* Distinct lists have distinct roots, also when one is the other with its
\* last leaf repeated; the longer of the two is compared with the shorter.
Lists == UNION {[1 .. n -> LeafDigests] : n \in 1 .. Len(leaves)}

RootsAreDistinct ==
  LET root == Root(leaves) IN \A s \in Lists : Root(s) = root => s = leaves

\* The proofs an index might be shown: those of all places, cut short, and in
\* the opposite order.
Proofs ==
  LET whole == {ProofFor(leaves, i) : i \in Indices} IN
    whole \cup (UNION {{SubSeq(p, 1, n) : n \in 0 .. Len(p)} : p \in whole})
          \cup {[k \in 1 .. Len(p) |-> p[Len(p) + 1 - k]] : p \in whole}

\* A proof is accepted exactly when it is the proof of that leaf at that index,
\* however often the path of the leaf is promoted.
ProofsAreExact ==
  LET root == Root(leaves) IN
    \A i \in Indices, d \in LeafDigests, p \in Proofs :
      VerifyMerkleInclusion(d, i, p, root, Len(leaves)) <=>
        d = leaves[i + 1] /\ p = ProofFor(leaves, i)

\* A root commits to its list, and a proof to its place in it.
RootCommits == MerkleTypeOK /\ RootIsReference /\ RootsAreDistinct /\ ProofsAreExact
=============================================================================
