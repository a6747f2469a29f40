--------------------------- MODULE VerifierProofs ---------------------------
(***************************************************************************)
(* Proofs about the protocol and its verifier: Merkle and Verification, for *)
(* lists of any length, any list of hashes shown as a proof, and any        *)
(* documents, keys and transactions.                                        *)
(*                                                                          *)
(* A root commits to its list, a proof is accepted for no other leaf and    *)
(* index than its own, and what a report says of a document stands on       *)
(* signatures that were made and on what the chains hold; an honest         *)
(* document never fails.                                                    *)
(***************************************************************************)
EXTENDS Merkle, Verification, FiniteSetTheorems, SequenceTheorems, TLAPS

-----------------------------------------------------------------------------
(* Recursion over the natural numbers.  The library's theorems on it take   *)
(* operators; these take sets and functions.  Induction is that a set of    *)
(* numbers has a least one, which follows from the order on finite sets.    *)

LEMMA LeastNat ==
  ASSUME NEW T \in SUBSET Nat, T # {}
  PROVE  \E x \in T : \A y \in T : x <= y
<1> DEFINE Below == {0 .. n : n \in T}
<1>1. Below \subseteq FiniteSubsetsOf(Nat) /\ Below # {}
  <2>1. \A n \in T : IsFiniteSet(0 .. n) /\ 0 .. n \subseteq Nat
    BY FS_Interval
  <2> QED
    BY <2>1 DEF FiniteSubsetsOf
<1>2. PICK B \in Below : \A C \in Below : ~(<<C, B>> \in StrictSubsetOrdering(Nat))
  <2>1. IsWellFoundedOn(StrictSubsetOrdering(Nat), FiniteSubsetsOf(Nat))
    BY FS_StrictSubsetOrderingWellFounded
  <2> HIDE DEF Below
  <2> QED
    BY <1>1, <2>1, WFMin
<1>3. PICK x \in T : B = 0 .. x
  OBVIOUS
<1>4. ASSUME NEW y \in T, y < x PROVE FALSE
  <2>1. x \in 0 .. x /\ x \notin 0 .. y
    BY <1>4
  <2>2. /\ 0 .. y \in Below /\ 0 .. y \subseteq 0 .. x /\ 0 .. y # 0 .. x
        /\ 0 .. y \in SUBSET Nat /\ 0 .. x \in SUBSET Nat
    BY <1>4, <2>1
  <2> QED
    BY <1>2, <1>3, <2>2 DEF StrictSubsetOrdering
<1> QED
  BY <1>4

LEMMA NatSets ==
  ASSUME NEW T \in SUBSET Nat, 0 \in T, \A n \in T : n + 1 \in T
  PROVE  T = Nat
<1> SUFFICES ASSUME Nat \ T # {} PROVE FALSE
  OBVIOUS
<1>1. PICK m \in Nat \ T : \A y \in Nat \ T : m <= y
  BY LeastNat
<1>2. m - 1 \in T /\ (m - 1) + 1 = m
  BY <1>1
<1> QED
  BY <1>2

\* From any element of S, steps can be taken one after the other, any number
\* of times.
Iterable(S) ==
  \A base \in S : \A step \in [Nat -> [S -> S]] :
    \E f \in [Nat -> S] : f[0] = base /\ \A n \in Nat : f[n + 1] = step[n][f[n]]

LEMMA Iteration == \A S : Iterable(S)
<1> SUFFICES ASSUME NEW S, NEW base \in S, NEW step \in [Nat -> [S -> S]]
             PROVE  \E f \in [Nat -> S] : f[0] = base /\ \A n \in Nat : f[n + 1] = step[n][f[n]]
  BY DEF Iterable
<1> DEFINE Upto(n, f) == f[0] = base /\ \A i \in 0 .. n : i # n => f[i + 1] = step[i][f[i]]
           Att(n) == {f \in [0 .. n -> S] : Upto(n, f)}
           Pick(n) == CHOOSE f \in Att(n) : TRUE
           Orbit == [n \in Nat |-> Pick(n)[n]]
<1>1. \A n \in Nat : Att(n) # {}
  <2> DEFINE T == {n \in Nat : Att(n) # {}}
  <2>1. 0 \in T
    <3>1. [i \in 0 .. 0 |-> base] \in Att(0)
      OBVIOUS
    <3> QED
      BY <3>1
  <2>2. ASSUME NEW n \in T PROVE n + 1 \in T
    <3>1. PICK f \in Att(n) : TRUE
      OBVIOUS
    <3> DEFINE g == [i \in 0 .. n + 1 |-> IF i = n + 1 THEN step[n][f[n]] ELSE f[i]]
    <3>2. f \in [0 .. n -> S] /\ Upto(n, f) /\ n \in Nat
      BY <3>1
    <3>3. g \in [0 .. n + 1 -> S]
      BY <3>2
    <3>4. g[0] = base /\ \A i \in 0 .. n + 1 : i # n + 1 => g[i + 1] = step[i][g[i]]
      BY <3>2
    <3> HIDE DEF g
    <3>5. g \in Att(n + 1)
      BY <3>3, <3>4
    <3> HIDE DEF Att
    <3> QED
      BY <3>2, <3>5
  <2> HIDE DEF T
  <2>3. T = Nat
    <3>1. T \subseteq Nat
      BY DEF T
    <3> QED
      BY <2>1, <2>2, <3>1, NatSets
  <2> QED
    BY <2>3 DEF T
<1>2. \A n \in Nat : \A m \in Nat : \A f \in Att(n) : \A g \in Att(m) : n <= m => f[n] = g[n]
  <2> DEFINE T == {n \in Nat : \A m \in Nat : \A k \in Nat : \A f \in Att(k) : \A g \in Att(m) :
                       n <= m /\ n <= k => f[n] = g[n]}
  <2>1. 0 \in T
    OBVIOUS
  <2>2. ASSUME NEW n \in T PROVE n + 1 \in T
    <3>1. /\ n \in Nat
          /\ \A m \in Nat : \A k \in Nat : \A f \in Att(k) : \A g \in Att(m) :
               n <= m /\ n <= k => f[n] = g[n]
      OBVIOUS
    <3>2. ASSUME NEW m \in Nat, NEW k \in Nat, NEW f \in Att(k), NEW g \in Att(m),
                 n + 1 <= m, n + 1 <= k
          PROVE  f[n + 1] = g[n + 1]
      <4>1. f[n + 1] = step[n][f[n]] /\ g[n + 1] = step[n][g[n]]
        BY <3>1, <3>2
      <4> HIDE DEF Att
      <4>2. f[n] = g[n]
        BY <3>1, <3>2
      <4> QED
        BY <4>1, <4>2
    <3> HIDE DEF Att
    <3> QED
      BY <3>1, <3>2
  <2> HIDE DEF T
  <2>3. T = Nat
    <3>1. T \subseteq Nat
      BY DEF T
    <3> QED
      BY <2>1, <2>2, <3>1, NatSets
  <2> HIDE DEF Att
  <2>4. ASSUME NEW n \in Nat, NEW m \in Nat, NEW f \in Att(n), NEW g \in Att(m), n <= m
        PROVE  f[n] = g[n]
    <3>1. n \in T
      BY <2>3
    <3> QED
      BY <2>4, <3>1 DEF T
  <2> QED
    BY <2>4
<1>3. ASSUME NEW n \in Nat
      PROVE  Pick(n) \in Att(n)
  <2> HIDE DEF Att
  <2> QED
    BY <1>1
<1>4. Orbit \in [Nat -> S]
  <2> HIDE DEF Pick
  <2>1. \A n \in Nat : Pick(n)[n] \in S
    BY <1>3
  <2> QED
    BY <2>1
<1> HIDE DEF Pick
<1>5. Orbit[0] = base
  BY <1>3
<1>6. ASSUME NEW n \in Nat
      PROVE  Orbit[n + 1] = step[n][Orbit[n]]
  <2> DEFINE f == Pick(n)
             g == Pick(n + 1)
  <2>1. f \in Att(n) /\ g \in Att(n + 1)
    BY <1>3
  <2>2. Orbit[n] = f[n] /\ Orbit[n + 1] = g[n + 1]
    OBVIOUS
  <2> HIDE DEF f, g, Orbit
  <2>3. g[n + 1] = step[n][g[n]]
    BY <2>1
  <2> HIDE DEF Att
  <2>4. f[n] = g[n]
    BY <1>2, <2>1
  <2> QED
    BY <2>2, <2>3, <2>4
<1> HIDE DEF Orbit
<1> QED
  BY <1>4, <1>5, <1>6

-----------------------------------------------------------------------------
(* Merkle trees: the hashes there are. *)

\* Hashes, and hashes of pairs of them, over and over, are in one set.
LEMMA HashUniverse ==
  ASSUME NEW A
  PROVE  \E U : A \subseteq U /\ \A x \in U : \A y \in U : HashPair(x, y) \in U
<1> DEFINE Grown(V) == V \cup {HashPair(p[1], p[2]) : p \in V \X V}
           Upto(n, f) == f[0] = A /\ \A i \in 0 .. n : i # n => f[i + 1] = Grown(f[i])
           Pick(n) == CHOOSE f : Upto(n, f)
           Stage(n) == Pick(n)[n]
<1>1. \A n \in Nat : \E f : Upto(n, f)
  <2> DEFINE T == {n \in Nat : \E f : Upto(n, f)}
  <2>1. 0 \in T
    <3>1. Upto(0, [i \in 0 .. 0 |-> A])
      OBVIOUS
    <3> QED
      BY <3>1
  <2>2. ASSUME NEW n \in T PROVE n + 1 \in T
    <3>1. PICK f : Upto(n, f)
      OBVIOUS
    <3> DEFINE g == [i \in 0 .. n + 1 |-> IF i = n + 1 THEN Grown(f[n]) ELSE f[i]]
    <3>2. n \in Nat
      OBVIOUS
    <3> HIDE DEF Grown
    <3>3. Upto(n + 1, g)
      <4>1. g[0] = A
        BY <3>1, <3>2
      <4>2. ASSUME NEW i \in 0 .. n + 1, i # n + 1 PROVE g[i + 1] = Grown(g[i])
        <5>1. CASE i = n
          BY <3>2, <4>2, <5>1
        <5>2. CASE i # n
          BY <3>1, <3>2, <4>2, <5>2
        <5> QED
          BY <5>1, <5>2
      <4> QED
        BY <4>1, <4>2
    <3> HIDE DEF Upto, g
    <3> QED
      BY <3>2, <3>3
  <2> HIDE DEF T
  <2>3. T = Nat
    <3>1. T \subseteq Nat
      BY DEF T
    <3> QED
      BY <2>1, <2>2, <3>1, NatSets
  <2> QED
    BY <2>3 DEF T
<1> HIDE DEF Grown
<1>2. ASSUME NEW n \in Nat PROVE Upto(n, Pick(n))
  <2> HIDE DEF Upto
  <2> QED
    BY <1>1
<1> HIDE DEF Pick
<1>3. ASSUME NEW k \in Nat
      PROVE  \A m \in Nat : \A l \in Nat : k <= m /\ k <= l => Pick(m)[k] = Pick(l)[k]
  <2> DEFINE T == {n \in Nat : \A m \in Nat : \A l \in Nat :
                       n <= m /\ n <= l => Pick(m)[n] = Pick(l)[n]}
  <2>1. 0 \in T
    BY <1>2
  <2>2. ASSUME NEW n \in T PROVE n + 1 \in T
    <3>1. ASSUME NEW m \in Nat, NEW l \in Nat, n + 1 <= m, n + 1 <= l
          PROVE  Pick(m)[n + 1] = Pick(l)[n + 1]
      <4>1. n \in Nat /\ n <= m /\ n <= l /\ n # m /\ n # l
        BY <3>1
      <4>2. Pick(m)[n] = Pick(l)[n]
        BY <4>1
      <4>3. Pick(m)[n + 1] = Grown(Pick(m)[n]) /\ Pick(l)[n + 1] = Grown(Pick(l)[n])
        BY <1>2, <4>1
      <4> QED
        BY <4>2, <4>3
    <3> QED
      BY <3>1
  <2> HIDE DEF T
  <2>3. T = Nat
    <3>1. T \subseteq Nat
      BY DEF T
    <3> QED
      BY <2>1, <2>2, <3>1, NatSets
  <2>4. k \in T
    BY <2>3
  <2> QED
    BY <2>4 DEF T
<1>4. Stage(0) = A
  BY <1>2
<1>5. ASSUME NEW n \in Nat PROVE Stage(n + 1) = Grown(Stage(n))
  <2>1. n + 1 \in Nat /\ n \in 0 .. n + 1 /\ n # n + 1 /\ n <= n + 1
    OBVIOUS
  <2>2. Pick(n + 1)[n + 1] = Grown(Pick(n + 1)[n])
    BY <1>2, <2>1
  <2>3. Pick(n + 1)[n] = Pick(n)[n]
    BY <1>3, <2>1
  <2> QED
    BY <2>2, <2>3
<1> HIDE DEF Upto, Stage
<1>6. \A n \in Nat : \A m \in Nat : Stage(n) \subseteq Stage(n + m)
  <2> SUFFICES ASSUME NEW n \in Nat PROVE \A m \in Nat : Stage(n) \subseteq Stage(n + m)
    OBVIOUS
  <2> DEFINE T == {m \in Nat : Stage(n) \subseteq Stage(n + m)}
  <2>1. 0 \in T
    OBVIOUS
  <2>2. ASSUME NEW m \in T PROVE m + 1 \in T
    <3>1. n + m \in Nat /\ n + (m + 1) = (n + m) + 1
      OBVIOUS
    <3>2. Stage((n + m) + 1) = Grown(Stage(n + m))
      BY <1>5, <3>1
    <3> QED
      BY <3>1, <3>2 DEF Grown
  <2>3. T = Nat
    <3>1. T \subseteq Nat
      OBVIOUS
    <3> HIDE DEF T
    <3> QED
      BY <2>1, <2>2, <3>1, NatSets
  <2> QED
    BY <2>3
<1> DEFINE U == UNION {Stage(n) : n \in Nat}
<1>7. A \subseteq U
  BY <1>4
<1>8. ASSUME NEW x \in U, NEW y \in U PROVE HashPair(x, y) \in U
  <2>1. PICK n \in Nat : x \in Stage(n)
    OBVIOUS
  <2>2. PICK m \in Nat : y \in Stage(m)
    OBVIOUS
  <2>3. x \in Stage(n + m) /\ y \in Stage(m + n) /\ m + n = n + m /\ n + m \in Nat
    BY <1>6, <2>1, <2>2
  <2>4. HashPair(x, y) \in Grown(Stage(n + m))
    <3>1. <<x, y>> \in Stage(n + m) \X Stage(n + m)
      BY <2>3
    <3> QED
      BY <3>1 DEF Grown
  <2>5. HashPair(x, y) \in Stage((n + m) + 1) /\ (n + m) + 1 \in Nat
    BY <1>5, <2>3, <2>4
  <2> QED
    BY <2>5
<1> HIDE DEF U
<1> QED
  BY <1>7, <1>8

\* A set of hashes that has the hashes of the leaves D.
Nodes(D, U) ==
  /\ \A d \in D : HashLeaf(d) \in U
  /\ \A x \in U : \A y \in U : HashPair(x, y) \in U

LEMMA NodesExist ==
  ASSUME NEW A, NEW D
  PROVE  \E U : A \subseteq U /\ Nodes(D, U)
<1>1. PICK U : /\ A \cup {HashLeaf(d) : d \in D} \subseteq U
               /\ \A x \in U : \A y \in U : HashPair(x, y) \in U
  BY HashUniverse
<1> QED
  BY <1>1 DEF Nodes

LEMMA HashesDiffer ==
  /\ \A d, e : HashLeaf(d) = HashLeaf(e) => d = e
  /\ \A x, y, v, w : HashPair(x, y) = HashPair(v, w) => x = v /\ y = w
  /\ \A d, x, y : HashLeaf(d) # HashPair(x, y)
BY DEF HashLeaf, HashPair

LEMMA ListOf ==
  ASSUME NEW S, NEW n \in Nat, NEW f \in [1 .. n -> S]
  PROVE  f \in Seq(S) /\ Len(f) = n
OBVIOUS

Above(width) == (width + 1) \div 2

LEMMA NextLevelFacts ==
  ASSUME NEW D, NEW U, Nodes(D, U), NEW prev \in Seq(U)
  PROVE  /\ NextLevel(prev) \in Seq(U) /\ Len(NextLevel(prev)) = Above(Len(prev))
         /\ \A i \in 1 .. Above(Len(prev)) :
              NextLevel(prev)[i] = IF 2 * i <= Len(prev) THEN HashPair(prev[2 * i - 1], prev[2 * i])
                                   ELSE prev[2 * i - 1]
<1> DEFINE m == Above(Len(prev))
           e(i) == IF 2 * i <= Len(prev) THEN HashPair(prev[2 * i - 1], prev[2 * i]) ELSE prev[2 * i - 1]
<1>1. Len(prev) \in Nat /\ m \in Nat /\ \A i \in 1 .. Len(prev) : prev[i] \in U
  <2>1. Len(prev) \in Nat /\ \A i \in 1 .. Len(prev) : prev[i] \in U
    BY LenProperties
  <2> QED
    BY <2>1 DEF Above
<1>2. ASSUME NEW i \in 1 .. m PROVE e(i) \in U
  <2>1. 2 * i - 1 \in 1 .. Len(prev) /\ (2 * i <= Len(prev) => 2 * i \in 1 .. Len(prev))
    BY <1>1 DEF Above
  <2> QED
    BY <1>1, <2>1 DEF Nodes
<1>3. NextLevel(prev) = [i \in 1 .. m |-> e(i)]
  BY DEF NextLevel, Above
<1> HIDE DEF e, m
<1>4. NextLevel(prev) \in [1 .. m -> U]
  BY <1>2, <1>3
<1>5. NextLevel(prev) \in Seq(U) /\ Len(NextLevel(prev)) = m
  BY <1>1, <1>4, ListOf
<1>6. \A i \in 1 .. m : NextLevel(prev)[i] = e(i)
  BY <1>3
<1> QED
  BY <1>5, <1>6 DEF e, m

Bottom(s) == [i \in 1 .. Len(s) |-> HashLeaf(s[i])]

\* The levels of a tree are made by NextLevel, one after the other.
LEMMA LevelFacts ==
  ASSUME NEW D, NEW U, Nodes(D, U), NEW s \in Seq(D)
  PROVE  /\ Levels(s) \in [Nat -> Seq(U)] /\ Levels(s)[0] = Bottom(s)
         /\ \A k \in Nat : Levels(s)[k + 1] = NextLevel(Levels(s)[k])
<1> DEFINE Levels0 == Seq(U)
<1>0. \A l \in Levels0 : NextLevel(l) \in Levels0
  BY NextLevelFacts
<1> DEFINE level[k \in Nat] == IF k = 0 THEN Bottom(s) ELSE NextLevel(level[k - 1])
<1>1. Bottom(s) \in Levels0
  <2>1. Len(s) \in Nat /\ \A i \in 1 .. Len(s) : s[i] \in D
    BY LenProperties
  <2>2. Bottom(s) \in [1 .. Len(s) -> U]
    BY <2>1 DEF Bottom, Nodes
  <2> QED
    BY <2>1, <2>2, ListOf
<1> HIDE DEF Levels0
<1>2. PICK f \in [Nat -> Levels0] : f[0] = Bottom(s) /\ \A n \in Nat : f[n + 1] = NextLevel(f[n])
  <2> DEFINE step == [n \in Nat |-> [l \in Levels0 |-> NextLevel(l)]]
  <2>0. step \in [Nat -> [Levels0 -> Levels0]]
    BY <1>0
  <2>1. \A n \in Nat : \A l \in Levels0 : step[n][l] = NextLevel(l)
    OBVIOUS
  <2> HIDE DEF step
  <2>2. Iterable(Levels0)
    BY Iteration, Zenon
  <2>4. PICK f \in [Nat -> Levels0] : f[0] = Bottom(s) /\ \A n \in Nat : f[n + 1] = step[n][f[n]]
    BY <1>1, <2>0, <2>2 DEF Iterable
  <2>3. \A n \in Nat : f[n + 1] = NextLevel(f[n])
    BY <2>1, <2>4
  <2> QED
    BY <2>3, <2>4
<1>3. level = [k \in Nat |-> IF k = 0 THEN Bottom(s) ELSE NextLevel(level[k - 1])]
  <2> SUFFICES \E g : g = [k \in Nat |-> IF k = 0 THEN Bottom(s) ELSE NextLevel(g[k - 1])]
    BY Zenon
  <2>1. \A k \in Nat : f[k] = IF k = 0 THEN Bottom(s) ELSE NextLevel(f[k - 1])
    <3> SUFFICES ASSUME NEW k \in Nat, k # 0 PROVE f[k] = NextLevel(f[k - 1])
      BY <1>2
    <3>1. k - 1 \in Nat /\ (k - 1) + 1 = k
      OBVIOUS
    <3> QED
      BY <1>2, <3>1
  <2>2. f = [k \in Nat |-> IF k = 0 THEN Bottom(s) ELSE NextLevel(f[k - 1])]
    BY <2>1
  <2> QED
    BY <2>2
<1>4. Levels(s) = level
  BY DEF Levels, Bottom
<1> HIDE DEF level
<1>5. level[0] = Bottom(s) /\ \A k \in Nat : level[k + 1] = NextLevel(level[k])
  BY <1>3
<1>6. \A k \in Nat : level[k] \in Levels0
  <2> DEFINE T == {k \in Nat : level[k] \in Levels0}
  <2>1. 0 \in T /\ T \subseteq Nat
    BY <1>1, <1>5
  <2>2. ASSUME NEW k \in T PROVE k + 1 \in T
    <3>1. k \in Nat /\ level[k] \in Levels0
      OBVIOUS
    <3>2. level[k + 1] = NextLevel(level[k])
      BY <1>5, <3>1
    <3>3. level[k + 1] \in Levels0
      BY <1>0, <3>1, <3>2
    <3> QED
      BY <3>1, <3>3
  <2> HIDE DEF T
  <2>3. T = Nat
    BY <2>1, <2>2, NatSets
  <2> QED
    BY <2>3 DEF T
<1>7. level \in [Nat -> Levels0]
  BY <1>3, <1>6
<1> QED
  BY <1>4, <1>5, <1>7 DEF Levels0

-----------------------------------------------------------------------------
(* Merkle trees: the width of the levels. *)

LEMMA AboveFacts ==
  ASSUME NEW w \in Nat \ {0}
  PROVE  /\ Above(w) \in Nat \ {0} /\ Above(w) <= w /\ (w # 1 => Above(w) < w)
         /\ w \in {2 * Above(w) - 1, 2 * Above(w)}
BY DEF Above

LEMMA Widths ==
  ASSUME NEW D, NEW U, Nodes(D, U), NEW s \in Seq(D), Len(s) # 0
  PROVE  /\ Len(s) \in Nat \ {0}
         /\ Levels(s)[0] = Bottom(s) /\ Len(Levels(s)[0]) = Len(s)
         /\ \A k \in Nat : /\ Levels(s)[k] \in Seq(U) /\ Len(Levels(s)[k]) \in Nat \ {0}
                           /\ Levels(s)[k + 1] = NextLevel(Levels(s)[k])
                           /\ Len(Levels(s)[k + 1]) = Above(Len(Levels(s)[k]))
                           /\ Len(Levels(s)[k]) = 1 \/ Len(Levels(s)[k]) + k <= Len(s)
<1> DEFINE level == Levels(s)
           width(k) == Len(level[k])
<1>1. Len(s) \in Nat \ {0}
  BY LenProperties
<1>2. level[0] = Bottom(s) /\ width(0) = Len(s)
  <2>1. Bottom(s) \in [1 .. Len(s) -> {HashLeaf(s[i]) : i \in 1 .. Len(s)}]
    BY DEF Bottom
  <2>2. Len(Bottom(s)) = Len(s)
    BY <1>1, <2>1, ListOf
  <2> QED
    BY <2>2, LevelFacts
<1>3. \A k \in Nat : level[k] \in Seq(U) /\ level[k + 1] = NextLevel(level[k])
  BY LevelFacts
<1>4. \A k \in Nat : width(k + 1) = Above(width(k))
  BY <1>3, NextLevelFacts
<1> HIDE DEF level, width
<1>5. \A k \in Nat : width(k) \in Nat \ {0} /\ (width(k) = 1 \/ width(k) + k <= Len(s))
  <2> DEFINE T == {k \in Nat : width(k) \in Nat \ {0} /\ (width(k) = 1 \/ width(k) + k <= Len(s))}
  <2>1. 0 \in T /\ T \subseteq Nat
    BY <1>1, <1>2
  <2>2. ASSUME NEW k \in T PROVE k + 1 \in T
    <3>1. k \in Nat /\ width(k) \in Nat \ {0} /\ (width(k) = 1 \/ width(k) + k <= Len(s))
      OBVIOUS
    <3>2. /\ width(k + 1) \in Nat \ {0} /\ width(k + 1) <= width(k)
          /\ width(k) # 1 => width(k + 1) < width(k)
      BY <1>4, <3>1, AboveFacts
    <3>3. width(k + 1) = 1 \/ width(k + 1) + (k + 1) <= Len(s)
      BY <1>1, <3>1, <3>2
    <3> QED
      BY <3>1, <3>2, <3>3
  <2> HIDE DEF T
  <2>3. T = Nat
    BY <2>1, <2>2, NatSets
  <2> QED
    BY <2>3 DEF T
<1> QED
  BY <1>1, <1>2, <1>3, <1>4, <1>5 DEF level, width

\* However far up one looks, from the last level on there is the root.
LEMMA RootAbove ==
  ASSUME NEW D, NEW U, Nodes(D, U), NEW s \in Seq(D), Len(s) # 0, NEW n \in Nat
  PROVE  Len(Levels(s)[Len(s) + n]) = 1 /\ Levels(s)[Len(s) + n][1] = Root(s)
<1> DEFINE level == Levels(s)
<1>1. Len(s) \in Nat \ {0}
  BY Widths
<1>2. \A k \in Nat : /\ level[k] \in Seq(U) /\ Len(level[k]) \in Nat \ {0}
                     /\ Len(level[k]) = 1 \/ Len(level[k]) + k <= Len(s)
  BY Widths
<1>3. \A k \in Nat : level[k + 1] = NextLevel(level[k])
  BY Widths
<1>4. level[Len(s)][1] = Root(s)
  BY DEF Root
<1> HIDE DEF level
<1> DEFINE T == {m \in Nat : Len(level[Len(s) + m]) = 1 /\ level[Len(s) + m][1] = Root(s)}
<1>5. 0 \in T /\ T \subseteq Nat
  <2>1. Len(s) + 0 = Len(s) /\ Len(level[Len(s)]) = 1
    BY <1>1, <1>2
  <2> QED
    BY <1>4, <2>1
<1>6. ASSUME NEW m \in T PROVE m + 1 \in T
  <2> DEFINE l == level[Len(s) + m]
  <2>1. m \in Nat /\ Len(s) + m \in Nat /\ Len(l) = 1 /\ l[1] = Root(s) /\ l \in Seq(U)
    BY <1>1, <1>2
  <2> HIDE DEF l
  <2>2. Len(NextLevel(l)) = 1 /\ NextLevel(l)[1] = l[1]
    <3>1. Above(1) = 1
      BY DEF Above
    <3>2. /\ Len(NextLevel(l)) = Above(Len(l))
          /\ \A i \in 1 .. Above(Len(l)) :
               NextLevel(l)[i] = IF 2 * i <= Len(l) THEN HashPair(l[2 * i - 1], l[2 * i]) ELSE l[2 * i - 1]
      BY <2>1, NextLevelFacts
    <3>3. 1 \in 1 .. 1 /\ 2 * 1 - 1 = 1 /\ ~(2 * 1 <= 1)
      OBVIOUS
    <3> QED
      BY <2>1, <3>1, <3>2, <3>3
  <2>3. level[Len(s) + (m + 1)] = NextLevel(l)
    <3>1. Len(s) + (m + 1) = (Len(s) + m) + 1
      BY <1>1, <2>1
    <3> QED
      BY <1>3, <2>1, <3>1 DEF l
  <2> QED
    BY <2>1, <2>2, <2>3
<1> HIDE DEF T
<1>7. T = Nat
  BY <1>5, <1>6, NatSets
<1> QED
  BY <1>7 DEF T, level

-----------------------------------------------------------------------------
(* Merkle trees: distinct lists have distinct roots. *)

\* The left spine of a hash: k pairs, and then a leaf.
SpineOf(h, k, f) ==
  /\ f[0] = h /\ f[k][1] = "leaf"
  /\ \A i \in 0 .. k : i # k => f[i][1] = "node" /\ f[i + 1] = f[i][2]

Spine(h, k) == \E f : SpineOf(h, k, f)

LEMMA SpineOfLeaf ==
  ASSUME NEW d
  PROVE  Spine(HashLeaf(d), 0)
<1>1. SpineOf(HashLeaf(d), 0, [i \in 0 .. 0 |-> HashLeaf(d)])
  BY DEF SpineOf, HashLeaf
<1> QED
  BY <1>1 DEF Spine

LEMMA SpineOfPair ==
  ASSUME NEW x, NEW y, NEW k \in Nat, Spine(x, k)
  PROVE  Spine(HashPair(x, y), k + 1)
<1>1. PICK f : SpineOf(x, k, f)
  BY DEF Spine
<1> DEFINE g == [i \in 0 .. k + 1 |-> IF i = 0 THEN HashPair(x, y) ELSE f[i - 1]]
<1>2. g[0] = HashPair(x, y) /\ g[0][1] = "node" /\ g[0][2] = x
  BY DEF HashPair
<1>3. \A i \in 0 .. k : g[i + 1] = f[i]
  <2>1. \A i \in 0 .. k : i + 1 \in 0 .. k + 1 /\ i + 1 # 0 /\ (i + 1) - 1 = i
    OBVIOUS
  <2> QED
    BY <2>1
<1> HIDE DEF g
<1>4. g[k + 1][1] = "leaf"
  BY <1>1, <1>3 DEF SpineOf
<1>5. ASSUME NEW i \in 0 .. k + 1, i # k + 1
      PROVE  g[i][1] = "node" /\ g[i + 1] = g[i][2]
  <2>1. CASE i = 0
    BY <1>1, <1>2, <1>3, <2>1 DEF SpineOf
  <2>2. CASE i # 0
    <3>1. i - 1 \in 0 .. k /\ i - 1 # k /\ (i - 1) + 1 = i /\ i \in 0 .. k
      BY <1>5, <2>2
    <3>2. g[i] = f[i - 1] /\ g[i + 1] = f[i]
      BY <1>3, <3>1
    <3>3. f[i - 1][1] = "node" /\ f[i] = f[i - 1][2]
      BY <1>1, <3>1 DEF SpineOf
    <3> QED
      BY <3>2, <3>3
  <2> QED
    BY <2>1, <2>2
<1>6. SpineOf(HashPair(x, y), k + 1, g)
  BY <1>2, <1>4, <1>5 DEF SpineOf
<1> QED
  BY <1>6 DEF Spine

\* A hash has one left spine.
LEMMA OneSpine ==
  ASSUME NEW h, NEW k \in Nat, NEW l \in Nat, Spine(h, k), Spine(h, l)
  PROVE  ~(k < l)
<1> SUFFICES ASSUME k < l PROVE FALSE
  OBVIOUS
<1>1. PICK f : SpineOf(h, k, f)
  BY DEF Spine
<1>2. PICK g : SpineOf(h, l, g)
  BY DEF Spine
<1> DEFINE T == {i \in Nat : i <= k => f[i] = g[i]}
<1>3. 0 \in T /\ T \subseteq Nat
  BY <1>1, <1>2 DEF SpineOf
<1>4. ASSUME NEW i \in T PROVE i + 1 \in T
  <2> SUFFICES ASSUME i + 1 <= k PROVE f[i + 1] = g[i + 1]
    OBVIOUS
  <2>1. i \in 0 .. k /\ i # k /\ i \in 0 .. l /\ i # l /\ f[i] = g[i]
    OBVIOUS
  <2>2. f[i + 1] = f[i][2] /\ g[i + 1] = g[i][2]
    BY <1>1, <1>2, <2>1 DEF SpineOf
  <2> QED
    BY <2>1, <2>2
<1> HIDE DEF T
<1>5. T = Nat
  BY <1>3, <1>4, NatSets
<1>6. f[k] = g[k]
  BY <1>5 DEF T
<1>7. f[k][1] = "leaf" /\ g[k][1] = "node"
  <2>1. k \in 0 .. l /\ k # l
    OBVIOUS
  <2> QED
    BY <1>1, <1>2, <2>1 DEF SpineOf
<1> QED
  BY <1>6, <1>7

\* Level k: every node but the last has k pairs below it, the last no more.
Shaped(level, k) ==
  /\ \A i \in 1 .. Len(level) : i # Len(level) => Spine(level[i], k)
  /\ \E j \in 0 .. k : Spine(level[Len(level)], j)

LEMMA ShapedAbove ==
  ASSUME NEW D, NEW U, Nodes(D, U), NEW prev \in Seq(U), Len(prev) # 0, NEW k \in Nat, Shaped(prev, k)
  PROVE  Shaped(NextLevel(prev), k + 1)
<1> DEFINE next == NextLevel(prev)
           n == Len(prev)
           m == Above(n)
<1>1. n \in Nat \ {0}
  BY LenProperties
<1>2. /\ m \in Nat \ {0} /\ n \in {2 * m - 1, 2 * m}
  BY <1>1, AboveFacts
<1>3. /\ Len(next) = m
      /\ \A i \in 1 .. m : next[i] = IF 2 * i <= n THEN HashPair(prev[2 * i - 1], prev[2 * i]) ELSE prev[2 * i - 1]
  BY NextLevelFacts
<1>4. /\ \A i \in 1 .. n : i # n => Spine(prev[i], k)
      /\ \E j \in 0 .. k : Spine(prev[n], j)
  BY DEF Shaped
<1> HIDE DEF next, n, m
<1>5. ASSUME NEW i \in 1 .. m, 2 * i <= n PROVE Spine(next[i], k + 1)
  <2>1. 2 * i - 1 \in 1 .. n /\ 2 * i - 1 # n
    BY <1>1, <1>2, <1>5
  <2>2. Spine(prev[2 * i - 1], k) /\ next[i] = HashPair(prev[2 * i - 1], prev[2 * i])
    BY <1>3, <1>4, <1>5, <2>1
  <2> QED
    BY <2>2, SpineOfPair
<1>6. \A i \in 1 .. m : i # m => 2 * i <= n
  BY <1>1, <1>2
<1>7. \E j \in 0 .. k + 1 : Spine(next[m], j)
  <2>1. CASE 2 * m <= n
    <3>1. Spine(next[m], k + 1) /\ k + 1 \in 0 .. k + 1
      BY <1>2, <1>5, <2>1
    <3> QED
      BY <3>1
  <2>2. CASE ~(2 * m <= n)
    <3>1. next[m] = prev[n]
      <4>1. 2 * m - 1 = n /\ m \in 1 .. m
        BY <1>1, <1>2, <2>2
      <4> QED
        BY <1>3, <2>2, <4>1
    <3>2. PICK j \in 0 .. k : Spine(prev[n], j)
      BY <1>4
    <3>3. j \in 0 .. k + 1
      OBVIOUS
    <3> QED
      BY <3>1, <3>2, <3>3
  <2> QED
    BY <2>1, <2>2
<1> QED
  BY <1>3, <1>5, <1>6, <1>7 DEF Shaped, next

LEMMA LevelsShaped ==
  ASSUME NEW D, NEW U, Nodes(D, U), NEW s \in Seq(D), Len(s) # 0
  PROVE  \A k \in Nat : Shaped(Levels(s)[k], k)
<1> DEFINE level == Levels(s)
           T == {k \in Nat : Shaped(level[k], k)}
<1>1. \A k \in Nat : level[k] \in Seq(U) /\ Len(level[k]) \in Nat \ {0} /\ level[k + 1] = NextLevel(level[k])
  BY Widths
<1>2. level[0] = Bottom(s) /\ Len(level[0]) = Len(s) /\ Len(s) \in Nat \ {0}
  BY Widths
<1> HIDE DEF level
<1>3. 0 \in T /\ T \subseteq Nat
  <2>1. \A i \in 1 .. Len(s) : level[0][i] = HashLeaf(s[i])
    BY <1>2 DEF Bottom
  <2>2. \A i \in 1 .. Len(s) : Spine(level[0][i], 0)
    BY <2>1, SpineOfLeaf
  <2>3. Len(s) \in 1 .. Len(s) /\ 0 \in 0 .. 0
    BY <1>2
  <2>4. Shaped(level[0], 0)
    BY <1>2, <2>2, <2>3 DEF Shaped
  <2> QED
    BY <2>4
<1>4. ASSUME NEW k \in T PROVE k + 1 \in T
  <2>1. k \in Nat /\ Shaped(level[k], k)
    OBVIOUS
  <2>2. level[k] \in Seq(U) /\ Len(level[k]) # 0 /\ level[k + 1] = NextLevel(level[k])
    BY <1>1, <2>1
  <2>3. Shaped(level[k + 1], k + 1)
    BY <2>1, <2>2, ShapedAbove
  <2> QED
    BY <2>1, <2>3
<1> HIDE DEF T
<1>5. T = Nat
  BY <1>3, <1>4, NatSets
<1> QED
  BY <1>5 DEF T, level

\* A level is determined by the one above it.
LEMMA BelowDetermined ==
  ASSUME NEW D, NEW U, Nodes(D, U), NEW k \in Nat,
         NEW a \in Seq(U), Len(a) # 0, Shaped(a, k),
         NEW b \in Seq(U), Len(b) # 0, Shaped(b, k), NextLevel(a) = NextLevel(b)
  PROVE  ~(Len(b) < Len(a)) /\ (Len(a) = Len(b) => a = b)
<1> DEFINE next == NextLevel(a)
           n == Len(a)
           m == Above(n)
<1>1. n \in Nat \ {0} /\ Len(b) \in Nat \ {0}
  BY LenProperties
<1>2. /\ m \in Nat \ {0} /\ n \in {2 * m - 1, 2 * m}
  BY <1>1, AboveFacts
<1>3. /\ Len(next) = m
      /\ \A i \in 1 .. m : next[i] = IF 2 * i <= n THEN HashPair(a[2 * i - 1], a[2 * i]) ELSE a[2 * i - 1]
  BY NextLevelFacts
<1>4. /\ Above(Len(b)) = m
      /\ \A i \in 1 .. m : next[i] = IF 2 * i <= Len(b) THEN HashPair(b[2 * i - 1], b[2 * i]) ELSE b[2 * i - 1]
  <2>1. /\ Len(next) = Above(Len(b))
        /\ \A i \in 1 .. Above(Len(b)) :
             next[i] = IF 2 * i <= Len(b) THEN HashPair(b[2 * i - 1], b[2 * i]) ELSE b[2 * i - 1]
    BY NextLevelFacts
  <2> QED
    BY <1>3, <2>1
<1>5. Len(b) \in {2 * m - 1, 2 * m}
  BY <1>1, <1>4, AboveFacts
<1> HIDE DEF next, n, m
<1>6. ASSUME Len(b) < n PROVE FALSE
  <2>1. n = 2 * m /\ Len(b) = 2 * m - 1 /\ m \in 1 .. m
    BY <1>1, <1>2, <1>5, <1>6
  <2>2. next[m] = HashPair(a[2 * m - 1], a[2 * m]) /\ next[m] = b[Len(b)]
    <3>1. 2 * m <= n /\ ~(2 * m <= Len(b))
      BY <1>2, <2>1
    <3> QED
      BY <1>3, <1>4, <2>1, <3>1
  <2>3. 2 * m - 1 \in 1 .. n /\ 2 * m - 1 # n
    BY <1>2, <2>1
  <2>4. Spine(a[2 * m - 1], k)
    BY <2>3 DEF Shaped, n
  <2>5. Spine(b[Len(b)], k + 1)
    BY <2>2, <2>4, SpineOfPair
  <2>6. PICK j \in 0 .. k : Spine(b[Len(b)], j)
    BY DEF Shaped
  <2>7. j \in Nat /\ j < k + 1 /\ k + 1 \in Nat
    OBVIOUS
  <2> QED
    BY <2>5, <2>6, <2>7, OneSpine
<1>7. ASSUME n = Len(b) PROVE a = b
  <2>1. ASSUME NEW i \in 1 .. n PROVE a[i] = b[i]
    <3>1. PICK p \in 1 .. m : i = 2 * p - 1 \/ i = 2 * p
      <4>1. Above(i) \in 1 .. m /\ (i = 2 * Above(i) - 1 \/ i = 2 * Above(i))
        BY <1>1, <1>2, AboveFacts
      <4> QED
        BY <4>1
    <3>2. CASE 2 * p <= n
      <4>1. HashPair(a[2 * p - 1], a[2 * p]) = HashPair(b[2 * p - 1], b[2 * p])
        BY <1>3, <1>4, <1>7, <3>2
      <4>2. a[2 * p - 1] = b[2 * p - 1] /\ a[2 * p] = b[2 * p]
        BY <4>1, HashesDiffer
      <4> QED
        BY <3>1, <4>2
    <3>3. CASE ~(2 * p <= n)
      <4>1. a[2 * p - 1] = b[2 * p - 1]
        BY <1>3, <1>4, <1>7, <3>3
      <4>2. i = 2 * p - 1
        BY <1>1, <3>1, <3>3
      <4> QED
        BY <4>1, <4>2
    <3> QED
      BY <3>2, <3>3
  <2> QED
    BY <1>7, <2>1, SeqEqual DEF n
<1> QED
  BY <1>6, <1>7 DEF n

\* A root commits to its list: no other list has it.
THEOREM DistinctRoots ==
  ASSUME NEW D, NEW s \in Seq(D), NEW t \in Seq(D), Len(s) # 0, Len(t) # 0, Root(s) = Root(t)
  PROVE  s = t
<1>1. PICK U : Nodes(D, U)
  BY NodesExist
<1> DEFINE a == Levels(s)
           b == Levels(t)
           K == Len(s) + Len(t)
<1>2. Len(s) \in Nat \ {0} /\ Len(t) \in Nat \ {0}
  BY <1>1, Widths
<1>3. a[0] = Bottom(s) /\ Len(a[0]) = Len(s)
  BY <1>1, Widths
<1>4. b[0] = Bottom(t) /\ Len(b[0]) = Len(t)
  BY <1>1, Widths
<1>5. \A k \in Nat : a[k] \in Seq(U) /\ Len(a[k]) \in Nat \ {0} /\ a[k + 1] = NextLevel(a[k])
  BY <1>1, Widths
<1>6. \A k \in Nat : b[k] \in Seq(U) /\ Len(b[k]) \in Nat \ {0} /\ b[k + 1] = NextLevel(b[k])
  BY <1>1, Widths
<1>7. \A k \in Nat : Shaped(a[k], k)
  BY <1>1, LevelsShaped
<1>8. \A k \in Nat : Shaped(b[k], k)
  BY <1>1, LevelsShaped
<1>9. Len(a[K]) = 1 /\ a[K][1] = Root(s)
  BY <1>1, <1>2, RootAbove
<1>10. Len(b[K]) = 1 /\ b[K][1] = Root(t)
  <2>1. K = Len(t) + Len(s)
    BY <1>2
  <2> QED
    BY <1>1, <1>2, <2>1, RootAbove
<1>11. K \in Nat
  BY <1>2
<1> HIDE DEF a, b, K
<1>12. a[K] = b[K]
  <2>1. a[K] \in Seq(U) /\ b[K] \in Seq(U)
    BY <1>5, <1>6, <1>11
  <2>2. \A i \in 1 .. Len(a[K]) : a[K][i] = b[K][i]
    BY <1>9, <1>10
  <2> QED
    BY <1>9, <1>10, <2>1, <2>2, SeqEqual
<1> DEFINE T == {j \in Nat : j <= K => a[K - j] = b[K - j]}
<1>13. 0 \in T /\ T \subseteq Nat
  BY <1>11, <1>12
<1>14. ASSUME NEW j \in T PROVE j + 1 \in T
  <2> SUFFICES ASSUME j + 1 <= K PROVE a[K - (j + 1)] = b[K - (j + 1)]
    OBVIOUS
  <2> DEFINE k == K - (j + 1)
  <2>1. k \in Nat /\ k + 1 = K - j /\ j <= K
    BY <1>11
  <2>2. a[k + 1] = b[k + 1]
    BY <2>1
  <2> HIDE DEF k
  <2>3. /\ a[k] \in Seq(U) /\ Len(a[k]) \in Nat \ {0} /\ Shaped(a[k], k)
        /\ b[k] \in Seq(U) /\ Len(b[k]) \in Nat \ {0} /\ Shaped(b[k], k)
        /\ NextLevel(a[k]) = NextLevel(b[k])
    BY <1>5, <1>6, <1>7, <1>8, <2>1, <2>2
  <2>4. ~(Len(b[k]) < Len(a[k])) /\ (Len(a[k]) = Len(b[k]) => a[k] = b[k])
    BY <1>1, <2>1, <2>3, BelowDetermined
  <2>5. ~(Len(a[k]) < Len(b[k]))
    BY <1>1, <2>1, <2>3, BelowDetermined
  <2>6. a[k] = b[k]
    BY <2>3, <2>4, <2>5
  <2> QED
    BY <2>6 DEF k
<1> HIDE DEF T
<1>15. T = Nat
  BY <1>13, <1>14, NatSets
<1>16. Bottom(s) = Bottom(t) /\ Len(s) = Len(t)
  <2>1. K \in T /\ K - K = 0
    BY <1>11, <1>15
  <2>2. a[0] = b[0]
    BY <1>11, <2>1 DEF T
  <2> QED
    BY <1>3, <1>4, <2>2
<1>17. ASSUME NEW i \in 1 .. Len(s) PROVE s[i] = t[i]
  <2>1. Bottom(s)[i] = HashLeaf(s[i]) /\ Bottom(t)[i] = HashLeaf(t[i])
    BY <1>16 DEF Bottom
  <2> QED
    BY <1>16, <2>1, HashesDiffer
<1> QED
  BY <1>16, <1>17, SeqEqual

-----------------------------------------------------------------------------
(* Merkle trees: the loops of a proof and of its verification. *)

LEMMA PlaceFacts ==
  ASSUME NEW i \in Nat
  PROVE  /\ Places(i)[0] = i
         /\ \A k \in Nat : Places(i)[k] \in Nat /\ Places(i)[k + 1] = Places(i)[k] \div 2
<1> DEFINE index[k \in Nat] == IF k = 0 THEN i ELSE index[k - 1] \div 2
<1>1. PICK f \in [Nat -> Nat] : f[0] = i /\ \A n \in Nat : f[n + 1] = f[n] \div 2
  <2> DEFINE step == [n \in Nat |-> [x \in Nat |-> x \div 2]]
  <2>1. step \in [Nat -> [Nat -> Nat]]
    OBVIOUS
  <2>2. \A n \in Nat : \A x \in Nat : step[n][x] = x \div 2
    OBVIOUS
  <2> HIDE DEF step
  <2>3. Iterable(Nat)
    BY Iteration, Zenon
  <2>4. PICK f \in [Nat -> Nat] : f[0] = i /\ \A n \in Nat : f[n + 1] = step[n][f[n]]
    BY <2>1, <2>3 DEF Iterable
  <2> QED
    BY <2>2, <2>4
<1>2. index = [k \in Nat |-> IF k = 0 THEN i ELSE index[k - 1] \div 2]
  <2> SUFFICES \E g : g = [k \in Nat |-> IF k = 0 THEN i ELSE g[k - 1] \div 2]
    BY Zenon
  <2>1. \A k \in Nat : f[k] = IF k = 0 THEN i ELSE f[k - 1] \div 2
    <3> SUFFICES ASSUME NEW k \in Nat, k # 0 PROVE f[k] = f[k - 1] \div 2
      BY <1>1
    <3>1. k - 1 \in Nat /\ (k - 1) + 1 = k
      OBVIOUS
    <3> QED
      BY <1>1, <3>1
  <2>2. f = [k \in Nat |-> IF k = 0 THEN i ELSE f[k - 1] \div 2]
    BY <2>1
  <2> QED
    BY <2>2
<1>3. Places(i) = index
  BY DEF Places
<1> HIDE DEF index
<1>4. index[0] = i /\ \A k \in Nat : index[k + 1] = index[k] \div 2
  BY <1>2
<1>5. \A k \in Nat : index[k] \in Nat
  <2> DEFINE T == {k \in Nat : index[k] \in Nat}
  <2>1. 0 \in T /\ T \subseteq Nat
    BY <1>4
  <2>2. ASSUME NEW k \in T PROVE k + 1 \in T
    <3>1. k \in Nat /\ index[k] \in Nat /\ index[k + 1] = index[k] \div 2
      BY <1>4
    <3> QED
      BY <3>1
  <2> HIDE DEF T
  <2>3. T = Nat
    BY <2>1, <2>2, NatSets
  <2> QED
    BY <2>3 DEF T
<1> QED
  BY <1>3, <1>4, <1>5

\* The loop over the levels of a promoted node.
Rounds(fn, sn) ==
  LET up[k \in Nat] == IF k = 0 THEN <<fn, sn>> ELSE Halved(up[k - 1][1], up[k - 1][2]) IN up

Pairs == Nat \X Nat

LEMMA HalvedType ==
  ASSUME NEW p \in Pairs
  PROVE  Halved(p[1], p[2]) \in Pairs
BY DEF Halved, Pairs

LEMMA RoundFacts ==
  ASSUME NEW fn \in Nat, NEW sn \in Nat
  PROVE  /\ Rounds(fn, sn)[0] = <<fn, sn>>
         /\ \A k \in Nat : /\ Rounds(fn, sn)[k] \in Pairs
                           /\ Rounds(fn, sn)[k + 1] = Halved(Rounds(fn, sn)[k][1], Rounds(fn, sn)[k][2])
<1> DEFINE up[k \in Nat] == IF k = 0 THEN <<fn, sn>> ELSE Halved(up[k - 1][1], up[k - 1][2])
<1>0. <<fn, sn>> \in Pairs
  BY DEF Pairs
<1>1. PICK f \in [Nat -> Pairs] : f[0] = <<fn, sn>> /\ \A n \in Nat : f[n + 1] = Halved(f[n][1], f[n][2])
  <2> DEFINE step == [n \in Nat |-> [p \in Pairs |-> Halved(p[1], p[2])]]
  <2>1. step \in [Nat -> [Pairs -> Pairs]]
    BY HalvedType
  <2>2. \A n \in Nat : \A p \in Pairs : step[n][p] = Halved(p[1], p[2])
    OBVIOUS
  <2> HIDE DEF step
  <2>3. Iterable(Pairs)
    BY Iteration, Zenon
  <2>4. PICK f \in [Nat -> Pairs] : f[0] = <<fn, sn>> /\ \A n \in Nat : f[n + 1] = step[n][f[n]]
    BY <1>0, <2>1, <2>3 DEF Iterable
  <2> QED
    BY <2>2, <2>4
<1>2. up = [k \in Nat |-> IF k = 0 THEN <<fn, sn>> ELSE Halved(up[k - 1][1], up[k - 1][2])]
  <2> SUFFICES \E g : g = [k \in Nat |-> IF k = 0 THEN <<fn, sn>> ELSE Halved(g[k - 1][1], g[k - 1][2])]
    BY Zenon
  <2>1. \A k \in Nat : f[k] = IF k = 0 THEN <<fn, sn>> ELSE Halved(f[k - 1][1], f[k - 1][2])
    <3> SUFFICES ASSUME NEW k \in Nat, k # 0 PROVE f[k] = Halved(f[k - 1][1], f[k - 1][2])
      BY <1>1
    <3>1. k - 1 \in Nat /\ (k - 1) + 1 = k
      OBVIOUS
    <3> QED
      BY <1>1, <3>1
  <2>2. f = [k \in Nat |-> IF k = 0 THEN <<fn, sn>> ELSE Halved(f[k - 1][1], f[k - 1][2])]
    BY <2>1
  <2> QED
    BY <2>2
<1>3. Rounds(fn, sn) = up
  BY DEF Rounds
<1> HIDE DEF up
<1>4. up[0] = <<fn, sn>> /\ \A k \in Nat : up[k + 1] = Halved(up[k][1], up[k][2])
  BY <1>2
<1>5. \A k \in Nat : up[k] \in Pairs
  <2> DEFINE T == {k \in Nat : up[k] \in Pairs}
  <2>1. 0 \in T /\ T \subseteq Nat
    BY <1>0, <1>4
  <2>2. ASSUME NEW k \in T PROVE k + 1 \in T
    <3>1. k \in Nat /\ up[k] \in Pairs /\ up[k + 1] = Halved(up[k][1], up[k][2])
      BY <1>4
    <3> QED
      BY <3>1, HalvedType
  <2> HIDE DEF T
  <2>3. T = Nat
    BY <2>1, <2>2, NatSets
  <2> QED
    BY <2>3 DEF T
<1> QED
  BY <1>3, <1>4, <1>5

\* Where the loop ends.
Ended(fn) == fn = 0 \/ fn % 2 = 1

LEMMA EndedStays ==
  ASSUME NEW fn \in Nat, NEW sn \in Nat, NEW n \in Nat, Ended(Rounds(fn, sn)[n][1])
  PROVE  \A k \in Nat : Rounds(fn, sn)[n + k] = Rounds(fn, sn)[n]
<1> DEFINE up == Rounds(fn, sn)
           T == {k \in Nat : up[n + k] = up[n]}
<1>1. \A k \in Nat : up[k] \in Pairs /\ up[k + 1] = Halved(up[k][1], up[k][2])
  BY RoundFacts
<1> HIDE DEF up
<1>2. 0 \in T /\ T \subseteq Nat
  OBVIOUS
<1>3. ASSUME NEW k \in T PROVE k + 1 \in T
  <2>1. n + k \in Nat /\ n + (k + 1) = (n + k) + 1 /\ up[n + k] = up[n]
    OBVIOUS
  <2>2. up[n + (k + 1)] = Halved(up[n][1], up[n][2]) /\ up[n] \in Pairs
    BY <1>1, <2>1
  <2>3. Halved(up[n][1], up[n][2]) = up[n]
    <3>1. Ended(up[n][1])
      BY DEF up
    <3>2. up[n][1] \in Nat /\ up[n] = <<up[n][1], up[n][2]>>
      BY <2>2 DEF Pairs
    <3> QED
      BY <3>1, <3>2 DEF Halved, Ended
  <2> QED
    BY <2>1, <2>2, <2>3
<1> HIDE DEF T
<1>4. T = Nat
  BY <1>2, <1>3, NatSets
<1> QED
  BY <1>4 DEF T, up

LEMMA RoundsEnd ==
  ASSUME NEW fn \in Nat, NEW sn \in Nat
  PROVE  Ended(Rounds(fn, sn)[fn][1])
<1> DEFINE up == Rounds(fn, sn)
           T == {k \in Nat : Ended(up[k][1]) \/ up[k][1] + k <= fn}
<1>1. /\ up[0] = <<fn, sn>>
      /\ \A k \in Nat : up[k] \in Pairs /\ up[k + 1] = Halved(up[k][1], up[k][2])
  BY RoundFacts
<1> HIDE DEF up
<1>2. 0 \in T /\ T \subseteq Nat
  BY <1>1
<1>3. ASSUME NEW k \in T PROVE k + 1 \in T
  <2>1. k \in Nat /\ up[k][1] \in Nat /\ up[k] = <<up[k][1], up[k][2]>>
    BY <1>1 DEF Pairs
  <2>2. up[k + 1] = Halved(up[k][1], up[k][2])
    BY <1>1, <2>1
  <2>3. CASE Ended(up[k][1])
    <3>1. up[k + 1] = up[k]
      BY <2>1, <2>2, <2>3 DEF Halved, Ended
    <3> QED
      BY <2>1, <2>3, <3>1
  <2>4. CASE ~Ended(up[k][1])
    <3>1. up[k][1] # 0 /\ up[k][1] % 2 = 0 /\ up[k][1] + k <= fn
      BY <2>1, <2>4 DEF Ended
    <3>2. up[k + 1][1] = up[k][1] \div 2
      BY <2>2, <3>1 DEF Halved
    <3>3. up[k + 1][1] + (k + 1) <= fn
      BY <2>1, <3>1, <3>2
    <3> QED
      BY <2>1, <3>3
  <2> QED
    BY <2>3, <2>4
<1> HIDE DEF T
<1>4. T = Nat
  BY <1>2, <1>3, NatSets
<1>5. Ended(up[fn][1]) \/ up[fn][1] + fn <= fn
  BY <1>4 DEF T
<1>6. up[fn][1] \in Nat
  BY <1>1 DEF Pairs
<1> QED
  BY <1>5, <1>6 DEF Ended, up

LEMMA SkipIsRounds ==
  ASSUME NEW fn \in Nat, NEW sn \in Nat
  PROVE  Skip(fn, sn) = Rounds(fn, sn)[fn] /\ Skip(fn, sn) \in Pairs
<1>1. Skip(fn, sn) = Rounds(fn, sn)[fn]
  BY DEF Skip, Rounds
<1> QED
  BY <1>1, RoundFacts

\* Nothing is skipped of a node that is not promoted.
LEMMA SkipNothing ==
  ASSUME NEW fn \in Nat, NEW sn \in Nat, fn % 2 = 1
  PROVE  Skip(fn, sn) = <<fn, sn>>
<1>1. Rounds(fn, sn)[0] = <<fn, sn>>
  BY RoundFacts
<1>2. Ended(Rounds(fn, sn)[0][1])
  BY <1>1 DEF Ended
<1>3. Rounds(fn, sn)[0 + fn] = Rounds(fn, sn)[0]
  BY <1>2, EndedStays
<1>4. 0 + fn = fn
  OBVIOUS
<1>5. Rounds(fn, sn)[fn] = <<fn, sn>>
  BY <1>1, <1>3, <1>4
<1> QED
  BY <1>5, SkipIsRounds

\* A promoted node skips to where the node above it does.
LEMMA SkipPromoted ==
  ASSUME NEW fn \in Nat, NEW sn \in Nat, fn # 0, fn % 2 = 0
  PROVE  Skip(fn, sn) = Skip(fn \div 2, sn \div 2)
<1> DEFINE f == fn \div 2
           g == sn \div 2
           up == Rounds(fn, sn)
           ab == Rounds(f, g)
<1>1. f \in Nat /\ g \in Nat /\ f <= fn - 1 /\ fn - 1 \in Nat /\ fn - 1 - f \in Nat
  OBVIOUS
<1>2. up[0] = <<fn, sn>> /\ \A k \in Nat : up[k] \in Pairs /\ up[k + 1] = Halved(up[k][1], up[k][2])
  BY RoundFacts
<1>3. ab[0] = <<f, g>> /\ \A k \in Nat : ab[k] \in Pairs /\ ab[k + 1] = Halved(ab[k][1], ab[k][2])
  BY <1>1, RoundFacts
<1>4. ab[f + (fn - 1 - f)] = ab[f]
  <2> HIDE DEF f, g
  <2>1. Ended(ab[f][1])
    BY <1>1, RoundsEnd
  <2>2. \A k \in Nat : ab[f + k] = ab[f]
    BY <1>1, <2>1, EndedStays
  <2> QED
    BY <1>1, <2>2
<1>5. Halved(fn, sn) = <<f, g>>
  BY DEF Halved
<1>6. Skip(fn, sn) = up[fn] /\ Skip(f, g) = ab[f]
  BY <1>1, SkipIsRounds
<1> HIDE DEF f, g, up, ab
<1> DEFINE T == {k \in Nat : up[k + 1] = ab[k]}
<1>7. 0 \in T /\ T \subseteq Nat
  <2>1. up[0 + 1] = Halved(fn, sn)
    BY <1>2
  <2> QED
    BY <1>3, <1>5, <2>1
<1>8. ASSUME NEW k \in T PROVE k + 1 \in T
  <2>1. k \in Nat /\ k + 1 \in Nat /\ up[k + 1] = ab[k]
    OBVIOUS
  <2>2. up[(k + 1) + 1] = Halved(up[k + 1][1], up[k + 1][2]) /\ ab[k + 1] = Halved(ab[k][1], ab[k][2])
    BY <1>2, <1>3, <2>1
  <2> QED
    BY <2>1, <2>2
<1> HIDE DEF T
<1>9. T = Nat
  BY <1>7, <1>8, NatSets
<1>10. up[fn] = ab[fn - 1]
  <2>1. fn - 1 \in T /\ (fn - 1) + 1 = fn
    BY <1>1, <1>9
  <2>2. up[(fn - 1) + 1] = ab[fn - 1]
    BY <2>1 DEF T
  <2> QED
    BY <2>1, <2>2
<1>11. f + (fn - 1 - f) = fn - 1
  BY <1>1
<1> QED
  BY <1>4, <1>6, <1>10, <1>11 DEF f, g

LEMMA SiblingFacts ==
  ASSUME NEW U, NEW nodes \in Seq(U), NEW x \in Nat
  PROVE  SiblingIn(nodes, x) \in Seq(U)
<1>1. Len(nodes) \in Nat /\ \A i \in 1 .. Len(nodes) : nodes[i] \in U
  BY LenProperties
<1>2. CASE Sibling(x) < Len(nodes)
  <2>1. Sibling(x) + 1 \in 1 .. Len(nodes)
    BY <1>1, <1>2 DEF Sibling
  <2>2. nodes[Sibling(x) + 1] \in U
    BY <1>1, <2>1
  <2> QED
    BY <1>2, <2>2 DEF SiblingIn
<1>3. CASE ~(Sibling(x) < Len(nodes))
  BY <1>3 DEF SiblingIn
<1> QED
  BY <1>2, <1>3

\* The proof of leaf i, as far as level k.
Path(s, i) ==
  LET proof[k \in Nat] ==
        IF k = 0 THEN <<>>
        ELSE proof[k - 1] \o SiblingIn(Levels(s)[k - 1], Places(i)[k - 1])
  IN proof

LEMMA PathFacts ==
  ASSUME NEW D, NEW U, Nodes(D, U), NEW s \in Seq(D), Len(s) # 0, NEW i \in Nat
  PROVE  /\ Path(s, i)[0] = <<>>
         /\ \A k \in Nat : /\ Path(s, i)[k] \in Seq(U)
                           /\ Path(s, i)[k + 1] = Path(s, i)[k] \o SiblingIn(Levels(s)[k], Places(i)[k])
         /\ ProofFor(s, i) = Path(s, i)[Len(s)]
<1> DEFINE Paths == Seq(U)
           sib(k) == SiblingIn(Levels(s)[k], Places(i)[k])
           proof[k \in Nat] == IF k = 0 THEN <<>> ELSE proof[k - 1] \o sib(k - 1)
<1>0. \A k \in Nat : sib(k) \in Paths
  <2>1. \A k \in Nat : Levels(s)[k] \in Seq(U) /\ Places(i)[k] \in Nat
    BY Widths, PlaceFacts
  <2> QED
    BY <2>1, SiblingFacts
<1>1. Path(s, i) = proof
  BY DEF Path
<1>2. ProofFor(s, i) = Path(s, i)[Len(s)]
  BY DEF ProofFor, Path
<1> HIDE DEF sib
<1>3. \A q \in Paths : \A k \in Nat : q \o sib(k) \in Paths
  <2>1. \A q, r \in Paths : q \o r \in Paths
    BY ConcatProperties
  <2> QED
    BY <1>0, <2>1
<1>4. <<>> \in Paths
  OBVIOUS
<1> HIDE DEF Paths
<1>5. PICK f \in [Nat -> Paths] : f[0] = <<>> /\ \A n \in Nat : f[n + 1] = f[n] \o sib(n)
  <2> DEFINE step == [n \in Nat |-> [q \in Paths |-> q \o sib(n)]]
  <2>1. step \in [Nat -> [Paths -> Paths]]
    BY <1>3
  <2>2. \A n \in Nat : \A q \in Paths : step[n][q] = q \o sib(n)
    OBVIOUS
  <2> HIDE DEF step
  <2>3. Iterable(Paths)
    BY Iteration, Zenon
  <2>4. PICK f \in [Nat -> Paths] : f[0] = <<>> /\ \A n \in Nat : f[n + 1] = step[n][f[n]]
    BY <1>4, <2>1, <2>3 DEF Iterable
  <2> QED
    BY <2>2, <2>4
<1>6. proof = [k \in Nat |-> IF k = 0 THEN <<>> ELSE proof[k - 1] \o sib(k - 1)]
  <2> SUFFICES \E g : g = [k \in Nat |-> IF k = 0 THEN <<>> ELSE g[k - 1] \o sib(k - 1)]
    BY Zenon
  <2>1. \A k \in Nat : f[k] = IF k = 0 THEN <<>> ELSE f[k - 1] \o sib(k - 1)
    <3> SUFFICES ASSUME NEW k \in Nat, k # 0 PROVE f[k] = f[k - 1] \o sib(k - 1)
      BY <1>5
    <3>1. k - 1 \in Nat /\ (k - 1) + 1 = k
      OBVIOUS
    <3> QED
      BY <1>5, <3>1
  <2>2. f = [k \in Nat |-> IF k = 0 THEN <<>> ELSE f[k - 1] \o sib(k - 1)]
    BY <2>1
  <2> QED
    BY <2>2
<1> HIDE DEF proof
<1>7. proof[0] = <<>> /\ \A k \in Nat : proof[k + 1] = proof[k] \o sib(k)
  <2>1. proof[0] = <<>>
    BY <1>6
  <2>2. ASSUME NEW k \in Nat PROVE proof[k + 1] = proof[k] \o sib(k)
    <3>1. k + 1 \in Nat /\ k + 1 # 0 /\ (k + 1) - 1 = k
      OBVIOUS
    <3> HIDE DEF sib
    <3> QED
      BY <1>6, <3>1
  <2> QED
    BY <2>1, <2>2
<1>8. \A k \in Nat : proof[k] \in Paths
  <2> DEFINE T == {k \in Nat : proof[k] \in Paths}
  <2>1. 0 \in T /\ T \subseteq Nat
    BY <1>4, <1>7
  <2>2. ASSUME NEW k \in T PROVE k + 1 \in T
    <3>1. k \in Nat /\ proof[k] \in Paths
      OBVIOUS
    <3>2. proof[k + 1] = proof[k] \o sib(k)
      BY <1>7, <3>1
    <3>3. proof[k] \o sib(k) \in Paths
      BY <1>3, <3>1
    <3>4. proof[k + 1] \in Paths
      BY <3>2, <3>3, Zenon
    <3>5. k \in Nat
      OBVIOUS
    <3> QED
      BY <3>4, <3>5
  <2> HIDE DEF T
  <2>3. T = Nat
    BY <2>1, <2>2, NatSets
  <2> QED
    BY <2>3 DEF T
<1> QED
  BY <1>1, <1>2, <1>7, <1>8 DEF Paths, sib

\* What verification computes.
Climbs(U) == [fn : Nat, sn : Nat, hash : U]

Run(d, i, p, n) ==
  LET after[j \in Nat] ==
        IF j = 0 THEN Climb(i, n - 1, HashLeaf(d)) ELSE AfterSibling(after[j - 1], p[j])
  IN after

LEMMA AfterSiblingType ==
  ASSUME NEW D, NEW U, Nodes(D, U), NEW c \in Climbs(U), NEW h \in U
  PROVE  AfterSibling(c, h) \in Climbs(U)
<1>1. c.fn \in Nat /\ c.sn \in Nat /\ c.hash \in U
  BY DEF Climbs
<1>2. Skip(c.fn, c.sn)[1] \in Nat /\ Skip(c.fn, c.sn)[2] \in Nat
  BY <1>1, SkipIsRounds DEF Pairs
<1>3. HashPair(h, c.hash) \in U /\ HashPair(c.hash, h) \in U
  BY <1>1 DEF Nodes
<1>4. \A n \in Nat : n \div 2 \in Nat
  OBVIOUS
<1> QED
  BY <1>1, <1>2, <1>3, <1>4 DEF AfterSibling, Climb, Climbs

LEMMA RunFacts ==
  ASSUME NEW D, NEW U, Nodes(D, U), NEW d \in D, NEW i \in Nat, NEW n \in Nat \ {0},
         NEW p, \A j \in Nat : p[j] \in U
  PROVE  /\ Run(d, i, p, n)[0] = Climb(i, n - 1, HashLeaf(d))
         /\ \A k \in Nat : /\ Run(d, i, p, n)[k] \in Climbs(U)
                           /\ Run(d, i, p, n)[k + 1] = AfterSibling(Run(d, i, p, n)[k], p[k + 1])
<1> DEFINE C == Climbs(U)
           first == Climb(i, n - 1, HashLeaf(d))
           after[j \in Nat] == IF j = 0 THEN first ELSE AfterSibling(after[j - 1], p[j])
<1>1. Run(d, i, p, n) = after
  BY DEF Run
<1>2. first \in C
  BY DEF Climb, Climbs, Nodes
<1>3. \A k \in Nat : \A c \in C : AfterSibling(c, p[k + 1]) \in C
  BY AfterSiblingType
<1> HIDE DEF C, first
<1>5. PICK f \in [Nat -> C] : f[0] = first /\ \A k \in Nat : f[k + 1] = AfterSibling(f[k], p[k + 1])
  <2> DEFINE step == [k \in Nat |-> [c \in C |-> AfterSibling(c, p[k + 1])]]
  <2>1. step \in [Nat -> [C -> C]]
    BY <1>3
  <2>2. \A k \in Nat : \A c \in C : step[k][c] = AfterSibling(c, p[k + 1])
    OBVIOUS
  <2> HIDE DEF step
  <2>3. Iterable(C)
    BY Iteration, Zenon
  <2>4. PICK f \in [Nat -> C] : f[0] = first /\ \A k \in Nat : f[k + 1] = step[k][f[k]]
    BY <1>2, <2>1, <2>3 DEF Iterable
  <2> QED
    BY <2>2, <2>4
<1>6. after = [k \in Nat |-> IF k = 0 THEN first ELSE AfterSibling(after[k - 1], p[k])]
  <2> SUFFICES \E g : g = [k \in Nat |-> IF k = 0 THEN first ELSE AfterSibling(g[k - 1], p[k])]
    BY Zenon
  <2>1. \A k \in Nat : f[k] = IF k = 0 THEN first ELSE AfterSibling(f[k - 1], p[k])
    <3> SUFFICES ASSUME NEW k \in Nat, k # 0 PROVE f[k] = AfterSibling(f[k - 1], p[k])
      BY <1>5
    <3>1. k - 1 \in Nat /\ (k - 1) + 1 = k
      OBVIOUS
    <3> QED
      BY <1>5, <3>1
  <2>2. f = [k \in Nat |-> IF k = 0 THEN first ELSE AfterSibling(f[k - 1], p[k])]
    BY <2>1
  <2> QED
    BY <2>2
<1> HIDE DEF after
<1>7. after[0] = first /\ \A k \in Nat : after[k + 1] = AfterSibling(after[k], p[k + 1])
  <2>1. after[0] = first
    BY <1>6
  <2>2. ASSUME NEW k \in Nat PROVE after[k + 1] = AfterSibling(after[k], p[k + 1])
    <3>1. k + 1 \in Nat /\ k + 1 # 0 /\ (k + 1) - 1 = k
      OBVIOUS
    <3> QED
      BY <1>6, <3>1
  <2> QED
    BY <2>1, <2>2
<1>8. \A k \in Nat : after[k] \in C
  <2> DEFINE T == {k \in Nat : after[k] \in C}
  <2>1. 0 \in T /\ T \subseteq Nat
    BY <1>2, <1>7
  <2>2. ASSUME NEW k \in T PROVE k + 1 \in T
    <3>1. k \in Nat /\ after[k] \in C /\ after[k + 1] = AfterSibling(after[k], p[k + 1])
      BY <1>7
    <3> QED
      BY <1>3, <3>1
  <2> HIDE DEF T
  <2>3. T = Nat
    BY <2>1, <2>2, NatSets
  <2> QED
    BY <2>3 DEF T
<1> QED
  BY <1>1, <1>7, <1>8 DEF C, first

-----------------------------------------------------------------------------
(* Merkle trees: a proof is accepted exactly when it is the proof. *)

\* The node above a node, when that is promoted, a right one and a left one.
LEMMA NodeAbove ==
  ASSUME NEW D, NEW U, Nodes(D, U), NEW prev \in Seq(U), NEW x \in Nat, x < Len(prev)
  PROVE  /\ x \div 2 < Above(Len(prev))
         /\ x % 2 = 0 /\ x + 1 = Len(prev) =>
              NextLevel(prev)[x \div 2 + 1] = prev[x + 1] /\ SiblingIn(prev, x) = <<>>
         /\ x % 2 = 1 =>
              /\ NextLevel(prev)[x \div 2 + 1] = HashPair(prev[x], prev[x + 1])
              /\ SiblingIn(prev, x) = <<prev[x]>>
         /\ x % 2 = 0 /\ x + 1 # Len(prev) =>
              /\ NextLevel(prev)[x \div 2 + 1] = HashPair(prev[x + 1], prev[x + 2])
              /\ SiblingIn(prev, x) = <<prev[x + 2]>>
<1> DEFINE n == Len(prev)
           next == NextLevel(prev)
           y == x \div 2 + 1
<1>1. n \in Nat \ {0}
  BY LenProperties
<1>2. /\ y \in 1 .. Above(n) /\ x \div 2 < Above(n)
      /\ x % 2 = 0 => 2 * y - 1 = x + 1 /\ 2 * y = x + 2
      /\ x % 2 = 1 => 2 * y - 1 = x /\ 2 * y = x + 1
  BY <1>1 DEF Above
<1>3. next[y] = IF 2 * y <= n THEN HashPair(prev[2 * y - 1], prev[2 * y]) ELSE prev[2 * y - 1]
  BY <1>2, NextLevelFacts
<1>4. SiblingIn(prev, x) = IF Sibling(x) < n THEN <<prev[Sibling(x) + 1]>> ELSE <<>>
  BY DEF SiblingIn
<1>5. (x % 2 = 0 => Sibling(x) = x + 1) /\ (x % 2 = 1 => Sibling(x) = x - 1)
  BY DEF Sibling
<1> HIDE DEF y, n, next
<1>6. CASE x % 2 = 0 /\ x + 1 = n
  <2>1. 2 * y = x + 2 /\ 2 * y - 1 = x + 1 /\ Sibling(x) = x + 1
    BY <1>2, <1>5, <1>6
  <2>2. ~(2 * y <= n) /\ ~(Sibling(x) < n)
    BY <1>1, <1>6, <2>1
  <2>3. next[y] = prev[x + 1] /\ SiblingIn(prev, x) = <<>>
    BY <1>3, <1>4, <2>1, <2>2
  <2>4. ~(x % 2 = 1)
    BY <1>6
  <2> QED
    BY <1>2, <1>6, <2>3, <2>4, Zenon DEF y, n, next
<1>7. CASE x % 2 = 1
  <2>1. 2 * y = x + 1 /\ 2 * y - 1 = x /\ Sibling(x) = x - 1
    BY <1>2, <1>5, <1>7
  <2>2. 2 * y <= n /\ Sibling(x) < n /\ Sibling(x) + 1 = x
    BY <1>1, <2>1 DEF n
  <2>3. next[y] = HashPair(prev[x], prev[x + 1]) /\ SiblingIn(prev, x) = <<prev[x]>>
    BY <1>3, <1>4, <2>1, <2>2
  <2>4. ~(x % 2 = 0)
    BY <1>7
  <2> QED
    BY <1>2, <1>7, <2>3, <2>4, Zenon DEF y, n, next
<1>8. CASE x % 2 = 0 /\ x + 1 # n
  <2>1. 2 * y = x + 2 /\ 2 * y - 1 = x + 1 /\ Sibling(x) = x + 1
    BY <1>2, <1>5, <1>8
  <2>2. 2 * y <= n /\ Sibling(x) < n /\ Sibling(x) + 1 = x + 2
    BY <1>1, <1>8, <2>1 DEF n
  <2>3. next[y] = HashPair(prev[x + 1], prev[x + 2]) /\ SiblingIn(prev, x) = <<prev[x + 2]>>
    BY <1>3, <1>4, <2>1, <2>2
  <2>4. ~(x % 2 = 1)
    BY <1>8
  <2> QED
    BY <1>2, <1>8, <2>3, <2>4, Zenon DEF y, n, next
<1>9. x % 2 = 0 \/ x % 2 = 1
  OBVIOUS
<1> QED
  BY <1>6, <1>7, <1>8, <1>9

\* What is computed of fn and sn is that of node x of a level of width w, or of
\* a node below it from which on the path has been promoted.
Behind(c, x, w) ==
  \/ c.fn = x /\ c.sn = w - 1
  \/ /\ x = w - 1 /\ x # 0
     /\ c.fn = c.sn /\ ~Ended(c.fn) /\ Skip(c.fn, c.sn) = Skip(x, w - 1)

LEMMA BehindPromoted ==
  ASSUME NEW U, NEW c \in Climbs(U), NEW x \in Nat, NEW w \in Nat, x % 2 = 0, x + 1 = w, Behind(c, x, w)
  PROVE  Behind(c, x \div 2, Above(w))
<1>1. CASE x = 0
  <2>1. w = 1 /\ x \div 2 = 0 /\ Above(w) = 1
    BY <1>1 DEF Above
  <2> QED
    BY <1>1, <2>1 DEF Behind
<1>2. CASE x # 0
  <2> DEFINE y == x \div 2
  <2>1. /\ y \in Nat /\ y # 0 /\ Above(w) - 1 = y /\ w - 1 = x
    BY <1>2 DEF Above
  <2>2. Skip(x, x) = Skip(y, y)
    BY <1>2, SkipPromoted
  <2> HIDE DEF y
  <2>3. c.fn = c.sn /\ ~Ended(c.fn) /\ Skip(c.fn, c.sn) = Skip(x, x)
    <3>1. ~Ended(x)
      BY <1>2 DEF Ended
    <3> QED
      BY <2>1, <3>1 DEF Behind
  <2>4. Behind(c, y, Above(w))
    BY <2>1, <2>2, <2>3 DEF Behind
  <2> QED
    BY <2>4 DEF y
<1> QED
  BY <1>1, <1>2

LEMMA BehindRight ==
  ASSUME NEW U, NEW c \in Climbs(U), NEW x \in Nat, NEW w \in Nat, x % 2 = 1, x < w, Behind(c, x, w), NEW h
  PROVE  /\ c.sn # 0 /\ Behind(AfterSibling(c, h), x \div 2, Above(w))
         /\ AfterSibling(c, h).hash = HashPair(h, c.hash)
<1>1. c.fn \in Nat /\ c.sn \in Nat
  BY DEF Climbs
<1>2. w - 1 \in Nat /\ w - 1 # 0 /\ (w - 1) \div 2 = Above(w) - 1
  BY DEF Above
<1>3. Skip(x, w - 1) = <<x, w - 1>>
  BY <1>2, SkipNothing
<1>4. Skip(c.fn, c.sn) = <<x, w - 1>> /\ c.sn # 0 /\ (c.fn % 2 = 1 \/ c.fn = c.sn)
  BY <1>1, <1>2, <1>3 DEF Behind, Ended
<1>5. AfterSibling(c, h) = Climb(x \div 2, (w - 1) \div 2, HashPair(h, c.hash))
  BY <1>4 DEF AfterSibling
<1>6. /\ AfterSibling(c, h).fn = x \div 2 /\ AfterSibling(c, h).sn = Above(w) - 1
      /\ AfterSibling(c, h).hash = HashPair(h, c.hash)
  BY <1>2, <1>5 DEF Climb
<1> QED
  BY <1>4, <1>6 DEF Behind

LEMMA BehindLeft ==
  ASSUME NEW U, NEW c \in Climbs(U), NEW x \in Nat, NEW w \in Nat, x % 2 = 0, x + 1 < w, Behind(c, x, w), NEW h
  PROVE  /\ c.sn # 0 /\ Behind(AfterSibling(c, h), x \div 2, Above(w))
         /\ AfterSibling(c, h).hash = HashPair(c.hash, h)
<1>1. w - 1 # 0 /\ x # w - 1 /\ (w - 1) \div 2 = Above(w) - 1
  BY DEF Above
<1>2. c.fn = x /\ c.sn = w - 1
  BY <1>1 DEF Behind
<1>3. ~(c.fn % 2 = 1 \/ c.fn = c.sn)
  BY <1>1, <1>2
<1>4. AfterSibling(c, h) = Climb(x \div 2, (w - 1) \div 2, HashPair(c.hash, h))
  BY <1>2, <1>3 DEF AfterSibling
<1>5. /\ AfterSibling(c, h).fn = x \div 2 /\ AfterSibling(c, h).sn = Above(w) - 1
      /\ AfterSibling(c, h).hash = HashPair(c.hash, h)
  BY <1>1, <1>4 DEF Climb
<1> QED
  BY <1>1, <1>2, <1>5 DEF Behind

LEMMA OneSibling ==
  ASSUME NEW U, NEW q \in Seq(U), NEW h \in U
  PROVE  /\ Len(q) \in Nat /\ Len(q \o <<h>>) = Len(q) + 1
         /\ (q \o <<h>>)[Len(q) + 1] = h
         /\ \A j \in 1 .. Len(q) : (q \o <<h>>)[j] = q[j]
<1>1. <<h>> \in Seq(U) /\ Len(<<h>>) = 1 /\ <<h>>[1] = h
  OBVIOUS
<1>2. Len(q) \in Nat
  BY LenProperties
<1> QED
  BY <1>1, <1>2, ConcatProperties

\* Verification has come to node x of a level, after the proof q of it: its
\* hash is that of the node exactly if the leaf and the proof are the tree's.
CameTo(nodes, x, q, run, p, isLeaf) ==
  /\ x < Len(nodes)
  /\ Behind(run[Len(q)], x, Len(nodes))
  /\ run[Len(q)].hash = nodes[x + 1] <=> isLeaf /\ \A j \in 1 .. Len(q) : p[j] = q[j]
  /\ \A j \in 1 .. Len(q) : run[j - 1].sn # 0

Runs(run, p, U) ==
  \A k \in Nat : run[k] \in Climbs(U) /\ run[k + 1] = AfterSibling(run[k], p[k + 1])

\* One sibling more.
LEMMA ComesOn ==
  ASSUME NEW D, NEW U, Nodes(D, U), NEW prev \in Seq(U), NEW x \in Nat, NEW q \in Seq(U), NEW p,
         NEW isLeaf, NEW run, Runs(run, p, U), CameTo(prev, x, q, run, p, isLeaf)
  PROVE  CameTo(NextLevel(prev), x \div 2, q \o SiblingIn(prev, x), run, p, isLeaf)
<1> DEFINE w == Len(prev)
           m == Len(q)
           c == run[m]
           next == NextLevel(prev)
           y == x \div 2
<1>1. w \in Nat /\ m \in Nat /\ \A i \in 1 .. w : prev[i] \in U
  BY LenProperties
<1>2. /\ x < w /\ Behind(c, x, w)
      /\ c.hash = prev[x + 1] <=> isLeaf /\ \A j \in 1 .. m : p[j] = q[j]
      /\ \A j \in 1 .. m : run[j - 1].sn # 0
  BY DEF CameTo
<1>3. c \in Climbs(U) /\ run[m + 1] = AfterSibling(c, p[m + 1])
  BY <1>1 DEF Runs
<1>4. Len(next) = Above(w) /\ y < Above(w)
  BY <1>2, NextLevelFacts, NodeAbove
<1>10. /\ x % 2 = 0 /\ x + 1 = w => next[y + 1] = prev[x + 1] /\ SiblingIn(prev, x) = <<>>
       /\ x % 2 = 1 => /\ next[y + 1] = HashPair(prev[x], prev[x + 1])
                       /\ SiblingIn(prev, x) = <<prev[x]>>
       /\ x % 2 = 0 /\ x + 1 # w => /\ next[y + 1] = HashPair(prev[x + 1], prev[x + 2])
                                    /\ SiblingIn(prev, x) = <<prev[x + 2]>>
  <2>1. x < Len(prev)
    BY <1>2
  <2> QED
    BY <2>1, NodeAbove, Zenon
\* What a sibling h of the level adds.
<1>5. ASSUME NEW h \in U, SiblingIn(prev, x) = <<h>>, c.sn # 0,
             Behind(run[m + 1], y, Above(w)),
             run[m + 1].hash = next[y + 1] <=> c.hash = prev[x + 1] /\ p[m + 1] = h
      PROVE  CameTo(next, y, q \o SiblingIn(prev, x), run, p, isLeaf)
  <2> DEFINE r == q \o <<h>>
  <2>1. Len(r) = m + 1 /\ r[m + 1] = h /\ \A j \in 1 .. m : r[j] = q[j]
    BY OneSibling
  <2> HIDE DEF r, next, y, c, w, m
  <2>2. (\A j \in 1 .. m + 1 : p[j] = r[j]) <=> p[m + 1] = h /\ \A j \in 1 .. m : p[j] = q[j]
    <3>1. 1 .. m + 1 = (1 .. m) \cup {m + 1}
      BY <1>1
    <3> QED
      BY <2>1, <3>1
  <2>3. run[m + 1].hash = next[y + 1] <=> isLeaf /\ \A j \in 1 .. m + 1 : p[j] = r[j]
    BY <1>2, <1>5, <2>2, Zenon
  <2>4. \A j \in 1 .. m + 1 : run[j - 1].sn # 0
    <3>1. \A j \in 1 .. m + 1 : j \in 1 .. m \/ j - 1 = m
      BY <1>1
    <3> QED
      BY <1>2, <1>5, <3>1 DEF c
  <2>5. CameTo(next, y, r, run, p, isLeaf)
    BY <1>4, <1>5, <2>1, <2>3, <2>4 DEF CameTo
  <2> QED
    BY <1>5, <2>5 DEF r
<1>6. CASE x % 2 = 0 /\ x + 1 = w
  <2>1. next[y + 1] = prev[x + 1] /\ SiblingIn(prev, x) = <<>>
    BY <1>6, <1>10, Zenon
  <2>2. q \o SiblingIn(prev, x) = q
    BY <2>1, ConcatEmptySeq
  <2>3. Behind(c, y, Above(w))
    BY <1>1, <1>2, <1>3, <1>6, BehindPromoted
  <2> HIDE DEF next, y
  <2>4. CameTo(next, y, q, run, p, isLeaf)
    BY <1>2, <1>4, <2>1, <2>3 DEF CameTo
  <2> QED
    BY <2>2, <2>4, Zenon DEF next, y
<1>7. CASE x % 2 = 1
  <2>1. next[y + 1] = HashPair(prev[x], prev[x + 1]) /\ SiblingIn(prev, x) = <<prev[x]>>
    BY <1>7, <1>10, Zenon
  <2>2. x \in 1 .. w
    BY <1>1, <1>2, <1>7
  <2>3. /\ c.sn # 0 /\ Behind(run[m + 1], y, Above(w))
        /\ run[m + 1].hash = HashPair(p[m + 1], c.hash)
    <3> HIDE DEF c, w
    <3>1. /\ c.sn # 0 /\ Behind(AfterSibling(c, p[m + 1]), y, Above(w))
          /\ AfterSibling(c, p[m + 1]).hash = HashPair(p[m + 1], c.hash)
      BY <1>1, <1>2, <1>3, <1>7, BehindRight, Zenon
    <3> QED
      BY <1>3, <3>1, Zenon
  <2> HIDE DEF c, next, y, w, m
  <2>4. run[m + 1].hash = next[y + 1] <=> c.hash = prev[x + 1] /\ p[m + 1] = prev[x]
    BY <2>1, <2>3, HashesDiffer
  <2>5. prev[x] \in U
    BY <1>1, <2>2
  <2> QED
    BY <1>5, <2>1, <2>3, <2>4, <2>5 DEF next, y
<1>8. CASE x % 2 = 0 /\ x + 1 # w
  <2>1. next[y + 1] = HashPair(prev[x + 1], prev[x + 2]) /\ SiblingIn(prev, x) = <<prev[x + 2]>>
    BY <1>8, <1>10, Zenon
  <2>2. x + 2 \in 1 .. w /\ x + 1 < w
    BY <1>1, <1>2, <1>8
  <2>3. /\ c.sn # 0 /\ Behind(run[m + 1], y, Above(w))
        /\ run[m + 1].hash = HashPair(c.hash, p[m + 1])
    <3> HIDE DEF c, w
    <3>1. /\ c.sn # 0 /\ Behind(AfterSibling(c, p[m + 1]), y, Above(w))
          /\ AfterSibling(c, p[m + 1]).hash = HashPair(c.hash, p[m + 1])
      BY <1>1, <1>2, <1>3, <1>8, <2>2, BehindLeft, Zenon
    <3> QED
      BY <1>3, <3>1, Zenon
  <2> HIDE DEF c, next, y, w, m
  <2>4. run[m + 1].hash = next[y + 1] <=> c.hash = prev[x + 1] /\ p[m + 1] = prev[x + 2]
    BY <2>1, <2>3, HashesDiffer
  <2>5. prev[x + 2] \in U
    BY <1>1, <2>2
  <2> QED
    BY <1>5, <2>1, <2>3, <2>4, <2>5 DEF next, y
<1>9. x % 2 = 0 \/ x % 2 = 1
  OBVIOUS
<1> QED
  BY <1>6, <1>7, <1>8, <1>9 DEF w

\* A proof is accepted for a leaf and an index of a tree exactly if that is the
\* leaf at the index and its proof.
THEOREM ExactProofs ==
  ASSUME NEW D, NEW s \in Seq(D), Len(s) # 0, NEW i \in 0 .. Len(s) - 1, NEW d, NEW V, NEW p \in Seq(V)
  PROVE  VerifyMerkleInclusion(d, i, p, Root(s), Len(s)) <=> d = s[i + 1] /\ p = ProofFor(s, i)
<1> DEFINE E == D \cup {d}
           n == Len(s)
<1>1. PICK U : {p[j] : j \in Nat} \subseteq U /\ Nodes(E, U)
  <2> HIDE DEF E
  <2> QED
    BY NodesExist
<1>2. s \in Seq(E) /\ n \in Nat \ {0} /\ i \in Nat /\ d \in E /\ \A j \in Nat : p[j] \in U
  <2>1. s \in Seq(E)
    OBVIOUS
  <2> QED
    BY <1>1, <2>1, LenProperties
<1> HIDE DEF E
<1> DEFINE level == Levels(s)
           place == Places(i)
           path == Path(s, i)
           run == Run(d, i, p, n)
           isLeaf == d = s[i + 1]
<1>3. /\ level[0] = Bottom(s) /\ Len(level[0]) = n
      /\ \A k \in Nat : level[k] \in Seq(U) /\ level[k + 1] = NextLevel(level[k])
  BY <1>1, <1>2, Widths
<1>4. place[0] = i /\ \A k \in Nat : place[k] \in Nat /\ place[k + 1] = place[k] \div 2
  BY <1>2, PlaceFacts
<1>5. /\ path[0] = <<>> /\ ProofFor(s, i) = path[n]
      /\ \A k \in Nat : path[k] \in Seq(U) /\ path[k + 1] = path[k] \o SiblingIn(level[k], place[k])
  <2> HIDE DEF n
  <2>1. Nodes(E, U) /\ s \in Seq(E) /\ Len(s) # 0 /\ i \in Nat
    BY <1>1, <1>2
  <2>2. /\ path[0] = <<>> /\ ProofFor(s, i) = path[Len(s)]
        /\ \A k \in Nat : path[k] \in Seq(U) /\ path[k + 1] = path[k] \o SiblingIn(level[k], place[k])
    BY <2>1, PathFacts, Zenon
  <2> QED
    BY <2>2, Zenon DEF n
<1>6. /\ run[0] = Climb(i, n - 1, HashLeaf(d))
      /\ Runs(run, p, U)
  BY <1>1, <1>2, RunFacts DEF Runs
<1>7. Len(level[n]) = 1 /\ level[n][1] = Root(s)
  <2>1. Len(Levels(s)[Len(s) + 0]) = 1 /\ Levels(s)[Len(s) + 0][1] = Root(s)
    BY <1>1, <1>2, RootAbove
  <2>2. Len(s) + 0 = Len(s)
    BY <1>2
  <2> QED
    BY <2>1, <2>2
<1>8. VerifyMerkleInclusion(d, i, p, Root(s), n) <=>
        /\ \A j \in 1 .. Len(p) : run[j - 1].sn # 0
        /\ run[Len(p)].sn = 0 /\ run[Len(p)].hash = Root(s)
  BY DEF VerifyMerkleInclusion, Run
<1> DEFINE T == {k \in Nat : CameTo(level[k], place[k], path[k], run, p, isLeaf)}
<1>9. 0 \in T /\ T \subseteq Nat
  <2>1. level[0][i + 1] = HashLeaf(s[i + 1])
    <3>1. i + 1 \in 1 .. Len(s)
      BY <1>2
    <3>2. Bottom(s)[i + 1] = HashLeaf(s[i + 1])
      BY <3>1 DEF Bottom
    <3> QED
      BY <1>3, <3>2, Zenon
  <2>2. run[0].fn = i /\ run[0].sn = n - 1 /\ run[0].hash = HashLeaf(d)
    <3> HIDE DEF run, n
    <3>1. run[0] = Climb(i, n - 1, HashLeaf(d))
      BY <1>6
    <3> QED
      BY <3>1 DEF Climb
  <2>3. run[0].hash = level[0][i + 1] <=> isLeaf
    BY <2>1, <2>2, HashesDiffer
  <2>4. Len(<<>>) = 0 /\ 1 .. 0 = {} /\ i < n
    BY <1>2
  <2> HIDE DEF level, run, path, place, isLeaf, n
  <2>5. CameTo(level[0], i, <<>>, run, p, isLeaf)
    BY <1>3, <2>2, <2>3, <2>4 DEF CameTo, Behind
  <2> QED
    BY <1>4, <1>5, <2>5
<1> HIDE DEF level, run, path, place, isLeaf
<1>10. ASSUME NEW k \in T PROVE k + 1 \in T
  <2>1. k \in Nat /\ CameTo(level[k], place[k], path[k], run, p, isLeaf)
    OBVIOUS
  <2>2. level[k] \in Seq(U) /\ place[k] \in Nat /\ path[k] \in Seq(U)
    BY <1>3, <1>4, <1>5, <2>1
  <2>3. CameTo(NextLevel(level[k]), place[k] \div 2, path[k] \o SiblingIn(level[k], place[k]), run, p, isLeaf)
    BY <1>1, <1>6, <2>1, <2>2, ComesOn
  <2>4. /\ level[k + 1] = NextLevel(level[k]) /\ place[k + 1] = place[k] \div 2
        /\ path[k + 1] = path[k] \o SiblingIn(level[k], place[k])
    BY <1>3, <1>4, <1>5, <2>1
  <2>5. CameTo(level[k + 1], place[k + 1], path[k + 1], run, p, isLeaf)
    BY <2>3, <2>4, Zenon
  <2>6. k + 1 \in Nat
    BY <2>1
  <2> QED
    BY <2>5, <2>6
<1> HIDE DEF T
<1>11. T = Nat
  BY <1>9, <1>10, NatSets
<1>12. CameTo(level[n], place[n], path[n], run, p, isLeaf)
  BY <1>2, <1>11 DEF T
<1> DEFINE q == path[n]
           m == Len(q)
           l == Len(p)
<1>13. m \in Nat /\ l \in Nat /\ q \in Seq(U)
  <2>1. q \in Seq(U)
    BY <1>2, <1>5
  <2> QED
    BY <2>1, LenProperties
<1>14. place[n] = 0
  <2>1. place[n] < Len(level[n])
    BY <1>12 DEF CameTo
  <2>2. place[n] \in Nat
    BY <1>2, <1>4
  <2> QED
    BY <1>7, <2>1, <2>2
<1>15. /\ run[m].sn = 0
       /\ run[m].hash = Root(s) <=> isLeaf /\ \A j \in 1 .. m : p[j] = q[j]
       /\ \A j \in 1 .. m : run[j - 1].sn # 0
  BY <1>7, <1>12, <1>14 DEF CameTo, Behind
<1>16. p = q <=> l = m /\ \A j \in 1 .. m : p[j] = q[j]
  BY <1>13, SeqEqual
<1> HIDE DEF n, q, m, l
<1>17. ASSUME \A j \in 1 .. l : run[j - 1].sn # 0, run[l].sn = 0 PROVE l = m
  <2>1. ASSUME l < m PROVE FALSE
    <3>1. l + 1 \in 1 .. m /\ (l + 1) - 1 = l
      BY <1>13, <2>1
    <3> QED
      BY <1>15, <1>17, <3>1
  <2>2. ASSUME m < l PROVE FALSE
    <3>1. m + 1 \in 1 .. l /\ (m + 1) - 1 = m
      BY <1>13, <2>2
    <3> QED
      BY <1>15, <1>17, <3>1
  <2> QED
    BY <1>13, <2>1, <2>2
<1>18. VerifyMerkleInclusion(d, i, p, Root(s), n) <=> isLeaf /\ p = q
  <2>1. ASSUME VerifyMerkleInclusion(d, i, p, Root(s), n) PROVE isLeaf /\ p = q
    BY <1>8, <1>15, <1>16, <1>17, <2>1 DEF l
  <2>2. ASSUME isLeaf /\ p = q PROVE VerifyMerkleInclusion(d, i, p, Root(s), n)
    BY <1>8, <1>15, <1>16, <2>2 DEF l
  <2> QED
    BY <2>1, <2>2
<1> QED
  BY <1>5, <1>18 DEF isLeaf, n, q

-----------------------------------------------------------------------------
(* Merkle trees: the reference. *)

LEMMA TwoToFacts ==
  /\ TwoTo[0] = 1
  /\ \A k \in Nat : TwoTo[k] \in Nat \ {0} /\ TwoTo[k + 1] = 2 * TwoTo[k] /\ k < TwoTo[k]
<1> DEFINE power[k \in Nat] == IF k = 0 THEN 1 ELSE 2 * power[k - 1]
<1>1. PICK f \in [Nat -> Nat] : f[0] = 1 /\ \A n \in Nat : f[n + 1] = 2 * f[n]
  <2> DEFINE step == [n \in Nat |-> [x \in Nat |-> 2 * x]]
  <2>1. step \in [Nat -> [Nat -> Nat]]
    OBVIOUS
  <2>2. \A n \in Nat : \A x \in Nat : step[n][x] = 2 * x
    OBVIOUS
  <2> HIDE DEF step
  <2>3. Iterable(Nat)
    BY Iteration, Zenon
  <2>5. 1 \in Nat
    OBVIOUS
  <2>4. PICK f \in [Nat -> Nat] : f[0] = 1 /\ \A n \in Nat : f[n + 1] = step[n][f[n]]
    BY <2>1, <2>3, <2>5, Zenon DEF Iterable
  <2> QED
    BY <2>2, <2>4
<1>2. power = [k \in Nat |-> IF k = 0 THEN 1 ELSE 2 * power[k - 1]]
  <2> SUFFICES \E g : g = [k \in Nat |-> IF k = 0 THEN 1 ELSE 2 * g[k - 1]]
    BY Zenon
  <2>1. \A k \in Nat : f[k] = IF k = 0 THEN 1 ELSE 2 * f[k - 1]
    <3> SUFFICES ASSUME NEW k \in Nat, k # 0 PROVE f[k] = 2 * f[k - 1]
      BY <1>1
    <3>1. k - 1 \in Nat /\ (k - 1) + 1 = k
      OBVIOUS
    <3> QED
      BY <1>1, <3>1
  <2>2. f = [k \in Nat |-> IF k = 0 THEN 1 ELSE 2 * f[k - 1]]
    BY <2>1
  <2> QED
    BY <2>2
<1>3. TwoTo = power
  BY DEF TwoTo
<1> HIDE DEF power
<1>4. power[0] = 1 /\ \A k \in Nat : power[k + 1] = 2 * power[k]
  BY <1>2
<1>5. \A k \in Nat : power[k] \in Nat \ {0} /\ k < power[k]
  <2> DEFINE T == {k \in Nat : power[k] \in Nat \ {0} /\ k < power[k]}
  <2>1. 0 \in T /\ T \subseteq Nat
    BY <1>4
  <2>2. ASSUME NEW k \in T PROVE k + 1 \in T
    <3>1. k \in Nat /\ power[k] \in Nat \ {0} /\ k < power[k] /\ power[k + 1] = 2 * power[k]
      BY <1>4
    <3>2. power[k + 1] \in Nat \ {0} /\ k + 1 < power[k + 1]
      BY <3>1
    <3> QED
      BY <3>1, <3>2
  <2> HIDE DEF T
  <2>3. T = Nat
    BY <2>1, <2>2, NatSets
  <2> QED
    BY <2>3 DEF T
<1> QED
  BY <1>3, <1>4, <1>5

LEMMA TwoToGrows ==
  ASSUME NEW k \in Nat, NEW l \in Nat, k < l
  PROVE  2 * TwoTo[k] <= TwoTo[l]
<1> DEFINE T == {j \in Nat : 2 * TwoTo[k] <= TwoTo[k + 1 + j]}
<1>1. 0 \in T /\ T \subseteq Nat
  <2>1. k + 1 + 0 = k + 1 /\ TwoTo[k + 1] = 2 * TwoTo[k] /\ TwoTo[k] \in Nat
    BY TwoToFacts
  <2> QED
    BY <2>1
<1>2. ASSUME NEW j \in T PROVE j + 1 \in T
  <2>1. j \in Nat /\ k + 1 + j \in Nat /\ k + 1 + (j + 1) = (k + 1 + j) + 1
    OBVIOUS
  <2>2. TwoTo[(k + 1 + j) + 1] = 2 * TwoTo[k + 1 + j] /\ TwoTo[k + 1 + j] \in Nat /\ TwoTo[k] \in Nat
    BY <2>1, TwoToFacts
  <2>3. 2 * TwoTo[k] <= TwoTo[k + 1 + j]
    OBVIOUS
  <2>4. 2 * TwoTo[k] <= TwoTo[k + 1 + (j + 1)]
    BY <2>1, <2>2, <2>3
  <2> QED
    BY <2>1, <2>4
<1> HIDE DEF T
<1>3. T = Nat
  BY <1>1, <1>2, NatSets
<1>4. l - (k + 1) \in T /\ k + 1 + (l - (k + 1)) = l
  BY <1>3
<1> QED
  BY <1>4 DEF T

\* The largest power of two that is smaller than a number.
LEMMA SplitIs ==
  ASSUME NEW n \in Nat, NEW k \in Nat, TwoTo[k] < n, n <= 2 * TwoTo[k]
  PROVE  Split(n) = TwoTo[k]
<1> DEFINE Is(p) == (\E j \in 0 .. n : p = TwoTo[j]) /\ 2 * p >= n
<1>1. TwoTo[k] \in 1 .. n - 1 /\ Is(TwoTo[k])
  <2>1. TwoTo[k] \in Nat \ {0} /\ k < TwoTo[k]
    BY TwoToFacts
  <2>2. k \in 0 .. n
    BY <2>1
  <2> QED
    BY <2>1, <2>2
<1>2. ASSUME NEW p \in 1 .. n - 1, Is(p) PROVE p = TwoTo[k]
  <2>1. PICK j \in 0 .. n : p = TwoTo[j]
    BY <1>2
  <2>2. j \in Nat /\ TwoTo[k] \in Nat /\ 2 * p >= n
    BY <1>2, TwoToFacts
  <2>3. ~(j < k)
    <3> SUFFICES ASSUME j < k PROVE FALSE
      OBVIOUS
    <3>1. 2 * TwoTo[j] <= TwoTo[k]
      BY <2>2, TwoToGrows
    <3> QED
      BY <2>1, <2>2, <3>1
  <2>4. ~(k < j)
    <3> SUFFICES ASSUME k < j PROVE FALSE
      OBVIOUS
    <3>1. 2 * TwoTo[k] <= TwoTo[j]
      BY <2>2, TwoToGrows
    <3> QED
      BY <2>1, <2>2, <3>1
  <2>5. j = k
    BY <2>2, <2>3, <2>4
  <2> QED
    BY <2>1, <2>5
<1>3. Split(n) = CHOOSE p \in 1 .. n - 1 : Is(p)
  BY DEF Split
<1> HIDE DEF Is
<1>4. Split(n) \in 1 .. n - 1 /\ Is(Split(n))
  BY <1>1, <1>3
<1> QED
  BY <1>2, <1>4

LEMMA SplitFacts ==
  ASSUME NEW n \in Nat, 1 < n
  PROVE  Split(n) \in Nat \ {0} /\ n - Split(n) \in Nat \ {0} /\ Split(n) < n
<1> DEFINE Between(m) == \E k \in Nat : TwoTo[k] < m /\ m <= 2 * TwoTo[k]
           T == {j \in Nat : Between(j + 2)}
<1>1. 0 \in T /\ T \subseteq Nat
  <2>1. TwoTo[0] = 1
    BY TwoToFacts
  <2>2. TwoTo[0] < 0 + 2 /\ 0 + 2 <= 2 * TwoTo[0]
    BY <2>1
  <2> QED
    BY <2>2
<1>2. ASSUME NEW j \in T PROVE j + 1 \in T
  <2>1. j \in Nat /\ Between(j + 2)
    OBVIOUS
  <2>2. PICK k \in Nat : TwoTo[k] < j + 2 /\ j + 2 <= 2 * TwoTo[k]
    BY <2>1
  <2>3. TwoTo[k] \in Nat /\ k + 1 \in Nat /\ TwoTo[k + 1] = 2 * TwoTo[k]
    BY TwoToFacts
  <2> HIDE DEF T
  <2>4. Between((j + 1) + 2)
    <3>1. CASE (j + 1) + 2 <= 2 * TwoTo[k]
      <4>1. TwoTo[k] < (j + 1) + 2
        BY <2>1, <2>2, <2>3
      <4> QED
        BY <3>1, <4>1
    <3>2. CASE ~((j + 1) + 2 <= 2 * TwoTo[k])
      <4>1. TwoTo[k + 1] < (j + 1) + 2 /\ (j + 1) + 2 <= 2 * TwoTo[k + 1]
        BY <2>1, <2>2, <2>3, <3>2
      <4> QED
        BY <2>3, <4>1
    <3> QED
      BY <3>1, <3>2
  <2> QED
    BY <2>1, <2>4 DEF T
<1> HIDE DEF T
<1>3. T = Nat
  BY <1>1, <1>2, NatSets
<1>4. n - 2 \in T /\ (n - 2) + 2 = n
  BY <1>3
<1>5. PICK k \in Nat : TwoTo[k] < n /\ n <= 2 * TwoTo[k]
  BY <1>4 DEF T
<1>6. Split(n) = TwoTo[k] /\ TwoTo[k] \in Nat \ {0}
  BY <1>5, SplitIs, TwoToFacts
<1> QED
  BY <1>5, <1>6

Sizes == Nat \ {0}

\* The hashes of n leaves, from each place, when those of fewer are h.
HashesOf(s, h, n) ==
  [lo \in Nat |->
     IF n = 1 THEN HashLeaf(s[lo])
     ELSE HashPair(h[Split(n)][lo], h[n - Split(n)][lo + Split(n)])]

LEMMA HashesOfType ==
  ASSUME NEW D, NEW U, Nodes(D, U), NEW s, \A lo \in Nat : s[lo] \in D,
         NEW h \in [Sizes -> [Nat -> U]], NEW n \in Sizes
  PROVE  HashesOf(s, h, n) \in [Nat -> U]
<1>1. CASE n = 1
  <2>1. \A lo \in Nat : HashLeaf(s[lo]) \in U
    BY DEF Nodes
  <2> QED
    BY <1>1, <2>1 DEF HashesOf
<1>2. CASE n # 1
  <2>1. n \in Nat /\ 1 < n
    BY <1>2 DEF Sizes
  <2>2. Split(n) \in Sizes /\ n - Split(n) \in Sizes
    BY <2>1, SplitFacts DEF Sizes
  <2>3. \A lo \in Nat : lo + Split(n) \in Nat
    BY <2>2 DEF Sizes
  <2>4. \A lo \in Nat : h[Split(n)][lo] \in U /\ h[n - Split(n)][lo + Split(n)] \in U
    BY <2>2, <2>3
  <2>5. \A lo \in Nat : HashPair(h[Split(n)][lo], h[n - Split(n)][lo + Split(n)]) \in U
    BY <2>4 DEF Nodes
  <2> QED
    BY <1>2, <2>5 DEF HashesOf
<1> QED
  BY <1>1, <1>2

\* They depend on those of fewer leaves only.
LEMMA HashesOfFewer ==
  ASSUME NEW s, NEW n \in Sizes, NEW g, NEW h,
         \A m \in Sizes : m < n => g[m] = h[m]
  PROVE  HashesOf(s, g, n) = HashesOf(s, h, n)
<1>1. CASE n = 1
  BY <1>1 DEF HashesOf
<1>2. CASE n # 1
  <2>1. n \in Nat /\ 1 < n
    BY <1>2 DEF Sizes
  <2>2. Split(n) \in Sizes /\ n - Split(n) \in Sizes /\ Split(n) < n /\ n - Split(n) < n
    BY <2>1, SplitFacts DEF Sizes
  <2>3. g[Split(n)] = h[Split(n)] /\ g[n - Split(n)] = h[n - Split(n)]
    BY <2>2
  <2> QED
    BY <1>2, <2>3 DEF HashesOf
<1> QED
  BY <1>1, <1>2

LEMMA TreeExists ==
  ASSUME NEW D, NEW U, Nodes(D, U), NEW s, \A lo \in Nat : s[lo] \in D
  PROVE  \E t : t = [n \in Sizes |-> HashesOf(s, t, n)]
<1> DEFINE Rows == [Nat -> U]
           H == [Sizes -> Rows]
           Grow(h) == [n \in Sizes |-> HashesOf(s, h, n)]
<1>1. \A h \in H : Grow(h) \in H
  BY HashesOfType
<1>2. \E h : h \in H
  <2>1. HashLeaf(s[0]) \in U
    BY DEF Nodes
  <2>2. [n \in Sizes |-> [lo \in Nat |-> HashLeaf(s[0])]] \in H
    BY <2>1
  <2> QED
    BY <2>2
<1> HIDE DEF Rows
<1>3. \A h \in H : \A n \in Sizes : Grow(h)[n] = HashesOf(s, h, n)
  OBVIOUS
<1> HIDE DEF H, Grow
<1>4. PICK f \in [Nat -> H] : \A k \in Nat : f[k + 1] = Grow(f[k])
  <2> DEFINE step == [k \in Nat |-> [h \in H |-> Grow(h)]]
  <2>1. step \in [Nat -> [H -> H]]
    BY <1>1
  <2>2. \A k \in Nat : \A h \in H : step[k][h] = Grow(h)
    OBVIOUS
  <2> HIDE DEF step
  <2>3. Iterable(H)
    BY Iteration, Zenon
  <2>4. PICK f \in [Nat -> H] : \A k \in Nat : f[k + 1] = step[k][f[k]]
    BY <1>2, <2>1, <2>3, Zenon DEF Iterable
  <2> QED
    BY <2>2, <2>4
\* After as many steps as there are leaves, their hashes do not change.
<1> DEFINE Agree(j) == \A n \in Sizes : \A k \in Nat : \A m \in Nat :
                         n <= j /\ n <= k /\ n <= m => f[k][n] = f[m][n]
           T == {j \in Nat : Agree(j)}
<1>5. 0 \in T /\ T \subseteq Nat
  BY DEF Sizes
<1>6. ASSUME NEW j \in T PROVE j + 1 \in T
  <2>1. j \in Nat /\ Agree(j)
    OBVIOUS
  <2>2. ASSUME NEW n \in Sizes, NEW k \in Nat, NEW m \in Nat, n <= j + 1, n <= k, n <= m
        PROVE  f[k][n] = f[m][n]
    <3>1. k - 1 \in Nat /\ (k - 1) + 1 = k /\ m - 1 \in Nat /\ (m - 1) + 1 = m
      BY <2>2 DEF Sizes
    <3>2. f[k] = Grow(f[k - 1]) /\ f[m] = Grow(f[m - 1]) /\ f[k - 1] \in H /\ f[m - 1] \in H
      BY <1>4, <3>1
    <3>3. f[k][n] = HashesOf(s, f[k - 1], n) /\ f[m][n] = HashesOf(s, f[m - 1], n)
      BY <1>3, <2>2, <3>2
    <3>4. \A l \in Sizes : l < n => f[k - 1][l] = f[m - 1][l]
      <4>1. ASSUME NEW l \in Sizes, l < n PROVE l <= j /\ l <= k - 1 /\ l <= m - 1
        BY <2>1, <2>2, <4>1 DEF Sizes
      <4> QED
        BY <2>1, <3>1, <4>1
    <3>5. HashesOf(s, f[k - 1], n) = HashesOf(s, f[m - 1], n)
      BY <2>2, <3>4, HashesOfFewer
    <3> QED
      BY <3>3, <3>5
  <2>3. Agree(j + 1)
    BY <2>2
  <2> HIDE DEF Agree
  <2> QED
    BY <2>1, <2>3
<1> HIDE DEF T
<1>7. T = Nat
  BY <1>5, <1>6, NatSets
<1>8. ASSUME NEW n \in Sizes, NEW k \in Nat, NEW m \in Nat, n <= k, n <= m PROVE f[k][n] = f[m][n]
  <2>1. n \in T /\ n <= n
    BY <1>7 DEF Sizes
  <2> QED
    BY <1>8, <2>1 DEF T
<1> DEFINE t == [n \in Sizes |-> f[n][n]]
<1>9. ASSUME NEW n \in Sizes PROVE t[n] = HashesOf(s, t, n)
  <2>1. n \in Nat /\ n + 1 \in Nat /\ n <= n + 1 /\ n <= n
    BY DEF Sizes
  <2>2. t[n] = f[n][n]
    OBVIOUS
  <2>3. f[n][n] = f[n + 1][n]
    BY <1>8, <2>1
  <2>4. f[n + 1][n] = HashesOf(s, f[n], n)
    BY <1>3, <1>4, <2>1
  <2>5. \A m \in Sizes : m < n => f[n][m] = t[m]
    <3>1. ASSUME NEW m \in Sizes, m < n PROVE m \in Nat /\ m <= n /\ m <= m
      BY <2>1, <3>1 DEF Sizes
    <3>2. ASSUME NEW m \in Sizes, m < n PROVE f[n][m] = f[m][m]
      BY <1>8, <2>1, <3>1, <3>2
    <3> QED
      BY <3>2
  <2> HIDE DEF t
  <2>6. HashesOf(s, f[n], n) = HashesOf(s, t, n)
    BY <2>5, HashesOfFewer
  <2> QED
    BY <2>2, <2>3, <2>4, <2>6
<1>10. t = [n \in Sizes |-> HashesOf(s, t, n)]
  BY <1>9
<1> QED
  BY <1>10

Tree(s) ==
  LET tree[n \in Nat \ {0}] ==
        [lo \in Nat |->
           IF n = 1 THEN HashLeaf(s[lo])
           ELSE HashPair(tree[Split(n)][lo], tree[n - Split(n)][lo + Split(n)])]
  IN tree

LEMMA TreeFacts ==
  ASSUME NEW s
  PROVE  /\ Reference(s) = Tree(s)[Len(s)][1]
         /\ \A lo \in Nat : Tree(s)[1][lo] = HashLeaf(s[lo])
         /\ \A n \in Sizes : \A lo \in Nat :
              n # 1 => Tree(s)[n][lo] = HashPair(Tree(s)[Split(n)][lo], Tree(s)[n - Split(n)][lo + Split(n)])
<1> DEFINE tree[n \in Nat \ {0}] ==
             [lo \in Nat |->
                IF n = 1 THEN HashLeaf(s[lo])
                ELSE HashPair(tree[Split(n)][lo], tree[n - Split(n)][lo + Split(n)])]
<1>1. Tree(s) = tree /\ Reference(s) = Tree(s)[Len(s)][1]
  BY DEF Tree, Reference
<1>2. tree = [n \in Nat \ {0} |->
                [lo \in Nat |->
                   IF n = 1 THEN HashLeaf(s[lo])
                   ELSE HashPair(tree[Split(n)][lo], tree[n - Split(n)][lo + Split(n)])]]
  <2> SUFFICES \E g : g = [n \in Nat \ {0} |->
                             [lo \in Nat |->
                                IF n = 1 THEN HashLeaf(s[lo])
                                ELSE HashPair(g[Split(n)][lo], g[n - Split(n)][lo + Split(n)])]]
    BY Zenon
  <2> DEFINE D == {s[lo] : lo \in Nat}
  <2>1. \A lo \in Nat : s[lo] \in D
    OBVIOUS
  <2> HIDE DEF D
  <2>2. PICK U : Nodes(D, U)
    BY NodesExist
  <2>3. \E t : t = [n \in Sizes |-> HashesOf(s, t, n)]
    BY <2>1, <2>2, TreeExists
  <2> QED
    BY <2>3, Zenon DEF HashesOf, Sizes
<1> HIDE DEF tree
<1>3. \A n \in Sizes : tree[n] =
        [lo \in Nat |->
           IF n = 1 THEN HashLeaf(s[lo])
           ELSE HashPair(tree[Split(n)][lo], tree[n - Split(n)][lo + Split(n)])]
  BY <1>2 DEF Sizes
<1>4. ASSUME NEW lo \in Nat PROVE tree[1][lo] = HashLeaf(s[lo])
  <2> DEFINE one == 1
  <2>1. one \in Sizes /\ one = 1
    BY DEF Sizes
  <2> HIDE DEF one
  <2>2. tree[one] = [l \in Nat |->
           IF one = 1 THEN HashLeaf(s[l])
           ELSE HashPair(tree[Split(one)][l], tree[one - Split(one)][l + Split(one)])]
    BY <1>3, <2>1, Zenon
  <2> QED
    BY <2>1, <2>2
<1>5. ASSUME NEW n \in Sizes, NEW lo \in Nat, n # 1
      PROVE  tree[n][lo] = HashPair(tree[Split(n)][lo], tree[n - Split(n)][lo + Split(n)])
  BY <1>3, <1>5
<1> QED
  BY <1>1, <1>4, <1>5, Zenon

\* The leaves below the nodes of a level that are before node i, and below node
\* i, of n leaves, when a node has p leaves below it.
Times(i, p) == i * p

Size(n, p, i) == IF n - Times(i, p) < p THEN n - Times(i, p) ELSE p

LEMMA TimesFacts ==
  ASSUME NEW p \in Nat
  PROVE  /\ Times(0, p) = 0 /\ Times(1, p) = p /\ \A i \in Nat : Times(i, 1) = i
         /\ \A i \in Nat : /\ Times(i, p) \in Nat /\ Times(i + 1, p) = Times(i, p) + p
                           /\ Times(i, 2 * p) = Times(2 * i, p)
<1>1. ASSUME NEW i \in Nat PROVE Times(i, p) \in Nat /\ Times(i + 1, p) = Times(i, p) + p
  BY DEF Times
<1>2. ASSUME NEW i \in Nat PROVE Times(i, 2 * p) = Times(2 * i, p)
  BY DEF Times
<1>3. Times(0, p) = 0 /\ Times(1, p) = p /\ \A i \in Nat : Times(i, 1) = i
  BY DEF Times
<1> QED
  BY <1>1, <1>2, <1>3

\* The nodes of level k are the hashes of the leaves below them.
Covers(nodes, n, k, tree) ==
  /\ n <= Times(Len(nodes), TwoTo[k])
  /\ \A i \in Nat : i < Len(nodes) =>
       /\ Times(i, TwoTo[k]) < n
       /\ nodes[i + 1] = tree[Size(n, TwoTo[k], i)][Times(i, TwoTo[k]) + 1]

LEMMA CoversAbove ==
  ASSUME NEW D, NEW U, Nodes(D, U), NEW prev \in Seq(U), Len(prev) # 0,
         NEW n \in Nat, NEW k \in Nat, NEW tree,
         \A m \in Sizes : \A lo \in Nat :
           m # 1 => tree[m][lo] = HashPair(tree[Split(m)][lo], tree[m - Split(m)][lo + Split(m)]),
         Covers(prev, n, k, tree)
  PROVE  Covers(NextLevel(prev), n, k + 1, tree)
<1> DEFINE w == Len(prev)
           next == NextLevel(prev)
           P == TwoTo[k]
<1>1. w \in Nat \ {0} /\ P \in Nat \ {0} /\ TwoTo[k + 1] = 2 * P
  BY LenProperties, TwoToFacts
<1>2. Len(next) = Above(w) /\ Above(w) \in Nat /\ w \in {2 * Above(w) - 1, 2 * Above(w)}
  BY <1>1, NextLevelFacts, AboveFacts
<1>3. \A i \in 1 .. Above(w) :
        next[i] = IF 2 * i <= w THEN HashPair(prev[2 * i - 1], prev[2 * i]) ELSE prev[2 * i - 1]
  BY NextLevelFacts
<1>4. /\ n <= Times(w, P)
      /\ \A i \in Nat : i < w => /\ Times(i, P) < n
                                 /\ prev[i + 1] = tree[Size(n, P, i)][Times(i, P) + 1]
  BY DEF Covers
<1> HIDE DEF w, next, P
<1>5. \A i \in Nat : /\ Times(i, P) \in Nat /\ Times(i + 1, P) = Times(i, P) + P
                     /\ Times(i, 2 * P) = Times(2 * i, P)
  BY <1>1, TimesFacts
<1>6. n <= Times(Above(w), 2 * P)
  <2> DEFINE a == 2 * Above(w)
  <2>1. a \in Nat /\ a - 1 \in Nat /\ (a - 1) + 1 = a
    BY <1>1, <1>2
  <2>2. Times(Above(w), 2 * P) = Times(a, P)
    BY <1>2, <1>5
  <2>3. w = a \/ w = a - 1
    BY <1>2
  <2> HIDE DEF a
  <2>4. Times(a, P) = Times(a - 1, P) + P /\ Times(a, P) \in Nat /\ Times(a - 1, P) \in Nat
    BY <1>5, <2>1
  <2>5. n <= Times(a, P)
    BY <1>1, <1>4, <2>3, <2>4
  <2> QED
    BY <2>2, <2>5
<1>7. ASSUME NEW y \in Nat, y < Above(w)
      PROVE  /\ Times(y, 2 * P) < n
             /\ next[y + 1] = tree[Size(n, 2 * P, y)][Times(y, 2 * P) + 1]
  <2> DEFINE x == 2 * y
             lo == Times(x, P)
             M == Size(n, 2 * P, y)
  <2>1. x \in Nat /\ x < w /\ y + 1 \in 1 .. Above(w) /\ 2 * (y + 1) = x + 2
    BY <1>1, <1>2, <1>7
  <2>2. lo \in Nat /\ Times(y, 2 * P) = lo /\ Times(x + 1, P) = lo + P /\ lo < n
    BY <1>4, <1>5, <1>7, <2>1
  <2>3. M = IF n - lo < 2 * P THEN n - lo ELSE 2 * P
    BY <2>2 DEF Size
  <2>4. prev[x + 1] = tree[Size(n, P, x)][lo + 1]
    BY <1>4, <2>1
  <2>5. Size(n, P, x) = IF n - lo < P THEN n - lo ELSE P
    BY DEF Size
  <2>6. next[y + 1] = IF x + 2 <= w THEN HashPair(prev[x + 1], prev[x + 2]) ELSE prev[x + 1]
    <3>1. 2 * (y + 1) - 1 = x + 1
      BY <2>1
    <3> QED
      BY <1>3, <2>1, <3>1
  <2> HIDE DEF x, lo, M
  <2>7. CASE x + 2 <= w
    <3>1. x + 1 \in Nat /\ x + 1 < w /\ (x + 1) + 1 = x + 2
      BY <1>1, <2>1, <2>7
    <3>2. lo + P < n /\ prev[x + 2] = tree[Size(n, P, x + 1)][lo + P + 1]
      BY <1>4, <2>2, <3>1
    <3>3. Size(n, P, x + 1) = IF n - (lo + P) < P THEN n - (lo + P) ELSE P
      BY <2>2 DEF Size
    <3>4. M \in Nat /\ P < M /\ M <= 2 * P /\ Size(n, P, x) = P /\ Size(n, P, x + 1) = M - P
      BY <1>1, <2>2, <2>3, <2>5, <3>2, <3>3
    <3>5. Split(M) = P
      BY <3>4, SplitIs DEF P
    <3>6. tree[M][lo + 1] = HashPair(tree[P][lo + 1], tree[M - P][(lo + 1) + P])
      <4>1. M \in Sizes /\ M # 1 /\ lo + 1 \in Nat
        BY <1>1, <2>2, <3>4 DEF Sizes
      <4> QED
        BY <3>5, <4>1
    <3>7. (lo + 1) + P = lo + P + 1
      BY <1>1, <2>2
    <3>8. next[y + 1] = HashPair(prev[x + 1], prev[x + 2])
      BY <2>6, <2>7
    <3>9. next[y + 1] = tree[M][lo + 1]
      BY <2>4, <3>2, <3>4, <3>6, <3>7, <3>8
    <3> QED
      BY <2>2, <3>9 DEF M
  <2>8. CASE ~(x + 2 <= w)
    <3>1. w = x + 1
      BY <1>1, <2>1, <2>8
    <3>2. n <= lo + P
      BY <1>4, <2>2, <3>1
    <3>3. M = Size(n, P, x)
      BY <1>1, <2>2, <2>3, <2>5, <3>2
    <3>4. next[y + 1] = tree[M][lo + 1]
      BY <2>4, <2>6, <2>8, <3>3
    <3> QED
      BY <2>2, <3>4 DEF M
  <2> QED
    BY <2>7, <2>8
<1> QED
  BY <1>1, <1>2, <1>6, <1>7 DEF Covers, next

\* The tree that is built level by level is the reference.
THEOREM RootIsThatOfReference ==
  ASSUME NEW D, NEW s \in Seq(D), Len(s) # 0
  PROVE  Root(s) = Reference(s)
<1> DEFINE level == Levels(s)
           n == Len(s)
           tree == Tree(s)
<1>1. PICK U : Nodes(D, U)
  BY NodesExist
<1>2. /\ n \in Nat \ {0} /\ level[0] = Bottom(s) /\ Len(level[0]) = n
      /\ \A k \in Nat : /\ level[k] \in Seq(U) /\ Len(level[k]) # 0 /\ level[k + 1] = NextLevel(level[k])
  BY <1>1, Widths
<1>3. Len(level[n]) = 1 /\ level[n][1] = Root(s)
  <2>1. Len(level[n + 0]) = 1 /\ level[n + 0][1] = Root(s)
    BY <1>1, RootAbove
  <2>2. n + 0 = n
    BY <1>2
  <2> QED
    BY <2>1, <2>2
<1>4. /\ Reference(s) = tree[n][1]
      /\ \A lo \in Nat : tree[1][lo] = HashLeaf(s[lo])
      /\ \A m \in Sizes : \A lo \in Nat :
           m # 1 => tree[m][lo] = HashPair(tree[Split(m)][lo], tree[m - Split(m)][lo + Split(m)])
  BY TreeFacts
<1> HIDE DEF level, n, tree
<1> DEFINE T == {k \in Nat : Covers(level[k], n, k, tree)}
<1>5. 0 \in T /\ T \subseteq Nat
  <2>1. TwoTo[0] = 1 /\ \A i \in Nat : Times(i, 1) = i
    BY TwoToFacts, TimesFacts
  <2>2. n <= Times(Len(level[0]), TwoTo[0])
    BY <1>2, <2>1
  <2>3. ASSUME NEW i \in Nat, i < n
        PROVE  /\ Times(i, TwoTo[0]) < n
               /\ level[0][i + 1] = tree[Size(n, TwoTo[0], i)][Times(i, TwoTo[0]) + 1]
    <3>1. Times(i, TwoTo[0]) = i
      BY <2>1
    <3>2. Size(n, TwoTo[0], i) = 1
      BY <1>2, <2>1, <2>3, <3>1 DEF Size
    <3>3. i + 1 \in 1 .. n /\ i + 1 \in Nat
      BY <1>2, <2>3
    <3>4. level[0][i + 1] = HashLeaf(s[i + 1])
      BY <1>2, <3>3 DEF Bottom, n
    <3> QED
      BY <1>4, <2>3, <3>1, <3>2, <3>3, <3>4
  <2>4. Covers(level[0], n, 0, tree)
    BY <1>2, <2>2, <2>3 DEF Covers
  <2> QED
    BY <2>4
<1>6. ASSUME NEW k \in T PROVE k + 1 \in T
  <2>1. k \in Nat /\ Covers(level[k], n, k, tree)
    OBVIOUS
  <2>2. Covers(NextLevel(level[k]), n, k + 1, tree)
    BY <1>1, <1>2, <1>4, <2>1, CoversAbove
  <2>3. Covers(level[k + 1], n, k + 1, tree)
    BY <1>2, <2>1, <2>2
  <2> QED
    BY <2>1, <2>3
<1> HIDE DEF T
<1>7. T = Nat
  BY <1>5, <1>6, NatSets
<1>8. Covers(level[n], n, n, tree)
  BY <1>2, <1>7 DEF T
<1> DEFINE P == TwoTo[n]
<1>9. P \in Nat /\ Times(0, P) = 0 /\ Times(1, P) = P
  BY <1>2, TwoToFacts, TimesFacts
<1>10. n <= P /\ level[n][0 + 1] = tree[Size(n, P, 0)][Times(0, P) + 1]
  BY <1>3, <1>8, <1>9 DEF Covers
<1> HIDE DEF P
<1>11. Size(n, P, 0) = n
  BY <1>2, <1>9, <1>10 DEF Size
<1>12. 0 + 1 = 1
  OBVIOUS
<1> QED
  BY <1>3, <1>4, <1>9, <1>10, <1>11, <1>12

-----------------------------------------------------------------------------
(* Merkle trees: what the trees promise. *)

LEMMA LeavesTyped == MerkleSpec => []MerkleTypeOK
<1>1. MerkleInit => MerkleTypeOK
  BY DEF MerkleInit, MerkleTypeOK
<1>2. MerkleTypeOK /\ [MerkleNext]_merkleVars => MerkleTypeOK'
  <2> SUFFICES ASSUME MerkleTypeOK, [MerkleNext]_merkleVars PROVE MerkleTypeOK'
    OBVIOUS
  <2>1. CASE MerkleNext
    BY <2>1, AppendProperties DEF MerkleNext, AddLeaf, MerkleTypeOK
  <2>2. CASE UNCHANGED merkleVars
    BY <2>2 DEF merkleVars, MerkleTypeOK
  <2> QED
    BY <2>1, <2>2
<1> QED
  BY <1>1, <1>2, PTL DEF MerkleSpec

\* What an index may be shown as its proof is a list of hashes.
LEMMA ProofsAreLists ==
  ASSUME MerkleTypeOK
  PROVE  \E V : Proofs \subseteq Seq(V)
<1>1. PICK V : Nodes(LeafDigests, V)
  BY NodesExist
<1> DEFINE whole == {ProofFor(leaves, i) : i \in Indices}
<1>2. whole \subseteq Seq(V)
  <2> SUFFICES ASSUME NEW i \in Indices PROVE ProofFor(leaves, i) \in Seq(V)
    OBVIOUS
  <2>1. leaves \in Seq(LeafDigests) /\ Len(leaves) \in Nat
    BY LenProperties DEF MerkleTypeOK
  <2>2. i \in Nat /\ Len(leaves) # 0
    BY <2>1 DEF Indices
  <2>3. ProofFor(leaves, i) = Path(leaves, i)[Len(leaves)] /\ \A k \in Nat : Path(leaves, i)[k] \in Seq(V)
    BY <1>1, <2>1, <2>2, PathFacts
  <2> QED
    BY <2>1, <2>3
<1> HIDE DEF whole
<1>3. ASSUME NEW p \in whole, NEW n \in 0 .. Len(p) PROVE SubSeq(p, 1, n) \in Seq(V)
  <2>1. p \in Seq(V) /\ Len(p) \in Nat /\ \A k \in 1 .. Len(p) : p[k] \in V
    BY <1>2, LenProperties
  <2>2. \A k \in 1 .. n : p[k] \in V
    BY <2>1
  <2>3. SubSeq(p, 1, n) = [k \in 1 .. n |-> p[k]]
    BY <2>1
  <2>4. [k \in 1 .. n |-> p[k]] \in [1 .. n -> V]
    BY <2>2
  <2> QED
    BY <2>3, <2>4, ListOf
<1>4. ASSUME NEW p \in whole PROVE [k \in 1 .. Len(p) |-> p[Len(p) + 1 - k]] \in Seq(V)
  <2>1. p \in Seq(V) /\ Len(p) \in Nat /\ \A k \in 1 .. Len(p) : p[k] \in V
    BY <1>2, LenProperties
  <2>2. \A k \in 1 .. Len(p) : p[Len(p) + 1 - k] \in V
    BY <2>1
  <2>3. [k \in 1 .. Len(p) |-> p[Len(p) + 1 - k]] \in [1 .. Len(p) -> V]
    BY <2>2
  <2> QED
    BY <2>1, <2>3, ListOf
<1>5. Proofs \subseteq Seq(V)
  <2> DEFINE L == Seq(V)
             Cut == UNION {{SubSeq(p, 1, n) : n \in 0 .. Len(p)} : p \in whole}
             Turned == {[k \in 1 .. Len(p) |-> p[Len(p) + 1 - k]] : p \in whole}
  <2>1. whole \subseteq L /\ Cut \subseteq L /\ Turned \subseteq L
    BY <1>2, <1>3, <1>4
  <2>2. Proofs = whole \cup Cut \cup Turned
    BY DEF Proofs, whole
  <2> HIDE DEF L, Cut, Turned
  <2>3. Proofs \subseteq L
    BY <2>1, <2>2
  <2> QED
    BY <2>3 DEF L
<1> QED
  BY <1>5

\* A root commits to its list, which is no other one's, and is the root of the
\* reference; a proof is accepted for the leaf and the index it is the proof of,
\* and for no other.  So it is of every list of leaves that buildMerkleTree is
\* given.
THEOREM RootsCommit == MerkleSpec => []RootCommits
<1>1. ASSUME MerkleTypeOK PROVE RootCommits
  <2>1. leaves \in Seq(LeafDigests) /\ Len(leaves) \in Nat
    BY <1>1, LenProperties DEF MerkleTypeOK
  <2>2. RootIsReference
    <3> SUFFICES ASSUME leaves # <<>> PROVE Root(leaves) = Reference(leaves)
      BY DEF RootIsReference
    <3>1. Len(leaves) # 0
      BY <2>1, EmptySeq
    <3> QED
      BY <2>1, <3>1, RootIsThatOfReference
  <2>3. RootsAreDistinct
    <3> SUFFICES ASSUME NEW s \in Lists, Root(s) = Root(leaves) PROVE s = leaves
      BY DEF RootsAreDistinct
    <3>1. PICK n \in 1 .. Len(leaves) : s \in [1 .. n -> LeafDigests]
      BY DEF Lists
    <3>2. s \in Seq(LeafDigests) /\ Len(s) # 0 /\ Len(leaves) # 0
      <4>1. n \in Nat /\ n # 0 /\ Len(leaves) # 0
        BY <2>1
      <4>2. s \in Seq(LeafDigests) /\ Len(s) = n
        BY <3>1, <4>1, ListOf
      <4> QED
        BY <4>1, <4>2
    <3> QED
      BY <2>1, <3>2, DistinctRoots
  <2>4. ProofsAreExact
    <3> SUFFICES ASSUME NEW i \in Indices, NEW d \in LeafDigests, NEW p \in Proofs
                 PROVE  VerifyMerkleInclusion(d, i, p, Root(leaves), Len(leaves)) <=>
                          d = leaves[i + 1] /\ p = ProofFor(leaves, i)
      BY Zenon DEF ProofsAreExact
    <3>1. PICK V : Proofs \subseteq Seq(V)
      BY <1>1, ProofsAreLists
    <3>2. p \in Seq(V) /\ i \in 0 .. Len(leaves) - 1 /\ Len(leaves) # 0
      BY <2>1, <3>1 DEF Indices
    <3> QED
      BY <2>1, <3>2, ExactProofs, Zenon
  <2> QED
    BY <1>1, <2>2, <2>3, <2>4 DEF RootCommits
<1> QED
  BY <1>1, LeavesTyped, PTL

-----------------------------------------------------------------------------
(* Verification: documents and their signatures. *)

SignaturesOK(sigs, made) ==
  \A s \in sigs : s.key \in SigningKeys /\ [key |-> s.key, over |-> s.over] \in made

StatedOK(env, made) ==
  env # Draft =>
    /\ env = [digest |-> env.digest, signatures |-> env.signatures]
    /\ SignaturesOK(env.signatures, made)

\* A document of these fields, whose signatures are all in made.
TypedDoc(d, made) ==
  /\ d = [subject |-> d.subject, signatures |-> d.signatures, settlement |-> d.settlement,
          inclusion |-> d.inclusion, envelope |-> d.envelope]
  /\ d.subject \in Subjects /\ d.settlement \subseteq Receipts /\ d.inclusion \subseteq Receipts
  /\ SignaturesOK(d.signatures, made) /\ StatedOK(d.envelope, made)

LEMMA TypedFields ==
  ASSUME NEW made, NEW subject \in Subjects, NEW sigs, SignaturesOK(sigs, made),
         NEW settlement \in SUBSET Receipts, NEW inclusion \in SUBSET Receipts,
         NEW env, StatedOK(env, made)
  PROVE  TypedDoc([subject |-> subject, signatures |-> sigs, settlement |-> settlement,
                   inclusion |-> inclusion, envelope |-> env], made)
BY DEF TypedDoc

LEMMA TypedDocIsOK ==
  VerificationTypeOK <=>
    /\ TypedDoc(doc, signed) /\ \A q \in signed : q.key \in SigningKeys
    /\ mined \subseteq Txs /\ fresh \in BOOLEAN /\ edited \in BOOLEAN /\ steps \in 0 .. MaxSteps
BY DEF VerificationTypeOK, DocShape, TypedDoc, SignaturesOK, StatedOK, OldSignatures, Made

LEMMA TypedDocIsOKNext ==
  ASSUME TypedDoc(doc', signed'), \A q \in signed' : q.key \in SigningKeys,
         mined' \subseteq Txs, fresh' \in BOOLEAN, edited' \in BOOLEAN, steps' \in 0 .. MaxSteps
  PROVE  VerificationTypeOK'
BY DEF VerificationTypeOK, DocShape, TypedDoc, SignaturesOK, StatedOK, OldSignatures, Made

LEMMA ChangeTyped ==
  ASSUME VerificationTypeOK, NEW d, Change(d), TypedDoc(d, signed'),
         \A q \in signed' : q.key \in SigningKeys,
         mined' = mined, fresh' \in BOOLEAN, edited' \in BOOLEAN
  PROVE  VerificationTypeOK'
<1>1. doc' = d /\ steps' = steps + 1 /\ steps < MaxSteps
  BY DEF Change
<1>2. mined \subseteq Txs /\ steps \in 0 .. MaxSteps
  BY TypedDocIsOK
<1>3. steps' \in 0 .. MaxSteps
  BY <1>1, <1>2, VerificationAssumption
<1>4. TypedDoc(doc', signed') /\ mined' \subseteq Txs
  BY <1>1, <1>2
<1> QED
  BY <1>3, <1>4, TypedDocIsOKNext

\* A replayed signature is one that was made.
LEMMA ReplayIsMade ==
  ASSUME NEW s \in Replays(doc)
  PROVE  s.key \in SigningKeys /\ [key |-> s.key, over |-> s.over] \in signed
BY DEF Replays, Made

LEMMA ReceiptTyped ==
  ASSUME TypedDoc(doc, signed), NEW r \in Receipts
  PROVE  /\ TypedDoc([doc EXCEPT !.settlement = @ \cup {r}], signed)
         /\ TypedDoc([doc EXCEPT !.inclusion = @ \cup {r}], signed)
<1> DEFINE Doc(subject, sigs, settlement, inclusion, env) ==
             [subject |-> subject, signatures |-> sigs, settlement |-> settlement,
              inclusion |-> inclusion, envelope |-> env]
<1>1. /\ doc = Doc(doc.subject, doc.signatures, doc.settlement, doc.inclusion, doc.envelope)
      /\ doc.subject \in Subjects
      /\ doc.settlement \in SUBSET Receipts /\ doc.settlement \cup {r} \in SUBSET Receipts
      /\ doc.inclusion \in SUBSET Receipts /\ doc.inclusion \cup {r} \in SUBSET Receipts
      /\ SignaturesOK(doc.signatures, signed) /\ StatedOK(doc.envelope, signed)
  BY DEF TypedDoc
<1>2. /\ [doc EXCEPT !.settlement = @ \cup {r}] =
            Doc(doc.subject, doc.signatures, doc.settlement \cup {r}, doc.inclusion, doc.envelope)
      /\ [doc EXCEPT !.inclusion = @ \cup {r}] =
            Doc(doc.subject, doc.signatures, doc.settlement, doc.inclusion \cup {r}, doc.envelope)
  BY <1>1
<1> QED
  BY <1>1, <1>2, TypedFields

LEMMA EditsTyped ==
  ASSUME TypedDoc(doc, signed), NEW d \in Edits(doc)
  PROVE  TypedDoc(d, signed)
<1> DEFINE Doc(subject, sigs, settlement, inclusion, env) ==
             [subject |-> subject, signatures |-> sigs, settlement |-> settlement,
              inclusion |-> inclusion, envelope |-> env]
<1>0. /\ doc = Doc(doc.subject, doc.signatures, doc.settlement, doc.inclusion, doc.envelope)
      /\ doc.subject \in Subjects /\ doc.settlement \in SUBSET Receipts
      /\ doc.inclusion \in SUBSET Receipts
      /\ SignaturesOK(doc.signatures, signed) /\ StatedOK(doc.envelope, signed)
  BY DEF TypedDoc
<1>r. \A s \in Replays(doc) : SignaturesOK({s}, signed)
  BY ReplayIsMade DEF SignaturesOK
<1>e. SignaturesOK({}, signed)
  BY DEF SignaturesOK
<1>1. ASSUME NEW s \in Subjects, d = [doc EXCEPT !.subject = s] PROVE TypedDoc(d, signed)
  <2>1. d = Doc(s, doc.signatures, doc.settlement, doc.inclusion, doc.envelope)
    BY <1>0, <1>1
  <2> QED
    BY <1>0, <2>1, TypedFields
<1>2. ASSUME NEW r \in ForgedSettlements \cup ForgedInclusions,
             d = [doc EXCEPT !.settlement = @ \cup {r}] \/ d = [doc EXCEPT !.inclusion = @ \cup {r}]
      PROVE  TypedDoc(d, signed)
  BY <1>2, ReceiptTyped, VerificationAssumption
<1>4. CASE d = [doc EXCEPT !.settlement = {}, !.inclusion = {}]
  <2>1. d = Doc(doc.subject, doc.signatures, {}, {}, doc.envelope)
    BY <1>0, <1>4
  <2> QED
    BY <1>0, <2>1, TypedFields
<1>5. ASSUME NEW sigs, SignaturesOK(sigs, signed), d = [doc EXCEPT !.signatures = sigs]
      PROVE  TypedDoc(d, signed)
  <2>1. d = Doc(doc.subject, sigs, doc.settlement, doc.inclusion, doc.envelope)
    BY <1>0, <1>5
  <2> QED
    BY <1>0, <1>5, <2>1, TypedFields
<1>6. ASSUME NEW sigs, SignaturesOK(sigs, signed),
             d = [doc EXCEPT !.envelope = [digest |-> Content(doc), signatures |-> sigs]]
      PROVE  TypedDoc(d, signed)
  <2> DEFINE env == [digest |-> Content(doc), signatures |-> sigs]
  <2>1. d = Doc(doc.subject, doc.signatures, doc.settlement, doc.inclusion, env)
    BY <1>0, <1>6
  <2>2. StatedOK(env, signed)
    BY <1>6 DEF StatedOK
  <2> HIDE DEF env
  <2> QED
    BY <1>0, <2>1, <2>2, TypedFields
<1> QED
  BY <1>1, <1>2, <1>4, <1>5, <1>6, <1>r, <1>e DEF Edits

\* Finalising keeps all but the envelope's own part, whose signatures are over
\* the content then.
LEMMA FinalizeTyped ==
  ASSUME NEW made, TypedDoc(doc, made)
  PROVE  /\ TypedDoc(FinalizeEnvelope(doc), made)
         /\ FinalizeEnvelope(doc) =
              [subject |-> doc.subject, signatures |-> doc.signatures, settlement |-> doc.settlement,
               inclusion |-> doc.inclusion, envelope |-> FinalizeEnvelope(doc).envelope]
         /\ FinalizeEnvelope(doc).envelope =
              [digest |-> Content(doc),
               signatures |-> {s \in OldSignatures(doc) : s.payloadDigest = Content(doc)}]
         /\ Content(FinalizeEnvelope(doc)) = Content(doc)
<1> DEFINE env == [digest |-> Content(doc),
                   signatures |-> {s \in OldSignatures(doc) : s.payloadDigest = Content(doc)}]
<1>1. FinalizeEnvelope(doc) =
        [subject |-> doc.subject, signatures |-> doc.signatures, settlement |-> doc.settlement,
         inclusion |-> doc.inclusion, envelope |-> env]
  BY DEF TypedDoc, FinalizeEnvelope
<1>2. StatedOK(env, made)
  BY DEF TypedDoc, StatedOK, SignaturesOK, OldSignatures
<1>3. Content(FinalizeEnvelope(doc)) = Content(doc)
  BY <1>1 DEF Content
<1> HIDE DEF env
<1>4. FinalizeEnvelope(doc).envelope = env
  BY <1>1
<1>5. TypedDoc(FinalizeEnvelope(doc), made)
  BY <1>1, <1>2, TypedFields DEF TypedDoc
<1> QED
  BY <1>1, <1>3, <1>4, <1>5 DEF env

\* What is signed has been finalised.
LEMMA FinalEnvelope ==
  ASSUME TypedDoc(doc, signed)
  PROVE  LET final == IF doc.envelope = Draft THEN FinalizeEnvelope(doc) ELSE doc IN
         /\ final.envelope = [digest |-> final.envelope.digest, signatures |-> final.envelope.signatures]
         /\ SignaturesOK(final.envelope.signatures, signed)
<1>1. CASE doc.envelope = Draft
  <2>1. FinalizeEnvelope(doc).envelope = [digest |-> Content(doc), signatures |-> {}]
    BY <1>1, FinalizeTyped DEF OldSignatures
  <2> QED
    BY <1>1, <2>1 DEF SignaturesOK
<1>2. CASE doc.envelope # Draft
  BY <1>2 DEF TypedDoc, StatedOK
<1> QED
  BY <1>1, <1>2

\* Signing adds to the envelope's own part only.
LEMMA SignTyped ==
  ASSUME NEW d, NEW made, TypedDoc(d, made),
         d.envelope = [digest |-> d.envelope.digest, signatures |-> d.envelope.signatures],
         SignaturesOK(d.envelope.signatures, made),
         NEW k \in SigningKeys, NEW digest
  PROVE  LET e == [d EXCEPT !.envelope.signatures = @ \cup {Sig(k, digest)}] IN
         /\ TypedDoc(e, made \cup {[key |-> k, over |-> digest]})
         /\ e.envelope = [digest |-> d.envelope.digest,
                          signatures |-> d.envelope.signatures \cup {Sig(k, digest)}]
         /\ Content(e) = Content(d)
<1> DEFINE e == [d EXCEPT !.envelope.signatures = @ \cup {Sig(k, digest)}]
           env == [digest |-> d.envelope.digest,
                   signatures |-> d.envelope.signatures \cup {Sig(k, digest)}]
           more == made \cup {[key |-> k, over |-> digest]}
<1>2. [d.envelope EXCEPT !.signatures = @ \cup {Sig(k, digest)}] = env
  OBVIOUS
<1>3. e = [subject |-> d.subject, signatures |-> d.signatures, settlement |-> d.settlement,
           inclusion |-> d.inclusion, envelope |-> env]
  BY <1>2 DEF TypedDoc
<1>4. SignaturesOK(d.signatures, more)
  BY DEF TypedDoc, SignaturesOK
<1>5. StatedOK(env, more)
  BY DEF TypedDoc, StatedOK, SignaturesOK, Sig
<1> HIDE DEF env, e
<1>6. e.envelope = env /\ Content(e) = Content(d)
  BY <1>3 DEF Content
<1>7. TypedDoc(e, more)
  BY <1>3, <1>4, <1>5, TypedFields DEF TypedDoc
<1> QED
  BY <1>6, <1>7 DEF e, env

LEMMA VerificationTypes ==
  ASSUME VerificationTypeOK, [VerificationNext]_verificationVars
  PROVE  VerificationTypeOK'
<1>0. /\ TypedDoc(doc, signed) /\ \A q \in signed : q.key \in SigningKeys
      /\ mined \subseteq Txs /\ fresh \in BOOLEAN /\ edited \in BOOLEAN /\ steps \in 0 .. MaxSteps
  BY TypedDocIsOK
<1>1. ASSUME NEW t \in Txs, AddSettlement(t) PROVE VerificationTypeOK'
  <2> DEFINE r == SettlementReceipt(t)
  <2>1. r \in Receipts
    BY DEF SettlementReceipt, Receipts
  <2>2. TypedDoc([doc EXCEPT !.settlement = @ \cup {r}], signed)
    BY <1>0, <2>1, ReceiptTyped
  <2>3. /\ Change([doc EXCEPT !.settlement = @ \cup {r}])
        /\ signed' = signed /\ mined' = mined /\ edited' = edited /\ fresh' = FALSE
    BY <1>1 DEF AddSettlement
  <2> HIDE DEF r
  <2> QED
    BY <1>0, <2>2, <2>3, ChangeTyped
<1>2. ASSUME NEW r \in Roots, AddInclusion(r) PROVE VerificationTypeOK'
  <2> DEFINE receipt == InclusionReceipt(r, doc.subject)
  <2>1. receipt \in Receipts
    BY <1>0, VerificationAssumption DEF TypedDoc, InclusionReceipt, Receipts
  <2>2. TypedDoc([doc EXCEPT !.inclusion = @ \cup {receipt}], signed)
    BY <1>0, <2>1, ReceiptTyped
  <2>3. /\ Change([doc EXCEPT !.inclusion = @ \cup {receipt}])
        /\ signed' = signed /\ mined' = mined /\ edited' = edited /\ fresh' = FALSE
    BY <1>2 DEF AddInclusion
  <2> HIDE DEF receipt
  <2> QED
    BY <1>0, <2>2, <2>3, ChangeTyped
<1>3. CASE Finalize
  <2>1. /\ Change(FinalizeEnvelope(doc))
        /\ signed' = signed /\ mined' = mined /\ edited' = edited /\ fresh' = TRUE
    BY <1>3 DEF Finalize
  <2>2. TypedDoc(FinalizeEnvelope(doc), signed')
    BY <1>0, <2>1, FinalizeTyped
  <2> QED
    BY <1>0, <2>1, <2>2, ChangeTyped
<1>4. ASSUME NEW k \in SigningKeys, SignEnvelope(k) PROVE VerificationTypeOK'
  <2> DEFINE final == IF doc.envelope = Draft THEN FinalizeEnvelope(doc) ELSE doc
             digest == final.envelope.digest
             made == signed \cup {[key |-> k, over |-> digest]}
             d == [final EXCEPT !.envelope.signatures = @ \cup {Sig(k, digest)}]
  <2>1. Change(d) /\ signed' = made /\ UNCHANGED <<mined, edited>> /\ fresh' \in BOOLEAN
    BY <1>0, <1>4 DEF SignEnvelope
  <2>2. TypedDoc(final, signed)
    BY <1>0, FinalizeTyped
  <2>3. TypedDoc(d, made)
    <3>1. /\ final.envelope = [digest |-> final.envelope.digest, signatures |-> final.envelope.signatures]
          /\ SignaturesOK(final.envelope.signatures, signed)
      BY <1>0, FinalEnvelope
    <3> HIDE DEF final, digest
    <3> QED
      BY <2>2, <3>1, SignTyped
  <2>4. \A q \in made : q.key \in SigningKeys
    BY <1>0
  <2> HIDE DEF final, digest, made, d
  <2> QED
    BY <1>0, <2>1, <2>3, <2>4, ChangeTyped
<1>5. ASSUME NEW t \in Txs, Mine(t) PROVE VerificationTypeOK'
  BY <1>0, <1>5, TypedDocIsOKNext DEF Mine
<1>6. CASE Edit
  <2>1. PICK d \in Edits(doc) : Change(d)
    BY <1>6 DEF Edit
  <2>2. signed' = signed /\ mined' = mined /\ fresh' = fresh /\ edited' = TRUE
    BY <1>6 DEF Edit
  <2>3. TypedDoc(d, signed')
    BY <1>0, <2>2, EditsTyped
  <2> QED
    BY <1>0, <2>1, <2>2, <2>3, ChangeTyped
<1>7. CASE UNCHANGED verificationVars
  BY <1>0, <1>7, TypedDocIsOKNext DEF verificationVars
<1> QED
  BY <1>1, <1>2, <1>3, <1>4, <1>5, <1>6, <1>7 DEF VerificationNext

LEMMA VerificationStart ==
  ASSUME VerificationInit
  PROVE  VerificationTypeOK
<1>1. PICK s \in Subjects, keys \in SUBSET SigningKeys :
        doc = BuildEnvelope(s, keys) /\ signed = {[key |-> k, over |-> s] : k \in keys}
  BY DEF VerificationInit
<1>2. SignaturesOK({Sig(k, s) : k \in keys}, signed) /\ StatedOK(Draft, signed)
  BY <1>1 DEF SignaturesOK, StatedOK, Sig
<1>3. {} \in SUBSET Receipts
  OBVIOUS
<1>4. TypedDoc(doc, signed)
  BY <1>1, <1>2, <1>3, TypedFields DEF BuildEnvelope
<1>5. \A q \in signed : q.key \in SigningKeys
  BY <1>1
<1>6. mined \subseteq Txs /\ fresh \in BOOLEAN /\ edited \in BOOLEAN /\ steps \in 0 .. MaxSteps
  <2>1. mined = {} /\ fresh = FALSE /\ edited = FALSE /\ steps = 0
    BY DEF VerificationInit
  <2>2. steps \in 0 .. MaxSteps
    BY <2>1, VerificationAssumption
  <2> QED
    BY <2>1, <2>2
<1> QED
  BY <1>4, <1>5, <1>6, TypedDocIsOK

-----------------------------------------------------------------------------
(* Verification: what a report says. *)

\* A report that is not invalid has no check that failed.
LEMMA NotInvalid ==
  ASSUME NEW checks, NEW incomplete, Summarize(checks, incomplete) # "invalid"
  PROVE  \A c \in checks : c.status # "fail"
BY DEF Summarize, With

LEMMA NothingFailed ==
  ASSUME NEW checks, NEW incomplete, \A c \in checks : c.status # "fail"
  PROVE  Summarize(checks, incomplete) # "invalid"
BY DEF Summarize, With

\* What passes in the name of a signature is one of the document or of its
\* envelope that is over what it should be.
LEMMA PassedSignature ==
  ASSUME NEW d, NEW bytes, NEW mode, NEW c \in Checks(d, bytes, mode),
         c.status = "pass", c.group \in {"artifact-signatures", "envelope-signatures"}
  PROVE  \/ \E s \in d.signatures : s.over = d.subject
         \/ d.envelope # Draft /\ \E s \in d.envelope.signatures : s.over = d.envelope.digest
<1> USE DEF Check, SignatureStatus
<1>1. CASE c \in ArtifactChecks(d)
  BY <1>1 DEF ArtifactChecks
<1>2. CASE c \in EnvelopeChecks(d)
  BY <1>2 DEF EnvelopeChecks
<1>3. CASE c \in SubjectChecks(d, bytes) \cup SettlementChecks(d, mode) \cup InclusionChecks(d, mode)
  <2>1. c.group \in {"subject", "settlement-receipts", "inclusion-receipts"}
    BY <1>3 DEF SubjectChecks, SettlementChecks, InclusionChecks, OnlineChecks
  <2> QED
    BY <2>1
<1> QED
  BY <1>1, <1>2, <1>3 DEF Checks

LEMMA AttestedHolds ==
  ASSUME VerificationTypeOK
  PROVE  AttestedIsSigned
<1> SUFFICES ASSUME NEW bytes \in Bytes, NEW mode \in Modes,
                    VerifyEnvelope(doc, bytes, mode).status # "invalid",
                    VerifyEnvelope(doc, bytes, mode).attested
             PROVE  Vouched(doc.subject) \/ Vouched(Content(doc))
  BY DEF AttestedIsSigned
<1> DEFINE checks == Checks(doc, bytes, mode)
<1>1. TypedDoc(doc, signed)
  BY TypedDocIsOK
<1>2. \A c \in checks : c.status # "fail"
  <2>1. Summarize(checks, doc.envelope = Draft) # "invalid"
    BY DEF VerifyEnvelope
  <2> QED
    BY <2>1, NotInvalid
<1>3. PICK c \in checks :
        c.status = "pass" /\ c.group \in {"artifact-signatures", "envelope-signatures"}
  BY DEF VerifyEnvelope, With
<1>4. CASE \E s \in doc.signatures : s.over = doc.subject
  BY <1>1, <1>4 DEF TypedDoc, SignaturesOK, Vouched
<1>5. CASE doc.envelope # Draft /\ \E s \in doc.envelope.signatures : s.over = doc.envelope.digest
  <2>1. doc.envelope.digest = Content(doc)
    <3> SUFFICES ASSUME doc.envelope.digest # Content(doc) PROVE FALSE
      OBVIOUS
    <3>1. Check("envelope", "fail") \in checks
      BY <1>5 DEF Checks, EnvelopeChecks
    <3> QED
      BY <1>2, <3>1 DEF Check
  <2> QED
    BY <1>1, <1>5, <2>1 DEF TypedDoc, StatedOK, SignaturesOK, Vouched
<1> QED
  BY <1>3, <1>4, <1>5, PassedSignature

LEMMA DigestHolds ==
  ASSUME VerificationTypeOK
  PROVE  DigestIsSigned
<1> SUFFICES ASSUME NEW mode \in Modes, Check("envelope", "pass") \in Checks(doc, NoBytes, mode)
             PROVE  Vouched(Content(doc))
  BY DEF DigestIsSigned
<1>1. Check("envelope", "pass") \in EnvelopeChecks(doc)
  <2>1. \A c \in SettlementChecks(doc, mode) \cup InclusionChecks(doc, mode) : c.group # "envelope"
    BY DEF SettlementChecks, InclusionChecks, OnlineChecks, Check
  <2>2. \A c \in SubjectChecks(doc, NoBytes) \cup ArtifactChecks(doc) : c.group # "envelope"
    BY DEF SubjectChecks, ArtifactChecks, Check
  <2>3. Check("envelope", "pass").group = "envelope"
    BY DEF Check
  <2> QED
    BY <2>1, <2>2, <2>3 DEF Checks
<1>2. doc.envelope # Draft /\ doc.envelope.digest = Content(doc) /\ ValidSignatures(doc) # {}
  BY <1>1 DEF EnvelopeChecks, Check
<1>3. PICK s \in doc.envelope.signatures : s.over = doc.envelope.digest
  BY <1>2 DEF ValidSignatures, SignatureStatus
<1> QED
  BY <1>2, <1>3, TypedDocIsOK DEF TypedDoc, StatedOK, SignaturesOK, Vouched

LEMMA InclusionHolds == InclusionIsAnchored
<1> SUFFICES ASSUME NEW i \in doc.inclusion, NEW mode \in Modes, InclusionStatus(i, doc, mode) = "pass"
             PROVE  /\ i.adapter = "merkle" => i.root # NoRoot /\ Leaf(i, doc) \in LeavesOf[i.root]
                    /\ i.root # NoRoot =>
                         /\ mode = "up"
                         /\ \E r \in doc.settlement :
                              r.tx \in mined /\ Anchors[r.tx].ok /\ Anchors[r.tx].evm /\ i.root \in Anchors[r.tx].binds
  BY DEF InclusionIsAnchored
<1>1. CheckOffline(i, doc) = "pass" /\ (i.root = NoRoot \/ Anchored(i.root, doc, mode))
  BY DEF InclusionStatus
<1>2. i.adapter = "merkle" => i.root # NoRoot /\ Leaf(i, doc) \in LeavesOf[i.root]
  BY <1>1 DEF CheckOffline, MerkleCheck
<1>3. ASSUME i.root # NoRoot
      PROVE  /\ mode = "up"
             /\ \E r \in doc.settlement :
                  r.tx \in mined /\ Anchors[r.tx].ok /\ Anchors[r.tx].evm /\ i.root \in Anchors[r.tx].binds
  <2>1. PICK r \in doc.settlement : OnlineStatus(r, doc, mode) = "pass" /\ i.root \in Anchors[r.tx].binds
    BY <1>1, <1>3 DEF Anchored
  <2>2. mode # "offline" /\ mode # "down" /\ r.tx \in mined /\ Anchors[r.tx].ok /\ Anchors[r.tx].evm
    BY <1>1, <1>3, <2>1 DEF Anchored, OnlineStatus, ConfirmEvmAnchorOnline
  <2> QED
    BY <2>1, <2>2 DEF Modes
<1> QED
  BY <1>2, <1>3

\* Without a live endpoint no settlement is confirmed, and only one that names
\* no hash is refuted.
LEMMA DeadEndpoint ==
  ASSUME NEW d, NEW r, NEW receipts, r \in receipts
  PROVE  /\ OnlineStatus(r, d, "down") \in {"unknown", "fail"}
         /\ OnlineStatus(r, d, "down") = "fail" <=> r \in Malformed(receipts)
         /\ OnlineStatus(r, d, "down") = "fail" => OnlineStatus(r, d, "up") = "fail"
BY DEF OnlineStatus, ConfirmEvmAnchorOnline, Malformed

LEMMA NothingAnchored ==
  ASSUME NEW d, NEW root
  PROVE  ~Anchored(root, d, "down") /\ ~Anchored(root, d, "offline")
BY DEF Anchored, OnlineStatus, ConfirmEvmAnchorOnline

\* What a list of receipts contributes, without and with an endpoint.
OutageKeeps(receipts, group, offline, down, up) ==
  /\ With(down, "pass") = With(offline, "pass")
  /\ With(down, "fail") = With(offline, "fail") \cup {Check(group, "fail") : r \in Malformed(receipts)}
  /\ With(down, "pass") \subseteq With(up, "pass")
  /\ With(down, "fail") \subseteq With(up, "fail")

LEMMA SettlementOutage ==
  ASSUME NEW d
  PROVE  OutageKeeps(d.settlement, "settlement-receipts", SettlementChecks(d, "offline"),
                     SettlementChecks(d, "down"), SettlementChecks(d, "up"))
<1> DEFINE group == "settlement-receipts"
<1>1. \A c : c \in SettlementChecks(d, "offline") <=>
        \E r \in d.settlement : c = Check(group, CheckOffline(r, d))
                             \/ (r.adapter = "anchor" /\ c = Check(group, "skipped"))
  BY DEF SettlementChecks, OnlineChecks
<1>2. \A c : c \in SettlementChecks(d, "down") <=>
        \E r \in d.settlement : c = Check(group, CheckOffline(r, d))
                             \/ c = Check(group, OnlineStatus(r, d, "down"))
  BY DEF SettlementChecks, OnlineChecks
<1>3. \A c : c \in SettlementChecks(d, "up") <=>
        \E r \in d.settlement : c = Check(group, CheckOffline(r, d))
                             \/ c = Check(group, OnlineStatus(r, d, "up"))
  BY DEF SettlementChecks, OnlineChecks
<1>4. \A r \in d.settlement :
         /\ OnlineStatus(r, d, "down") \in {"unknown", "fail"}
         /\ OnlineStatus(r, d, "down") = "fail" <=> r \in Malformed(d.settlement)
         /\ OnlineStatus(r, d, "down") = "fail" => OnlineStatus(r, d, "up") = "fail"
  BY DeadEndpoint
<1>5. Malformed(d.settlement) \subseteq d.settlement
  BY DEF Malformed
<1> HIDE DEF group
<1>6. \A status \in {"pass", "fail"} : \A c : c \in With(SettlementChecks(d, "offline"), status) <=>
        c.status = status /\ \E r \in d.settlement : c = Check(group, CheckOffline(r, d))
  BY <1>1 DEF With, Check
<1>7. \A c : c \in With(SettlementChecks(d, "down"), "pass") <=>
        c.status = "pass" /\ \E r \in d.settlement : c = Check(group, CheckOffline(r, d))
  BY <1>2, <1>4 DEF With, Check
<1>8. \A c : c \in With(SettlementChecks(d, "down"), "fail") <=>
        \/ c.status = "fail" /\ \E r \in d.settlement : c = Check(group, CheckOffline(r, d))
        \/ \E r \in Malformed(d.settlement) : c = Check(group, "fail")
  BY <1>2, <1>4, <1>5 DEF With, Check
<1>9. \A status \in {"pass", "fail"} :
        With(SettlementChecks(d, "down"), status) \subseteq With(SettlementChecks(d, "up"), status)
  BY <1>2, <1>3, <1>4 DEF With, Check
<1>10. With(SettlementChecks(d, "down"), "pass") = With(SettlementChecks(d, "offline"), "pass")
  BY <1>6, <1>7 DEF With
<1>11. With(SettlementChecks(d, "down"), "fail") =
         With(SettlementChecks(d, "offline"), "fail") \cup {Check(group, "fail") : r \in Malformed(d.settlement)}
  BY <1>6, <1>8 DEF With
<1> QED
  BY <1>9, <1>10, <1>11 DEF OutageKeeps, group

LEMMA InclusionOutage ==
  ASSUME NEW d
  PROVE  OutageKeeps(d.inclusion, "inclusion-receipts", InclusionChecks(d, "offline"),
                     InclusionChecks(d, "down"), InclusionChecks(d, "up"))
<1> DEFINE group == "inclusion-receipts"
<1>1. \A c : c \in InclusionChecks(d, "offline") <=>
        \E r \in d.inclusion : c = Check(group, InclusionStatus(r, d, "offline"))
                            \/ (r.adapter = "anchor" /\ c = Check(group, "skipped"))
  BY DEF InclusionChecks, OnlineChecks
<1>2. \A c : c \in InclusionChecks(d, "down") <=>
        \E r \in d.inclusion : c = Check(group, InclusionStatus(r, d, "down"))
                            \/ c = Check(group, OnlineStatus(r, d, "down"))
  BY DEF InclusionChecks, OnlineChecks
<1>3. \A c : c \in InclusionChecks(d, "up") <=>
        \E r \in d.inclusion : c = Check(group, InclusionStatus(r, d, "up"))
                            \/ c = Check(group, OnlineStatus(r, d, "up"))
  BY DEF InclusionChecks, OnlineChecks
<1>4. \A r \in d.inclusion :
         /\ OnlineStatus(r, d, "down") \in {"unknown", "fail"}
         /\ OnlineStatus(r, d, "down") = "fail" <=> r \in Malformed(d.inclusion)
         /\ OnlineStatus(r, d, "down") = "fail" => OnlineStatus(r, d, "up") = "fail"
  BY DeadEndpoint
<1>5. Malformed(d.inclusion) \subseteq d.inclusion
  BY DEF Malformed
<1>s. \A r \in d.inclusion :
         /\ InclusionStatus(r, d, "offline") = InclusionStatus(r, d, "down")
         /\ InclusionStatus(r, d, "down") \in {"pass", "fail"} =>
              InclusionStatus(r, d, "up") = InclusionStatus(r, d, "down")
  BY NothingAnchored DEF InclusionStatus
<1> HIDE DEF group
<1>6. \A status \in {"pass", "fail"} : \A c : c \in With(InclusionChecks(d, "offline"), status) <=>
        c.status = status /\ \E r \in d.inclusion : c = Check(group, InclusionStatus(r, d, "down"))
  BY <1>1, <1>s DEF With, Check
<1>7. \A c : c \in With(InclusionChecks(d, "down"), "pass") <=>
        c.status = "pass" /\ \E r \in d.inclusion : c = Check(group, InclusionStatus(r, d, "down"))
  BY <1>2, <1>4 DEF With, Check
<1>8. \A c : c \in With(InclusionChecks(d, "down"), "fail") <=>
        \/ c.status = "fail" /\ \E r \in d.inclusion : c = Check(group, InclusionStatus(r, d, "down"))
        \/ \E r \in Malformed(d.inclusion) : c = Check(group, "fail")
  BY <1>2, <1>4, <1>5 DEF With, Check
<1>9. \A status \in {"pass", "fail"} :
        With(InclusionChecks(d, "down"), status) \subseteq With(InclusionChecks(d, "up"), status)
  BY <1>2, <1>3, <1>4, <1>s DEF With, Check
<1>10. With(InclusionChecks(d, "down"), "pass") = With(InclusionChecks(d, "offline"), "pass")
  BY <1>6, <1>7 DEF With
<1>11. With(InclusionChecks(d, "down"), "fail") =
         With(InclusionChecks(d, "offline"), "fail") \cup {Check(group, "fail") : r \in Malformed(d.inclusion)}
  BY <1>6, <1>8 DEF With
<1> QED
  BY <1>9, <1>10, <1>11 DEF OutageKeeps, group

LEMMA OutageHolds == OutageDecidesNothing
<1> SUFFICES ASSUME NEW bytes \in Bytes
             PROVE  LET Of(mode, status) == With(Checks(doc, bytes, mode), status) IN
                    /\ Of("down", "pass") = Of("offline", "pass")
                    /\ Of("down", "fail") =
                         Of("offline", "fail")
                           \cup {Check("settlement-receipts", "fail") : r \in Malformed(doc.settlement)}
                           \cup {Check("inclusion-receipts", "fail") : r \in Malformed(doc.inclusion)}
                    /\ Of("down", "pass") \subseteq Of("up", "pass")
                    /\ Of("down", "fail") \subseteq Of("up", "fail")
  BY DEF OutageDecidesNothing
<1> DEFINE Rest == SubjectChecks(doc, bytes) \cup ArtifactChecks(doc) \cup EnvelopeChecks(doc)
           Settled(mode) == SettlementChecks(doc, mode)
           Included(mode) == InclusionChecks(doc, mode)
<1>1. \A mode, status : With(Checks(doc, bytes, mode), status) =
        With(Rest, status) \cup With(Settled(mode), status) \cup With(Included(mode), status)
  BY DEF Checks, With
<1>2. /\ OutageKeeps(doc.settlement, "settlement-receipts", Settled("offline"), Settled("down"), Settled("up"))
      /\ OutageKeeps(doc.inclusion, "inclusion-receipts", Included("offline"), Included("down"), Included("up"))
  BY SettlementOutage, InclusionOutage
<1> HIDE DEF Rest, Settled, Included
<1>3. With(Checks(doc, bytes, "down"), "pass") = With(Checks(doc, bytes, "offline"), "pass")
  BY <1>1, <1>2 DEF OutageKeeps
<1>4. With(Checks(doc, bytes, "down"), "fail") =
        With(Checks(doc, bytes, "offline"), "fail")
          \cup {Check("settlement-receipts", "fail") : r \in Malformed(doc.settlement)}
          \cup {Check("inclusion-receipts", "fail") : r \in Malformed(doc.inclusion)}
  <2> DEFINE Refuted(group, receipts) == {Check(group, "fail") : r \in Malformed(receipts)}
  <2>1. /\ With(Settled("down"), "fail") =
             With(Settled("offline"), "fail") \cup Refuted("settlement-receipts", doc.settlement)
        /\ With(Included("down"), "fail") =
             With(Included("offline"), "fail") \cup Refuted("inclusion-receipts", doc.inclusion)
    BY <1>2 DEF OutageKeeps
  <2> HIDE DEF Refuted
  <2>2. With(Checks(doc, bytes, "down"), "fail") =
          With(Checks(doc, bytes, "offline"), "fail")
            \cup Refuted("settlement-receipts", doc.settlement) \cup Refuted("inclusion-receipts", doc.inclusion)
    BY <1>1, <2>1
  <2> QED
    BY <2>2 DEF Refuted
<1>5. /\ With(Checks(doc, bytes, "down"), "pass") \subseteq With(Checks(doc, bytes, "up"), "pass")
      /\ With(Checks(doc, bytes, "down"), "fail") \subseteq With(Checks(doc, bytes, "up"), "fail")
  BY <1>1, <1>2 DEF OutageKeeps
<1> QED
  BY <1>3, <1>4, <1>5

\* Whoever edits a document, what its report says stands on signatures that
\* were made and on transactions that the chains hold.
THEOREM ReportsAreSound == VerificationSpec => []ReportIsSound
<1>1. VerificationInit => VerificationTypeOK
  BY VerificationStart
<1>2. VerificationTypeOK /\ [VerificationNext]_verificationVars => VerificationTypeOK'
  BY VerificationTypes
<1>3. VerificationTypeOK => ReportIsSound
  BY AttestedHolds, DigestHolds, InclusionHolds, OutageHolds DEF ReportIsSound
<1> QED
  BY <1>1, <1>2, <1>3, PTL DEF VerificationSpec

-----------------------------------------------------------------------------
(* Verification: honest documents. *)

\* Part by part, of any document.
HonestSignatures(d) == \A s \in d.signatures : s.over = d.subject /\ s.payloadDigest = d.subject

Confirms(r) ==
  r.adapter = "anchor" /\ ~r.otherBlock /\ Anchors[r.tx].hash = "well-formed" /\ Anchors[r.tx].ok

HonestSettlement(d) ==
  \A r \in d.settlement : Confirms(r) /\ Anchors[r.tx].binds \cap SettlementBindingTargets(d) # {}

HonestInclusion(d) ==
  \A i \in d.inclusion :
    /\ i.adapter = "merkle" /\ i.root \in Roots /\ i.leafDigest = NoLeaf
    /\ i.proves = d.subject /\ d.subject \in LeavesOf[i.root]

HonestEnvelope(env) ==
  env # Draft => \A s \in env.signatures : s.over = env.digest /\ s.payloadDigest = env.digest

HonestDoc(d, isFresh) ==
  /\ HonestSignatures(d) /\ HonestSettlement(d) /\ HonestInclusion(d) /\ HonestEnvelope(d.envelope)
  /\ d.envelope # Draft /\ isFresh => d.envelope.digest = Content(d)

LEMMA HonestParts == HonestInv <=> (~edited => HonestDoc(doc, fresh))
BY DEF HonestInv, HonestDoc, HonestSignatures, HonestSettlement, Confirms, HonestInclusion, HonestEnvelope

LEMMA HonestPartsNext ==
  ASSUME HonestDoc(doc', fresh')
  PROVE  HonestInv'
BY DEF HonestInv, HonestDoc, HonestSignatures, HonestSettlement, Confirms, HonestInclusion,
       HonestEnvelope, SettlementBindingTargets, Content

\* A receipt more, of a document that is not fresh for it.
LEMMA ReceiptIsHonest ==
  ASSUME TypedDoc(doc, signed), HonestDoc(doc, fresh),
         NEW settlement, NEW inclusion, doc.inclusion \subseteq inclusion,
         NEW d, d = [subject |-> doc.subject, signatures |-> doc.signatures, settlement |-> settlement,
                     inclusion |-> inclusion, envelope |-> doc.envelope],
         HonestInclusion(d),
         \A r \in settlement \ doc.settlement :
           Confirms(r) /\ Anchors[r.tx].binds \cap SettlementBindingTargets(doc) # {}
  PROVE  HonestDoc(d, FALSE)
<1>1. SettlementBindingTargets(doc) \subseteq SettlementBindingTargets(d)
  BY DEF SettlementBindingTargets
<1>2. HonestSettlement(d)
  BY <1>1 DEF HonestDoc, HonestSettlement
<1> QED
  BY <1>2 DEF HonestDoc, HonestSignatures

\* Only the envelope's own part has changed.
LEMMA EnvelopeIsHonest ==
  ASSUME HonestDoc(doc, fresh), NEW env, HonestEnvelope(env), NEW isFresh,
         env # Draft /\ isFresh => env.digest = Content(doc),
         NEW d, d = [subject |-> doc.subject, signatures |-> doc.signatures, settlement |-> doc.settlement,
                     inclusion |-> doc.inclusion, envelope |-> env]
  PROVE  HonestDoc(d, isFresh)
<1>1. SettlementBindingTargets(d) = SettlementBindingTargets(doc) /\ Content(d) = Content(doc)
  BY DEF SettlementBindingTargets, Content
<1> QED
  BY <1>1 DEF HonestDoc, HonestSignatures, HonestSettlement, HonestInclusion

LEMMA FinalIsHonest ==
  ASSUME TypedDoc(doc, signed), HonestDoc(doc, fresh)
  PROVE  LET final == FinalizeEnvelope(doc) IN
         /\ final = [subject |-> doc.subject, signatures |-> doc.signatures, settlement |-> doc.settlement,
                     inclusion |-> doc.inclusion, envelope |-> final.envelope]
         /\ final.envelope.digest = Content(doc)
         /\ HonestEnvelope(final.envelope) /\ HonestDoc(final, TRUE)
<1> DEFINE final == FinalizeEnvelope(doc)
           env == [digest |-> Content(doc),
                   signatures |-> {s \in OldSignatures(doc) : s.payloadDigest = Content(doc)}]
<1>1. final.envelope = env
  BY FinalizeTyped
<1>2. final = [subject |-> doc.subject, signatures |-> doc.signatures, settlement |-> doc.settlement,
               inclusion |-> doc.inclusion, envelope |-> env]
  BY <1>1, FinalizeTyped
<1>3. HonestEnvelope(env)
  BY DEF HonestDoc, HonestEnvelope, OldSignatures
<1>4. env.digest = Content(doc)
  OBVIOUS
<1> HIDE DEF env, final
<1>5. HonestDoc(final, TRUE)
  BY <1>2, <1>3, <1>4, EnvelopeIsHonest
<1> QED
  BY <1>1, <1>2, <1>3, <1>4, <1>5 DEF final

LEMMA HonestKept ==
  ASSUME VerificationTypeOK, HonestInv, [VerificationNext]_verificationVars
  PROVE  HonestInv'
<1>0. TypedDoc(doc, signed)
  BY TypedDocIsOK
<1>1. CASE Edit
  BY <1>1 DEF Edit, HonestInv
<1>2. CASE edited
  BY <1>1, <1>2
  DEF VerificationNext, AddSettlement, Mine, AddInclusion, Finalize, SignEnvelope, verificationVars, HonestInv
<1> SUFFICES ASSUME ~edited PROVE HonestInv'
  BY <1>2
<1>3. HonestDoc(doc, fresh)
  BY HonestParts
<1>4. ASSUME NEW t \in Txs, AddSettlement(t) PROVE HonestInv'
  <2> DEFINE settlement == doc.settlement \cup {SettlementReceipt(t)}
             d == [subject |-> doc.subject, signatures |-> doc.signatures, settlement |-> settlement,
                   inclusion |-> doc.inclusion, envelope |-> doc.envelope]
  <2>1. doc' = d /\ fresh' = FALSE
    BY <1>0, <1>4 DEF AddSettlement, Change, TypedDoc
  <2>2. \A r \in settlement \ doc.settlement :
          Confirms(r) /\ Anchors[r.tx].binds \cap SettlementBindingTargets(doc) # {}
    BY <1>4 DEF AddSettlement, SettlementReceipt, Confirms
  <2>3. HonestInclusion(d)
    BY <1>3 DEF HonestDoc, HonestInclusion
  <2> HIDE DEF settlement
  <2>4. HonestDoc(d, FALSE)
    BY <1>0, <1>3, <2>2, <2>3, ReceiptIsHonest
  <2> QED
    BY <2>1, <2>4, HonestPartsNext
<1>5. ASSUME NEW r \in Roots, AddInclusion(r) PROVE HonestInv'
  <2> DEFINE receipt == InclusionReceipt(r, doc.subject)
             inclusion == doc.inclusion \cup {receipt}
             d == [subject |-> doc.subject, signatures |-> doc.signatures, settlement |-> doc.settlement,
                   inclusion |-> inclusion, envelope |-> doc.envelope]
  <2>1. doc' = d /\ fresh' = FALSE
    BY <1>0, <1>5 DEF AddInclusion, Change, TypedDoc
  <2>2. HonestInclusion(d)
    BY <1>3, <1>5 DEF HonestDoc, HonestInclusion, AddInclusion, InclusionReceipt
  <2>3. doc.inclusion \subseteq inclusion
    OBVIOUS
  <2> HIDE DEF inclusion
  <2>4. HonestDoc(d, FALSE)
    BY <1>0, <1>3, <2>2, <2>3, ReceiptIsHonest
  <2> QED
    BY <2>1, <2>4, HonestPartsNext
<1>6. CASE Finalize
  <2>1. doc' = FinalizeEnvelope(doc) /\ fresh' = TRUE
    BY <1>6 DEF Finalize, Change
  <2> QED
    BY <1>0, <1>3, <2>1, FinalIsHonest, HonestPartsNext
<1>7. ASSUME NEW k \in SigningKeys, SignEnvelope(k) PROVE HonestInv'
  <2> DEFINE final == IF doc.envelope = Draft THEN FinalizeEnvelope(doc) ELSE doc
             digest == final.envelope.digest
             env == [digest |-> digest, signatures |-> final.envelope.signatures \cup {Sig(k, digest)}]
             stamped == fresh \/ doc.envelope = Draft
  <2>1. doc' = [final EXCEPT !.envelope.signatures = @ \cup {Sig(k, digest)}] /\ fresh' = stamped
    BY <1>7 DEF SignEnvelope, Change
  <2>2. final = [subject |-> doc.subject, signatures |-> doc.signatures, settlement |-> doc.settlement,
                 inclusion |-> doc.inclusion, envelope |-> final.envelope]
    BY <1>0, <1>3, FinalIsHonest DEF TypedDoc
  <2>3. final.envelope = [digest |-> digest, signatures |-> final.envelope.signatures]
    BY <1>0, FinalEnvelope
  <2>4. \A s \in final.envelope.signatures : s.over = digest /\ s.payloadDigest = digest
    <3>1. CASE doc.envelope = Draft
      BY <1>0, <3>1, FinalizeTyped DEF OldSignatures
    <3>2. CASE doc.envelope # Draft
      BY <1>3, <3>2 DEF HonestDoc, HonestEnvelope
    <3> QED
      BY <3>1, <3>2
  <2>5. stamped => digest = Content(doc)
    BY <1>0, <1>3, FinalIsHonest DEF HonestDoc
  <2> HIDE DEF final, digest, stamped
  <2>6. doc' = [subject |-> doc.subject, signatures |-> doc.signatures, settlement |-> doc.settlement,
                inclusion |-> doc.inclusion, envelope |-> env]
    <3>1. [final.envelope EXCEPT !.signatures = @ \cup {Sig(k, digest)}] = env
      BY <2>3
    <3> HIDE DEF env
    <3> QED
      BY <2>1, <2>2, <3>1
  <2>7. HonestEnvelope(env)
    BY <2>4 DEF HonestEnvelope, Sig
  <2>8. env.digest = digest
    OBVIOUS
  <2> HIDE DEF env
  <2>9. HonestDoc(doc', stamped)
    BY <1>3, <2>5, <2>6, <2>7, <2>8, EnvelopeIsHonest
  <2> QED
    BY <2>1, <2>9, HonestPartsNext
<1>8. CASE (\E t \in Txs : Mine(t)) \/ UNCHANGED verificationVars
  BY <1>3, <1>8, HonestPartsNext DEF Mine, verificationVars
<1> QED
  BY <1>1, <1>4, <1>5, <1>6, <1>7, <1>8 DEF VerificationNext

\* Nothing in an honest document fails.
LEMMA HonestHolds ==
  ASSUME VerificationTypeOK, HonestInv
  PROVE  HonestIsNeverInvalid
<1> SUFFICES ASSUME ~edited, doc.envelope = Draft \/ fresh,
                    NEW bytes \in {NoBytes, doc.subject}, NEW mode \in Modes
             PROVE  VerifyEnvelope(doc, bytes, mode).status # "invalid"
  BY DEF HonestIsNeverInvalid
<1>1. HonestDoc(doc, fresh)
  BY HonestParts
<1> USE DEF Check
<1>2. \A c \in SubjectChecks(doc, bytes) : c.status # "fail"
  BY VerificationAssumption DEF SubjectChecks
<1>3. \A c \in ArtifactChecks(doc) : c.status # "fail"
  BY <1>1 DEF ArtifactChecks, SignatureStatus, HonestDoc, HonestSignatures
<1>4. \A c \in EnvelopeChecks(doc) : c.status # "fail"
  <2>1. CASE doc.envelope = Draft
    BY <2>1 DEF EnvelopeChecks
  <2>2. CASE doc.envelope # Draft
    <3>1. /\ doc.envelope.digest = Content(doc)
          /\ \A s \in doc.envelope.signatures : SignatureStatus(s, doc.envelope.digest) = "pass"
      BY <1>1, <2>2 DEF HonestDoc, HonestEnvelope, SignatureStatus
    <3> QED
      BY <2>2, <3>1 DEF EnvelopeChecks
  <2> QED
    BY <2>1, <2>2
<1>5. \A c \in SettlementChecks(doc, mode) : c.status # "fail"
  <2>1. \A r \in doc.settlement : CheckOffline(r, doc) # "fail" /\ OnlineStatus(r, doc, mode) # "fail"
    BY <1>1 DEF CheckOffline, OfflineSettlementCheck, OnlineStatus, ConfirmEvmAnchorOnline, HonestDoc,
               HonestSettlement, Confirms
  <2> QED
    BY <2>1 DEF SettlementChecks, OnlineChecks
<1>6. \A c \in InclusionChecks(doc, mode) : c.status # "fail"
  <2>1. \A i \in doc.inclusion : CheckOffline(i, doc) = "pass" /\ OnlineStatus(i, doc, mode) = "unknown"
    BY <1>1, VerificationAssumption DEF CheckOffline, MerkleCheck, OnlineStatus, Leaf, HonestDoc, HonestInclusion
  <2>2. \A i \in doc.inclusion : InclusionStatus(i, doc, mode) # "fail"
    BY <2>1 DEF InclusionStatus
  <2> QED
    BY <2>1, <2>2 DEF InclusionChecks, OnlineChecks
<1>7. \A c \in Checks(doc, bytes, mode) : c.status # "fail"
  BY <1>2, <1>3, <1>4, <1>5, <1>6 DEF Checks
<1>8. Summarize(Checks(doc, bytes, mode), doc.envelope = Draft) # "invalid"
  BY <1>7, NothingFailed
<1> QED
  BY <1>8 DEF VerifyEnvelope

\* A document that only the functions of the packages have touched never
\* fails, in whatever order they were called and whatever was mined meanwhile.
THEOREM HonestDocumentsPass == VerificationSpec => []HonestIsNeverInvalid
<1>1. VerificationInit => VerificationTypeOK /\ HonestInv
  <2> SUFFICES ASSUME VerificationInit PROVE HonestInv
    BY VerificationStart
  <2>1. HonestDoc(doc, fresh)
    BY DEF VerificationInit, BuildEnvelope, HonestDoc, HonestSignatures, HonestSettlement, HonestInclusion,
           HonestEnvelope, Sig
  <2> QED
    BY <2>1, HonestParts
<1>2. VerificationTypeOK /\ HonestInv /\ [VerificationNext]_verificationVars => HonestInv'
  BY HonestKept
<1>3. VerificationTypeOK /\ HonestInv => HonestIsNeverInvalid
  BY HonestHolds
<1>4. VerificationTypeOK /\ [VerificationNext]_verificationVars => VerificationTypeOK'
  BY VerificationTypes
<1> QED
  BY <1>1, <1>2, <1>3, <1>4, PTL DEF VerificationSpec
=============================================================================
