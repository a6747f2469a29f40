--------------------------- MODULE PlatformProofs ---------------------------
(***************************************************************************)
(* Proofs about the remaining components of Platform, and about Platform    *)
(* itself, for any constants.                                               *)
(*                                                                          *)
(* Paid time is kept, the totals of the donations are what was forwarded at *)
(* any depth of calls, and an upload resumes from what was sent and paid.   *)
(***************************************************************************)
EXTENDS Platform, ServiceProofs, VerifierProofs, SequenceTheorems, FiniteSetTheorems, TLAPS

-----------------------------------------------------------------------------
(* Payments for a cache. *)

\* What a payment does: it takes no time from an entry.
TimeKept ==
  \A e \in Entries : entryOwner[e] # NoAddress =>
    /\ entryOwner'[e] = entryOwner[e]
    /\ paidUntil'[e] = 0 \/ (paidUntil[e] # 0 /\ paidUntil'[e] >= paidUntil[e])

LEMMA ExpiryValue ==
  ASSUME ExpiryInv, NEW e \in Entries, NEW s \in Payers, NEW tier \in Tiers,
         NEW d \in Durations, PaysForEntry(e, s), Expiry(e, s, tier, d) <= MaxUint64
  PROVE  /\ Expiry(e, s, tier, d) \in 0 .. MaxUint64
         /\ Expiry(e, s, tier, d) = 0 <=> tier = "permanent" \/ e \in boughtPermanent
         /\ entryOwner[e] # NoAddress =>
              /\ entryOwner[e] = s
              /\ \/ Expiry(e, s, tier, d) = 0
                 \/ paidUntil[e] # 0 /\ Expiry(e, s, tier, d) >= paidUntil[e]
<1>1. /\ d \in Nat /\ timestamp \in Nat \ {0} /\ paidUntil[e] \in Nat /\ MaxUint64 \in Nat
      /\ s # NoAddress
  BY CacheAssumption DEF ExpiryInv
<1>2. /\ Later(timestamp, paidUntil[e]) \in Nat \ {0}
      /\ Later(timestamp, paidUntil[e]) >= paidUntil[e]
  BY <1>1 DEF Later
<1>3. entryOwner[e] \in {NoAddress, s}
  BY DEF PaysForEntry
<1>4. e \in boughtPermanent <=> entryOwner[e] = s /\ paidUntil[e] = 0
  BY <1>1, <1>3 DEF ExpiryInv, PermanentIsPaid
<1> QED
  BY <1>1, <1>2, <1>3, <1>4 DEF Expiry

LEMMA PaymentKeeps ==
  ASSUME ExpiryInv, NEW e \in Entries, NEW s \in Payers, NEW tier \in Tiers,
         NEW d \in Durations, PayForCache(e, s, tier, d)
  PROVE  ExpiryInv' /\ TimeKept
<1> DEFINE expiry == Expiry(e, s, tier, d)
<1>1. /\ PaysForEntry(e, s) /\ expiry <= MaxUint64
      /\ entryOwner' = [entryOwner EXCEPT ![e] = s]
      /\ paidUntil' = [paidUntil EXCEPT ![e] = expiry]
      /\ boughtPermanent' = IF tier = "permanent" THEN boughtPermanent \cup {e} ELSE boughtPermanent
      /\ timestamp' = timestamp
  BY DEF PayForCache, PaidFor
<1>2. /\ expiry \in 0 .. MaxUint64
      /\ expiry = 0 <=> tier = "permanent" \/ e \in boughtPermanent
      /\ entryOwner[e] # NoAddress =>
           entryOwner[e] = s /\ (expiry = 0 \/ (paidUntil[e] # 0 /\ expiry >= paidUntil[e]))
  BY <1>1, ExpiryValue
<1>3. s # NoAddress
  BY CacheAssumption
<1> HIDE DEF expiry
<1>4. e \in boughtPermanent' <=> expiry = 0
  BY <1>1, <1>2
<1>5. PermanentIsPaid'
  BY <1>1, <1>2, <1>4 DEF ExpiryInv, PermanentIsPaid
<1>6. ExpiryInv'
  BY <1>1, <1>2, <1>3, <1>5 DEF ExpiryInv
<1>7. TimeKept
  BY <1>1, <1>2 DEF ExpiryInv, TimeKept
<1> QED
  BY <1>6, <1>7

LEMMA OtherCacheSteps ==
  ASSUME ExpiryInv, UNCHANGED <<entryOwner, paidUntil, boughtPermanent>>,
         timestamp' \in 1 .. MaxUint64
  PROVE  ExpiryInv' /\ TimeKept
<1>1. \A e \in Entries : paidUntil[e] \in Int
  BY DEF ExpiryInv
<1> QED
  BY <1>1 DEF ExpiryInv, PermanentIsPaid, TimeKept

LEMMA CacheKept ==
  ASSUME ExpiryInv, [CacheNext]_cacheVars
  PROVE  ExpiryInv' /\ TimeKept
<1>1. CASE NextBlock
  <2>1. timestamp' \in 1 .. MaxUint64
    BY <1>1, CacheAssumption DEF NextBlock, ExpiryInv
  <2>2. UNCHANGED <<entryOwner, paidUntil, boughtPermanent>>
    BY <1>1 DEF NextBlock, entryVars
  <2> QED
    BY <2>1, <2>2, OtherCacheSteps
<1>2. ASSUME NEW s \in Treasuries,
             \/ \E t \in Treasuries : SetTreasury(s, t)
             \/ AcceptTreasury(s)
             \/ \E on \in BOOLEAN : SetPaused(s, on)
             \/ \E list \in PriceLists : SetPrices(s, list)
      PROVE  ExpiryInv' /\ TimeKept
  <2>1. UNCHANGED <<timestamp, entryOwner, paidUntil, boughtPermanent>>
    BY <1>2 DEF SetTreasury, AcceptTreasury, SetPaused, SetPrices, entryVars
  <2> QED
    BY <2>1, OtherCacheSteps DEF ExpiryInv
<1>3. ASSUME NEW e \in Entries, NEW s \in Payers, NEW g \in Payers,
             GrantAccess(e, s, g) \/ RevokeAccess(e, s, g)
      PROVE  ExpiryInv' /\ TimeKept
  <2>1. UNCHANGED <<timestamp, entryOwner, paidUntil, boughtPermanent>>
    BY <1>3 DEF GrantAccess, RevokeAccess
  <2> QED
    BY <2>1, OtherCacheSteps DEF ExpiryInv
<1>4. CASE UNCHANGED cacheVars
  <2>1. UNCHANGED <<timestamp, entryOwner, paidUntil, boughtPermanent>>
    BY <1>4 DEF cacheVars, entryVars
  <2> QED
    BY <2>1, OtherCacheSteps DEF ExpiryInv
<1> QED
  BY <1>1, <1>2, <1>3, <1>4, PaymentKeeps DEF CacheNext

LEMMA CacheStart ==
  ASSUME CacheInit
  PROVE  ExpiryInv
BY CacheAssumption DEF CacheInit, ExpiryInv, PermanentIsPaid

\* No renewal and no overflow turns a timed entry into a permanent one.
THEOREM PermanentOnlyIfPaid == CacheSpec => []PermanentIsPaid
<1>1. ExpiryInv => PermanentIsPaid
  BY DEF ExpiryInv
<1> QED
  BY <1>1, CacheStart, CacheKept, PTL DEF CacheSpec

\* Whatever is paid later, an entry keeps its owner and the time it was paid for.
THEOREM TimeIsKept == CacheSpec => PaidTimeIsKept
<1>1. ExpiryInv /\ [CacheNext]_cacheVars =>
        [\A e \in Entries : entryOwner[e] # NoAddress =>
           /\ entryOwner'[e] = entryOwner[e]
           /\ paidUntil'[e] = 0 \/ (paidUntil[e] # 0 /\ paidUntil'[e] >= paidUntil[e])]_cacheVars
  BY CacheKept DEF TimeKept
<1> QED
  BY <1>1, CacheStart, CacheKept, PTL DEF CacheSpec, PaidTimeIsKept

-----------------------------------------------------------------------------
(* Allow lists of a cache. *)

Loops == [at : Nat \ {0}, list : Seq(Payers)]

LEMMA LoopFields ==
  ASSUME NEW i \in Nat \ {0}, NEW list \in Seq(Payers)
  PROVE  Loop(i, list) \in Loops /\ Loop(i, list).at = i /\ Loop(i, list).list = list
BY DEF Loop, Loops

LEMMA SwapFacts ==
  ASSUME NEW list \in Seq(Payers), NEW i \in 1 .. Len(list)
  PROVE  /\ SwapAndPop(list, i) \in Seq(Payers)
         /\ Len(SwapAndPop(list, i)) = Len(list) - 1
         /\ \A j \in 1 .. Len(list) - 1 :
              SwapAndPop(list, i)[j] = IF j = i THEN list[Len(list)] ELSE list[j]
<1> DEFINE swapped == [list EXCEPT ![i] = list[Len(list)]]
<1>1. /\ Len(list) \in Nat /\ list \in [1 .. Len(list) -> Payers]
      /\ Len(list) \in 1 .. Len(list)
  BY LenProperties
<1>2. /\ swapped \in Seq(Payers) /\ Len(swapped) = Len(list)
      /\ \A j \in 1 .. Len(list) : swapped[j] = IF j = i THEN list[Len(list)] ELSE list[j]
  <2>1. swapped \in [1 .. Len(list) -> Payers]
    BY <1>1
  <2>2. swapped \in Seq(Payers) /\ Len(swapped) = Len(list)
    BY <1>1, <2>1, ExceptSeq
  <2> QED
    BY <1>1, <2>2
<1> HIDE DEF swapped
<1>3. SwapAndPop(list, i) = SubSeq(swapped, 1, Len(list) - 1)
  BY <1>2 DEF SwapAndPop, Popped, swapped
<1> QED
  BY <1>1, <1>2, <1>3, SubSeqProperties

\* One round keeps the list and its addresses in their types.
LEMMA RoundTypes ==
  ASSUME NEW g \in Payers, NEW l \in Loops
  PROVE  Round(g, l) \in Loops
<1>1. l.at \in Nat \ {0} /\ l.list \in Seq(Payers) /\ Len(l.list) \in Nat
  BY LenProperties DEF Loops
<1>2. CASE l.at > Len(l.list)
  BY <1>2 DEF Round
<1>3. CASE l.at \in 1 .. Len(l.list)
  BY <1>1, <1>3, SwapFacts, LoopFields DEF Round
<1> QED
  BY <1>1, <1>2, <1>3

\* What the loop keeps: it has lost only the address it looks for, which it
\* has not left behind.
Cleared(g, list, l) ==
  /\ l \in Loops
  /\ l.at <= Len(l.list) + 1
  /\ \A i \in 1 .. l.at - 1 : l.list[i] # g
  /\ ListedIn(l.list) \ {g} = ListedIn(list) \ {g}

\* How many rounds are left.
Unread(l) == Len(l.list) + 1 - l.at

LEMMA UnreadType ==
  ASSUME NEW l \in Loops
  PROVE  Unread(l) \in Int
BY LenProperties DEF Loops, Unread

LEMMA RoundClears ==
  ASSUME NEW g \in Payers, NEW list \in Seq(Payers), NEW l, Cleared(g, list, l),
         Unread(l) # 0
  PROVE  Cleared(g, list, Round(g, l)) /\ Unread(Round(g, l)) = Unread(l) - 1
<1>1. l.at \in Nat \ {0} /\ l.list \in Seq(Payers) /\ Len(l.list) \in Nat /\ l.at \in 1 .. Len(l.list)
  BY LenProperties DEF Cleared, Loops, Unread
<1>2. CASE l.list[l.at] = g
  <2> DEFINE s == SwapAndPop(l.list, l.at)
  <2>1. /\ s \in Seq(Payers) /\ Len(s) = Len(l.list) - 1
        /\ \A j \in 1 .. Len(l.list) - 1 : s[j] = IF j = l.at THEN l.list[Len(l.list)] ELSE l.list[j]
    BY <1>1, SwapFacts
  <2>2. Round(g, l) = Loop(l.at, s)
    BY <1>1, <1>2 DEF Round
  <2> HIDE DEF s
  <2>3. Round(g, l) \in Loops /\ Round(g, l).at = l.at /\ Round(g, l).list = s
    BY <1>1, <2>1, <2>2, LoopFields
  <2>4. \A i \in 1 .. l.at - 1 : s[i] # g
    BY <1>1, <2>1 DEF Cleared
  <2>5. ListedIn(s) \ {g} = ListedIn(l.list) \ {g}
    <3>1. ASSUME NEW x \in ListedIn(s) PROVE x \in ListedIn(l.list)
      <4>1. PICK j \in 1 .. Len(s) : x = s[j]
        BY DEF ListedIn
      <4>2. \E i \in 1 .. Len(l.list) : x = l.list[i]
        BY <1>1, <2>1, <4>1
      <4> QED
        BY <4>2 DEF ListedIn
    <3>2. ASSUME NEW x \in ListedIn(l.list), x # g PROVE x \in ListedIn(s)
      <4>1. PICK i \in 1 .. Len(l.list) : x = l.list[i]
        BY DEF ListedIn
      <4>2. CASE i = Len(l.list)
        <5>1. l.at # Len(l.list)
          BY <1>2, <3>2, <4>1, <4>2
        <5>2. l.at \in 1 .. Len(s) /\ s[l.at] = x
          BY <1>1, <2>1, <4>1, <4>2, <5>1
        <5> QED
          BY <5>2 DEF ListedIn
      <4>3. CASE i # Len(l.list)
        <5>1. i \in 1 .. Len(s) /\ s[i] = x
          BY <1>1, <1>2, <2>1, <3>2, <4>1, <4>3
        <5> QED
          BY <5>1 DEF ListedIn
      <4> QED
        BY <4>2, <4>3
    <3> QED
      BY <3>1, <3>2
  <2> QED
    BY <1>1, <2>1, <2>3, <2>4, <2>5 DEF Cleared, Unread
<1>3. CASE l.list[l.at] # g
  <2>1. Round(g, l) = Loop(l.at + 1, l.list)
    BY <1>1, <1>3 DEF Round
  <2>2. Round(g, l) \in Loops /\ Round(g, l).at = l.at + 1 /\ Round(g, l).list = l.list
    BY <1>1, <2>1, LoopFields
  <2>3. \A i \in 1 .. l.at : l.list[i] # g
    BY <1>1, <1>3 DEF Cleared
  <2> QED
    BY <1>1, <2>2, <2>3 DEF Cleared, Unread
<1> QED
  BY <1>2, <1>3

\* The loop runs: what after of Without is defined by has a solution.
LEMMA LoopRuns ==
  ASSUME NEW g \in Payers, NEW base \in Loops
  PROVE  \E f : f = [k \in Nat |-> IF k = 0 THEN base ELSE Round(g, f[k - 1])]
<1>1. PICK f \in [Nat -> Loops] : f[0] = base /\ \A n \in Nat : f[n + 1] = Round(g, f[n])
  <2> DEFINE step == [n \in Nat |-> [l \in Loops |-> Round(g, l)]]
  <2>1. step \in [Nat -> [Loops -> Loops]]
    BY RoundTypes
  <2>2. \A n \in Nat : \A l \in Loops : step[n][l] = Round(g, l)
    OBVIOUS
  <2> HIDE DEF step
  <2>3. Iterable(Loops)
    BY Iteration, Zenon
  <2>4. PICK f \in [Nat -> Loops] : f[0] = base /\ \A n \in Nat : f[n + 1] = step[n][f[n]]
    BY <2>1, <2>3 DEF Iterable
  <2> QED
    BY <2>2, <2>4
<1>2. \A k \in Nat : f[k] = IF k = 0 THEN base ELSE Round(g, f[k - 1])
  <2> SUFFICES ASSUME NEW k \in Nat, k # 0 PROVE f[k] = Round(g, f[k - 1])
    BY <1>1
  <2>1. k - 1 \in Nat /\ (k - 1) + 1 = k
    OBVIOUS
  <2> QED
    BY <1>1, <2>1
<1> QED
  BY <1>2

\* Revoking removes every occurrence of the address, and nothing else.
LEMMA WithoutExactly ==
  ASSUME NEW g \in Payers, NEW list \in Seq(Payers)
  PROVE  /\ Without(g, list) \in Seq(Payers)
         /\ ListedIn(Without(g, list)) = ListedIn(list) \ {g}
<1> DEFINE after[k \in Nat] == IF k = 0 THEN Loop(1, list) ELSE Round(g, after[k - 1])
           left == Len(list)
<1>1. after = [k \in Nat |-> IF k = 0 THEN Loop(1, list) ELSE Round(g, after[k - 1])]
  <2> SUFFICES \E f : f = [k \in Nat |-> IF k = 0 THEN Loop(1, list) ELSE Round(g, f[k - 1])]
    BY Zenon
  <2>1. Loop(1, list) \in Loops
    BY LoopFields
  <2> QED
    BY <2>1, LoopRuns
<1>2. Without(g, list) = after[left].list
  BY DEF Without
<1> HIDE DEF after
<1>3. after[0] = Loop(1, list) /\ \A k \in Nat : after[k + 1] = Round(g, after[k])
  BY <1>1
<1> DEFINE Done(k) == Cleared(g, list, after[k]) /\ Unread(after[k]) = left - k
           T == {k \in Nat : k <= left => Done(k)}
<1>4. left \in Nat
  BY LenProperties
<1>5. Done(0)
  <2>1. after[0] \in Loops /\ after[0].at = 1 /\ after[0].list = list
    BY <1>3, LoopFields
  <2> QED
    BY <1>4, <2>1 DEF Cleared, Unread
<1>6. ASSUME NEW k \in Nat, k + 1 <= left, Done(k) PROVE Done(k + 1)
  <2> DEFINE l == after[k]
  <2>1. Cleared(g, list, l) /\ Unread(l) = left - k
    BY <1>6
  <2> HIDE DEF l, left
  <2>2. Unread(l) # 0
    BY <1>4, <1>6, <2>1
  <2>3. Cleared(g, list, Round(g, l)) /\ Unread(Round(g, l)) = Unread(l) - 1
    BY <2>1, <2>2, RoundClears
  <2>4. Unread(Round(g, l)) = left - (k + 1)
    BY <1>4, <2>1, <2>3
  <2>5. Round(g, l) = after[k + 1]
    BY <1>3 DEF l
  <2> QED
    BY <2>3, <2>4, <2>5
<1> HIDE DEF Done
<1>7. T = Nat
  <2>1. \A k \in T : k + 1 \in T
    BY <1>4, <1>6
  <2>2. 0 \in T /\ T \in SUBSET Nat
    BY <1>5
  <2> HIDE DEF T
  <2> QED
    BY <2>1, <2>2, NatSets
<1>8. Done(left)
  BY <1>4, <1>7
<1> DEFINE l == after[left]
<1>9. /\ l \in Loops /\ l.at = Len(l.list) + 1 /\ Len(l.list) \in Nat
      /\ \A i \in 1 .. l.at - 1 : l.list[i] # g
      /\ ListedIn(l.list) \ {g} = ListedIn(list) \ {g}
  <2>1. Cleared(g, list, l) /\ Unread(l) = left - left
    BY <1>8 DEF Done
  <2>2. l.at \in Nat /\ Len(l.list) \in Nat
    BY <2>1, LenProperties DEF Cleared, Loops
  <2> QED
    BY <1>4, <2>1, <2>2 DEF Cleared, Unread
<1>10. g \notin ListedIn(l.list)
  BY <1>9 DEF ListedIn
<1> HIDE DEF l
<1> QED
  BY <1>2, <1>9, <1>10 DEF Loops, l

\* The account of the treasury keeps its types.
LEMMA AdminTypes ==
  ASSUME CacheTypeOK, [CacheNext]_cacheVars
  PROVE  /\ prices' \in [Tiers -> Nat] /\ cacheTreasury' \in Treasuries
         /\ cachePending' \in Treasuries \cup {NoAddress} /\ cachePaused' \in BOOLEAN
<1> USE DEF CacheTypeOK
<1>1. CASE UNCHANGED adminVars
  BY <1>1 DEF adminVars
<1>2. ASSUME NEW s \in Treasuries, NEW t \in Treasuries, SetTreasury(s, t)
      PROVE  /\ UNCHANGED <<prices, cacheTreasury, cachePaused>> /\ cachePending' \in Treasuries
  BY <1>2 DEF SetTreasury
<1>3. ASSUME NEW s \in Treasuries, AcceptTreasury(s)
      PROVE  UNCHANGED <<prices, cachePaused>> /\ cacheTreasury' = s /\ cachePending' = NoAddress
  BY <1>3 DEF AcceptTreasury
<1>4. ASSUME NEW s \in Treasuries, NEW on \in BOOLEAN, SetPaused(s, on)
      PROVE  UNCHANGED <<prices, cacheTreasury, cachePending>> /\ cachePaused' = on
  BY <1>4 DEF SetPaused
<1>5. ASSUME NEW s \in Treasuries, NEW list \in PriceLists, SetPrices(s, list)
      PROVE  UNCHANGED <<cacheTreasury, cachePending, cachePaused>> /\ prices' \in [Tiers -> Nat]
  BY <1>5, CacheAssumption DEF SetPrices, Tiers
<1>6. CASE NextBlock
  BY <1>1, <1>6 DEF NextBlock
<1>7. ASSUME NEW e \in Entries, NEW s \in Payers, NEW g \in Payers,
             GrantAccess(e, s, g) \/ RevokeAccess(e, s, g)
      PROVE  UNCHANGED adminVars
  BY <1>7 DEF GrantAccess, RevokeAccess
<1>8. ASSUME NEW e \in Entries, NEW s \in Payers, NEW tier \in Tiers, NEW d \in Durations,
             PayForCache(e, s, tier, d)
      PROVE  UNCHANGED adminVars
  BY <1>8 DEF PayForCache, PaidFor
<1>9. CASE UNCHANGED cacheVars
  BY <1>1, <1>9 DEF cacheVars
<1> QED
  BY <1>1, <1>2, <1>3, <1>4, <1>5, <1>6, <1>7, <1>8, <1>9 DEF CacheNext

\* The lists and the history of the grants change together.
ListsInv ==
  /\ allowList \in [Entries -> Seq(Payers)]
  /\ granted \in [Entries -> SUBSET Payers]
  /\ AllowListIsExact

LEMMA GrantKeeps ==
  ASSUME ListsInv, NEW e \in Entries, NEW s \in Payers, NEW g \in Payers, GrantAccess(e, s, g)
  PROVE  ListsInv'
<1>1. /\ allowList' = IF g \in ListedIn(allowList[e]) THEN allowList
                      ELSE [allowList EXCEPT ![e] = Append(allowList[e], g)]
      /\ granted' = [granted EXCEPT ![e] = granted[e] \cup {g}]
      /\ allowList[e] \in Seq(Payers)
  BY DEF GrantAccess, ListsInv
<1>2. ListedIn(Append(allowList[e], g)) = ListedIn(allowList[e]) \cup {g}
  <2> DEFINE list == allowList[e]
             longer == Append(list, g)
  <2>1. /\ Len(list) \in Nat /\ Len(longer) = Len(list) + 1
        /\ \A i \in 1 .. Len(list) : longer[i] = list[i]
        /\ longer[Len(list) + 1] = g
    BY <1>1, AppendProperties
  <2> HIDE DEF list, longer
  <2>2. ASSUME NEW i \in 1 .. Len(longer)
        PROVE  longer[i] = g \/ \E j \in 1 .. Len(list) : longer[i] = list[j]
    BY <2>1
  <2>3. Len(list) + 1 \in 1 .. Len(longer) /\ \A i \in 1 .. Len(list) : i \in 1 .. Len(longer)
    BY <2>1
  <2>4. ListedIn(longer) = ListedIn(list) \cup {g}
    <3>1. ASSUME NEW x \in ListedIn(longer) PROVE x \in ListedIn(list) \cup {g}
      BY <2>2 DEF ListedIn
    <3>2. ASSUME NEW i \in 1 .. Len(list) PROVE list[i] \in ListedIn(longer)
      BY <2>1, <2>3 DEF ListedIn
    <3>3. g \in ListedIn(longer)
      BY <2>1, <2>3 DEF ListedIn
    <3>4. ListedIn(list) \subseteq ListedIn(longer)
      BY <3>2 DEF ListedIn
    <3> QED
      BY <3>1, <3>3, <3>4
  <2> QED
    BY <2>4 DEF list, longer
<1>3. Append(allowList[e], g) \in Seq(Payers)
  BY <1>1, AppendProperties
<1>4. allowList' \in [Entries -> Seq(Payers)] /\ granted' \in [Entries -> SUBSET Payers]
  BY <1>1, <1>3 DEF ListsInv
<1>5. ASSUME NEW f \in Entries PROVE ListedIn(allowList'[f]) = granted'[f]
  BY <1>1, <1>2 DEF ListsInv, AllowListIsExact
<1> QED
  BY <1>4, <1>5 DEF ListsInv, AllowListIsExact

LEMMA RevokeKeeps ==
  ASSUME ListsInv, NEW e \in Entries, NEW s \in Payers, NEW g \in Payers, RevokeAccess(e, s, g)
  PROVE  ListsInv'
<1>1. /\ allowList' = [allowList EXCEPT ![e] = Without(g, allowList[e])]
      /\ granted' = [granted EXCEPT ![e] = granted[e] \ {g}]
      /\ allowList[e] \in Seq(Payers)
  BY DEF RevokeAccess, ListsInv
<1>2. /\ Without(g, allowList[e]) \in Seq(Payers)
      /\ ListedIn(Without(g, allowList[e])) = ListedIn(allowList[e]) \ {g}
  BY <1>1, WithoutExactly
<1>3. allowList' \in [Entries -> Seq(Payers)] /\ granted' \in [Entries -> SUBSET Payers]
  BY <1>1, <1>2 DEF ListsInv
<1>4. ASSUME NEW f \in Entries PROVE ListedIn(allowList'[f]) = granted'[f]
  BY <1>1, <1>2 DEF ListsInv, AllowListIsExact
<1> QED
  BY <1>3, <1>4 DEF ListsInv, AllowListIsExact

LEMMA ListsKept ==
  ASSUME ListsInv, [CacheNext]_cacheVars
  PROVE  ListsInv'
<1>1. CASE UNCHANGED <<allowList, granted>>
  BY <1>1 DEF ListsInv, AllowListIsExact
<1>2. ASSUME NEW s \in Treasuries,
             \/ \E t \in Treasuries : SetTreasury(s, t)
             \/ AcceptTreasury(s)
             \/ \E on \in BOOLEAN : SetPaused(s, on)
             \/ \E list \in PriceLists : SetPrices(s, list)
      PROVE  UNCHANGED <<allowList, granted>>
  BY <1>2 DEF SetTreasury, AcceptTreasury, SetPaused, SetPrices, entryVars
<1>3. ASSUME NEW e \in Entries, NEW s \in Payers, NEW tier \in Tiers, NEW d \in Durations,
             PayForCache(e, s, tier, d)
      PROVE  UNCHANGED <<allowList, granted>>
  BY <1>3 DEF PayForCache, PaidFor
<1>4. CASE NextBlock
  BY <1>1, <1>4 DEF NextBlock, entryVars
<1>5. CASE UNCHANGED cacheVars
  BY <1>1, <1>5 DEF cacheVars, entryVars
<1> QED
  BY <1>1, <1>2, <1>3, <1>4, <1>5, GrantKeeps, RevokeKeeps DEF CacheNext

\* The inductive invariant of the contract.
CacheParts == CacheTypeOK /\ ExpiryInv /\ ListsInv

LEMMA EntriesStart ==
  ASSUME CacheInit
  PROVE  CacheParts
<1>1. ExpiryInv
  BY CacheStart
<1>2. ListsInv
  <2>1. allowList \in [Entries -> Seq(Payers)] /\ granted = [e \in Entries |-> ListedIn(allowList[e])]
    BY CacheAssumption DEF CacheInit
  <2>2. \A list \in Seq(Payers) : ListedIn(list) \in SUBSET Payers
    BY LenProperties DEF ListedIn
  <2> QED
    BY <2>1, <2>2 DEF ListsInv, AllowListIsExact
<1>3. /\ prices \in [Tiers -> Nat] /\ cacheTreasury \in Treasuries
      /\ cachePending \in Treasuries \cup {NoAddress} /\ cachePaused \in BOOLEAN
  BY CacheAssumption DEF CacheInit, Tiers
<1> QED
  BY <1>1, <1>2, <1>3 DEF CacheTypeOK, ExpiryInv, ListsInv, CacheParts

LEMMA EntriesKept ==
  ASSUME CacheParts, [CacheNext]_cacheVars
  PROVE  CacheParts'
<1>1. ExpiryInv'
  BY CacheKept DEF CacheParts
<1>2. ListsInv'
  BY ListsKept DEF CacheParts
<1>3. /\ prices' \in [Tiers -> Nat] /\ cacheTreasury' \in Treasuries
      /\ cachePending' \in Treasuries \cup {NoAddress} /\ cachePaused' \in BOOLEAN
  BY AdminTypes DEF CacheParts
<1> QED
  BY <1>1, <1>2, <1>3 DEF CacheTypeOK, ExpiryInv, ListsInv, CacheParts

\* An entry is permanent exactly when it was paid for as such, and its allow
\* list holds exactly the addresses granted and not revoked since, through any
\* sequence of calls and from lists with doubles.
THEOREM EntriesSafety == CacheSpec => []EntriesInv
<1>1. CacheParts => EntriesInv
  BY DEF CacheParts, EntriesInv, ExpiryInv, ListsInv
<1> QED
  BY <1>1, EntriesStart, EntriesKept, PTL DEF CacheSpec

-----------------------------------------------------------------------------
(* Donations. *)

Frame == [to : Recipients, value : Gifts, before : StorageStates]

Balanced(frame) == \A t \in Targets : frame.before.totals[t] = frame.before.forwarded[t]

LEMMA DonateKeeps ==
  ASSUME DonationInv, NEW to \in Recipients, NEW value \in Gifts, Donate(to, value)
  PROVE  DonationInv'
<1> DEFINE frame == [to |-> to, value |-> value, before |-> Snapshot]
<1>1. value \in Nat
  BY DonationAssumption
<1>2. Snapshot \in StorageStates /\ Snapshot.totals = totals /\ Snapshot.forwarded = forwarded
  BY DEF Snapshot, StorageStates, DonationInv, DonationTypeOK
<1>3. frame \in Frame /\ frame.before = Snapshot
  BY <1>2 DEF Frame
<1>4. Balanced(frame)
  BY <1>2, <1>3 DEF Balanced, DonationInv, TotalsAreForwarded
<1>5. /\ totals' = IF to \in Targets THEN [totals EXCEPT ![to] = @ + value] ELSE totals
      /\ forwarded' = [forwarded EXCEPT ![to] = @ + value]
      /\ calls' = Append(calls, frame)
      /\ UNCHANGED <<treasury, pendingTreasury, paused>>
  BY DEF Donate, Credit
<1> HIDE DEF frame
<1>6. totals' \in [Targets -> Nat] /\ forwarded' \in [Recipients -> Nat]
  BY <1>1, <1>5 DEF DonationInv, DonationTypeOK
<1>7. calls' \in Seq(Frame)
  BY <1>3, <1>5 DEF DonationInv, DonationTypeOK, Frame
<1>8. DonationTypeOK'
  BY <1>5, <1>6, <1>7 DEF DonationInv, DonationTypeOK, Frame
<1>9. TotalsAreForwarded'
  BY <1>1, <1>5 DEF DonationInv, DonationTypeOK, TotalsAreForwarded, Recipients
<1>10. ASSUME NEW i \in 1 .. Len(calls') PROVE Balanced(calls'[i])
  <2>1. calls \in Seq(Frame)
    BY DEF DonationInv, DonationTypeOK, Frame
  <2>2. Len(calls') = Len(calls) + 1
        /\ calls'[i] = IF i <= Len(calls) THEN calls[i] ELSE frame
    BY <1>5, <2>1
  <2>3. i <= Len(calls) => Balanced(calls[i])
    BY <2>1 DEF Balanced, DonationInv
  <2> QED
    BY <1>4, <2>2, <2>3
<1> QED
  BY <1>8, <1>9, <1>10 DEF DonationInv, Balanced

LEMMA CallEndKeeps ==
  ASSUME DonationInv, TreasuryReturns \/ TreasuryFails
  PROVE  DonationInv'
<1> DEFINE last == calls[Len(calls)]
<1>1. calls \in Seq(Frame) /\ calls # <<>> /\ calls' = SubSeq(calls, 1, Len(calls) - 1)
  BY DEF TreasuryReturns, TreasuryFails, DonationInv, DonationTypeOK, Frame
<1>2. /\ Len(calls) \in Nat \ {0} /\ calls' \in Seq(Frame) /\ Len(calls') = Len(calls) - 1
      /\ \A i \in 1 .. Len(calls') : calls'[i] = calls[i]
  <2>1. Len(calls) \in Nat \ {0}
    BY <1>1, EmptySeq
  <2>2. \A i \in 1 .. Len(calls) - 1 : calls[i] \in Frame
    BY <1>1, <2>1, ElementOfSeq
  <2>3. /\ SubSeq(calls, 1, Len(calls) - 1) \in Seq(Frame)
        /\ Len(SubSeq(calls, 1, Len(calls) - 1)) =
             IF 1 <= Len(calls) - 1 THEN Len(calls) - 1 - 1 + 1 ELSE 0
        /\ \A i \in 1 .. Len(calls) - 1 - 1 + 1 :
             SubSeq(calls, 1, Len(calls) - 1)[i] = calls[1 + i - 1]
    <3>1. 1 \in Int /\ Len(calls) - 1 \in Int
      BY <2>1
    <3> QED
      BY <2>2, <3>1, SubSeqProperties
  <2>4. /\ calls' \in Seq(Frame) /\ Len(calls') = Len(calls) - 1
    <3>1. /\ calls' \in Seq(Frame)
          /\ Len(calls') = IF 1 <= Len(calls) - 1 THEN Len(calls) - 1 - 1 + 1 ELSE 0
      BY <1>1, <2>3, Zenon
    <3>2. \A n \in Nat \ {0} : (IF 1 <= n - 1 THEN n - 1 - 1 + 1 ELSE 0) = n - 1
      OBVIOUS
    <3> QED
      BY <2>1, <3>1, <3>2, Zenon
  <2>5. ASSUME NEW i \in 1 .. Len(calls') PROVE calls'[i] = calls[i]
    <3>1. i \in 1 .. Len(calls) - 1 - 1 + 1 /\ 1 + i - 1 = i
      BY <2>1, <2>4
    <3>2. calls'[i] = calls[1 + i - 1]
      BY <1>1, <2>3, <3>1
    <3> QED
      BY <3>1, <3>2
  <2> QED
    BY <2>1, <2>4, <2>5
<1>3. last \in Frame /\ last.before \in StorageStates
  <2>1. last \in Frame
    <3>1. Len(calls) \in 1 .. Len(calls)
      BY <1>2
    <3> QED
      BY <1>1, <3>1, ElementOfSeq
  <2> QED
    BY <2>1 DEF Frame
<1>4. Balanced(last)
  BY <1>2 DEF Balanced, DonationInv
<1>5. \A i \in 1 .. Len(calls') : Balanced(calls'[i])
  BY <1>2 DEF Balanced, DonationInv
<1>6. CASE TreasuryReturns
  <2>1. UNCHANGED <<totals, treasury, pendingTreasury, paused, forwarded>>
    BY <1>6 DEF TreasuryReturns, storage
  <2> QED
    BY <1>2, <1>5, <2>1 DEF DonationInv, DonationTypeOK, TotalsAreForwarded, Balanced, Frame
<1>7. CASE TreasuryFails
  <2>1. /\ totals' = last.before.totals /\ treasury' = last.before.treasury
        /\ pendingTreasury' = last.before.pending /\ paused' = last.before.paused
        /\ forwarded' = last.before.forwarded
    BY <1>7 DEF TreasuryFails
  <2> HIDE DEF last
  <2>2. DonationTypeOK'
    BY <1>2, <1>3, <2>1 DEF DonationTypeOK, StorageStates, Frame
  <2>3. TotalsAreForwarded'
    BY <1>4, <2>1 DEF Balanced, TotalsAreForwarded
  <2> QED
    BY <1>5, <2>2, <2>3 DEF DonationInv, Balanced
<1> QED
  BY <1>6, <1>7

LEMMA DonationKept ==
  ASSUME DonationInv, [DonationNext]_donationVars
  PROVE  DonationInv'
<1>1. ASSUME NEW h \in Holders,
             \/ \E next \in Holders : SetDonationTreasury(h, next)
             \/ AcceptDonationTreasury(h)
             \/ \E on \in BOOLEAN : SetDonationsPaused(h, on)
      PROVE  DonationInv'
  <2>1. /\ UNCHANGED <<totals, forwarded, calls>>
        /\ treasury' \in Holders /\ pendingTreasury' \in Holders \cup {NoHolder}
        /\ paused' \in BOOLEAN
    BY <1>1 DEF SetDonationTreasury, AcceptDonationTreasury, SetDonationsPaused, DonationInv,
                DonationTypeOK
  <2> QED
    BY <2>1 DEF DonationInv, DonationTypeOK, TotalsAreForwarded
<1>2. CASE UNCHANGED donationVars
  BY <1>2 DEF donationVars, storage, DonationInv, DonationTypeOK, TotalsAreForwarded
<1> QED
  BY <1>1, <1>2, DonateKeeps, CallEndKeeps DEF DonationNext

LEMMA DonationStart ==
  ASSUME DonationInit
  PROVE  DonationInv
<1>1. calls = <<>> /\ Len(calls) = 0 /\ \A S : <<>> \in Seq(S)
  BY EmptySeq DEF DonationInit
<1>2. DonationTypeOK
  BY <1>1 DEF DonationInit, DonationTypeOK
<1>3. TotalsAreForwarded
  BY DEF DonationInit, TotalsAreForwarded, Recipients
<1> QED
  BY <1>1, <1>2, <1>3 DEF DonationInv

\* The total of a target is what was forwarded for it, at every depth of calls
\* and after any of them has failed.
THEOREM Totals == DonationSpec => []DonationInv
<1> QED
  BY DonationStart, DonationKept, PTL DEF DonationSpec

-----------------------------------------------------------------------------
(* The uploader: records, prefixes and types. *)

LEMMA PrefixFacts ==
  /\ Prefix(0) = <<>>
  /\ \A n \in 0 .. Chunks + 1 : Prefix(n) \in Seq(Sends) /\ Len(Prefix(n)) = n
  /\ \A n \in Sends : Append(Prefix(n), n) = Prefix(n + 1)
<1>1. Prefix(0) = <<>>
  BY DEF Prefix
<1>2. ASSUME NEW n \in 0 .. Chunks + 1 PROVE Prefix(n) \in Seq(Sends) /\ Len(Prefix(n)) = n
  <2>1. Prefix(n) \in [1 .. n -> Sends] /\ n \in Nat
    BY <1>2, UploaderAssumption DEF Prefix, Sends
  <2> QED
    BY <2>1
<1>3. ASSUME NEW n \in Sends PROVE Append(Prefix(n), n) = Prefix(n + 1)
  <2>1. n \in 0 .. Chunks + 1 /\ n + 1 \in 0 .. Chunks + 1 /\ n \in Nat
    BY UploaderAssumption DEF Sends
  <2>2. Prefix(n) \in Seq(Sends) /\ Len(Prefix(n)) = n
    BY <1>2, <2>1
  <2>3. /\ Append(Prefix(n), n) \in Seq(Sends) /\ Len(Append(Prefix(n), n)) = n + 1
        /\ \A i \in 1 .. n : Append(Prefix(n), n)[i] = Prefix(n)[i]
        /\ Append(Prefix(n), n)[n + 1] = n
    BY <2>2, AppendProperties
  <2>4. Prefix(n + 1) \in Seq(Sends) /\ Len(Prefix(n + 1)) = n + 1
    BY <1>2, <2>1
  <2>5. \A i \in 1 .. n + 1 : Append(Prefix(n), n)[i] = Prefix(n + 1)[i]
    BY <2>1, <2>3 DEF Prefix
  <2> QED
    BY <2>3, <2>4, <2>5, SeqEqual
<1> QED
  BY <1>1, <1>2, <1>3

LEMMA RecordTypes ==
  ASSUME NEW r \in Records
  PROVE  /\ r = NoRecord => r.phase = "none"
         /\ r # NoRecord => /\ r.phase \in Passes /\ r.from \in Sends
                            /\ r.hashes \in Seq(Sends) /\ r.storageHashes \in Seq(Sends)
         /\ r.phase \in Passes => r # NoRecord
         /\ \A p \in Passes : StartOf(p, r) \in Sends /\ PriorOf(p, r) \in Seq(Sends)
<1>1. 0 \in Sends /\ <<>> \in Seq(Sends)
  BY UploaderAssumption DEF Sends
<1> QED
  BY <1>1 DEF Records, NoRecord, Passes, StartOf, PriorOf

\* A record is where its pass begins again.
LEMMA RecordBegins ==
  ASSUME NEW r \in Records, RecordInv(r), NEW p \in Passes
  PROVE  PriorOf(p, r) = Prefix(StartOf(p, r)) /\ SentTo(p, StartOf(p, r))
<1>1. CASE r.phase = p
  BY <1>1, RecordTypes DEF RecordInv, StartOf, PriorOf
<1>2. CASE r.phase # p
  BY <1>2, PrefixFacts DEF StartOf, PriorOf, SentTo, Sends
<1> QED
  BY <1>1, <1>2

LEMMA LandsTypes ==
  ASSUME UploaderTypeOK, NEW p \in Passes, NEW i \in Sends, Lands(p, i)
  PROVE  /\ landed' \in [Passes -> [Sends -> Nat]]
         /\ \A q \in Passes, j \in Sends :
              landed'[q][j] = IF q = p /\ j = i THEN landed[q][j] + 1 ELSE landed[q][j]
         /\ \A q \in Passes, j \in Sends : Landed(q, j)' <=> Landed(q, j) \/ (q = p /\ j = i)
<1>1. landed' = [landed EXCEPT ![p] = [landed[p] EXCEPT ![i] = landed[p][i] + 1]]
  BY DEF UploaderTypeOK, Lands
<1>2. landed' \in [Passes -> [Sends -> Nat]]
  BY <1>1 DEF UploaderTypeOK
<1>3. \A q \in Passes, j \in Sends :
        landed'[q][j] = IF q = p /\ j = i THEN landed[q][j] + 1 ELSE landed[q][j]
  BY <1>1 DEF UploaderTypeOK
<1>4. \A q \in Passes, j \in Sends : landed[q][j] \in Nat
  BY DEF UploaderTypeOK
<1> QED
  BY <1>2, <1>3, <1>4 DEF Landed

LEMMA UploaderTypes ==
  ASSUME UploaderTypeOK, [UploaderNext]_uploaderVars
  PROVE  UploaderTypeOK'
<1> USE DEF UploaderTypeOK
<1>0. 0 \in 0 .. Chunks + 1 /\ <<>> \in Seq(Sends) /\ NoRecord \in Records
      /\ \A n \in Sends : n \in 0 .. Chunks + 1 /\ n + 1 \in 0 .. Chunks + 1
  BY UploaderAssumption DEF Sends, Records
<1>1. CASE Anchor
  BY <1>0, <1>1, RecordTypes DEF Anchor, BeginPass, Passes, chainVars, Records, NoRecord
<1>2. CASE SetupFails \/ Reload \/ LoseRecord
  BY <1>0, <1>2 DEF SetupFails, Reload, LoseRecord, Stopped, ForgetRecord, chainVars, runVars
<1>3. CASE FallBack \/ AnchoringEnds \/ AnchorOnServer
  BY <1>0, <1>3 DEF FallBack, AnchoringEnds, AnchorOnServer, ForgetRecord, chainVars
<1>4. CASE SendLands
  <2>1. landed' \in [Passes -> [Sends -> Nat]]
    BY <1>4, LandsTypes DEF SendLands
  <2>2. hashes' \in Seq(Sends) /\ at' \in 0 .. Chunks + 1
    BY <1>0, <1>4 DEF SendLands
  <2> QED
    BY <1>4, <2>1, <2>2 DEF SendLands
<1>5. CASE SendFails
  <2>1. landed' \in [Passes -> [Sends -> Nat]] /\ doubtful' \in SUBSET (Passes \X Sends)
    BY <1>5, LandsTypes DEF SendFails, chainVars
  <2>2. [phase |-> run, from |-> at, hashes |-> hashes, storageHashes |-> storageHashes] \in Records
    BY <1>5 DEF SendFails, Records
  <2>3. kept' \in Records /\ saved' \in Records
    BY <1>5, <2>2 DEF SendFails, RecordPartial, Keep
  <2> QED
    BY <1>0, <1>5, <2>1, <2>3 DEF SendFails, Stopped
<1>6. CASE StoringEnds
  BY <1>0, <1>6, RecordTypes DEF StoringEnds, BeginPass, Passes, chainVars
<1>7. CASE UNCHANGED uploaderVars
  BY <1>7 DEF uploaderVars, runVars, chainVars
<1> QED
  BY <1>1, <1>2, <1>3, <1>4, <1>5, <1>6, <1>7 DEF UploaderNext

-----------------------------------------------------------------------------
(* The uploader: what the steps keep. *)

StorageInv == ~apart => \A i \in Sends : ~Landed("storing", i)

LEMMA ResumeParts ==
  ResumeInv <=> /\ UploaderTypeOK /\ ChunksFirst /\ OutcomeIsComplete /\ NothingPaidTwice
                /\ RecordInv(kept) /\ RecordInv(saved) /\ PassInv /\ ProgressInv /\ StorageInv
BY DEF ResumeInv, UploadInv, StorageInv

LEMMA ResumePartsNext ==
  ASSUME UploaderTypeOK', ChunksFirst', OutcomeIsComplete', NothingPaidTwice',
         RecordInv(kept)', RecordInv(saved)', PassInv', ProgressInv', StorageInv'
  PROVE  ResumeInv'
BY DEF ResumeInv, UploadInv, StorageInv

\* Steps that send nothing.
LEMMA QuietChain ==
  ASSUME ResumeInv, UNCHANGED <<apart, chainVars>>, ~forgotten' => ~forgotten
  PROVE  /\ ChunksFirst' /\ NothingPaidTwice' /\ StorageInv'
         /\ \A p : \A n : (SentTo(p, n)' <=> SentTo(p, n)) /\ (KnownTo(p, n)' <=> KnownTo(p, n))
         /\ \A hs : Stored(hs)' <=> Stored(hs)
         /\ \A r : RecordInv(r)' <=> RecordInv(r)
BY DEF ResumeInv, UploadInv, StorageInv, chainVars, ChunksFirst, NothingPaidTwice, SentTo, KnownTo,
       Landed, Stored, RecordInv

\* A send lands that all before it have landed for: of the anchoring pass, the
\* bytes are stored by then.
LEMMA LandsKeeps ==
  ASSUME ResumeInv, NEW p \in Passes, NEW i \in Sends, run = p, at = i, Lands(p, i), apart' = apart
  PROVE  /\ ChunksFirst' /\ StorageInv'
         /\ \A q \in Passes : \A n : SentTo(q, n) => SentTo(q, n)'
         /\ SentTo(p, i + 1)'
         /\ \A hs : Stored(hs) => Stored(hs)'
         /\ \A r \in Records : RecordInv(r) => RecordInv(r)'
<1>1. /\ UploaderTypeOK /\ ChunksFirst /\ StorageInv /\ SentTo(p, i)
      /\ p = "storing" => apart
      /\ p = "anchoring" => Stored(storageHashes)
  BY ResumeParts DEF PassInv
<1>2. \A q \in Passes, j \in Sends : Landed(q, j)' <=> Landed(q, j) \/ (q = p /\ j = i)
  BY <1>1, LandsTypes
<1>3. \A q \in Passes : \A n : SentTo(q, n) => SentTo(q, n)'
  BY <1>2 DEF SentTo
<1>4. SentTo(p, i + 1)'
  BY <1>1, <1>2, UploaderAssumption DEF SentTo, Sends
<1>5. \A hs : Stored(hs) => Stored(hs)'
  BY <1>3 DEF Stored, Passes
<1>6. \A r \in Records : RecordInv(r) => RecordInv(r)'
  BY <1>3, <1>5, RecordTypes DEF RecordInv
<1>7. StorageInv'
  BY <1>1, <1>2 DEF StorageInv, Passes
<1>8. ASSUME NEW q \in Passes, Landed(q, Chunks)' PROVE \A j \in Sends : Landed(q, j)'
  <2>1. CASE Landed(q, Chunks)
    BY <1>1, <1>2, <2>1 DEF ChunksFirst
  <2>2. CASE ~Landed(q, Chunks)
    <3>1. q = p /\ i = Chunks
      BY <1>2, <1>8, <2>2, UploaderAssumption DEF Sends
    <3> QED
      BY <1>4, <3>1, UploaderAssumption DEF SentTo, Sends
  <2> QED
    BY <2>1, <2>2
<1>9. ASSUME apart, NEW j \in Sends, Landed("anchoring", j)' PROVE \A k \in Sends : Landed("storing", k)'
  <2>1. CASE p = "anchoring"
    <3>1. SentTo("storing", Chunks + 1)
      BY <1>1, <1>9, <2>1 DEF Stored
    <3> QED
      BY <1>2, <3>1, UploaderAssumption DEF SentTo, Sends, Passes
  <2>2. CASE p # "anchoring"
    BY <1>1, <1>2, <1>9, <2>2 DEF ChunksFirst, Passes
  <2> QED
    BY <2>1, <2>2
<1>10. ChunksFirst'
  BY <1>8, <1>9 DEF ChunksFirst
<1> QED
  BY <1>3, <1>4, <1>5, <1>6, <1>7, <1>10

\* Nothing that is known to have landed lands again.
LEMMA LandsOnce ==
  ASSUME ResumeInv, NEW p \in Passes, NEW i \in Sends, run = p, at = i, Lands(p, i), forgotten' = forgotten,
         doubtful \subseteq doubtful', doubtful' \subseteq doubtful \cup {<<p, i>>}
  PROVE  /\ NothingPaidTwice'
         /\ \A q \in Passes \ {p} : \A n : KnownTo(q, n) => KnownTo(q, n)'
         /\ KnownTo(p, i) => KnownTo(p, i + 1)'
         /\ <<p, i>> \in doubtful' => (KnownTo(p, i) => KnownTo(p, i)')
<1>1. UploaderTypeOK /\ NothingPaidTwice /\ (~forgotten => KnownTo(p, i))
  BY ResumeParts DEF ProgressInv
<1>2. /\ \A q \in Passes, j \in Sends :
           landed'[q][j] = IF q = p /\ j = i THEN landed[q][j] + 1 ELSE landed[q][j]
      /\ \A q \in Passes, j \in Sends : Landed(q, j)' <=> Landed(q, j) \/ (q = p /\ j = i)
  BY <1>1, LandsTypes
<1>3. \A q \in Passes \ {p} : \A n : KnownTo(q, n) => KnownTo(q, n)'
  BY <1>2 DEF KnownTo
<1>4. KnownTo(p, i) => KnownTo(p, i + 1)'
  BY <1>2, UploaderAssumption DEF KnownTo, Sends
<1>5. <<p, i>> \in doubtful' => (KnownTo(p, i) => KnownTo(p, i)')
  BY <1>2 DEF KnownTo
<1>6. ASSUME ~forgotten', NEW q \in Passes, NEW j \in Sends, landed'[q][j] > 1
      PROVE  <<q, j>> \in doubtful'
  <2>1. CASE q = p /\ j = i
    <3>1. landed[p][i] > 0
      BY <1>1, <1>2, <1>6, <2>1 DEF UploaderTypeOK
    <3>2. KnownTo(p, i) /\ i \in Nat
      BY <1>1, <1>6, UploaderAssumption DEF Sends
    <3>3. <<p, i>> \in doubtful
      BY <2>1, <3>1, <3>2 DEF KnownTo, Landed
    <3> QED
      BY <2>1, <3>3
  <2>2. CASE ~(q = p /\ j = i)
    BY <1>1, <1>2, <1>6, <2>2 DEF NothingPaidTwice
  <2> QED
    BY <2>1, <2>2
<1> QED
  BY <1>3, <1>4, <1>5, <1>6 DEF NothingPaidTwice

LEMMA AnchorStep ==
  ASSUME ResumeInv, UploaderTypeOK', Anchor
  PROVE  ResumeInv'
<1>1. /\ UploaderTypeOK /\ OutcomeIsComplete /\ RecordInv(kept) /\ RecordInv(saved) /\ ProgressInv /\ StorageInv
  BY ResumeParts
<1>2. /\ run = "idle" /\ resume' = kept /\ UNCHANGED <<apart, kept, saved, chainVars, forgotten>>
  BY DEF Anchor
<1>3. /\ ChunksFirst' /\ NothingPaidTwice' /\ StorageInv'
      /\ \A p : \A n : (SentTo(p, n)' <=> SentTo(p, n)) /\ (KnownTo(p, n)' <=> KnownTo(p, n))
      /\ \A hs : Stored(hs)' <=> Stored(hs)
      /\ \A r : RecordInv(r)' <=> RecordInv(r)
  BY <1>2, QuietChain
<1>4. RecordInv(kept)' /\ RecordInv(saved)'
  BY <1>1, <1>2 DEF QuietChain, RecordInv, SentTo, Stored, Landed, chainVars
<1>5. kept \in Records /\ ("storing" \in Passes /\ "anchoring" \in Passes)
  BY <1>1 DEF UploaderTypeOK, Passes
<1>6. CASE apart /\ kept.phase # "anchoring"
  <2>1. run' = "storing" /\ at' = StartOf("storing", kept) /\ hashes' = PriorOf("storing", kept)
    BY <1>6 DEF Anchor, BeginPass
  <2>2. SentTo("storing", at') /\ hashes' = Prefix(at')
    BY <1>1, <1>5, <2>1, RecordBegins
  <2>3. PassInv'
    BY <1>2, <1>3, <1>6, <2>1, <2>2 DEF PassInv, SentTo, Landed, chainVars
  <2>4. ProgressInv'
    <3>1. ~forgotten => KnownTo("storing", at') /\ KnownTo("anchoring", 0)
      BY <1>1, <1>2, <1>6, <2>1 DEF ProgressInv, StartOf
    <3> QED
      BY <1>2, <2>1, <3>1 DEF ProgressInv, KnownTo, Landed, chainVars
  <2>5. OutcomeIsComplete'
    BY <2>1 DEF OutcomeIsComplete
  <2> QED
    BY <1>3, <1>4, <2>3, <2>4, <2>5, ResumePartsNext
<1>7. CASE ~(apart /\ kept.phase # "anchoring")
  <2>1. /\ run' = "anchoring" /\ at' = StartOf("anchoring", kept) /\ hashes' = PriorOf("anchoring", kept)
        /\ storageHashes' = IF kept.phase = "anchoring" THEN kept.storageHashes ELSE <<>>
    BY <1>7 DEF Anchor, BeginPass
  <2>2. SentTo("anchoring", at') /\ hashes' = Prefix(at')
    BY <1>1, <1>5, <2>1, RecordBegins
  <2>3. Stored(storageHashes')
    BY <1>1, <1>5, <1>7, <2>1, RecordTypes DEF Stored, RecordInv
  <2>4. PassInv'
    BY <1>2, <2>1, <2>2, <2>3 DEF PassInv, Stored, SentTo, Landed, chainVars
  <2>5. ProgressInv'
    <3>1. ~forgotten => KnownTo("anchoring", at')
      BY <1>1, <1>2, <2>1 DEF ProgressInv
    <3> QED
      BY <1>2, <2>1, <3>1 DEF ProgressInv, KnownTo, Landed, chainVars
  <2>6. OutcomeIsComplete'
    BY <2>1 DEF OutcomeIsComplete
  <2> QED
    BY <1>3, <1>4, <2>4, <2>5, <2>6, ResumePartsNext
<1> QED
  BY <1>6, <1>7

\* The run stops without a send, and what is kept is what it began with, what
\* localStorage has, or nothing.
LEMMA StopStep ==
  ASSUME ResumeInv, UploaderTypeOK', SetupFails \/ Reload \/ LoseRecord
  PROVE  ResumeInv'
<1>1. /\ UploaderTypeOK /\ RecordInv(kept) /\ RecordInv(saved) /\ PassInv /\ ProgressInv /\ StorageInv
  BY ResumeParts
<1>2. /\ run' = "idle" /\ UNCHANGED <<apart, chainVars>>
      /\ kept' \in {kept, saved, NoRecord} /\ saved' \in {saved, NoRecord} /\ (~forgotten' => ~forgotten)
  BY <1>1 DEF SetupFails, Reload, LoseRecord, Stopped, ForgetRecord, runVars, UploaderTypeOK
<1>3. ChunksFirst' /\ NothingPaidTwice' /\ StorageInv'
  BY <1>2, QuietChain
<1>4. RecordInv(kept)' /\ RecordInv(saved)'
  BY <1>1, <1>2 DEF RecordInv, SentTo, Stored, Landed, chainVars
<1>5. PassInv' /\ OutcomeIsComplete'
  BY <1>2 DEF PassInv, OutcomeIsComplete, Passes
<1>6. ASSUME ~forgotten'
      PROVE  /\ KnownTo("anchoring", StartOf("anchoring", kept'))
             /\ kept'.phase # "anchoring" => KnownTo("storing", StartOf("storing", kept'))
  <2>1. ~LoseRecord
    BY <1>6 DEF LoseRecord
  <2>2. CASE run = "idle"
    <3>1. Reload /\ kept' = kept
      BY <1>6, <2>1, <2>2 DEF SetupFails, Reload, Passes
    <3> QED
      BY <1>1, <1>2, <1>6, <2>2, <3>1 DEF ProgressInv
  <2>3. CASE run # "idle"
    <3>1. SetupFails
      BY <1>6, <2>1, <2>3 DEF Reload
    <3>2. /\ run \in Passes /\ at = StartOf(run, resume) /\ kept' = kept /\ resume = kept
          /\ ~(run = "anchoring" /\ apart /\ resume.phase # "anchoring")
      BY <1>1, <1>6, <3>1 DEF SetupFails, PassInv
    <3>3. KnownTo(run, at) /\ (run = "storing" => KnownTo("anchoring", 0))
      BY <1>1, <1>2, <1>6, <3>2 DEF ProgressInv
    <3>4. CASE run = "storing"
      <4>1. kept.phase # "anchoring"
        BY <1>1, <3>2, <3>4 DEF PassInv
      <4> QED
        BY <3>2, <3>3, <3>4, <4>1 DEF StartOf
    <3>5. CASE run = "anchoring"
      <4>1. ~apart => \A n : KnownTo("storing", n)
        BY <1>1 DEF StorageInv, KnownTo
      <4> QED
        BY <3>2, <3>3, <3>5, <4>1
    <3> QED
      BY <3>2, <3>4, <3>5 DEF Passes
  <2> QED
    BY <2>2, <2>3
<1>7. ProgressInv'
  BY <1>2, <1>6 DEF ProgressInv, KnownTo, Landed, chainVars, Passes
<1> QED
  BY <1>3, <1>4, <1>5, <1>7, ResumePartsNext

\* The run ends.
LEMMA EndStep ==
  ASSUME ResumeInv, UploaderTypeOK', FallBack \/ AnchoringEnds \/ AnchorOnServer
  PROVE  ResumeInv'
<1>1. /\ UploaderTypeOK /\ RecordInv(kept) /\ RecordInv(saved) /\ PassInv
  BY ResumeParts
<1>2. /\ run' \in {"done", "simulated", "served"} /\ UNCHANGED <<apart, hashes, storageHashes, chainVars, forgotten>>
      /\ kept' \in {kept, NoRecord} /\ saved' \in {saved, NoRecord}
      /\ run' = "done" => run = "anchoring" /\ at = Chunks + 1
  BY DEF FallBack, AnchoringEnds, AnchorOnServer, ForgetRecord
<1>3. ChunksFirst' /\ NothingPaidTwice' /\ StorageInv'
  BY <1>2, QuietChain
<1>4. RecordInv(kept)' /\ RecordInv(saved)'
  BY <1>1, <1>2 DEF RecordInv, SentTo, Stored, Landed, chainVars
<1>5. PassInv' /\ ProgressInv'
  BY <1>2 DEF PassInv, ProgressInv, Passes
<1>6. OutcomeIsComplete'
  <2> SUFFICES ASSUME run' = "done" PROVE OutcomeIsComplete'
    BY DEF OutcomeIsComplete
  <2>1. hashes = All /\ SentTo("anchoring", Chunks + 1) /\ (apart => storageHashes = All)
    BY <1>1, <1>2 DEF PassInv, Passes, All, Stored
  <2>2. \A i \in Sends : Landed("anchoring", i)
    BY <2>1, UploaderAssumption DEF SentTo, Sends
  <2> QED
    BY <1>2, <2>1, <2>2 DEF OutcomeIsComplete, Landed, chainVars
<1> QED
  BY <1>3, <1>4, <1>5, <1>6, ResumePartsNext

LEMMA SendLandsStep ==
  ASSUME ResumeInv, UploaderTypeOK', SendLands
  PROVE  ResumeInv'
<1>1. /\ UploaderTypeOK /\ RecordInv(kept) /\ RecordInv(saved) /\ PassInv /\ ProgressInv
  BY ResumeParts
<1>2. PICK p \in Passes, i \in Sends :
        /\ run = p /\ at = i /\ Lands(p, i) /\ run' = p /\ at' = i + 1
        /\ hashes' = Append(hashes, i)
        /\ UNCHANGED <<apart, resume, storageHashes, kept, saved, doubtful, forgotten>>
  BY DEF SendLands
<1>3. /\ ChunksFirst' /\ StorageInv' /\ SentTo(p, i + 1)'
      /\ \A hs : Stored(hs) => Stored(hs)'
      /\ \A r \in Records : RecordInv(r) => RecordInv(r)'
  BY <1>2, LandsKeeps
<1>4. /\ NothingPaidTwice'
      /\ \A q \in Passes \ {p} : \A n : KnownTo(q, n) => KnownTo(q, n)'
      /\ KnownTo(p, i) => KnownTo(p, i + 1)'
  BY <1>2, LandsOnce
<1>5. RecordInv(kept)' /\ RecordInv(saved)'
  BY <1>1, <1>2, <1>3 DEF UploaderTypeOK, RecordInv, SentTo, Stored, Landed
<1>6. PassInv'
  <2>1. hashes' = Prefix(at')
    BY <1>1, <1>2, PrefixFacts DEF PassInv
  <2> QED
    BY <1>1, <1>2, <1>3, <2>1 DEF PassInv, Stored, SentTo, Landed
<1>7. ProgressInv'
  BY <1>1, <1>2, <1>4 DEF ProgressInv, KnownTo, Landed, Passes
<1>8. OutcomeIsComplete'
  BY <1>2 DEF OutcomeIsComplete, Passes
<1> QED
  BY <1>3, <1>4, <1>5, <1>6, <1>7, <1>8, ResumePartsNext

\* What a failed send records is where its pass is.
LEMMA SendFailsStep ==
  ASSUME ResumeInv, UploaderTypeOK', SendFails
  PROVE  ResumeInv'
<1>a. PICK p \in Passes, i \in Sends : run = p /\ at = i
  BY DEF SendFails
<1>b. PICK r : r = [phase |-> run, from |-> at, hashes |-> hashes, storageHashes |-> storageHashes]
  OBVIOUS
<1>0. /\ run = p /\ at = i
      /\ r = [phase |-> p, from |-> i, hashes |-> hashes, storageHashes |-> storageHashes]
      /\ r = [phase |-> run, from |-> at, hashes |-> hashes, storageHashes |-> storageHashes]
  BY <1>a, <1>b
<1>1. /\ UploaderTypeOK /\ RecordInv(kept) /\ RecordInv(saved) /\ PassInv /\ ProgressInv
  BY ResumeParts
<1>2. run' = "idle" /\ kept' = r /\ saved' \in {r, saved} /\ UNCHANGED <<apart, forgotten>>
  BY <1>0 DEF SendFails, RecordPartial, Keep, Stopped
<1>3. RecordInv(r) /\ r \in Records
  BY <1>0, <1>1 DEF PassInv, RecordInv, UploaderTypeOK, Records
<1>4. ~forgotten => KnownTo(p, i) /\ (p = "storing" => KnownTo("anchoring", 0))
  BY <1>0, <1>1 DEF ProgressInv
<1>5. PassInv' /\ OutcomeIsComplete'
  BY <1>2 DEF PassInv, OutcomeIsComplete, Passes
<1>6. StartOf(p, r) = i /\ (p = "storing" => StartOf("anchoring", r) = 0) /\ r.phase = p
  BY <1>0 DEF StartOf
<1>7. CASE UNCHANGED chainVars
  <2>1. ChunksFirst' /\ NothingPaidTwice' /\ StorageInv'
    BY <1>2, <1>7, QuietChain
  <2>2. RecordInv(kept)' /\ RecordInv(saved)'
    BY <1>1, <1>2, <1>3, <1>7 DEF RecordInv, SentTo, Stored, Landed, chainVars
  <2>3. ProgressInv'
    BY <1>2, <1>4, <1>6, <1>7 DEF ProgressInv, KnownTo, Landed, chainVars, Passes
  <2> QED
    BY <1>5, <2>1, <2>2, <2>3, ResumePartsNext
<1>8. CASE Lands(p, i) /\ doubtful' = doubtful \cup {<<p, i>>}
  <2>1. /\ ChunksFirst' /\ StorageInv'
        /\ \A q \in Records : RecordInv(q) => RecordInv(q)'
    BY <1>0, <1>2, <1>8, LandsKeeps
  <2>2. /\ NothingPaidTwice'
        /\ \A q \in Passes \ {p} : \A n : KnownTo(q, n) => KnownTo(q, n)'
        /\ KnownTo(p, i) => KnownTo(p, i)'
    BY <1>0, <1>2, <1>8, LandsOnce
  <2>3. RecordInv(kept)' /\ RecordInv(saved)'
    BY <1>1, <1>2, <1>3, <2>1 DEF UploaderTypeOK, RecordInv, SentTo, Stored, Landed
  <2>4. ProgressInv'
    BY <1>2, <1>4, <1>6, <2>2 DEF ProgressInv, KnownTo, Landed, Passes
  <2> QED
    BY <1>5, <2>1, <2>2, <2>3, <2>4, ResumePartsNext
<1> QED
  BY <1>0, <1>7, <1>8 DEF SendFails

LEMMA StoringEndsStep ==
  ASSUME ResumeInv, UploaderTypeOK', StoringEnds
  PROVE  ResumeInv'
<1>1. /\ UploaderTypeOK /\ RecordInv(kept) /\ RecordInv(saved) /\ PassInv /\ ProgressInv
  BY ResumeParts
<1>2. /\ run = "storing" /\ at = Chunks + 1 /\ storageHashes' = hashes /\ run' = "anchoring"
      /\ at' = StartOf("anchoring", resume) /\ hashes' = PriorOf("anchoring", resume)
      /\ UNCHANGED <<apart, resume, kept, saved, chainVars, forgotten>>
  BY DEF StoringEnds, BeginPass
<1>3. ChunksFirst' /\ NothingPaidTwice' /\ StorageInv'
  BY <1>2, QuietChain
<1>4. RecordInv(kept)' /\ RecordInv(saved)'
  BY <1>1, <1>2 DEF RecordInv, SentTo, Stored, Landed, chainVars
<1>5. apart /\ resume.phase # "anchoring" /\ resume = kept /\ Stored(hashes)
  BY <1>1, <1>2 DEF PassInv, Passes, Stored, All
<1>6. at' = 0 /\ hashes' = Prefix(0) /\ SentTo("anchoring", 0)
  BY <1>2, <1>5, PrefixFacts DEF StartOf, PriorOf, SentTo, Sends
<1>7. PassInv'
  BY <1>2, <1>5, <1>6 DEF PassInv, Stored, SentTo, Landed, chainVars
<1>8. ProgressInv'
  BY <1>1, <1>2, <1>6 DEF ProgressInv, KnownTo, Landed, chainVars, Passes
<1>9. OutcomeIsComplete'
  BY <1>2 DEF OutcomeIsComplete
<1> QED
  BY <1>3, <1>4, <1>7, <1>8, <1>9, ResumePartsNext

\* For a file of any number of chunks, through any failures, reloads and lost
\* records: the file anchor comes last, the outcome lists one hash of every
\* send, and nothing known to have landed is paid for again while no record
\* is lost.
THEOREM UploadsResume == UploaderSpec => []ResumeInv
<1>1. UploaderInit => ResumeInv
  <2> SUFFICES ASSUME UploaderInit PROVE ResumeInv
    OBVIOUS
  <2>0. 0 \in Sends /\ 0 \in 0 .. Chunks + 1 /\ <<>> \in Seq(Sends) /\ NoRecord \in Records
    BY UploaderAssumption DEF Sends, Records
  <2>1. UploaderTypeOK
    BY <2>0 DEF UploaderInit, UploaderTypeOK
  <2>2. \A p \in Passes, i \in Sends : landed[p][i] = 0
    BY DEF UploaderInit
  <2>3. ChunksFirst /\ NothingPaidTwice /\ StorageInv
    BY <2>2, UploaderAssumption DEF ChunksFirst, NothingPaidTwice, StorageInv, Landed, Passes, Sends
  <2>4. OutcomeIsComplete /\ RecordInv(kept) /\ RecordInv(saved) /\ PassInv
    BY DEF UploaderInit, OutcomeIsComplete, RecordInv, PassInv, Passes
  <2>5. ProgressInv
    BY <2>2 DEF UploaderInit, ProgressInv, KnownTo, Landed, Passes
  <2> QED
    BY <2>1, <2>3, <2>4, <2>5, ResumeParts
<1>2. ResumeInv /\ [UploaderNext]_uploaderVars => ResumeInv'
  <2> SUFFICES ASSUME ResumeInv, [UploaderNext]_uploaderVars PROVE ResumeInv'
    OBVIOUS
  <2>1. UploaderTypeOK'
    BY UploaderTypes, ResumeParts
  <2>2. CASE UNCHANGED uploaderVars
    BY <2>1, <2>2, ResumeParts, ResumePartsNext
    DEF uploaderVars, runVars, chainVars, ChunksFirst, OutcomeIsComplete, NothingPaidTwice, RecordInv,
        PassInv, ProgressInv, StorageInv, SentTo, KnownTo, Stored, Landed
  <2> QED
    BY <2>1, <2>2, AnchorStep, StopStep, EndStep, SendLandsStep, SendFailsStep, StoringEndsStep
    DEF UploaderNext
<1> QED
  BY <1>1, <1>2, PTL DEF UploaderSpec

\* The two properties of an upload.
THEOREM UploadSafety == UploaderSpec => []UploadInv
<1>1. ResumeInv => UploadInv
  BY DEF ResumeInv
<1> QED
  BY <1>1, UploadsResume, PTL

THEOREM PaidOnceOnly == UploaderSpec => []NothingPaidTwice
<1>1. ResumeInv => NothingPaidTwice
  BY DEF ResumeInv
<1> QED
  BY <1>1, UploadsResume, PTL
-----------------------------------------------------------------------------
(* The product: its behaviours are behaviours of every component. *)

LEMMA PlatformParts ==
  ASSUME PlatformInit
  PROVE  /\ RetentionInit /\ SealingInit /\ MembershipInit /\ SignInInit /\ RateInit
         /\ UploaderInit /\ CacheInit /\ DonationInit /\ MerkleInit /\ VerificationInit
BY DEF PlatformInit

LEMMA PlatformStep ==
  ASSUME [PlatformNext]_platformVars
  PROVE  /\ [RetentionNext]_retentionVars /\ [SealingNext]_sealingVars
         /\ [MembershipNext]_membershipVars /\ [SignInNext]_signInVars /\ [RateNext]_rateVars
         /\ [UploaderNext]_uploaderVars /\ [CacheNext]_cacheVars /\ [DonationNext]_donationVars
         /\ [MerkleNext]_merkleVars /\ [VerificationNext]_verificationVars
<1> USE DEF KeepServer, KeepClient
<1>1. CASE InRetention(RetentionNext)
  BY <1>1 DEF InRetention
<1>2. CASE InSealing(SealingNext)
  BY <1>2 DEF InSealing
<1>3. CASE InMembership(MembershipNext)
  BY <1>3 DEF InMembership
<1>4. CASE InSignIn(SignInNext)
  BY <1>4 DEF InSignIn
<1>5. CASE InRateLimit(RateNext)
  BY <1>5 DEF InRateLimit
<1>6. CASE InUploader(UploaderNext)
  BY <1>6 DEF InUploader
<1>7. CASE InCache(CacheNext)
  BY <1>7 DEF InCache
<1>8. CASE InDonation(DonationNext)
  BY <1>8 DEF InDonation
<1>9. CASE InMerkle(MerkleNext)
  BY <1>9 DEF InMerkle
<1>10. CASE InVerification(VerificationNext)
  BY <1>10 DEF InVerification
<1>11. CASE UNCHANGED platformVars
  BY <1>11 DEF platformVars
<1> QED
  BY <1>1, <1>2, <1>3, <1>4, <1>5, <1>6, <1>7, <1>8, <1>9, <1>10, <1>11 DEF PlatformNext

\* What is proved of a component holds in the product: every behaviour of
\* Platform is one of each of its components.
THEOREM Composition ==
  PlatformSpec => /\ RetentionSpec /\ SealingSpec /\ MembershipSpec /\ SignInSpec /\ RateSpec
                  /\ UploaderSpec /\ CacheSpec /\ DonationSpec /\ MerkleSpec /\ VerificationSpec
<1> QED
  BY PlatformParts, PlatformStep, PTL
  DEF PlatformSpec, RetentionSpec, SealingSpec, MembershipSpec, SignInSpec, RateSpec,
      UploaderSpec, CacheSpec, DonationSpec, MerkleSpec, VerificationSpec

\* What a report says of a document stands on signatures and on the chains.
THEOREM SoundInPlatform == PlatformSpec => []SoundReports
<1>1. ReportIsSound => SoundReports
  BY DEF SoundReports
<1> QED
  BY <1>1, Composition, ReportsAreSound, PTL

\* A document that went only through the functions of the packages never fails.
THEOREM HonestInPlatform == PlatformSpec => []HonestPasses
<1>1. HonestIsNeverInvalid => HonestPasses
  BY DEF HonestPasses
<1> QED
  BY <1>1, Composition, HonestDocumentsPass, PTL
=============================================================================
