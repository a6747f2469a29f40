--------------------------- MODULE CachePayments ---------------------------
(***************************************************************************)
(* The contract of paid cache entries,                                     *)
(* contracts/evm/src/CachePayments.sol.  A call is one step: it happens    *)
(* whole or reverts, and a call that reverts is not a step.  A transfer of *)
(* USDC that fails reverts the call around it.                             *)
(*                                                                         *)
(* uint64 is the range 0 .. MaxUint64, where a sum that leaves the range   *)
(* reverts.  Entries with doubled grantees may predate the upgrade that    *)
(* made grants idempotent, so the initial lists are any.                   *)
(***************************************************************************)
EXTENDS Integers, Sequences, FiniteSets

CONSTANTS
  Payers, Treasuries,   \* addresses
  NoAddress,            \* address(0)
  Entries,
  LegacyLists,          \* allow lists that predate the idempotent grant
  Durations,            \* durationSeconds of a payment
  PriceLists,           \* prices that a treasury may set
  MaxUint64,
  MaxTime,              \* bound: no block after it
  MaxListed             \* bound: no longer list is granted on

ASSUME CacheAssumption ==
  /\ NoAddress \notin Payers \cup Treasuries
  /\ MaxUint64 \in Nat /\ MaxTime \in 1 .. MaxUint64 /\ MaxListed \in Nat
  /\ Durations \subseteq 0 .. MaxUint64
  /\ LegacyLists \subseteq Seq(Payers)
  /\ PriceLists \subseteq [{"file", "folder", "permanent"} -> Nat]

VARIABLES
  timestamp,        \* of the latest block
  entryOwner, allowList,
  paidUntil,        \* expiresAt of an entry, 0 when it is permanent
  prices, cacheTreasury, cachePending, cachePaused,
  boughtPermanent,  \* history: entries paid for at the tier Permanent
  granted           \* history: addresses granted and not revoked since

entryVars == <<entryOwner, paidUntil, allowList, boughtPermanent, granted>>
adminVars == <<prices, cacheTreasury, cachePending, cachePaused>>
cacheVars == <<timestamp, entryVars, adminVars>>

Tiers == {"file", "folder", "permanent"}
ListedIn(list) == {list[i] : i \in 1 .. Len(list)}

CacheTypeOK ==
  /\ timestamp \in 1 .. MaxUint64
  /\ entryOwner \in [Entries -> Payers \cup {NoAddress}]
  /\ paidUntil \in [Entries -> 0 .. MaxUint64]
  /\ allowList \in [Entries -> Seq(Payers)]
  /\ prices \in [Tiers -> Nat]
  /\ cacheTreasury \in Treasuries
  /\ cachePending \in Treasuries \cup {NoAddress}
  /\ cachePaused \in BOOLEAN
  /\ boughtPermanent \in SUBSET Entries
  /\ granted \in [Entries -> SUBSET Payers]

\* An entry of before the upgrade, paid for until the first block, or none.
CacheInit ==
  /\ timestamp = 1
  /\ entryOwner \in [Entries -> Payers \cup {NoAddress}]
  /\ paidUntil = [e \in Entries |-> IF entryOwner[e] = NoAddress THEN 0 ELSE 1]
  /\ allowList \in [Entries -> LegacyLists]
  /\ \A e \in Entries : entryOwner[e] = NoAddress => allowList[e] = <<>>
  /\ prices \in PriceLists /\ cacheTreasury \in Treasuries
  /\ cachePending = NoAddress /\ cachePaused = FALSE
  /\ boughtPermanent = {}
  /\ granted = [e \in Entries |-> ListedIn(allowList[e])]

NextBlock ==
  /\ timestamp < MaxTime
  /\ timestamp' = timestamp + 1
  /\ UNCHANGED <<entryVars, adminVars>>

-----------------------------------------------------------------------------
(* The treasury. *)

SetTreasury(sender, next) ==
  /\ sender = cacheTreasury
  /\ cachePending' = next
  /\ UNCHANGED <<timestamp, entryVars, prices, cacheTreasury, cachePaused>>

AcceptTreasury(sender) ==
  /\ sender = cachePending
  /\ cacheTreasury' = sender /\ cachePending' = NoAddress
  /\ UNCHANGED <<timestamp, entryVars, prices, cachePaused>>

SetPaused(sender, on) ==
  /\ sender = cacheTreasury
  /\ cachePaused' = on
  /\ UNCHANGED <<timestamp, entryVars, prices, cacheTreasury, cachePending>>

SetPrices(sender, list) ==
  /\ sender = cacheTreasury
  /\ prices' = list
  /\ UNCHANGED <<timestamp, entryVars, cacheTreasury, cachePending, cachePaused>>

-----------------------------------------------------------------------------
(* Payments. *)

Later(s, t) == IF s > t THEN s ELSE t

\* The expiry that a payment of this tier and duration gives to the entry,
\* beyond MaxUint64 where the sum overflows.
Expiry(e, sender, tier, duration) ==
  IF tier = "permanent" \/ (entryOwner[e] = sender /\ paidUntil[e] = 0)
    THEN 0 ELSE Later(timestamp, paidUntil[e]) + duration

PaysForEntry(e, sender) ==
  ~cachePaused /\ entryOwner[e] \in {NoAddress, sender}

PaidFor(e, sender, tier, expiry) ==
  /\ entryOwner' = [entryOwner EXCEPT ![e] = sender]
  /\ paidUntil' = [paidUntil EXCEPT ![e] = expiry]
  /\ boughtPermanent' = IF tier = "permanent" THEN boughtPermanent \cup {e} ELSE boughtPermanent
  /\ UNCHANGED <<timestamp, allowList, granted, adminVars>>

\* Mutant: a renewal counts from now, not from the current expiry.
MutPayFromNow(e, sender, tier, duration) ==
  /\ PaysForEntry(e, sender)
  /\ LET expiry == IF Expiry(e, sender, tier, duration) = 0 THEN 0 ELSE timestamp + duration IN
       /\ expiry <= MaxUint64
       /\ PaidFor(e, sender, tier, expiry)

PayForCache(e, sender, tier, duration) ==
  /\ PaysForEntry(e, sender)
  /\ Expiry(e, sender, tier, duration) <= MaxUint64
  /\ PaidFor(e, sender, tier, Expiry(e, sender, tier, duration))

-----------------------------------------------------------------------------
(* Access. *)

GrantAccess(e, sender, grantee) ==
  /\ entryOwner[e] = sender
  /\ Len(allowList[e]) < MaxListed
  /\ allowList' = IF grantee \in ListedIn(allowList[e]) THEN allowList
                  ELSE [allowList EXCEPT ![e] = Append(@, grantee)]
  /\ granted' = [granted EXCEPT ![e] = @ \cup {grantee}]
  /\ UNCHANGED <<timestamp, entryOwner, paidUntil, boughtPermanent, adminVars>>

Popped(list) == SubSeq(list, 1, Len(list) - 1)
SwapAndPop(list, i) == Popped([list EXCEPT ![i] = list[Len(list)]])

Loop(at, list) == [at |-> at, list |-> list]

\* Mutant: the swapped-in element is passed over.
MutRound(grantee, l) ==
  IF l.at > Len(l.list) THEN l
  ELSE Loop(l.at + 1, IF l.list[l.at] = grantee THEN SwapAndPop(l.list, l.at) ELSE l.list)

\* One round of the loop over the list, which looks again at the place it has
\* swapped into; nothing once the loop has ended.
Round(grantee, l) ==
  IF l.at > Len(l.list) THEN l
  ELSE IF l.list[l.at] = grantee THEN Loop(l.at, SwapAndPop(l.list, l.at))
  ELSE Loop(l.at + 1, l.list)

\* A round passes over one element or removes one, so that there are as many
\* as there are elements.
Without(grantee, list) ==
  LET after[k \in Nat] == IF k = 0 THEN Loop(1, list) ELSE Round(grantee, after[k - 1])
  IN after[Len(list)].list

RevokeAccess(e, sender, grantee) ==
  /\ entryOwner[e] = sender
  /\ allowList' = [allowList EXCEPT ![e] = Without(grantee, @)]
  /\ granted' = [granted EXCEPT ![e] = @ \ {grantee}]
  /\ UNCHANGED <<timestamp, entryOwner, paidUntil, boughtPermanent, adminVars>>

-----------------------------------------------------------------------------
CacheNext ==
  \/ NextBlock
  \/ \E s \in Treasuries :
       \/ \E t \in Treasuries : SetTreasury(s, t)
       \/ AcceptTreasury(s)
       \/ \E on \in BOOLEAN : SetPaused(s, on)
       \/ \E list \in PriceLists : SetPrices(s, list)
  \/ \E e \in Entries, s \in Payers :
       \/ \E tier \in Tiers, duration \in Durations : PayForCache(e, s, tier, duration)
       \/ \E g \in Payers : GrantAccess(e, s, g) \/ RevokeAccess(e, s, g)

CacheSpec == CacheInit /\ [][CacheNext]_cacheVars

-----------------------------------------------------------------------------
(* What the contract promises. *)

\* An entry is permanent exactly when it was paid for as such: no renewal and
\* no overflow of the expiry makes a timed one permanent, or a permanent one
\* timed.
PermanentIsPaid ==
  \A e \in Entries : entryOwner[e] # NoAddress =>
    (paidUntil[e] = 0 <=> e \in boughtPermanent)

\* Whatever is paid later, for whatever tier and duration, an entry keeps its
\* owner and never loses time it was paid for.
PaidTimeIsKept ==
  [][\A e \in Entries : entryOwner[e] # NoAddress =>
       /\ entryOwner'[e] = entryOwner[e]
       /\ paidUntil'[e] = 0 \/ (paidUntil[e] # 0 /\ paidUntil'[e] >= paidUntil[e])]_cacheVars

\* The list holds exactly the addresses granted and not revoked since, through
\* any sequence of both, and from lists with doubles.
AllowListIsExact == \A e \in Entries : ListedIn(allowList[e]) = granted[e]

\* What the state of the entries is worth, at any time.
EntriesInv == CacheTypeOK /\ PermanentIsPaid /\ AllowListIsExact

\* The part of it that is about expiry, which PaidTimeIsKept rests on.
ExpiryInv ==
  /\ timestamp \in 1 .. MaxUint64
  /\ entryOwner \in [Entries -> Payers \cup {NoAddress}]
  /\ paidUntil \in [Entries -> 0 .. MaxUint64]
  /\ boughtPermanent \in SUBSET Entries
  /\ PermanentIsPaid
  /\ \A e \in boughtPermanent : entryOwner[e] # NoAddress
=============================================================================
