----------------------------- MODULE RateLimit -----------------------------
(***************************************************************************)
(* The per-minute limits of the API: authenticateApiKey of                 *)
(* lib/server/api-keys.ts, the buckets of rate-limit.ts, and the sweep of  *)
(* rate-limit-sweep.ts that deletes the windows gone by.                   *)
(*                                                                         *)
(* The minute of a bucket is taken from the clock of the instance that     *)
(* runs the request, before the statement that counts it: it may lag       *)
(* behind the fastest of the clocks by MaxLag.                             *)
(***************************************************************************)
EXTENDS Integers, FiniteSets

CONSTANTS
  Calls,            \* API requests
  Ips, ApiKeys,     \* their addresses and keys: the two scopes of a bucket
  BadKey,           \* a header without a valid key
  Limit,            \* Limit[s]: cap of the bucket of s in a minute
  KeepWindows,      \* KEEP_WINDOWS of the sweep
  MaxLag,           \* minutes a request's clock lags behind the table
  MaxMinute         \* bound: no minute after it

RateScopes == Ips \cup ApiKeys

ASSUME RateAssumption ==
  /\ Ips \cap ApiKeys = {} /\ BadKey \notin ApiKeys
  /\ Limit \in [RateScopes -> Nat]
  /\ KeepWindows \in Nat /\ MaxLag \in 0 .. KeepWindows /\ MaxMinute \in Nat

VARIABLES
  minute,           \* of the fastest clock
  count,            \* count[s][w]: request_count of the row, 0 without a row
  call,             \* call[c]: "new", "ip", "find", "key", "served", "limited", "anonymous"
  ip, key,          \* of the request
  windowStart,      \* the minute the request has read for its next bucket
  passed            \* history: passed[s][w]: the requests let through in the window

callVars == <<call, ip, key, windowStart>>
rateVars == <<minute, count, callVars, passed>>

Minutes == 0 .. MaxMinute

RateTypeOK ==
  /\ minute \in Minutes
  /\ count \in [RateScopes -> [Minutes -> Nat]]
  /\ call \in [Calls -> {"new", "ip", "find", "key", "served", "limited", "anonymous"}]
  /\ ip \in [Calls -> Ips] /\ key \in [Calls -> ApiKeys \cup {BadKey}]
  /\ windowStart \in [Calls -> Minutes]
  /\ passed \in [RateScopes -> [Minutes -> SUBSET Calls]]

RateInit ==
  /\ minute = 0
  /\ count = [s \in RateScopes |-> [w \in Minutes |-> 0]]
  /\ call = [c \in Calls |-> "new"]
  /\ ip \in [Calls -> Ips] /\ key \in [Calls -> ApiKeys \cup {BadKey}]
  /\ windowStart = [c \in Calls |-> 0]
  /\ passed = [s \in RateScopes |-> [w \in Minutes |-> {}]]

\* A statement does not stay under way for more minutes than MaxLag.
MinutePasses ==
  /\ minute < MaxMinute
  /\ \A c \in Calls : call[c] \in {"ip", "key"} => minute < windowStart[c] + MaxLag
  /\ minute' = minute + 1
  /\ UNCHANGED <<count, callVars, passed>>

-----------------------------------------------------------------------------
\* The clock of the instance is read for the next bucket.
ReadsClock(c) ==
  \E w \in Minutes : w <= minute /\ minute <= w + MaxLag /\ windowStart' = [windowStart EXCEPT ![c] = w]

ReceiveCall(c) ==
  /\ call[c] = "new"
  /\ ReadsClock(c)
  /\ call' = [call EXCEPT ![c] = "ip"]
  /\ UNCHANGED <<minute, count, ip, key, passed>>

\* One upsert that returns the count after it.
BumpAndCheck(c, s, next) ==
  LET w == windowStart[c] IN
  /\ count' = [count EXCEPT ![s][w] = @ + 1]
  /\ IF count[s][w] + 1 > Limit[s]
       THEN call' = [call EXCEPT ![c] = "limited"] /\ UNCHANGED passed
       ELSE /\ call' = [call EXCEPT ![c] = next]
            /\ passed' = [passed EXCEPT ![s][w] = @ \cup {c}]

EnforceIpRateLimit(c) ==
  /\ call[c] = "ip"
  /\ BumpAndCheck(c, ip[c], "find")
  /\ UNCHANGED <<minute, ip, key, windowStart>>

\* Without a valid key the request goes on as anonymous; the key's bucket
\* takes its minute from a clock read anew.
FindKey(c) ==
  /\ call[c] = "find"
  /\ IF key[c] = BadKey
       THEN call' = [call EXCEPT ![c] = "anonymous"] /\ UNCHANGED windowStart
       ELSE call' = [call EXCEPT ![c] = "key"] /\ ReadsClock(c)
  /\ UNCHANGED <<minute, count, ip, key, passed>>

EnforceApiKeyRateLimit(c) ==
  /\ call[c] = "key"
  /\ BumpAndCheck(c, key[c], "served")
  /\ UNCHANGED <<minute, ip, key, windowStart>>

\* Mutant: only the current minute is kept.
MutSweepWindows ==
  /\ \E gone \in SUBSET {w \in Minutes : w < minute} :
       count' = [s \in RateScopes |-> [w \in Minutes |-> IF w \in gone THEN 0 ELSE count[s][w]]]
  /\ UNCHANGED <<minute, callVars, passed>>

\* Any of the windows behind the cutoff: the batches of one sweep, of which
\* the last may be short of some.
SweepWindows ==
  /\ \E gone \in SUBSET {w \in Minutes : w < minute - KeepWindows} :
       count' = [s \in RateScopes |-> [w \in Minutes |-> IF w \in gone THEN 0 ELSE count[s][w]]]
  /\ UNCHANGED <<minute, callVars, passed>>

RateNext ==
  \/ MinutePasses \/ SweepWindows
  \/ \E c \in Calls :
       ReceiveCall(c) \/ EnforceIpRateLimit(c) \/ FindKey(c) \/ EnforceApiKeyRateLimit(c)

RateSpec == RateInit /\ [][RateNext]_rateVars

-----------------------------------------------------------------------------
(* What the limits promise. *)

\* No bucket lets more requests through in a window than its cap, with clocks
\* that differ and statements that are late, because the sweep leaves every
\* window alone that a request under way may still count in.
WithinLimit == \A s \in RateScopes, w \in Minutes : Cardinality(passed[s][w]) <= Limit[s]

\* Every request that goes on, with or without a valid key, has been counted
\* for its address first: the cap of the address bounds the anonymous ones and
\* those with a wrong key.
AddressFirst ==
  \A c \in Calls : call[c] \in {"find", "key", "served", "anonymous"} =>
    \E w \in Minutes : c \in passed[ip[c]][w]

\* The two, and what they rest on: a window that is not swept has counted what
\* it let through, and one that is swept is beyond every request under way.
RateInv ==
  /\ RateTypeOK /\ WithinLimit /\ AddressFirst
  /\ \A s \in RateScopes, w \in Minutes :
       /\ IsFiniteSet(passed[s][w])
       /\ w >= minute - KeepWindows => Cardinality(passed[s][w]) <= count[s][w]
  /\ \A c \in Calls :
       /\ call[c] \in {"ip", "key"} => windowStart[c] <= minute /\ minute <= windowStart[c] + MaxLag
       /\ call[c] = "key" => key[c] # BadKey
=============================================================================
