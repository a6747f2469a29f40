--------------------------- MODULE DonationEscrow ---------------------------
(***************************************************************************)
(* The contract that forwards donations, contracts/evm/src/                *)
(* DonationEscrow.sol.  A donation updates the total of its target and     *)
(* then calls the treasury, which may be a contract and may call back      *)
(* before it returns: a call is two steps, and the calls in progress form  *)
(* a stack.  A call that fails takes back all that was done since it       *)
(* began, also by the calls it made.                                       *)
(***************************************************************************)
EXTENDS Integers, Sequences

CONSTANTS
  Holders,          \* addresses that may hold the treasury
  NoHolder,         \* address(0)
  Targets,          \* CIDs and chains, each with its total
  NoTarget,         \* the recipient that has no total
  Gifts,            \* values of a donation
  MaxForwarded,     \* bound: not more than this is donated
  MaxDepth          \* bound: no more calls one within the other

ASSUME DonationAssumption ==
  /\ NoHolder \notin Holders /\ NoTarget \notin Targets
  /\ Gifts \subseteq Nat \ {0} /\ MaxForwarded \in Nat /\ MaxDepth \in Nat

VARIABLES
  totals,           \* cidDonations and chainDonations
  treasury, pendingTreasury, paused,
  forwarded,        \* forwarded[t]: value sent to a treasury for t
  calls             \* calls in progress, innermost last, each with the state
                    \* at its beginning

storage == <<totals, treasury, pendingTreasury, paused>>
donationVars == <<storage, forwarded, calls>>

Recipients == Targets \cup {NoTarget}

StorageStates ==
  [totals : [Targets -> Nat], treasury : Holders,
   pending : Holders \cup {NoHolder}, paused : BOOLEAN, forwarded : [Recipients -> Nat]]

DonationTypeOK ==
  /\ totals \in [Targets -> Nat]
  /\ treasury \in Holders /\ pendingTreasury \in Holders \cup {NoHolder}
  /\ paused \in BOOLEAN
  /\ forwarded \in [Recipients -> Nat]
  /\ calls \in Seq([to : Recipients, value : Gifts, before : StorageStates])

DonationInit ==
  /\ totals = [t \in Targets |-> 0]
  /\ treasury \in Holders /\ pendingTreasury = NoHolder /\ paused = FALSE
  /\ forwarded = [t \in Recipients |-> 0]
  /\ calls = <<>>

Snapshot ==
  [totals |-> totals, treasury |-> treasury, pending |-> pendingTreasury,
   paused |-> paused, forwarded |-> forwarded]

-----------------------------------------------------------------------------
SetDonationTreasury(h, next) ==
  /\ h = treasury
  /\ pendingTreasury' = next
  /\ UNCHANGED <<totals, treasury, paused, forwarded, calls>>

AcceptDonationTreasury(h) ==
  /\ h = pendingTreasury
  /\ treasury' = h /\ pendingTreasury' = NoHolder
  /\ UNCHANGED <<totals, paused, forwarded, calls>>

SetDonationsPaused(h, on) ==
  /\ h = treasury
  /\ paused' = on
  /\ UNCHANGED <<totals, treasury, pendingTreasury, forwarded, calls>>

Credit(to, value) ==
  totals' = IF to \in Targets THEN [totals EXCEPT ![to] = @ + value] ELSE totals

MayDonate(to, value) ==
  /\ ~paused /\ Len(calls) < MaxDepth
  /\ forwarded[to] + value <= MaxForwarded

\* Mutant: the total is left for after the call.
MutDonate(to, value) ==
  /\ MayDonate(to, value)
  /\ forwarded' = [forwarded EXCEPT ![to] = @ + value]
  /\ calls' = Append(calls, [to |-> to, value |-> value, before |-> Snapshot])
  /\ UNCHANGED storage

\* Effects first, then the value goes to the treasury of this moment, whose
\* code runs until the call returns or fails.
Donate(to, value) ==
  /\ MayDonate(to, value)
  /\ Credit(to, value)
  /\ forwarded' = [forwarded EXCEPT ![to] = @ + value]
  /\ calls' = Append(calls, [to |-> to, value |-> value, before |-> Snapshot])
  /\ UNCHANGED <<treasury, pendingTreasury, paused>>

TreasuryReturns ==
  /\ calls # <<>>
  /\ calls' = SubSeq(calls, 1, Len(calls) - 1)
  /\ UNCHANGED <<storage, forwarded>>

\* The state is that of before the call: the transaction, or the call of a
\* treasury that catches the failure, reverts.
TreasuryFails ==
  /\ calls # <<>>
  /\ LET before == calls[Len(calls)].before IN
       /\ totals' = before.totals /\ treasury' = before.treasury
       /\ pendingTreasury' = before.pending /\ paused' = before.paused
       /\ forwarded' = before.forwarded
  /\ calls' = SubSeq(calls, 1, Len(calls) - 1)

-----------------------------------------------------------------------------
DonationNext ==
  \/ \E h \in Holders :
       \/ \E next \in Holders : SetDonationTreasury(h, next)
       \/ AcceptDonationTreasury(h)
       \/ \E on \in BOOLEAN : SetDonationsPaused(h, on)
  \/ \E to \in Recipients, value \in Gifts : Donate(to, value)
  \/ TreasuryReturns \/ TreasuryFails

DonationSpec == DonationInit /\ [][DonationNext]_donationVars

-----------------------------------------------------------------------------
(* What the contract promises. *)

\* The total of a target is what has been forwarded for it, at every moment:
\* also while the treasury runs, which may read it or donate itself, and after
\* any of the calls in progress has failed.
TotalsAreForwarded == \A t \in Targets : totals[t] = forwarded[t]

\* The strengthening: so it was when each of the calls in progress began.
DonationInv ==
  /\ DonationTypeOK /\ TotalsAreForwarded
  /\ \A i \in 1 .. Len(calls) : \A t \in Targets :
       calls[i].before.totals[t] = calls[i].before.forwarded[t]
=============================================================================
