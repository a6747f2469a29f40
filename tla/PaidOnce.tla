------------------------------ MODULE PaidOnce ------------------------------
(***************************************************************************)
(* What a deposit is, seen from outside: an open payable is confirmed by   *)
(* the reference of a payment that no payable is recorded with, and        *)
(* credited once. The two may be one step (the watcher's transaction) or   *)
(* two (the confirm request). Two references may name one payment.         *)
(***************************************************************************)
CONSTANTS Payables, Payments, None

VARIABLES phase, paidBy

Init ==
  /\ phase = [p \in Payables |-> "absent"]
  /\ paidBy = [p \in Payables |-> None]

Move(p, from, to) == phase[p] = from /\ phase' = [phase EXCEPT ![p] = to]

Pay(p, m) ==
  /\ \A q \in Payables : paidBy[q] # m
  /\ paidBy' = [paidBy EXCEPT ![p] = m]

Open(p) == Move(p, "absent", "pending") /\ UNCHANGED paidBy
Confirm(p, m) == Move(p, "pending", "confirmed") /\ Pay(p, m)
Credit(p) == Move(p, "confirmed", "credited") /\ UNCHANGED paidBy
ConfirmAndCredit(p, m) == Move(p, "pending", "credited") /\ Pay(p, m)

Next ==
  \E p \in Payables :
    \/ Open(p) \/ Credit(p)
    \/ \E m \in Payments : Confirm(p, m) \/ ConfirmAndCredit(p, m)

Spec == Init /\ [][Next]_<<phase, paidBy>>
=============================================================================
