---------------------------- MODULE PrepaidOrder ----------------------------
(***************************************************************************)
(* What an anchoring job is to the account that pays for it: an order that *)
(* is refused, or paid out of a balance that covers it, and then either    *)
(* settled or refunded, never both.  Each change of the balance and of the *)
(* order is one step.                                                      *)
(***************************************************************************)
EXTENDS Integers

CONSTANTS Accounts, Orders, OwnerOf, Prices

VARIABLES balance, price, phase

Init ==
  /\ balance = [a \in Accounts |-> 0]
  /\ price = [o \in Orders |-> 0]
  /\ phase = [o \in Orders |-> "none"]

Move(o, from, to) == phase[o] = from /\ phase' = [phase EXCEPT ![o] = to]

Add(a, n) == balance' = [balance EXCEPT ![a] = @ + n]

Deposit(a) ==
  /\ balance'[a] >= balance[a]
  /\ balance' = [balance EXCEPT ![a] = balance'[a]]
  /\ UNCHANGED <<price, phase>>

Open(o) ==
  /\ Move(o, "none", "open")
  /\ \E p \in Prices : price' = [price EXCEPT ![o] = p]
  /\ UNCHANGED balance

Refuse(o) == Move(o, "open", "refused") /\ UNCHANGED <<balance, price>>

Pay(o) ==
  /\ price[o] > 0 /\ price[o] <= balance[OwnerOf[o]]
  /\ Move(o, "open", "paid")
  /\ Add(OwnerOf[o], -price[o])
  /\ UNCHANGED price

Settle(o) ==
  /\ \/ Move(o, "paid", "settled")
     \/ price[o] = 0 /\ Move(o, "open", "settled")
  /\ UNCHANGED <<balance, price>>

Refund(o) ==
  /\ Move(o, "paid", "refunded")
  /\ Add(OwnerOf[o], price[o])
  /\ UNCHANGED price

Next ==
  \/ \E a \in Accounts : Deposit(a)
  \/ \E o \in Orders : Open(o) \/ Refuse(o) \/ Pay(o) \/ Settle(o) \/ Refund(o)

Spec == Init /\ [][Next]_<<balance, price, phase>>
=============================================================================
