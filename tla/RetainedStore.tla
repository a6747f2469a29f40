--------------------------- MODULE RetainedStore ---------------------------
(***************************************************************************)
(* What a stored record is promised: the day it will expire is fixed when  *)
(* it is stored, it stays until that day has passed, and once removed it   *)
(* does not come back.                                                     *)
(***************************************************************************)
EXTENDS Naturals

CONSTANTS Records, Windows

VARIABLES today, state, until

Init ==
  /\ today = 0
  /\ state = [e \in Records |-> "absent"]
  /\ until = [e \in Records |-> 0]

Pass == today' = today + 1 /\ UNCHANGED <<state, until>>

Store(e) ==
  /\ state[e] = "absent"
  /\ state' = [state EXCEPT ![e] = "stored"]
  /\ \E w \in Windows : until' = [until EXCEPT ![e] = today + w]
  /\ UNCHANGED today

\* Several records may go at once.
Remove ==
  /\ \E s \in SUBSET {e \in Records : state[e] = "stored" /\ until[e] < today} :
       state' = [e \in Records |-> IF e \in s THEN "gone" ELSE state[e]]
  /\ UNCHANGED <<today, until>>

Next == Pass \/ Remove \/ \E e \in Records : Store(e)

Spec == Init /\ [][Next]_<<today, state, until>>
=============================================================================
