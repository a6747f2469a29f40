----------------------------- MODULE RetryQueue -----------------------------
(***************************************************************************)
(* What a delivery is, whoever works on it: it is attempted at most        *)
(* MaxAttempts times, every attempt is counted, and a delivery that has    *)
(* succeeded is never attempted again, unless its owner asks for it.  From *)
(* then on its attempts may be more, or counted wrong, but a success is    *)
(* still never forgotten.                                                  *)
(***************************************************************************)
EXTENDS Naturals

CONSTANTS Items, MaxAttempts

VARIABLES queued, asked, attempts, delivered

Init ==
  /\ queued = [i \in Items |-> FALSE]
  /\ asked = [i \in Items |-> FALSE]
  /\ attempts = [i \in Items |-> 0]
  /\ delivered = [i \in Items |-> FALSE]

\* One call may queue several items.
Enqueue ==
  /\ \E s \in SUBSET Items :
       queued' = [i \in Items |-> queued[i] \/ i \in s]
  /\ UNCHANGED <<asked, attempts, delivered>>

Attempt(i) ==
  /\ queued[i] /\ ~asked[i] /\ ~delivered[i] /\ attempts[i] < MaxAttempts
  /\ attempts' = [attempts EXCEPT ![i] = @ + 1]
  /\ \E ok \in BOOLEAN : delivered' = [delivered EXCEPT ![i] = ok]
  /\ UNCHANGED <<queued, asked>>

Ask(i) ==
  /\ queued[i]
  /\ asked' = [asked EXCEPT ![i] = TRUE]
  /\ UNCHANGED <<queued, attempts, delivered>>

AttemptAgain(i) ==
  /\ asked[i]
  /\ attempts' = [attempts EXCEPT ![i] = attempts'[i]] /\ attempts'[i] \in Nat
  /\ \E ok \in BOOLEAN : delivered' = [delivered EXCEPT ![i] = @ \/ ok]
  /\ UNCHANGED <<queued, asked>>

Next == Enqueue \/ \E i \in Items : Attempt(i) \/ Ask(i) \/ AttemptAgain(i)

Spec == Init /\ [][Next]_<<queued, asked, attempts, delivered>>
=============================================================================
