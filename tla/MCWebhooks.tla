----------------------------- MODULE MCWebhooks -----------------------------
(* Instances of Webhooks for TLC. *)
EXTENDS Webhooks, TLC

CONSTANTS ep1, ep2, e1, e2, i1, i2, sealed, expired, p1, p2, t1, t2, d1

\* Every producer's event shares the envelope's id, as evidence.sealed and
\* evidence.expired do.
EnvelopeId == [e \in Events |-> i1]

OneType == [e \in Events |-> sealed]
TwoTypes == [e \in Events |-> IF e = e1 THEN sealed ELSE expired]

Symm == Permutations({t1, t2}) \cup Permutations({ep1, ep2})
=============================================================================
