----------------------------- MODULE MCExports -----------------------------
(* Instances of Exports for TLC. *)
EXTENDS Exports, TLC

CONSTANTS j1, j2, s1, s2
=============================================================================
