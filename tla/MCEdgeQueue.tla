----------------------------- MODULE MCEdgeQueue -----------------------------
(* Small instances of EdgeQueue for TLC. *)
EXTENDS EdgeQueue, TLC

CONSTANTS d1, d2, tamper, outage

Symmetry == Permutations({d1, d2})
=============================================================================
