------------------------ MODULE MCCriticalConditions ------------------------
(* Small instances of CriticalConditions for TLC. *)
EXTENDS CriticalConditions

CONSTANTS c1, c2
=============================================================================
