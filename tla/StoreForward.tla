---------------------------- MODULE StoreForward ----------------------------
(***************************************************************************)
(* What the edge agent promises the platform, without queue, batches,      *)
(* retries or crashes: every reading it admits gets the next sequence      *)
(* number; its record is published upstream in the order of its device;    *)
(* and it is settled once, either acknowledged, which needs it published,  *)
(* or abandoned.  An abandoned record may still turn up upstream, from a   *)
(* request the agent had given up on.                                      *)
(***************************************************************************)
EXTENDS Integers

CONSTANTS Devices, MaxSequence

VARIABLES
  origin,    \* device of every sequence assigned
  upstream,  \* sequences published
  fate       \* "none", "acked" or "abandoned"

vars == <<origin, upstream, fate>>

Assigned == DOMAIN origin

\* Earlier records of t's device are out of its way.
InTurn(t) ==
  \A s \in Assigned :
    s < t /\ origin[s] = origin[t] => s \in upstream \/ fate[s] = "abandoned"

Init == origin = << >> /\ upstream = {} /\ fate = << >>

Admit(d) ==
  \E n \in 0..MaxSequence :
    /\ Assigned = 1..n /\ n < MaxSequence
    /\ origin' = [s \in 1..(n + 1) |-> IF s = n + 1 THEN d ELSE origin[s]]
    /\ fate' = [s \in 1..(n + 1) |-> IF s = n + 1 THEN "none" ELSE fate[s]]
    /\ UNCHANGED upstream

Publish(published) ==
  /\ \A t \in published : InTurn(t)
  /\ upstream' = upstream \cup published
  /\ UNCHANGED <<origin, fate>>

Settle(s, how) ==
  /\ fate[s] = "none"
  /\ how = "acked" => s \in upstream
  /\ fate' = [fate EXCEPT ![s] = how]
  /\ UNCHANGED <<origin, upstream>>

Next ==
  \/ \E d \in Devices : Admit(d)
  \/ \E published \in SUBSET Assigned : Publish(published)
  \/ \E s \in Assigned, how \in {"acked", "abandoned"} : Settle(s, how)

Spec == Init /\ [][Next]_vars
=============================================================================
