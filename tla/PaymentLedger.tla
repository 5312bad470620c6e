---------------------------- MODULE PaymentLedger ----------------------------
(***************************************************************************)
(* What the revenue core promises a payment provider and the grid, without  *)
(* transactions, locks or retries: a provider reference is applied at most  *)
(* once, its credit reaches the balance of the payer's assignment in the    *)
(* same step, and every positive answer, the first or a repeated one, shows *)
(* the payment as it was applied.                                           *)
(***************************************************************************)
EXTENDS Integers

CONSTANTS
  References,   \* external references of the provider
  Assignments,  \* meter assignments
  Credits       \* records [assignment_id, kwh_granted, money_value]

VARIABLES
  applied,   \* reference -> the credit it was applied with
  balances,  \* assignment -> [kwh, money]
  answers    \* [reference, credit] pairs answered with success

vars == <<applied, balances, answers>>

Init ==
  /\ applied = << >>
  /\ balances = [a \in Assignments |-> [kwh |-> 0, money |-> 0]]
  /\ answers = {}

Apply(r, credit) ==
  /\ r \notin DOMAIN applied
  /\ credit.kwh_granted > 0
  /\ applied' = [x \in DOMAIN applied \cup {r} |-> IF x = r THEN credit ELSE applied[x]]
  /\ balances' = [balances EXCEPT ![credit.assignment_id] =
       [kwh |-> @.kwh + credit.kwh_granted, money |-> @.money + credit.money_value]]
  /\ answers' \in {answers, answers \cup {[reference |-> r, credit |-> credit]}}

Answer(r) ==
  /\ r \in DOMAIN applied
  /\ answers' = answers \cup {[reference |-> r, credit |-> applied[r]]}
  /\ UNCHANGED <<applied, balances>>

Next ==
  \/ \E r \in References, credit \in Credits : Apply(r, credit)
  \/ \E r \in References : Answer(r)

Spec == Init /\ [][Next]_vars
=============================================================================
