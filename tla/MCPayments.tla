----------------------------- MODULE MCPayments -----------------------------
(* Small instances of Payments for TLC. *)
EXTENDS Payments, TLC

CONSTANTS h1, h2, h3

Symmetry == Permutations(Handlers)

webhook(r, c, m, cur) == [reference |-> r, customer_id |-> c, amount |-> m, currency |-> cur]

\* A payment, the same reference with another amount, a second payment of the customer, its
\* reference used for a customer without a meter, and a payment in another currency.
MCCommands ==
  {webhook("r1", "ada", 3, "NGN"), webhook("r1", "ada", 1, "NGN"),
   webhook("r2", "ada", 3, "NGN"), webhook("r2", "bola", 3, "NGN"),
   webhook("r3", "ada", 1, "KES")}

\* Two payments of one customer.
TwoTopUps == {webhook("r1", "ada", 3, "NGN"), webhook("r2", "ada", 3, "NGN")}
=============================================================================
