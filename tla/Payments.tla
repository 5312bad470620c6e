------------------------------ MODULE Payments ------------------------------
(***************************************************************************)
(* The API's ApplyPayment action: provider webhooks, possibly repeated and   *)
(* concurrent, each handled in one READ COMMITTED transaction that records    *)
(* the payment, issues the energy credit, raises the balance and reconnects   *)
(* a meter that was cut off.                                                 *)
(*                                                                          *)
(* One step is one statement that another transaction can tell apart from    *)
(* its neighbours.  What a transaction writes stays in its handler until the  *)
(* commit publishes it; the two statements that lock wait for the holder.     *)
(* All webhooks come from one provider, and each customer has at most one     *)
(* open assignment, which is also the name of its meter.                      *)
(***************************************************************************)
EXTENDS Integers, Sequences, FiniteSets, FiniteSetsExt

CONSTANTS
  Handlers,     \* HTTP requests served at the same time
  References,   \* external_reference values
  Customers,
  Assigned,     \* customers with an open meter assignment
  Amounts,      \* amount_minor_units a webhook may carry
  Prices,       \* tariffs that may be in force: minor units per smallest unit of energy
  Currencies, TariffCurrency,
  Commands      \* the webhooks the provider sends, possibly more than once

ASSUME PaymentAssumption ==
  /\ Assigned \subseteq Customers
  /\ Amounts \subseteq Nat \ {0} /\ Prices \subseteq Nat \ {0}
  /\ TariffCurrency \in Currencies
  /\ Commands \subseteq [reference : References, customer_id : Customers,
                         amount : Amounts, currency : Currencies]

VARIABLES
  payments,           \* reference -> the command that was applied
  energy_credits,     \* reference -> the credits issued for its payment
  credit_balances,    \* customer's assignment -> [kwh, money], zero without a row
  meter_commands,     \* [reference, meter] of each ReconnectMeter command
  outbox,             \* [type, reference] of each event written with the payment
  smart_meter_state,  \* meter -> "closed", "open" or "unknown" (no state row)
  handlers,           \* handler -> where its transaction is and what it holds
  answers,            \* history: [reference, credit] of every positive answer
  cutOff              \* history: meters whose relay has been open from the start

tables == <<payments, energy_credits, credit_balances, meter_commands, outbox>>
vars == <<tables, smart_meter_state, handlers, answers, cutOff>>

-----------------------------------------------------------------------------
(* Helpers *)

\* kwh_granted is stored as a numeric, rounded half away from zero to its last digit.
kwhGranted(amount, price) == (2 * amount + price) \div (2 * price)

Credits ==
  [assignment_id : Assigned,
   kwh_granted : {kwhGranted(m, p) : m \in Amounts, p \in Prices} \ {0},
   money_value : Amounts]

HandlerIdle == [pc |-> "idle"]

\* Where a transaction is once its own payment row is written.
Inserted == {"terms", "prior", "upsert", "commit"}

\* Handlers whose uncommitted transaction has inserted the payment of r.
Inserting(r) ==
  {h \in Handlers : handlers[h].pc \in Inserted /\ handlers[h].command.reference = r}

\* Handlers that hold the row lock on the balance of a.
Crediting(a) ==
  {h \in Handlers : handlers[h].pc = "commit" /\ handlers[h].command.customer_id = a}

\* ReplayPriorResult: the credit of the payment, as it was issued.
PriorResult(r) == [reference |-> r, credit |-> Head(energy_credits[r])]

\* RETURNING of the upsert, inside the row lock.
Raised(state) ==
  LET b == credit_balances[state.command.customer_id] IN
  [kwh |-> b.kwh + state.credit.kwh_granted, money |-> b.money + state.credit.money_value]

Goto(h, state) == handlers' = [handlers EXCEPT ![h] = state]

-----------------------------------------------------------------------------
(* applyPayment, statement by statement *)

\* A verified, parsed and valid webhook starts a transaction.
Receive(h, command) ==
  /\ handlers[h] = HandlerIdle
  /\ Goto(h, [pc |-> "find", command |-> command])
  /\ UNCHANGED <<tables, smart_meter_state, answers, cutOff>>

\* FindExistingPayment, first of all and again after a lost insert: a known reference is
\* answered with its prior result, or refused when the command differs.
FindExistingPayment(h) ==
  LET command == handlers[h].command
      r == command.reference
      known == r \in DOMAIN payments
  IN
  /\ handlers[h].pc \in {"find", "again"}
  /\ Goto(h, IF ~known /\ handlers[h].pc = "find"
               THEN [pc |-> "insert", command |-> command] ELSE HandlerIdle)
  /\ answers' = IF known /\ payments[r] = command
                  THEN answers \cup {PriorResult(r)} ELSE answers
  /\ UNCHANGED <<tables, smart_meter_state, cutOff>>

MutInsertPayment(h) ==
  LET command == handlers[h].command IN
  /\ handlers[h].pc = "insert"
  /\ Goto(h, [pc |-> "terms", command |-> command])
  /\ UNCHANGED <<tables, smart_meter_state, answers, cutOff>>

\* INSERT ... ON CONFLICT DO NOTHING waits for an uncommitted row of the same reference.
InsertPayment(h) ==
  LET command == handlers[h].command IN
  /\ handlers[h].pc = "insert"
  /\ Inserting(command.reference) = {}
  /\ Goto(h, [pc |-> IF command.reference \in DOMAIN payments THEN "again" ELSE "terms",
              command |-> command])
  /\ UNCHANGED <<tables, smart_meter_state, answers, cutOff>>

\* FindActiveAssignment (a missing relay state counts as closed), FindActiveTariff and
\* InsertEnergyCredit.  No assignment, another currency or a credit that rounds to nothing
\* ends the transaction.
ReadTerms(h, price) ==
  LET command == handlers[h].command
      kwh == kwhGranted(command.amount, price)
  IN
  /\ handlers[h].pc = "terms"
  /\ Goto(h, IF command.customer_id \in Assigned /\ command.currency = TariffCurrency /\ kwh > 0
       THEN [pc |-> "prior", command |-> command,
             relay_closed |-> smart_meter_state[command.customer_id] # "open",
             credit |-> [assignment_id |-> command.customer_id, kwh_granted |-> kwh,
                         money_value |-> command.amount]]
       ELSE HandlerIdle)
  /\ UNCHANGED <<tables, smart_meter_state, answers, cutOff>>

MutGetPriorBalance(h) ==
  LET state == handlers[h] IN
  /\ state.pc = "prior"
  /\ Goto(h, [pc |-> "upsert", command |-> state.command, relay_closed |-> state.relay_closed,
              credit |-> state.credit, prior |-> Raised(state).kwh])
  /\ UNCHANGED <<tables, smart_meter_state, answers, cutOff>>

\* A plain SELECT: it locks nothing and sees what is committed now.
GetPriorBalance(h) ==
  LET state == handlers[h] IN
  /\ state.pc = "prior"
  /\ Goto(h, [pc |-> "upsert", command |-> state.command, relay_closed |-> state.relay_closed,
              credit |-> state.credit, prior |-> credit_balances[state.command.customer_id].kwh])
  /\ UNCHANGED <<tables, smart_meter_state, answers, cutOff>>

\* INSERT ... ON CONFLICT DO UPDATE takes the row lock and holds it to the end.
UpsertCreditBalance(h) ==
  /\ handlers[h].pc = "upsert"
  /\ Crediting(handlers[h].command.customer_id) = {}
  /\ Goto(h, [handlers[h] EXCEPT !.pc = "commit"])
  /\ UNCHANGED <<tables, smart_meter_state, answers, cutOff>>

\* Only on an empty-to-positive transition of a meter that reports an open relay.
needsReconnect(state) ==
  ~state.relay_closed /\ state.prior = 0 /\ Raised(state).kwh > 0

MutCommit(h, answered) ==
  LET state == handlers[h]
      r == state.command.reference
      a == state.command.customer_id
      put(f, v) == [x \in DOMAIN f \cup {r} |-> IF x = r THEN v ELSE f[x]]
  IN
  /\ state.pc = "commit"
  /\ payments' = put(payments, state.command)
  /\ energy_credits' = put(energy_credits, <<state.credit>>)
  /\ credit_balances' = [credit_balances EXCEPT ![a] =
       [kwh |-> state.prior + state.credit.kwh_granted,
        money |-> @.money + state.credit.money_value]]
  /\ meter_commands' = IF needsReconnect(state)
       THEN meter_commands \cup {[reference |-> r, meter |-> a]} ELSE meter_commands
  /\ outbox' = outbox \cup {[type |-> t, reference |-> r] :
       t \in {"payment.confirmed", "credit.issued"}
               \cup IF needsReconnect(state) THEN {"meter.command.requested"} ELSE {}}
  /\ answers' = IF answered THEN answers \cup {[reference |-> r, credit |-> state.credit]}
                            ELSE answers
  /\ Goto(h, HandlerIdle)
  /\ UNCHANGED <<smart_meter_state, cutOff>>

\* The two events, the meter command with its event, the audit row, and the commit that
\* publishes all the transaction wrote.  The answer may be lost.
Commit(h, answered) ==
  LET state == handlers[h]
      r == state.command.reference
      a == state.command.customer_id
      put(f, v) == [x \in DOMAIN f \cup {r} |-> IF x = r THEN v ELSE f[x]]
  IN
  /\ state.pc = "commit"
  /\ payments' = put(payments, state.command)
  /\ energy_credits' = put(energy_credits,
       IF r \in DOMAIN energy_credits THEN Append(energy_credits[r], state.credit)
                                      ELSE <<state.credit>>)
  /\ credit_balances' = [credit_balances EXCEPT ![a] = Raised(state)]
  /\ meter_commands' = IF needsReconnect(state)
       THEN meter_commands \cup {[reference |-> r, meter |-> a]} ELSE meter_commands
  /\ outbox' = outbox \cup {[type |-> t, reference |-> r] :
       t \in {"payment.confirmed", "credit.issued"}
               \cup IF needsReconnect(state) THEN {"meter.command.requested"} ELSE {}}
  /\ answers' = IF answered THEN answers \cup {[reference |-> r, credit |-> state.credit]}
                            ELSE answers
  /\ Goto(h, HandlerIdle)
  /\ UNCHANGED <<smart_meter_state, cutOff>>

\* A statement fails, the request's deadline passes, or the process dies.
Rollback(h) ==
  /\ handlers[h] # HandlerIdle
  /\ Goto(h, HandlerIdle)
  /\ UNCHANGED <<tables, smart_meter_state, answers, cutOff>>

\* The engine commits a reading of the meter.
RelayReported(m, relay) ==
  /\ smart_meter_state[m] # relay
  /\ smart_meter_state' = [smart_meter_state EXCEPT ![m] = relay]
  /\ cutOff' = cutOff \ {m}
  /\ UNCHANGED <<tables, handlers, answers>>

-----------------------------------------------------------------------------
(* Specification *)

Init ==
  /\ payments = << >> /\ energy_credits = << >>
  /\ credit_balances = [a \in Assigned |-> [kwh |-> 0, money |-> 0]]
  /\ meter_commands = {} /\ outbox = {}
  /\ smart_meter_state \in [Assigned -> {"closed", "open", "unknown"}]
  /\ handlers = [h \in Handlers |-> HandlerIdle]
  /\ answers = {}
  /\ cutOff = {m \in Assigned : smart_meter_state[m] = "open"}

Next ==
  \/ \E h \in Handlers :
       \/ \E command \in Commands : Receive(h, command)
       \/ FindExistingPayment(h)
       \/ InsertPayment(h)
       \/ \E price \in Prices : ReadTerms(h, price)
       \/ GetPriorBalance(h)
       \/ UpsertCreditBalance(h)
       \/ \E answered \in BOOLEAN : Commit(h, answered)
       \/ Rollback(h)
  \/ \E m \in Assigned, relay \in {"closed", "open"} : RelayReported(m, relay)

Spec == Init /\ [][Next]_vars

-----------------------------------------------------------------------------
(* Properties *)

\* What a handler holds: nothing, a command, the terms and credit, and the prior balance.
Deciding == [pc : {"find", "again", "insert", "terms"}, command : Commands]
Granting == [pc : {"prior"}, command : Commands, relay_closed : BOOLEAN, credit : Credits]
Writing == [pc : {"upsert", "commit"}, command : Commands, relay_closed : BOOLEAN,
            credit : Credits, prior : Nat]
HandlerStates == {HandlerIdle} \cup Deciding \cup Granting \cup Writing

\* Type invariant: rows of their schema, one credit list per payment, non-negative balances.
TypeOK ==
  /\ DOMAIN payments \subseteq References /\ DOMAIN energy_credits = DOMAIN payments
  /\ payments \in [DOMAIN payments -> Commands]
  /\ energy_credits \in [DOMAIN payments -> Seq(Credits)]
  /\ credit_balances \in [Assigned -> [kwh : Nat, money : Nat]]
  /\ meter_commands \subseteq [reference : References, meter : Assigned]
  /\ outbox \subseteq [type : {"payment.confirmed", "credit.issued", "meter.command.requested"},
                       reference : References]
  /\ smart_meter_state \in [Assigned -> {"closed", "open", "unknown"}]
  /\ handlers \in [Handlers -> HandlerStates]
  /\ answers \subseteq [reference : References, credit : Credits]
  /\ cutOff \subseteq Assigned

CreditsOf(a) ==
  {r \in DOMAIN payments : payments[r].customer_id = a}

\* The books agree whatever commits, repeats and rollbacks come together: each payment has one
\* credit and its events, and each balance is the sum of the credits of its assignment.
LedgerBalances ==
  /\ \A r \in DOMAIN payments :
       /\ Len(energy_credits[r]) = 1
       /\ \A t \in {"payment.confirmed", "credit.issued"} : [type |-> t, reference |-> r] \in outbox
  /\ \A a \in Assigned : credit_balances[a] =
       [kwh |-> MapThenSumSet(LAMBDA r : Head(energy_credits[r]).kwh_granted, CreditsOf(a)),
        money |-> MapThenSumSet(LAMBDA r : payments[r].amount, CreditsOf(a))]

\* Every positive answer, the first or a repeated one, shows the one credit that is on file,
\* and no answer was given for a payment that is not.
ReplayAgrees ==
  \A x \in answers :
    x.reference \in DOMAIN payments /\ energy_credits[x.reference] = <<x.credit>>

\* A meter that has been off from the start and has credit has a reconnect command and its
\* event, however its first payments overlapped.
CutOffMeterReconnected ==
  \A m \in cutOff : credit_balances[m].kwh > 0 =>
    \E c \in meter_commands :
      c.meter = m /\ [type |-> "meter.command.requested", reference |-> c.reference] \in outbox

Ledger == INSTANCE PaymentLedger WITH
  Assignments <- Assigned,
  applied <- [r \in DOMAIN payments |-> Head(energy_credits[r])],
  balances <- credit_balances

\* The concurrent transactions implement PaymentLedger: a reference is applied once, with its
\* balance in the same step.
ImplementsLedger == Ledger!Spec

-----------------------------------------------------------------------------
(* The inductive invariant behind the theorems of PaymentsProofs *)

\* No payment is on file for the reference of state, and no other transaction inserts one.
Alone(h, state) ==
  /\ state.command.reference \notin DOMAIN payments
  /\ \A g \in Handlers \ {h} : handlers[g].pc \in Inserted =>
       handlers[g].command.reference # state.command.reference

\* The credit is the payer's; an assignment without balance was empty when its prior balance
\* was read; and a meter off from the start was off when the terms were read.
Sound(state) ==
  LET a == state.command.customer_id IN
  /\ state.credit.assignment_id = a
  /\ state.pc # "prior" /\ credit_balances[a].kwh = 0 => state.prior = 0
  /\ a \in cutOff => ~state.relay_closed

ReferenceInv == \A h \in Handlers : handlers[h].pc \in Inserted => Alone(h, handlers[h])

GrantInv == \A h \in Handlers : handlers[h].pc \in Inserted \ {"terms"} => Sound(handlers[h])

OneCredit == \A r \in DOMAIN payments : Len(energy_credits[r]) = 1

CutOffInv == \A m \in cutOff : smart_meter_state[m] = "open"

IndInv ==
  /\ TypeOK /\ ReferenceInv /\ OneCredit /\ GrantInv /\ CutOffInv
  /\ ReplayAgrees /\ CutOffMeterReconnected

-----------------------------------------------------------------------------
(* What a comment of the repository says, and the code does not do *)

\* payments.go: "later top-ups must not enqueue duplicate commands for a meter that is already
\* being restored".
OneReconnect ==
  \A c, d \in meter_commands : c.meter = d.meter => c = d

=============================================================================
