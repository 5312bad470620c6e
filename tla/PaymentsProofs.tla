--------------------------- MODULE PaymentsProofs ---------------------------
(* The payment transactions, for any handlers, references, customers, amounts and tariffs. *)
EXTENDS Payments, TLAPS

\* What a handler holds at each place of its transaction.
LEMMA HandlerFields ==
  ASSUME TypeOK, NEW h \in Handlers
  PROVE  /\ handlers[h].pc \in {"find", "again", "insert", "terms"} => handlers[h] \in Deciding
         /\ handlers[h].pc = "prior" => handlers[h] \in Granting
         /\ handlers[h].pc \in {"upsert", "commit"} => handlers[h] \in Writing
         /\ handlers[h] # HandlerIdle => handlers[h].command \in Commands
  BY DEF TypeOK, HandlerStates, HandlerIdle, Deciding, Granting, Writing

\* A rounded credit is a natural number.
LEMMA kwhGrantedType ==
  ASSUME NEW amount \in Amounts, NEW price \in Prices
  PROVE  kwhGranted(amount, price) \in Nat
<1>1. amount \in Nat /\ price \in Nat \ {0}
  BY PaymentAssumption
<1>2. 2 * amount + price \in Nat /\ 2 * price \in Nat \ {0}
  BY <1>1
<1> QED
  BY <1>2 DEF kwhGranted

\* Credits are positive amounts of energy and of money.
LEMMA CreditsType ==
  ASSUME NEW credit \in Credits
  PROVE  credit.assignment_id \in Assigned /\ credit.kwh_granted \in Nat \ {0}
           /\ credit.money_value \in Nat
<1>1. PICK m \in Amounts, p \in Prices : credit.kwh_granted = kwhGranted(m, p)
  BY DEF Credits
<1>2. credit.kwh_granted \in Nat
  BY <1>1, kwhGrantedType
<1>3. credit.kwh_granted # 0 /\ credit.assignment_id \in Assigned /\ credit.money_value \in Amounts
  BY DEF Credits
<1> QED
  BY <1>2, <1>3, PaymentAssumption

LEMMA InitInv == Init => IndInv
<1> SUFFICES ASSUME Init PROVE IndInv
  OBVIOUS
<1>1. DOMAIN payments = {} /\ DOMAIN energy_credits = {}
  BY DEF Init
<1>2. \A h \in Handlers : handlers[h] = HandlerIdle
  BY DEF Init
<1>3. TypeOK
  <2>1. handlers \in [Handlers -> HandlerStates]
    BY DEF Init, HandlerStates
  <2>2. payments \in [DOMAIN payments -> Commands]
    BY <1>1 DEF Init
  <2>3. energy_credits \in [DOMAIN payments -> Seq(Credits)]
    BY <1>1 DEF Init
  <2> QED
    BY <1>1, <2>1, <2>2, <2>3 DEF Init, TypeOK
<1>4. ReferenceInv /\ GrantInv
  BY <1>2 DEF ReferenceInv, GrantInv, HandlerIdle, Inserted
<1>5. OneCredit /\ CutOffInv
  BY <1>1 DEF OneCredit, CutOffInv, Init
<1>6. ReplayAgrees /\ CutOffMeterReconnected
  BY DEF Init, ReplayAgrees, CutOffMeterReconnected
<1> QED
  BY <1>3, <1>4, <1>5, <1>6 DEF IndInv

\* Before the commit a transaction changes its own state only: the invariant asks of the new
\* state what it asks of any, and of an answer that it is the prior result.
LEMMA OwnStateInv ==
  ASSUME IndInv, NEW h \in Handlers, NEW state \in HandlerStates, Goto(h, state),
         UNCHANGED <<tables, smart_meter_state, cutOff>>,
         state.pc \in Inserted => Alone(h, state),
         state.pc \in Inserted \ {"terms"} => Sound(state),
         \A x \in answers' \ answers :
           x.reference \in DOMAIN payments /\ x = PriorResult(x.reference)
  PROVE  IndInv'
<1>1. /\ UNCHANGED <<payments, energy_credits, credit_balances, meter_commands, outbox>>
      /\ UNCHANGED <<smart_meter_state, cutOff>>
  BY DEF tables
<1>2. handlers' = [handlers EXCEPT ![h] = state] /\ handlers \in [Handlers -> HandlerStates]
  BY DEF Goto, IndInv, TypeOK
<1>3. \A r \in DOMAIN payments : /\ Len(energy_credits[r]) = 1
                                 /\ energy_credits[r] \in Seq(Credits)
                                 /\ Head(energy_credits[r]) \in Credits
                                 /\ energy_credits[r] = <<Head(energy_credits[r])>>
  BY DEF IndInv, OneCredit, TypeOK
<1>4. \A x \in answers' \ answers :
        /\ x \in [reference : References, credit : Credits]
        /\ x.reference \in DOMAIN payments /\ energy_credits[x.reference] = <<x.credit>>
  <2> TAKE x \in answers' \ answers
  <2>1. x.reference \in DOMAIN payments /\ x = PriorResult(x.reference)
    OBVIOUS
  <2>2. x = [reference |-> x.reference, credit |-> Head(energy_credits[x.reference])]
    BY <2>1 DEF PriorResult
  <2>3. x.reference \in References
    BY <2>1 DEF IndInv, TypeOK
  <2> DEFINE c == Head(energy_credits[x.reference])
  <2>4. c \in Credits /\ energy_credits[x.reference] = <<c>>
    BY <2>1, <1>3
  <2>5. x.credit = c
    BY <2>2
  <2>6. x \in [reference : References, credit : Credits]
    BY <2>2, <2>3, <2>4
  <2> QED
    BY <2>1, <2>4, <2>5, <2>6
<1>5. TypeOK'
  <2>1. handlers' \in [Handlers -> HandlerStates]
    BY <1>2
  <2>2. answers' \subseteq [reference : References, credit : Credits]
    BY <1>4 DEF IndInv, TypeOK
  <2> QED
    BY <1>1, <2>1, <2>2 DEF IndInv, TypeOK
<1>6. \A g \in Handlers : handlers'[g] = IF g = h THEN state ELSE handlers[g]
  BY <1>2
<1>7. ReferenceInv'
  BY <1>1, <1>6 DEF IndInv, ReferenceInv, Alone
<1>8. GrantInv'
  BY <1>1, <1>6 DEF IndInv, GrantInv, Sound
<1>9. OneCredit' /\ CutOffInv' /\ CutOffMeterReconnected'
  BY <1>1 DEF IndInv, OneCredit, CutOffInv, CutOffMeterReconnected
<1>10. ReplayAgrees'
  BY <1>1, <1>4 DEF IndInv, ReplayAgrees
<1> QED
  BY <1>5, <1>7, <1>8, <1>9, <1>10 DEF IndInv

\* Every statement before the commit, and a rollback.
LEMMA StatementInv ==
  ASSUME IndInv, NEW h \in Handlers,
         \/ \E command \in Commands : Receive(h, command)
         \/ FindExistingPayment(h)
         \/ InsertPayment(h)
         \/ \E price \in Prices : ReadTerms(h, price)
         \/ GetPriorBalance(h)
         \/ UpsertCreditBalance(h)
         \/ Rollback(h)
  PROVE  IndInv'
<1> USE DEF HandlerIdle, Inserted
<1>0. TypeOK
  BY DEF IndInv
<1>i. HandlerIdle \in HandlerStates /\ HandlerIdle.pc \notin Inserted
  BY DEF HandlerStates
<1>1. ASSUME NEW command \in Commands, Receive(h, command) PROVE IndInv'
  <2> DEFINE state == [pc |-> "find", command |-> command]
  <2>1. state \in HandlerStates /\ state.pc \notin Inserted
    BY DEF HandlerStates, Deciding
  <2>2. Goto(h, state) /\ UNCHANGED <<tables, smart_meter_state, cutOff>> /\ answers' = answers
    BY <1>1 DEF Receive
  <2> QED
    BY <2>1, <2>2, OwnStateInv
<1>2. CASE FindExistingPayment(h)
  <2> DEFINE r == handlers[h].command.reference
             state == handlers'[h]
  <2>1. handlers[h] \in Deciding
    BY <1>0, <1>2, HandlerFields DEF FindExistingPayment
  <2>2. PICK s \in {HandlerIdle, [pc |-> "insert", command |-> handlers[h].command]} : Goto(h, s)
    BY <1>2 DEF FindExistingPayment
  <2>3. s \in HandlerStates /\ s.pc \notin Inserted
    BY <2>1, <2>2, <1>i DEF HandlerStates, Deciding
  <2>4. UNCHANGED <<tables, smart_meter_state, cutOff>>
    BY <1>2 DEF FindExistingPayment
  <2>5. \A x \in answers' \ answers :
          x.reference \in DOMAIN payments /\ x = PriorResult(x.reference)
    <3>1. answers' = answers \/ (r \in DOMAIN payments /\ answers' = answers \cup {PriorResult(r)})
      BY <1>2 DEF FindExistingPayment
    <3>2. PriorResult(r).reference = r
      BY DEF PriorResult
    <3> QED
      BY <3>1, <3>2
  <2> QED
    BY <2>2, <2>3, <2>4, <2>5, OwnStateInv
<1>3. CASE InsertPayment(h)
  <2> DEFINE command == handlers[h].command
             state == [pc |-> IF command.reference \in DOMAIN payments THEN "again" ELSE "terms",
                       command |-> command]
  <2>1. handlers[h] \in Deciding /\ Inserting(command.reference) = {}
    BY <1>0, <1>3, HandlerFields DEF InsertPayment
  <2>2. state \in HandlerStates
    BY <2>1 DEF HandlerStates, Deciding
  <2>3. state.pc \in Inserted => Alone(h, state)
    BY <2>1 DEF Alone, Inserting
  <2>4. Goto(h, state) /\ UNCHANGED <<tables, smart_meter_state, cutOff>> /\ answers' = answers
    BY <1>3 DEF InsertPayment
  <2> QED
    BY <2>2, <2>3, <2>4, OwnStateInv
<1>4. ASSUME NEW price \in Prices, ReadTerms(h, price) PROVE IndInv'
  <2> DEFINE command == handlers[h].command
             kwh == kwhGranted(command.amount, price)
             a == command.customer_id
             state == [pc |-> "prior", command |-> command,
                       relay_closed |-> smart_meter_state[a] # "open",
                       credit |-> [assignment_id |-> a, kwh_granted |-> kwh,
                                   money_value |-> command.amount]]
  <2>0. UNCHANGED <<tables, smart_meter_state, cutOff>> /\ answers' = answers
    BY <1>4 DEF ReadTerms
  <2>1. handlers[h] \in Deciding /\ handlers[h].pc = "terms"
    BY <1>0, <1>4, HandlerFields DEF ReadTerms
  <2>2. CASE a \in Assigned /\ command.currency = TariffCurrency /\ kwh > 0
    <3>1. command \in Commands /\ command.amount \in Amounts
      BY <2>1, PaymentAssumption DEF Deciding
    <3>2. kwh \in Nat \ {0}
      BY <2>2, <3>1, kwhGrantedType
    <3>3. state.credit \in Credits
      BY <2>2, <3>1, <3>2 DEF Credits
    <3>4. state \in HandlerStates
      BY <3>1, <3>3 DEF HandlerStates, Granting
    <3>5. Alone(h, state)
      <4>1. Alone(h, handlers[h])
        BY <2>1 DEF IndInv, ReferenceInv
      <4> QED
        BY <4>1 DEF Alone
    <3>6. Sound(state)
      BY DEF Sound, IndInv, CutOffInv
    <3>7. Goto(h, state)
      BY <1>4, <2>2 DEF ReadTerms
    <3> QED
      BY <2>0, <3>4, <3>5, <3>6, <3>7, OwnStateInv
  <2>3. CASE ~(a \in Assigned /\ command.currency = TariffCurrency /\ kwh > 0)
    <3>1. Goto(h, HandlerIdle)
      BY <1>4, <2>3 DEF ReadTerms
    <3> QED
      BY <1>i, <2>0, <3>1, OwnStateInv
  <2> QED
    BY <2>2, <2>3
<1>5. CASE GetPriorBalance(h)
  <2> DEFINE old == handlers[h]
             a == old.command.customer_id
             state == [pc |-> "upsert", command |-> old.command,
                       relay_closed |-> old.relay_closed, credit |-> old.credit,
                       prior |-> credit_balances[a].kwh]
  <2>1. old \in Granting /\ old.pc = "prior"
    BY <1>0, <1>5, HandlerFields DEF GetPriorBalance
  <2>2. Alone(h, old) /\ Sound(old)
    BY <2>1 DEF IndInv, ReferenceInv, GrantInv
  <2>3. a \in Assigned
    BY <2>1, <2>2, CreditsType DEF Granting, Sound
  <2>4. state \in HandlerStates
    BY <1>0, <2>1, <2>3 DEF HandlerStates, Granting, Writing, TypeOK
  <2>5. Alone(h, state) /\ Sound(state)
    BY <2>2 DEF Alone, Sound
  <2>6. Goto(h, state) /\ UNCHANGED <<tables, smart_meter_state, cutOff>> /\ answers' = answers
    BY <1>5 DEF GetPriorBalance
  <2> QED
    BY <2>4, <2>5, <2>6, OwnStateInv
<1>6. CASE UpsertCreditBalance(h)
  <2> DEFINE old == handlers[h]
             state == [old EXCEPT !.pc = "commit"]
  <2>1. old \in Writing /\ old.pc = "upsert"
    BY <1>0, <1>6, HandlerFields DEF UpsertCreditBalance
  <2>2. Alone(h, old) /\ Sound(old)
    BY <2>1 DEF IndInv, ReferenceInv, GrantInv
  <2>3. state \in HandlerStates
    BY <2>1 DEF HandlerStates, Writing
  <2>4. Alone(h, state) /\ Sound(state)
    BY <2>1, <2>2 DEF Alone, Sound, Writing
  <2>5. Goto(h, state) /\ UNCHANGED <<tables, smart_meter_state, cutOff>> /\ answers' = answers
    BY <1>6 DEF UpsertCreditBalance
  <2> QED
    BY <2>3, <2>4, <2>5, OwnStateInv
<1>7. CASE Rollback(h)
  <2>1. Goto(h, HandlerIdle) /\ UNCHANGED <<tables, smart_meter_state, cutOff>>
          /\ answers' = answers
    BY <1>7 DEF Rollback
  <2> QED
    BY <1>i, <2>1, OwnStateInv
<1> QED
  BY <1>1, <1>2, <1>3, <1>4, <1>5, <1>6, <1>7

\* The commit: the reference was free and no other transaction has it, so its payment, credit,
\* balance, events and command appear together.
LEMMA CommitInv ==
  ASSUME IndInv, NEW h \in Handlers, NEW answered \in BOOLEAN, Commit(h, answered)
  PROVE  IndInv'
<1> DEFINE state == handlers[h]
           r == state.command.reference
           a == state.command.customer_id
<1>0. TypeOK
  BY DEF IndInv
<1>1. state \in Writing /\ state.pc = "commit"
  BY <1>0, HandlerFields DEF Commit
<1>2. Alone(h, state) /\ Sound(state)
  BY <1>1 DEF IndInv, ReferenceInv, GrantInv, Inserted
<1>3. /\ r \notin DOMAIN payments /\ r \notin DOMAIN energy_credits
      /\ r \in References /\ a \in Assigned
      /\ state.command \in Commands /\ state.credit \in Credits
      /\ state.credit.assignment_id = a
  BY <1>0, <1>1, <1>2, CreditsType, PaymentAssumption DEF Writing, Alone, Sound, TypeOK
<1>4. state.credit.kwh_granted \in Nat \ {0} /\ state.credit.money_value \in Nat
  BY <1>3, CreditsType
<1>5. /\ DOMAIN payments' = DOMAIN payments \cup {r}
      /\ payments' = [x \in DOMAIN payments \cup {r} |-> IF x = r THEN state.command ELSE payments[x]]
  BY DEF Commit
<1>6. energy_credits' = [x \in DOMAIN payments \cup {r} |->
                           IF x = r THEN <<state.credit>> ELSE energy_credits[x]]
  BY <1>0, <1>3 DEF Commit, TypeOK
<1>7. /\ credit_balances' = [credit_balances EXCEPT ![a] = Raised(state)]
      /\ Raised(state) \in [kwh : Nat, money : Nat] /\ Raised(state).kwh > 0
  <2>1. credit_balances[a] \in [kwh : Nat, money : Nat]
    BY <1>0, <1>3 DEF TypeOK
  <2> QED
    <3>1. credit_balances' = [credit_balances EXCEPT ![a] = Raised(state)]
      BY DEF Commit
    <3>2. /\ Raised(state).kwh = credit_balances[a].kwh + state.credit.kwh_granted
          /\ Raised(state) = [kwh |-> credit_balances[a].kwh + state.credit.kwh_granted,
                              money |-> credit_balances[a].money + state.credit.money_value]
      BY DEF Raised
    <3> QED
      BY <1>4, <2>1, <3>1, <3>2
<1>8. /\ handlers' = [handlers EXCEPT ![h] = HandlerIdle]
      /\ handlers \in [Handlers -> HandlerStates]
      /\ \A g \in Handlers : handlers'[g] = IF g = h THEN HandlerIdle ELSE handlers[g]
      /\ UNCHANGED <<smart_meter_state, cutOff>>
  BY <1>0 DEF Commit, Goto, TypeOK
<1>9. answers' \in {answers, answers \cup {[reference |-> r, credit |-> state.credit]}}
  BY DEF Commit
<1>10. TypeOK'
  <2>1. payments' \in [DOMAIN payments' -> Commands]
    BY <1>0, <1>3, <1>5 DEF TypeOK
  <2>2. DOMAIN payments' \subseteq References /\ DOMAIN energy_credits' = DOMAIN payments'
    BY <1>0, <1>3, <1>5, <1>6 DEF TypeOK
  <2>3. energy_credits' \in [DOMAIN payments' -> Seq(Credits)]
    <3>1. <<state.credit>> \in Seq(Credits)
      BY <1>3
    <3> QED
      BY <1>0, <1>5, <1>6, <3>1 DEF TypeOK
  <2>4. credit_balances' \in [Assigned -> [kwh : Nat, money : Nat]]
    BY <1>0, <1>3, <1>7 DEF TypeOK
  <2>5. meter_commands' \subseteq [reference : References, meter : Assigned]
    BY <1>0, <1>3 DEF Commit, TypeOK
  <2>6. outbox' \subseteq [type : {"payment.confirmed", "credit.issued", "meter.command.requested"},
                           reference : References]
    BY <1>0, <1>3 DEF Commit, TypeOK
  <2>7. handlers' \in [Handlers -> HandlerStates]
    BY <1>8 DEF HandlerStates
  <2>8. answers' \subseteq [reference : References, credit : Credits]
    BY <1>0, <1>3, <1>9 DEF TypeOK
  <2> QED
    BY <1>0, <1>8, <2>1, <2>2, <2>3, <2>4, <2>5, <2>6, <2>7, <2>8 DEF TypeOK
<1>11. ReferenceInv'
  <2> SUFFICES ASSUME NEW g \in Handlers, handlers'[g].pc \in Inserted
               PROVE  Alone(g, handlers[g])' /\ g # h
    BY DEF ReferenceInv
  <2>1. g # h /\ handlers'[g] = handlers[g]
    BY <1>8 DEF HandlerIdle, Inserted
  <2>2. Alone(g, handlers[g])
    BY <2>1 DEF IndInv, ReferenceInv
  <2>3. handlers[g].command.reference # r
    BY <1>1, <1>2, <2>1 DEF Alone, Inserted
  <2> QED
    BY <1>5, <1>8, <2>1, <2>2, <2>3 DEF Alone, HandlerIdle, Inserted
<1>12. GrantInv'
  <2> SUFFICES ASSUME NEW g \in Handlers, handlers'[g].pc \in Inserted \ {"terms"}
               PROVE  Sound(handlers[g])' /\ g # h
    BY DEF GrantInv
  <2>1. g # h /\ handlers'[g] = handlers[g]
    BY <1>8 DEF HandlerIdle, Inserted
  <2>2. Sound(handlers[g])
    BY <2>1 DEF IndInv, GrantInv
  <2>3. handlers[g].credit \in Credits
    <3>1. handlers[g].pc \in {"prior", "upsert", "commit"}
      BY <2>1 DEF Inserted
    <3> QED
      BY <1>0, <3>1, HandlerFields DEF Granting, Writing
  <2>4. handlers[g].command.customer_id \in Assigned
    BY <2>2, <2>3, CreditsType DEF Sound
  <2>5. credit_balances'[handlers[g].command.customer_id].kwh = 0
          => credit_balances[handlers[g].command.customer_id].kwh = 0
    BY <1>0, <1>3, <1>7, <2>4 DEF TypeOK
  <2> QED
    BY <1>8, <2>1, <2>2, <2>5 DEF Sound
<1>13. OneCredit'
  BY <1>5, <1>6 DEF IndInv, OneCredit
<1>14. CutOffInv'
  BY <1>8 DEF IndInv, CutOffInv
<1>15. ReplayAgrees'
  <2> SUFFICES ASSUME NEW x \in answers'
               PROVE  x.reference \in DOMAIN payments' /\ energy_credits'[x.reference] = <<x.credit>>
    BY DEF ReplayAgrees
  <2>1. CASE x \in answers
    <3>1. x.reference \in DOMAIN payments /\ energy_credits[x.reference] = <<x.credit>>
      BY <2>1 DEF IndInv, ReplayAgrees
    <3> QED
      BY <1>3, <1>5, <1>6, <3>1
  <2>2. CASE x = [reference |-> r, credit |-> state.credit]
    BY <1>5, <1>6, <2>2
  <2> QED
    BY <1>9, <2>1, <2>2
<1>16. CutOffMeterReconnected'
  <2> SUFFICES ASSUME NEW m \in cutOff, credit_balances'[m].kwh > 0
               PROVE  \E c \in meter_commands' : /\ c.meter = m
                        /\ [type |-> "meter.command.requested", reference |-> c.reference] \in outbox'
    BY <1>8 DEF CutOffMeterReconnected
  <2>1. meter_commands \subseteq meter_commands' /\ outbox \subseteq outbox'
    BY DEF Commit
  <2>2. CASE credit_balances[m].kwh > 0
    BY <2>1, <2>2 DEF IndInv, CutOffMeterReconnected
  <2>3. CASE ~(credit_balances[m].kwh > 0)
    <3>1. m \in Assigned /\ credit_balances[m].kwh = 0
      BY <1>0, <2>3 DEF TypeOK
    <3>2. m = a
      BY <1>0, <1>3, <1>7, <2>3, <3>1 DEF TypeOK
    <3>3. needsReconnect(state)
      BY <1>1, <1>2, <1>7, <3>1, <3>2 DEF needsReconnect, Sound
    <3>4. [reference |-> r, meter |-> a] \in meter_commands'
      BY <3>3 DEF Commit
    <3>5. [type |-> "meter.command.requested", reference |-> r] \in outbox'
      BY <3>3 DEF Commit
    <3> QED
      BY <3>2, <3>4, <3>5
  <2> QED
    BY <2>2, <2>3
<1> QED
  BY <1>10, <1>11, <1>12, <1>13, <1>14, <1>15, <1>16 DEF IndInv

\* A report that changes a relay takes its meter out of those off from the start.
LEMMA RelayReportedInv ==
  ASSUME IndInv, NEW m \in Assigned, NEW relay \in {"closed", "open"}, RelayReported(m, relay)
  PROVE  IndInv'
<1>1. /\ UNCHANGED <<payments, energy_credits, credit_balances, meter_commands, outbox>>
      /\ UNCHANGED <<handlers, answers>>
      /\ cutOff' = cutOff \ {m}
      /\ smart_meter_state' = [smart_meter_state EXCEPT ![m] = relay]
  BY DEF RelayReported, tables
<1>2. TypeOK'
  BY <1>1 DEF IndInv, TypeOK
<1>3. ReferenceInv' /\ GrantInv'
  BY <1>1 DEF IndInv, ReferenceInv, GrantInv, Alone, Sound
<1>4. CutOffInv'
  BY <1>1 DEF IndInv, CutOffInv, TypeOK
<1>5. OneCredit' /\ ReplayAgrees' /\ CutOffMeterReconnected'
  BY <1>1 DEF IndInv, OneCredit, ReplayAgrees, CutOffMeterReconnected
<1> QED
  BY <1>2, <1>3, <1>4, <1>5 DEF IndInv

\* Every step keeps the invariant.
LEMMA StepInv == IndInv /\ [Next]_vars => IndInv'
<1> SUFFICES ASSUME IndInv, [Next]_vars PROVE IndInv'
  OBVIOUS
<1>1. ASSUME NEW h \in Handlers, NEW answered \in BOOLEAN, Commit(h, answered) PROVE IndInv'
  BY <1>1, CommitInv
<1>2. ASSUME NEW m \in Assigned, NEW relay \in {"closed", "open"}, RelayReported(m, relay)
      PROVE  IndInv'
  BY <1>2, RelayReportedInv
<1>3. CASE UNCHANGED vars
  BY <1>3 DEF vars, tables, IndInv, TypeOK, ReferenceInv, Alone, GrantInv, Sound, OneCredit,
              CutOffInv, ReplayAgrees, CutOffMeterReconnected
<1> QED
  BY <1>1, <1>2, <1>3, StatementInv DEF Next

THEOREM Invariance == Spec => []IndInv
  BY InitInv, StepInv, PTL DEF Spec

\* Handlers, tables and answers keep their types.
THEOREM TypeCorrectness == Spec => []TypeOK
<1>1. IndInv => TypeOK
  BY DEF IndInv
<1> QED
  BY <1>1, Invariance, PTL

\* Every positive answer of a webhook shows the one credit on file for its payment.
THEOREM ReplayTheorem == Spec => []ReplayAgrees
<1>1. IndInv => ReplayAgrees
  BY DEF IndInv
<1> QED
  BY <1>1, Invariance, PTL

\* A meter off from the start gets its reconnect command with its first credit, however the
\* payments of its customer overlap.
THEOREM ReconnectTheorem == Spec => []CutOffMeterReconnected
<1>1. IndInv => CutOffMeterReconnected
  BY DEF IndInv
<1> QED
  BY <1>1, Invariance, PTL

\* A step that leaves the tables alone and answers only with prior results is an Answer of the
\* ledger, or a stutter.
LEMMA AnswerRefines ==
  ASSUME IndInv, NEW r, UNCHANGED tables,
         \/ answers' = answers
         \/ r \in DOMAIN payments /\ answers' = answers \cup {PriorResult(r)}
  PROVE  [Ledger!Next]_(Ledger!vars)
<1> DEFINE applied == [x \in DOMAIN payments |-> Head(energy_credits[x])]
<1>1. applied' = applied /\ credit_balances' = credit_balances
  BY DEF tables
<1>2. CASE answers' = answers
  BY <1>1, <1>2 DEF Ledger!vars
<1>3. CASE r \in DOMAIN payments /\ answers' = answers \cup {PriorResult(r)}
  <2>1. PriorResult(r) = [reference |-> r, credit |-> applied[r]] /\ r \in DOMAIN applied
    BY <1>3 DEF PriorResult
  <2>2. r \in References
    BY <1>3 DEF IndInv, TypeOK
  <2>3. Ledger!Answer(r)
    BY <1>1, <1>3, <2>1 DEF Ledger!Answer
  <2> QED
    BY <2>2, <2>3 DEF Ledger!Next
<1> QED
  BY <1>2, <1>3

\* A commit is an Apply of the ledger.
LEMMA CommitRefines ==
  ASSUME IndInv, NEW h \in Handlers, NEW answered \in BOOLEAN, Commit(h, answered)
  PROVE  Ledger!Next
<1> DEFINE state == handlers[h]
           r == state.command.reference
           a == state.command.customer_id
           applied == [x \in DOMAIN payments |-> Head(energy_credits[x])]
<1>0. TypeOK
  BY DEF IndInv
<1>1. state \in Writing /\ state.pc = "commit"
  BY <1>0, HandlerFields DEF Commit
<1>2. Alone(h, state) /\ Sound(state)
  BY <1>1 DEF IndInv, ReferenceInv, GrantInv, Inserted
<1>3. /\ r \notin DOMAIN payments /\ r \in References
      /\ state.credit \in Credits /\ state.credit.assignment_id = a
      /\ a \in Assigned /\ state.credit.kwh_granted \in Nat \ {0}
  BY <1>1, <1>2, CreditsType, PaymentAssumption DEF Writing, Alone, Sound
<1>4. DOMAIN payments' = DOMAIN payments \cup {r}
  BY DEF Commit
<1>5. energy_credits' = [x \in DOMAIN payments \cup {r} |->
                           IF x = r THEN <<state.credit>> ELSE energy_credits[x]]
  BY <1>0, <1>3 DEF Commit, TypeOK
<1>6. applied' = [x \in DOMAIN applied \cup {r} |-> IF x = r THEN state.credit ELSE applied[x]]
  <2>1. Head(<<state.credit>>) = state.credit
    OBVIOUS
  <2>2. applied' = [x \in DOMAIN payments \cup {r} |-> Head(energy_credits'[x])]
    BY <1>4
  <2>3. \A x \in DOMAIN payments \cup {r} :
          Head(energy_credits'[x]) = IF x = r THEN state.credit ELSE applied[x]
    BY <1>3, <1>5, <2>1
  <2> QED
    BY <2>2, <2>3
<1>7. credit_balances' = [credit_balances EXCEPT ![a] =
        [kwh |-> credit_balances[a].kwh + state.credit.kwh_granted,
         money |-> credit_balances[a].money + state.credit.money_value]]
  BY DEF Commit, Raised
<1>8. answers' \in {answers, answers \cup {[reference |-> r, credit |-> state.credit]}}
  BY DEF Commit
<1>9. PICK reference \in References, credit \in Credits :
        reference = r /\ credit = state.credit
  BY <1>3
<1>10. Ledger!Apply(reference, credit)
  <2>1. reference \notin DOMAIN applied /\ credit.kwh_granted > 0
    BY <1>3, <1>9
  <2>2. applied' = [x \in DOMAIN applied \cup {reference} |->
                      IF x = reference THEN credit ELSE applied[x]]
    BY <1>6, <1>9
  <2>3. credit_balances' = [credit_balances EXCEPT ![credit.assignment_id] =
          [kwh |-> @.kwh + credit.kwh_granted, money |-> @.money + credit.money_value]]
    BY <1>3, <1>7, <1>9
  <2>4. answers' \in {answers, answers \cup {[reference |-> reference, credit |-> credit]}}
    BY <1>8, <1>9
  <2> QED
    BY <2>1, <2>2, <2>3, <2>4 DEF Ledger!Apply
<1> QED
  BY <1>10 DEF Ledger!Next

LEMMA StepRefines == IndInv /\ [Next]_vars => [Ledger!Next]_(Ledger!vars)
<1> SUFFICES ASSUME IndInv, [Next]_vars PROVE [Ledger!Next]_(Ledger!vars)
  OBVIOUS
<1>1. ASSUME NEW h \in Handlers, NEW answered \in BOOLEAN, Commit(h, answered)
      PROVE  [Ledger!Next]_(Ledger!vars)
  BY <1>1, CommitRefines
<1>2. ASSUME NEW h \in Handlers, FindExistingPayment(h) PROVE [Ledger!Next]_(Ledger!vars)
  <2>1. UNCHANGED tables
    BY <1>2 DEF FindExistingPayment
  <2>2. \/ answers' = answers
        \/ /\ handlers[h].command.reference \in DOMAIN payments
           /\ answers' = answers \cup {PriorResult(handlers[h].command.reference)}
    BY <1>2 DEF FindExistingPayment
  <2> QED
    BY <2>1, <2>2, AnswerRefines
<1>3. CASE UNCHANGED <<tables, answers>>
  BY <1>3, AnswerRefines
<1>4. ASSUME NEW h \in Handlers,
             \/ \E command \in Commands : Receive(h, command)
             \/ InsertPayment(h)
             \/ \E price \in Prices : ReadTerms(h, price)
             \/ GetPriorBalance(h)
             \/ UpsertCreditBalance(h)
             \/ Rollback(h)
      PROVE  UNCHANGED <<tables, answers>>
  BY <1>4 DEF Receive, InsertPayment, ReadTerms, GetPriorBalance, UpsertCreditBalance, Rollback
<1>5. ASSUME NEW m, NEW relay, RelayReported(m, relay) PROVE UNCHANGED <<tables, answers>>
  BY <1>5 DEF RelayReported
<1>6. CASE UNCHANGED vars
  BY <1>3, <1>6 DEF vars
<1> QED
  BY <1>1, <1>2, <1>3, <1>4, <1>5, <1>6 DEF Next

\* The webhook transactions implement the ledger: each reference is applied once and its credit
\* reaches the balance in the same step, whatever overlaps, repeats or rolls back.
THEOREM LedgerTheorem == Spec => ImplementsLedger
<1>1. Init => Ledger!Init
  BY DEF Init, Ledger!Init
<1> QED
  BY <1>1, Invariance, StepRefines, PTL DEF Spec, ImplementsLedger, Ledger!Spec

=============================================================================
