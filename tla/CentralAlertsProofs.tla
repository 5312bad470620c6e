------------------------ MODULE CentralAlertsProofs ------------------------
(* The central end of the alert path, for any engines, handlers, partition and texts. *)
EXTENDS CentralAlerts, SequenceTheorems, TLAPS

-----------------------------------------------------------------------------
(* Messages and texts *)

LEMMA MessageFields ==
  ASSUME NEW m \in Messages
  PROVE  /\ m \in [event : Events, asset : Assets, code : Codes \cup {NoCode},
                    temperature : Temperatures]
         /\ m.event \in Events /\ m.asset \in Assets
<1> DEFINE fields == [event : Events, asset : Assets, code : Codes \cup {NoCode},
                      temperature : Temperatures]
<1>1. PICK o \in DOMAIN Log : m = Log[o]
  BY DEF Messages
<1>2. Log \in Seq(fields)
  BY LogAssumption
<1>3. m \in fields
  <2> HIDE DEF fields
  <2> QED
    BY <1>1, <1>2
<1> QED
  BY <1>3

LEMMA LogFields ==
  ASSUME NEW o \in DOMAIN Log
  PROVE  /\ Log[o] \in Messages
         /\ Log[o].event \in Events /\ Log[o].asset \in Assets
         /\ DOMAIN Log = 1..Len(Log) /\ Len(Log) \in Nat /\ o \in Positions /\ o + 1 \in Positions
<1>1. Log[o] \in Messages
  BY DEF Messages
<1>2. DOMAIN Log = 1..Len(Log) /\ Len(Log) \in Nat
  BY LogAssumption
<1>3. o \in 1..(Len(Log) + 1) /\ o + 1 \in 1..(Len(Log) + 1)
  BY <1>2
<1> QED
  BY <1>1, <1>2, <1>3, MessageFields DEF Positions

\* A message that opens an alert has a condition of the schema.
LEMMA ConditionType ==
  ASSUME NEW m \in Messages, Outcome(m) \in {"critical", "open"}
  PROVE  Condition(m) \in Conditions
<1>1. m \in [event : Events, asset : Assets, code : Codes \cup {NoCode},
              temperature : Temperatures]
  BY MessageFields
<1>2. Outcome(m) = "critical" => m.code \in Codes
  <2>1. CASE m.temperature # "malformed" /\ CriticalCode(m)
    BY <1>1, <2>1 DEF CriticalCode
  <2>2. CASE m.temperature = "malformed"
    BY <2>2 DEF Outcome
  <2>3. CASE m.temperature # "malformed" /\ ~CriticalCode(m)
    BY <1>1, <2>3 DEF Outcome, Temperatures
  <2> QED
    BY <2>1, <2>2, <2>3
<1>3. CASE Outcome(m) = "critical"
  BY <1>1, <1>2, <1>3 DEF Condition, Conditions
<1>4. CASE Outcome(m) # "critical"
  BY <1>1, <1>4 DEF Condition, Conditions, Codes
<1> QED
  BY <1>3, <1>4

LEMMA TextFields ==
  ASSUME NEW s \in Sms
  PROVE  /\ s.event \in Events /\ s.id \in Receipts
         /\ TextCondition(s) \in Conditions
         /\ \A m \in Messages : s.event = m.event => TextCondition(s) = Condition(m)
<1>1. s \in [id : Receipts, event : Events, asset : Assets, code : Codes]
  BY LogAssumption
<1>2. \A m \in Messages : s.event = m.event => TextCondition(s) = Condition(m)
  BY LogAssumption
<1> QED
  BY <1>1, <1>2 DEF TextCondition, Conditions

-----------------------------------------------------------------------------
(* The alert book *)

AlertRows == [condition : Conditions, source : Events, status : {"open", "resolved"}]

AlertsOK ==
  /\ alerts \in Seq(AlertRows)
  /\ outbox \in Seq(Seq({"alert.opened", "alert.resolved"})) /\ Len(outbox) = Len(alerts)
  /\ OneOpenAlert /\ OutboxFollowsAlerts /\ SourceInv

\* Alerts are added and change their status, no more.
Grown ==
  /\ Alerts \subseteq Alerts'
  /\ \A a \in Alerts : alerts'[a].condition = alerts[a].condition

LEMMA AlertsDomain ==
  ASSUME alerts \in Seq(AlertRows)
  PROVE  /\ Alerts = 1..Len(alerts) /\ Len(alerts) \in Nat /\ NoAlert \notin Alerts
         /\ \A a \in Alerts : alerts[a] \in AlertRows
BY DEF Alerts, NoAlert

\* What the lookups return is an alert of the event or an open one of the condition.
LEMMA Lookup ==
  ASSUME NEW e, NEW k, ExistingAlert(e, k) # NoAlert
  PROVE  /\ ExistingAlert(e, k) \in Alerts
         /\ \/ alerts[ExistingAlert(e, k)].source = e
            \/ alerts[ExistingAlert(e, k)].condition = k
<1>1. CASE AlertsFrom(e) # {}
  <2>1. ExistingAlert(e, k) \in AlertsFrom(e)
    BY <1>1 DEF ExistingAlert, OneOf
  <2> QED
    BY <2>1 DEF AlertsFrom
<1>2. CASE AlertsFrom(e) = {}
  <2>1. ExistingAlert(e, k) \in OpenAlerts(k)
    BY <1>2 DEF ExistingAlert, OneOf
  <2> QED
    BY <2>1 DEF OpenAlerts
<1> QED
  BY <1>1, <1>2

LEMMA InsertKeeps ==
  ASSUME AlertsOK, NEW e \in Events, NEW k \in Conditions, InsertAlert(e, k), ~Collides(e, k),
         \A m \in Messages : m.event = e => Condition(m) = k
  PROVE  /\ AlertsOK' /\ Grown
         /\ Len(alerts) + 1 \in Alerts' /\ alerts'[Len(alerts) + 1].condition = k
<1> DEFINE new == [condition |-> k, source |-> e, status |-> "open"]
           n == Len(alerts) + 1
<1>1. new \in AlertRows /\ alerts \in Seq(AlertRows) /\ alerts' = Append(alerts, new)
  BY DEF AlertsOK, AlertRows, InsertAlert
<1>2. /\ Alerts = 1..Len(alerts) /\ Len(alerts) \in Nat /\ \A a \in Alerts : alerts[a] \in AlertRows
  BY <1>1, AlertsDomain
<1>3. alerts' \in Seq(AlertRows) /\ Len(alerts') = n /\ Alerts' = 1..n
  BY <1>1, <1>2 DEF Alerts
<1>4. alerts'[n] = new /\ \A a \in Alerts : alerts'[a] = alerts[a]
  BY <1>1, <1>2
<1>5. Alerts' = Alerts \cup {n} /\ n \notin Alerts
  BY <1>2, <1>3
<1>6. /\ outbox' \in Seq(Seq({"alert.opened", "alert.resolved"})) /\ Len(outbox') = n
      /\ outbox'[n] = <<"alert.opened">> /\ \A a \in Alerts : outbox'[a] = outbox[a]
  <2>1. /\ outbox \in Seq(Seq({"alert.opened", "alert.resolved"})) /\ Len(outbox) = Len(alerts)
        /\ outbox' = Append(outbox, <<"alert.opened">>)
    BY DEF AlertsOK, InsertAlert
  <2>2. <<"alert.opened">> \in Seq({"alert.opened", "alert.resolved"})
    OBVIOUS
  <2> QED
    BY <2>1, <2>2, <1>2
<1>7. OneOpenAlert'
  BY SMTT(30), <1>4, <1>5 DEF AlertsOK, OneOpenAlert, Collides, OpenAlerts
<1>8. OutboxFollowsAlerts'
  BY <1>4, <1>5, <1>6 DEF AlertsOK, OutboxFollowsAlerts
<1>9. SourceInv'
  BY <1>4, <1>5 DEF AlertsOK, SourceInv, Messages
<1> QED
  BY <1>3, <1>4, <1>5, <1>6, <1>7, <1>8, <1>9 DEF AlertsOK, Grown

LEMMA AppendToOne ==
  ASSUME NEW x, NEW y
  PROVE  Append(<<x>>, y) = <<x, y>>
<1> DEFINE S == {x, y}
           both == Append(<<x>>, y)
           two == <<x, y>>
<1>1. <<x>> \in Seq(S) /\ y \in S /\ Len(<<x>>) = 1 /\ <<x>>[1] = x
  OBVIOUS
<1>2. both \in Seq(S) /\ Len(both) = 2 /\ both[1] = x /\ both[2] = y
  BY <1>1
<1>3. two \in Seq(S) /\ Len(two) = 2 /\ two[1] = x /\ two[2] = y
  OBVIOUS
<1>4. both = two
  <2> HIDE DEF S, both, two
  <2>1. Len(both) = Len(two) /\ \A i \in 1..Len(both) : both[i] = two[i]
    BY <1>2, <1>3
  <2> QED
    BY <1>2, <1>3, <2>1, SeqEqual
<1> QED
  BY <1>4

LEMMA ResolveKeeps ==
  ASSUME AlertsOK, NEW a \in Alerts, StillOpen(a), MarkResolved(a)
  PROVE  AlertsOK' /\ Grown /\ Alerts' = Alerts
<1>1. /\ Alerts = 1..Len(alerts) /\ Len(alerts) \in Nat /\ \A b \in Alerts : alerts[b] \in AlertRows
      /\ alerts \in Seq(AlertRows)
  BY AlertsDomain DEF AlertsOK
<1>2. alerts' = [alerts EXCEPT ![a].status = "resolved"]
  BY DEF MarkResolved
<1>3. alerts' \in Seq(AlertRows) /\ Len(alerts') = Len(alerts) /\ Alerts' = Alerts
  BY <1>1, <1>2 DEF Alerts, AlertRows
<1>4. \A b \in Alerts : /\ alerts'[b].condition = alerts[b].condition
                        /\ alerts'[b].source = alerts[b].source
                        /\ b # a => alerts'[b].status = alerts[b].status
  BY <1>1, <1>2 DEF AlertRows
<1>r. alerts'[a].status = "resolved" /\ alerts[a].status = "open"
  BY <1>1, <1>2 DEF AlertRows, StillOpen
<1>5. /\ outbox' \in Seq(Seq({"alert.opened", "alert.resolved"})) /\ Len(outbox') = Len(alerts)
      /\ outbox'[a] = <<"alert.opened", "alert.resolved">>
      /\ \A b \in Alerts : b # a => outbox'[b] = outbox[b]
  <2>1. /\ outbox \in Seq(Seq({"alert.opened", "alert.resolved"})) /\ Len(outbox) = Len(alerts)
        /\ outbox' = [outbox EXCEPT ![a] = Append(@, "alert.resolved")]
    BY DEF AlertsOK, MarkResolved
  <2>2. outbox[a] = <<"alert.opened">>
    BY DEF AlertsOK, OutboxFollowsAlerts, StillOpen
  <2> DEFINE two == <<"alert.opened", "alert.resolved">>
             Histories == Seq({"alert.opened", "alert.resolved"})
  <2>3. Append(<<"alert.opened">>, "alert.resolved") = two
    BY AppendToOne
  <2>4. two \in Histories
    OBVIOUS
  <2>5. outbox' = [outbox EXCEPT ![a] = two]
    BY <2>1, <2>2, <2>3, Zenon
  <2> HIDE DEF two, Histories
  <2>6. outbox \in Seq(Histories) /\ a \in 1..Len(outbox) /\ Alerts = 1..Len(outbox)
    BY <2>1, <1>1 DEF Histories
  <2>7. /\ outbox' \in Seq(Histories) /\ Len(outbox') = Len(outbox)
        /\ \A j \in 1..Len(outbox) : outbox'[j] = IF j = a THEN two ELSE outbox[j]
    BY <2>4, <2>5, <2>6
  <2> QED
    BY <2>1, <2>6, <2>7 DEF Histories, two
<1>6. OneOpenAlert'
  <2> SUFFICES ASSUME NEW b \in Alerts, NEW d \in Alerts,
                      alerts'[b].condition = alerts'[d].condition,
                      alerts'[b].status = "open", alerts'[d].status = "open"
               PROVE  b = d
    BY <1>3 DEF OneOpenAlert
  <2>1. b # a /\ d # a
    BY <1>r
  <2> QED
    BY <2>1, <1>4 DEF AlertsOK, OneOpenAlert
<1>7. OutboxFollowsAlerts'
  BY <1>3, <1>4, <1>5, <1>r DEF AlertsOK, OutboxFollowsAlerts
<1>8. SourceInv'
  <2> SUFFICES ASSUME NEW b \in Alerts, NEW m \in Messages, alerts'[b].source = m.event
               PROVE  alerts'[b].condition = Condition(m)
    BY <1>3 DEF SourceInv, Messages
  <2> QED
    BY <1>4 DEF AlertsOK, SourceInv
<1> QED
  BY <1>3, <1>4, <1>5, <1>6, <1>7, <1>8 DEF AlertsOK, Grown

-----------------------------------------------------------------------------
(* The file of fallback events *)

LEMMA BookAlerts ==
  ASSUME TablesOK, BookInv
  PROVE  AlertsOK /\ Alerts = 1..Len(alerts) /\ Len(alerts) \in Nat /\ NoAlert \notin Alerts
<1>1. AlertsOK
  BY DEF TablesOK, BookInv, AlertsOK, AlertRows
<1> QED
  BY <1>1, AlertsDomain DEF AlertsOK

EventsOK ==
  /\ DOMAIN sms_fallback_events \subseteq Events
  /\ sms_fallback_events \in [DOMAIN sms_fallback_events -> [alert : Alerts, replayed : BOOLEAN]]
  /\ FileInv

\* No event changes its alert, and only e may come on file.
FiledAt(e) ==
  \A f \in Events : f # e => /\ f \in DOMAIN sms_fallback_events' <=> f \in DOMAIN sms_fallback_events
                             /\ f \in DOMAIN sms_fallback_events =>
                                  sms_fallback_events'[f] = sms_fallback_events[f]

LEMMA FileStays ==
  ASSUME EventsOK, Grown, UNCHANGED sms_fallback_events,
         \A m \in Messages : Outcome(m) = "critical" /\ m.event \in dedup_log' =>
           m.event \in dedup_log
  PROVE  EventsOK'
<1>1. \A e \in DOMAIN sms_fallback_events :
        /\ sms_fallback_events[e].alert \in Alerts
        /\ sms_fallback_events'[e] = sms_fallback_events[e]
        /\ alerts'[sms_fallback_events[e].alert].condition
             = alerts[sms_fallback_events[e].alert].condition
  BY DEF EventsOK, Grown
<1>2. sms_fallback_events' \in [DOMAIN sms_fallback_events' -> [alert : Alerts', replayed : BOOLEAN]]
  BY DEF EventsOK, Grown
<1>3. FileInv'
  <2> SUFFICES ASSUME NEW m \in Messages
               PROVE  /\ Outcome(m) = "critical" /\ m.event \in dedup_log' => OnFile(m)'
                      /\ m.event \in DOMAIN sms_fallback_events =>
                           alerts'[sms_fallback_events'[m.event].alert].condition = Condition(m)
    BY DEF FileInv, Messages
  <2>1. Outcome(m) = "critical" /\ m.event \in dedup_log' => OnFile(m)
    BY DEF EventsOK, FileInv
  <2>2. OnFile(m) => OnFile(m)'
    BY <1>1 DEF OnFile
  <2> QED
    BY <2>1, <2>2, <1>1 DEF EventsOK, FileInv
<1> QED
  BY <1>2, <1>3 DEF EventsOK

LEMMA FilePut ==
  ASSUME EventsOK, Grown, NEW e \in Events, NEW a \in Alerts', NEW r \in BOOLEAN,
         sms_fallback_events' = Put(sms_fallback_events, e, [alert |-> a, replayed |-> r]),
         \A m \in Messages : m.event = e => alerts'[a].condition = Condition(m),
         \A m \in Messages : Outcome(m) = "critical" /\ m.event \in dedup_log' =>
           \/ m.event \in dedup_log /\ m.event # e
           \/ m.event = e /\ r
  PROVE  EventsOK' /\ FiledAt(e)
<1> DEFINE row == [alert |-> a, replayed |-> r]
<1>1. /\ DOMAIN sms_fallback_events' = DOMAIN sms_fallback_events \cup {e}
      /\ sms_fallback_events'[e] = row
      /\ \A f \in DOMAIN sms_fallback_events : f # e =>
           sms_fallback_events'[f] = sms_fallback_events[f]
  BY DEF Put
<1>2. \A f \in DOMAIN sms_fallback_events :
        /\ sms_fallback_events[f] \in [alert : Alerts', replayed : BOOLEAN]
        /\ alerts'[sms_fallback_events[f].alert].condition
             = alerts[sms_fallback_events[f].alert].condition
  BY DEF EventsOK, Grown
<1>3. sms_fallback_events' \in [DOMAIN sms_fallback_events' -> [alert : Alerts', replayed : BOOLEAN]]
  BY <1>1, <1>2 DEF Put
<1>4. FileInv'
  <2> SUFFICES ASSUME NEW m \in Messages
               PROVE  /\ Outcome(m) = "critical" /\ m.event \in dedup_log' => OnFile(m)'
                      /\ m.event \in DOMAIN sms_fallback_events' =>
                           alerts'[sms_fallback_events'[m.event].alert].condition = Condition(m)
    BY DEF FileInv, Messages
  <2>1. CASE m.event = e
    BY <2>1, <1>1 DEF OnFile
  <2>2. CASE m.event # e
    <3>1. Outcome(m) = "critical" /\ m.event \in dedup_log' => OnFile(m)
      BY <2>2 DEF EventsOK, FileInv
    <3>2. OnFile(m) => OnFile(m)'
      BY <2>2, <1>1, <1>2 DEF OnFile
    <3> QED
      BY <2>2, <3>1, <3>2, <1>1, <1>2 DEF EventsOK, FileInv
  <2> QED
    BY <2>1, <2>2
<1>5. FiledAt(e)
  BY <1>1 DEF FiledAt
<1> QED
  BY <1>1, <1>3, <1>4, <1>5 DEF EventsOK

-----------------------------------------------------------------------------
(* The consumers *)

\* The tables changed, but not where a consumer's transaction depends on them.
LEMMA KeptFits ==
  ASSUME TypeOK, NEW d \in Consumers, consumers'[d] = consumers[d], Fits(consumers[d]), Grown,
         InTransaction(d) => Message(d).event \notin dedup_log',
         consumers[d].pc = "write" /\ Outcome(Message(d)) = "critical"
           /\ Message(d).event \in DOMAIN sms_fallback_events' =>
             /\ Message(d).event \in DOMAIN sms_fallback_events
             /\ sms_fallback_events'[Message(d).event] = sms_fallback_events[Message(d).event]
  PROVE  Fits(consumers[d])'
<1> DEFINE x == consumers[d]
           m == Log[x.offset]
<1>1. x.found \in {NoAlert} \cup Alerts
  BY DEF TypeOK, ConsumerStates
<1>2. Message(d) = m
  BY DEF Message
<1>3. x.pc = "write" /\ x.found # NoAlert => alerts'[x.found].condition = Condition(m)
  BY <1>1 DEF Grown, Fits
<1>4. x.pc \in {"lock", "find", "write"} => m.event \notin dedup_log'
  BY <1>2 DEF InTransaction
<1>5. x.pc = "write" /\ Outcome(m) = "critical" /\ m.event \in DOMAIN sms_fallback_events' =>
        x.found = sms_fallback_events'[m.event].alert
  BY <1>2 DEF Fits
<1> QED
  BY <1>3, <1>4, <1>5 DEF Fits

\* One consumer moves, and all it must be shown to respect.
LEMMA EngineStep ==
  ASSUME IndInv, NEW c \in Consumers,
         consumers' \in [Consumers -> ConsumerStates'],
         \A d \in Consumers : d # c => consumers'[d] = consumers[d] /\ Fits(consumers[d])',
         consumers'[c].pc # "idle" => consumers'[c].offset \in DOMAIN Log,
         Fits(consumers[c])',
         InTransaction(c)' => \A d \in Consumers : d # c /\ InTransaction(d) =>
           Message(d).asset # Message(c)'.asset,
         \A e \in Events, h \in Handlers : HasLock(c, e)' => ~CreatesFor(h, e),
         UNCHANGED <<group, handlers, committed>>, refused' = {}, stored' \in Positions,
         handled' \subseteq DOMAIN Log, failed' \subseteq DOMAIN Log,
         TablesOK', BookInv', TriedInv', HandledInv'
  PROVE  IndInv'
<1>1. TypeOK'
  <2>1. \A d \in Consumers : consumers'[d].pc # "idle" => consumers'[d].offset \in DOMAIN Log
    BY DEF IndInv, TypeOK
  <2>2. handlers' \in [Handlers -> HandlerStates']
    BY DEF IndInv, TypeOK, HandlerStates, HandlerIdle
  <2> QED
    BY <2>1, <2>2 DEF IndInv, TypeOK, group, Positions
<1>2. \A d \in Consumers : Fits(consumers[d])'
  OBVIOUS
<1>3. AssetLockInv'
  <2>1. \A d \in Consumers : d # c => /\ InTransaction(d)' <=> InTransaction(d)
                                      /\ Message(d)' = Message(d)
    BY DEF InTransaction, Message
  <2> QED
    BY <2>1 DEF IndInv, AssetLockInv
<1>4. EventLockInv'
  <2>1. \A d \in Consumers, e \in Events : d # c => (HasLock(d, e)' <=> HasLock(d, e))
    BY DEF HasLock, Message
  <2>2. \A h \in Handlers, e \in Events : CreatesFor(h, e)' <=> CreatesFor(h, e)
    BY DEF CreatesFor
  <2> QED
    BY <2>1, <2>2 DEF IndInv, EventLockInv
<1> QED
  BY <1>1, <1>2, <1>3, <1>4 DEF IndInv, ReplayNeverRefused

\* The ends of an attempt: on to the next message, or once more.
Moved(c) ==
  /\ consumers' \in [Consumers -> ConsumerStates'] /\ committed' = committed
  /\ \A d \in Consumers : d # c => consumers'[d] = consumers[d]
  /\ consumers'[c].pc \in {"idle", "claim"} /\ consumers'[c].found = NoAlert
  /\ consumers'[c].pc # "idle" => consumers'[c].offset \in DOMAIN Log
  /\ stored' \in Positions /\ handled' \subseteq DOMAIN Log /\ failed' \subseteq DOMAIN Log
  /\ TriedInv'

LEMMA ConsumersGrow ==
  ASSUME TypeOK, Grown
  PROVE  /\ ConsumerStates \subseteq ConsumerStates'
         /\ \A o \in Positions : Waiting(o) \in ConsumerStates'
<1>1. MaxAttempts \in Nat
  BY LogAssumption
<1> QED
  BY <1>1 DEF Grown, ConsumerStates, Waiting, Positions, NoAlert

\* The message in hand was tried, and only its consumer may store the offset after it.
LEMMA PassedMoves ==
  ASSUME TypeOK, TriedInv, Grown, NEW c \in Consumers, consumers[c].pc # "idle",
         consumers' = [consumers EXCEPT ![c] = Waiting(consumers[c].offset + 1)],
         UNCHANGED <<group, committed>>,
         stored' = stored \/ (owner = c /\ stored' = consumers[c].offset + 1),
         handled' \subseteq DOMAIN Log, failed' \subseteq DOMAIN Log,
         handled' \cup failed' = handled \cup failed \cup {consumers[c].offset}
  PROVE  Moved(c)
<1> DEFINE o == consumers[c].offset
<1>1. /\ o \in DOMAIN Log /\ o + 1 \in Positions /\ DOMAIN Log = 1..Len(Log) /\ Len(Log) \in Nat
      /\ committed \in Positions /\ stored \in Positions
  BY LogFields DEF TypeOK
<1>2. consumers' \in [Consumers -> ConsumerStates']
  BY <1>1, ConsumersGrow DEF TypeOK
<1>3. /\ consumers'[c].pc = "idle" /\ consumers'[c].found = NoAlert /\ consumers'[c].offset = o + 1
      /\ \A d \in Consumers : d # c => consumers'[d] = consumers[d]
  BY DEF TypeOK, Waiting
<1>4. TriedInv'
  <2> SUFFICES ASSUME NEW p \in DOMAIN Log,
                      p < committed' \/ p < stored' \/ p < consumers'[owner'].offset
               PROVE  p \in handled' \cup failed'
    BY DEF TriedInv
  <2>1. owner' = owner /\ owner \in Consumers
    BY DEF group, TypeOK
  <2>2. CASE p < o + 1 /\ owner = c
    <3>1. p < o \/ p = o
      BY <2>2, <1>1
    <3>2. p < o => p \in handled \cup failed
      BY <2>2 DEF TriedInv
    <3> QED
      BY <3>1, <3>2
  <2>3. CASE ~(p < o + 1 /\ owner = c)
    <3>1. p < committed \/ p < stored \/ p < consumers[owner].offset
      BY <2>1, <2>3, <1>3
    <3> QED
      BY <3>1 DEF TriedInv
  <2> QED
    BY <2>2, <2>3
<1> QED
  BY <1>1, <1>2, <1>3, <1>4 DEF Moved, TypeOK

LEMMA HandledMoves ==
  ASSUME TypeOK, TriedInv, Grown, NEW c \in Consumers, consumers[c].pc # "idle", Handled(c),
         UNCHANGED group
  PROVE  Moved(c) /\ handled' = handled \cup {consumers[c].offset}
<1>1. consumers[c].offset \in DOMAIN Log
  BY DEF TypeOK
<1>2. /\ consumers' = [consumers EXCEPT ![c] = Waiting(consumers[c].offset + 1)]
      /\ handled' = handled \cup {consumers[c].offset} /\ failed' = failed
      /\ stored' = stored \/ (owner = c /\ stored' = consumers[c].offset + 1)
      /\ committed' = committed
  BY DEF Handled
<1>3. /\ handled' \subseteq DOMAIN Log /\ failed' \subseteq DOMAIN Log
      /\ handled' \cup failed' = handled \cup failed \cup {consumers[c].offset}
  BY <1>1, <1>2 DEF TypeOK
<1> QED
  BY <1>2, <1>3, PassedMoves

LEMMA UnhandledMoves ==
  ASSUME TypeOK, TriedInv, Grown, NEW c \in Consumers, consumers[c].pc # "idle", Unhandled(c),
         UNCHANGED group
  PROVE  Moved(c) /\ handled' = handled
<1>1. consumers[c].offset \in DOMAIN Log
  BY DEF TypeOK
<1>2. /\ consumers' = [consumers EXCEPT ![c] = Waiting(consumers[c].offset + 1)]
      /\ handled' = handled /\ failed' = failed \cup {consumers[c].offset}
      /\ stored' = stored /\ committed' = committed
  BY DEF Unhandled, offsets
<1>3. /\ handled' \subseteq DOMAIN Log /\ failed' \subseteq DOMAIN Log
      /\ handled' \cup failed' = handled \cup failed \cup {consumers[c].offset}
  BY <1>1, <1>2 DEF TypeOK
<1> QED
  BY <1>2, <1>3, PassedMoves

LEMMA RetryMoves ==
  ASSUME TypeOK, TriedInv, Grown, NEW c \in Consumers, consumers[c].pc # "idle", RetryOrGiveUp(c),
         UNCHANGED group
  PROVE  Moved(c) /\ handled' = handled
<1>1. CASE consumers[c].attempt < MaxAttempts
  <2> DEFINE x == Again(consumers[c])
  <2>1. /\ consumers' = [consumers EXCEPT ![c] = x]
        /\ UNCHANGED <<handled, failed, stored, committed>>
    BY <1>1 DEF RetryOrGiveUp, offsets
  <2>2. x \in ConsumerStates /\ x.pc = "claim" /\ x.found = NoAlert /\ x.offset = consumers[c].offset
    <3>1. MaxAttempts \in Nat /\ consumers[c] \in ConsumerStates
      BY LogAssumption DEF TypeOK
    <3>2. consumers[c].attempt + 1 \in 0..MaxAttempts
      BY <1>1, <3>1 DEF ConsumerStates
    <3> QED
      BY <3>1, <3>2 DEF ConsumerStates, Again
  <2>3. consumers' \in [Consumers -> ConsumerStates']
    BY <2>1, <2>2, ConsumersGrow DEF TypeOK
  <2>4. consumers'[c] = x /\ \A d \in Consumers : d # c => consumers'[d] = consumers[d]
    BY <2>1 DEF TypeOK
  <2>5. \A d \in Consumers : consumers'[d].offset = consumers[d].offset
    BY <2>2, <2>4
  <2>6. TriedInv'
    BY <2>1, <2>5 DEF TriedInv, TypeOK, group
  <2> QED
    BY <2>1, <2>2, <2>3, <2>4, <2>6 DEF Moved, TypeOK
<1>2. CASE ~(consumers[c].attempt < MaxAttempts)
  <2>1. Unhandled(c)
    BY <1>2 DEF RetryOrGiveUp
  <2> QED
    BY <2>1, UnhandledMoves
<1> QED
  BY <1>1, <1>2

\* An attempt that ended without changing a table.
LEMMA MovedInv ==
  ASSUME IndInv, NEW c \in Consumers, Moved(c), UNCHANGED <<group, handlers, tables>>,
         refused' = {}, HandledInv'
  PROVE  IndInv'
<1>1. /\ UNCHANGED <<assets, dedup_log, readings, alerts, outbox, sms_fallback_events,
                     sms_fallback_receipts>>
  BY DEF tables, alert_tables
<1>2. TablesOK' /\ BookInv' /\ Grown
  BY <1>1 DEF IndInv, TypeOK, TablesOK, BookInv, Grown, Alerts, ReadingOnce, OneOpenAlert,
              OutboxFollowsAlerts, SourceInv, FileInv, OnFile
<1>3. \A d \in Consumers : d # c => consumers'[d] = consumers[d] /\ Fits(consumers[d])'
  BY <1>1 DEF IndInv, Moved, Fits
<1>4. Fits(consumers[c])'
  BY DEF Moved, Fits
<1>5. ~InTransaction(c)' /\ \A e \in Events : ~HasLock(c, e)'
  BY DEF Moved, InTransaction, HasLock
<1> QED
  BY <1>2, <1>3, <1>4, <1>5, EngineStep DEF Moved

-----------------------------------------------------------------------------
(* The steps of an engine *)

\* A step within the transaction, or into it, that touches no table.
LEMMA TransactionStep ==
  ASSUME IndInv, NEW c \in Consumers, NEW x \in ConsumerStates,
         consumers' = [consumers EXCEPT ![c] = x], x.offset = consumers[c].offset,
         consumers[c].offset \in DOMAIN Log, Fits(x),
         UNCHANGED <<group, offsets, handlers, tables, history>>,
         x.pc \in {"lock", "find", "write"} => \A d \in Consumers : d # c /\ InTransaction(d) =>
           Message(d).asset # Message(c).asset,
         x.pc \in {"find", "write"} /\ Outcome(Message(c)) = "critical" =>
           \A h \in Handlers : ~CreatesFor(h, Message(c).event)
  PROVE  IndInv'
<1>1. /\ UNCHANGED <<assets, dedup_log, readings, alerts, outbox, sms_fallback_events,
                     sms_fallback_receipts, committed, stored, handled, failed, refused>>
  BY DEF tables, alert_tables, offsets, history
<1>2. TablesOK' /\ BookInv'
  BY <1>1 DEF IndInv, TypeOK, TablesOK, BookInv, Alerts, ReadingOnce, OneOpenAlert,
              OutboxFollowsAlerts, SourceInv, FileInv, OnFile
<1>3. consumers'[c] = x /\ \A d \in Consumers : d # c => consumers'[d] = consumers[d]
  BY DEF IndInv, TypeOK
<1>4. \A d \in Consumers : d # c => Fits(consumers[d])'
  BY <1>1, <1>3 DEF IndInv, Fits
<1>5. Fits(consumers[c])'
  BY <1>1, <1>3 DEF Fits
<1>6. consumers' \in [Consumers -> ConsumerStates']
  <2>1. Grown
    BY <1>1 DEF Grown, Alerts
  <2>2. x \in ConsumerStates'
    BY <2>1, ConsumersGrow DEF IndInv
  <2> QED
    BY <2>1, <2>2, ConsumersGrow DEF IndInv, TypeOK
<1>7. TriedInv'
  <2>1. owner' = owner /\ \A d \in Consumers : consumers'[d].offset = consumers[d].offset
    BY <1>3 DEF group
  <2> QED
    BY <1>1, <2>1 DEF IndInv, TypeOK, TriedInv
<1>8. HandledInv' /\ refused' = {} /\ stored' \in Positions /\ handled' \subseteq DOMAIN Log
        /\ failed' \subseteq DOMAIN Log
  BY <1>1 DEF IndInv, TypeOK, HandledInv, ReplayNeverRefused
<1>9. Message(c)' = Message(c)
  BY <1>3 DEF Message
<1>10. InTransaction(c)' => \A d \in Consumers : d # c /\ InTransaction(d) =>
         Message(d).asset # Message(c)'.asset
  BY <1>3, <1>9 DEF InTransaction
<1>11. \A e \in Events, h \in Handlers : HasLock(c, e)' => ~CreatesFor(h, e)
  BY <1>3, <1>9 DEF HasLock
<1>12. consumers'[c].pc # "idle" => consumers'[c].offset \in DOMAIN Log
  BY <1>3
<1>13. UNCHANGED <<group, handlers, committed>>
  BY <1>1
<1> QED
  BY <1>2, <1>3, <1>4, <1>5, <1>6, <1>7, <1>8, <1>10, <1>11, <1>12, <1>13, EngineStep

LEMMA ReceiveInv ==
  ASSUME IndInv, NEW c \in Consumers, Receive(c)
  PROVE  IndInv'
<1> DEFINE to == IF Outcome(Message(c)) = "malformed" THEN "park" ELSE "claim"
           x == [consumers[c] EXCEPT !.attempt = 1, !.pc = to]
<1>1. consumers[c] \in ConsumerStates /\ consumers[c].pc = "idle" /\ MaxAttempts \in Nat \ {0}
  BY LogAssumption DEF Receive, IndInv, TypeOK
<1>2. to \in {"park", "claim"} /\ (to = "park" => Outcome(Message(c)) = "malformed")
  OBVIOUS
<1>3. consumers' = [consumers EXCEPT ![c].attempt = 1, ![c].pc = to]
  BY DEF Receive
<1> HIDE DEF to
<1>4. consumers' = [consumers EXCEPT ![c] = x]
  BY <1>3 DEF IndInv, TypeOK, ConsumerStates
<1>5. x \in ConsumerStates /\ x.offset = consumers[c].offset /\ x.found = NoAlert /\ x.pc = to
  <2>1. 1 \in 0..MaxAttempts
    BY <1>1
  <2> QED
    BY <1>1, <1>2, <2>1 DEF ConsumerStates, IndInv, Fits
<1>6. Fits(x)
  BY <1>2, <1>5 DEF Fits, Message
<1> QED
  BY <1>2, <1>4, <1>5, <1>6, TransactionStep DEF Receive

LEMMA TablesStay ==
  ASSUME UNCHANGED alerts
  PROVE  Grown
BY DEF Grown, Alerts

LEMMA ParkInv ==
  ASSUME IndInv, NEW c \in Consumers, NEW written \in BOOLEAN, Park(c, written)
  PROVE  IndInv'
<1>1. consumers[c].pc = "park" /\ UNCHANGED <<group, handlers, tables, refused>>
  BY DEF Park
<1>2. Grown /\ dedup_log' = dedup_log
  BY <1>1, TablesStay DEF tables, alert_tables
<1>3. Moved(c) /\ (handled' = handled \/ handled' = handled \cup {consumers[c].offset})
  <2>1. Handled(c) \/ Unhandled(c)
    BY DEF Park
  <2> QED
    BY <1>1, <1>2, <2>1, HandledMoves, UnhandledMoves DEF IndInv
<1>4. HandledInv'
  <2>1. Outcome(Log[consumers[c].offset]) = "malformed"
    BY <1>1 DEF IndInv, Fits
  <2> QED
    BY <1>2, <1>3, <2>1 DEF IndInv, HandledInv
<1> QED
  BY <1>1, <1>3, <1>4, MovedInv DEF IndInv, ReplayNeverRefused

LEMMA ClaimDedupInv ==
  ASSUME IndInv, NEW c \in Consumers, ClaimDedup(c)
  PROVE  IndInv'
<1>1. /\ consumers[c].pc = "claim" /\ UNCHANGED <<group, handlers, tables, refused>>
      /\ consumers[c].offset \in DOMAIN Log /\ consumers[c] \in ConsumerStates
  BY DEF ClaimDedup, IndInv, TypeOK
<1>2. CASE Message(c).event \in dedup_log
  <2>1. Grown /\ dedup_log' = dedup_log /\ Handled(c)
    BY <1>1, <1>2, TablesStay DEF tables, alert_tables, ClaimDedup
  <2>2. Moved(c) /\ handled' = handled \cup {consumers[c].offset}
    BY <1>1, <2>1, HandledMoves DEF IndInv
  <2>3. HandledInv'
    BY <1>2, <2>1, <2>2 DEF IndInv, HandledInv, Message
  <2> QED
    BY <1>1, <2>2, <2>3, MovedInv DEF IndInv, ReplayNeverRefused
<1>3. CASE Message(c).event \notin dedup_log
  <2> DEFINE to == CASE Outcome(Message(c)) = "critical" -> "lock"
                     [] Outcome(Message(c)) = "unchanged" -> "write"
                     [] OTHER -> "find"
             x == [consumers[c] EXCEPT !.pc = to]
  <2>1. /\ consumers' = [consumers EXCEPT ![c].pc = to]
        /\ \A d \in Consumers : InTransaction(d) => Message(d).asset # Message(c).asset
        /\ UNCHANGED <<handled, failed, offsets>>
    BY <1>3 DEF ClaimDedup
  <2>2. /\ to \in {"lock", "write", "find"}
        /\ Outcome(Message(c)) = "critical" => to = "lock"
    OBVIOUS
  <2> HIDE DEF to
  <2>3. consumers' = [consumers EXCEPT ![c] = x]
    BY <2>1 DEF IndInv, TypeOK, ConsumerStates
  <2>4. /\ x \in ConsumerStates /\ x.offset = consumers[c].offset /\ x.found = NoAlert /\ x.pc = to
    BY <1>1, <2>2 DEF ConsumerStates, IndInv, Fits
  <2>5. Fits(x)
    BY <1>3, <2>2, <2>4 DEF Fits, Message
  <2> QED
    BY <1>1, <2>1, <2>2, <2>3, <2>4, <2>5, TransactionStep DEF history
<1> QED
  BY <1>2, <1>3

LEMMA LockEventInv ==
  ASSUME IndInv, NEW c \in Consumers, LockEvent(c)
  PROVE  IndInv'
<1> DEFINE x == [consumers[c] EXCEPT !.pc = "find"]
<1>1. /\ consumers[c].pc = "lock" /\ consumers[c].offset \in DOMAIN Log
      /\ consumers[c] \in ConsumerStates /\ Fits(consumers[c])
  BY DEF LockEvent, IndInv, TypeOK
<1>2. consumers' = [consumers EXCEPT ![c] = x]
  BY DEF LockEvent, IndInv, TypeOK, ConsumerStates
<1>3. /\ x \in ConsumerStates /\ x.offset = consumers[c].offset /\ x.found = consumers[c].found
      /\ x.pc = "find"
  BY <1>1 DEF ConsumerStates
<1>4. Fits(x)
  BY <1>1, <1>3 DEF Fits
<1>5. \A d \in Consumers : d # c /\ InTransaction(d) => Message(d).asset # Message(c).asset
  BY <1>1 DEF IndInv, AssetLockInv, InTransaction
<1> QED
  BY <1>1, <1>2, <1>3, <1>4, <1>5, TransactionStep DEF LockEvent, Unlocked

LEMMA FindAlertInv ==
  ASSUME IndInv, NEW c \in Consumers, FindAlert(c)
  PROVE  IndInv'
<1> DEFINE m == Message(c)
           a == CASE Outcome(m) = "resolve" -> OneOf(OpenAlerts(Condition(m)))
                  [] Outcome(m) = "critical" /\ m.event \in DOMAIN sms_fallback_events ->
                       sms_fallback_events[m.event].alert
                  [] OTHER -> ExistingAlert(m.event, Condition(m))
           x == [consumers[c] EXCEPT !.pc = "write", !.found = a]
<1>1. /\ consumers[c].pc = "find" /\ consumers[c].offset \in DOMAIN Log
      /\ consumers[c] \in ConsumerStates /\ Fits(consumers[c])
      /\ m = Log[consumers[c].offset] /\ m \in Messages
  BY LogFields DEF FindAlert, IndInv, TypeOK, Message
<1>2. /\ a \in {NoAlert} \cup Alerts
      /\ Outcome(m) = "critical" /\ m.event \in DOMAIN sms_fallback_events =>
           a = sms_fallback_events[m.event].alert
      /\ a # NoAlert => alerts[a].condition = Condition(m)
  <2>1. CASE Outcome(m) = "resolve"
    <3>1. a = OneOf(OpenAlerts(Condition(m)))
      BY <2>1
    <3>2. CASE OpenAlerts(Condition(m)) = {}
      BY <2>1, <3>1, <3>2 DEF OneOf
    <3>3. CASE OpenAlerts(Condition(m)) # {}
      <4>1. a \in OpenAlerts(Condition(m))
        BY <3>1, <3>3 DEF OneOf
      <4> QED
        BY <2>1, <4>1 DEF OpenAlerts
    <3> QED
      BY <3>2, <3>3
  <2>2. CASE Outcome(m) = "critical" /\ m.event \in DOMAIN sms_fallback_events
    BY <1>1, <2>2 DEF IndInv, TypeOK, TablesOK, BookInv, FileInv
  <2>3. CASE Outcome(m) # "resolve" /\ ~(Outcome(m) = "critical" /\ m.event \in DOMAIN sms_fallback_events)
    <3>1. a = ExistingAlert(m.event, Condition(m))
      BY <2>3
    <3>2. a # NoAlert => a \in Alerts /\ (alerts[a].source = m.event \/ alerts[a].condition = Condition(m))
      BY <3>1, Lookup
    <3> QED
      BY <1>1, <2>3, <3>2 DEF IndInv, BookInv, SourceInv
  <2> QED
    BY <2>1, <2>2, <2>3
<1>3. consumers' = [consumers EXCEPT ![c] = x]
  BY DEF FindAlert, IndInv, TypeOK, ConsumerStates
<1> HIDE DEF a
<1>4. /\ x \in ConsumerStates /\ x.offset = consumers[c].offset /\ x.found = a /\ x.pc = "write"
  BY <1>1, <1>2 DEF ConsumerStates
<1>5. Fits(x)
  BY <1>1, <1>2, <1>4 DEF Fits
<1>6. \A d \in Consumers : d # c /\ InTransaction(d) => Message(d).asset # Message(c).asset
  BY <1>1 DEF IndInv, AssetLockInv, InTransaction
<1>7. Outcome(m) = "critical" => \A h \in Handlers : ~CreatesFor(h, m.event)
  BY <1>1, MessageFields DEF IndInv, EventLockInv, HasLock
<1> QED
  BY <1>1, <1>3, <1>4, <1>5, <1>6, <1>7, TransactionStep DEF FindAlert

LEMMA EventsType ==
  ASSUME IndInv
  PROVE  EventsOK /\ AlertsOK
BY BookAlerts DEF IndInv, TypeOK, TablesOK, BookInv, EventsOK

\* What the transaction writes about alerts leaves one open alert per condition and one alert
\* per event on file.
LEMMA WriteAlertKeeps ==
  ASSUME IndInv, NEW c \in Consumers, consumers[c].pc = "write", WriteAlert(c),
         dedup_log' = dedup_log \cup {Message(c).event}
  PROVE  AlertsOK' /\ Grown /\ EventsOK' /\ FiledAt(Message(c).event)
<1> DEFINE m == Message(c)
           a == consumers[c].found
<1>1. /\ m = Log[consumers[c].offset] /\ m \in Messages /\ m.event \in Events
      /\ Fits(consumers[c]) /\ a \in {NoAlert} \cup Alerts
      /\ \A n \in Messages : n.event = m.event => n = m
  BY LogFields, LogAssumption DEF IndInv, TypeOK, Message, ConsumerStates
<1>2. AlertsOK' /\ Grown /\ (Opens(c) => Linked(c) \in Alerts' /\ alerts'[Linked(c)].condition = Condition(m))
  <2>1. CASE Opens(c) /\ ~Collides(m.event, Condition(m)) /\ InsertAlert(m.event, Condition(m))
    <3>1. Condition(m) \in Conditions
      BY <1>1, <2>1, ConditionType DEF Opens
    <3>2. Linked(c) = Len(alerts) + 1
      BY <2>1 DEF Linked
    <3> QED
      BY <1>1, <2>1, <3>1, <3>2, EventsType, InsertKeeps
  <2>2. CASE Outcome(m) = "resolve" /\ a # NoAlert /\ StillOpen(a) /\ MarkResolved(a)
    <3>1. ~Opens(c)
      BY <2>2 DEF Opens
    <3> QED
      BY <1>1, <2>2, <3>1, EventsType, ResolveKeeps
  <2>3. CASE ~Opens(c) /\ UNCHANGED <<alerts, outbox>>
    <3>1. AlertsOK'
      BY <2>3, EventsType DEF AlertsOK, OneOpenAlert, OutboxFollowsAlerts, SourceInv, Alerts
    <3> QED
      BY <2>3, <3>1, TablesStay
  <2> QED
    BY <2>1, <2>2, <2>3 DEF WriteAlert
<1>3. CASE Outcome(m) = "critical"
  <2>1. /\ ~ReplayConflicts(m.event, Linked(c))
        /\ sms_fallback_events' =
             Put(sms_fallback_events, m.event, [alert |-> Linked(c), replayed |-> TRUE])
    BY <1>3 DEF WriteAlert, RecordReplay
  <2>2. Linked(c) \in Alerts' /\ alerts'[Linked(c)].condition = Condition(m)
    <3>1. CASE Opens(c)
      BY <1>2, <3>1
    <3>2. CASE ~Opens(c)
      <4>1. Linked(c) = a /\ a # NoAlert
        BY <1>3, <3>2 DEF Linked, Opens
      <4> QED
        BY <1>1, <1>2, <4>1 DEF Fits, Grown
    <3> QED
      BY <3>1, <3>2
  <2>3. \A n \in Messages : n.event = m.event => alerts'[Linked(c)].condition = Condition(n)
    BY <1>1, <2>2
  <2> QED
    BY <1>1, <1>2, <2>1, <2>2, <2>3, EventsType, FilePut
<1>4. CASE Outcome(m) # "critical"
  <2>1. UNCHANGED sms_fallback_events
    BY <1>4 DEF WriteAlert
  <2>2. \A n \in Messages : Outcome(n) = "critical" /\ n.event \in dedup_log' => n.event \in dedup_log
    BY <1>1, <1>4
  <2> QED
    BY <1>2, <2>1, <2>2, EventsType, FileStays DEF FiledAt
<1> QED
  BY <1>3, <1>4

LEMMA CommitInv ==
  ASSUME IndInv, NEW c \in Consumers, NEW answered \in BOOLEAN, Commit(c, answered)
  PROVE  IndInv'
<1> DEFINE m == Message(c)
<1>1. /\ consumers[c].pc = "write" /\ WriteAlert(c) /\ dedup_log' = dedup_log \cup {m.event}
      /\ assets' = assets \cup {m.asset} /\ readings' = [readings EXCEPT ![m.event] = @ + 1]
      /\ UNCHANGED <<group, handlers, sms_fallback_receipts, refused>>
      /\ Handled(c) \/ RetryOrGiveUp(c)
  BY DEF Commit
<1>2. /\ m = Log[consumers[c].offset] /\ m \in Messages /\ m.event \in Events /\ m.asset \in Assets
      /\ m.event \notin dedup_log
  BY <1>1, LogFields DEF IndInv, TypeOK, Message, Fits
<1>3. AlertsOK' /\ Grown /\ EventsOK' /\ FiledAt(m.event)
  BY <1>1, WriteAlertKeeps
<1>4. TablesOK' /\ BookInv'
  <2>1. /\ assets' \subseteq Assets /\ dedup_log' \subseteq Events
        /\ readings' \in [Events -> Nat] /\ sms_fallback_receipts' \subseteq Receipts
    BY <1>1, <1>2 DEF IndInv, TypeOK, TablesOK
  <2>2. ReadingOnce'
    <3> SUFFICES ASSUME NEW e \in Events
                 PROVE  readings'[e] = IF e \in dedup_log' THEN 1 ELSE 0
      BY DEF ReadingOnce, Events, Messages
    <3>1. readings[e] = (IF e \in dedup_log THEN 1 ELSE 0) /\ readings \in [Events -> Nat]
      BY DEF IndInv, BookInv, ReadingOnce, TypeOK, TablesOK
    <3>2. CASE e = m.event
      BY <1>1, <1>2, <3>1, <3>2
    <3>3. CASE e # m.event
      BY <1>1, <1>2, <3>1, <3>3
    <3> QED
      BY <3>2, <3>3
  <2>3. /\ Assets' = Assets /\ Events' = Events /\ Receipts' = Receipts /\ Conditions' = Conditions
    BY DEF Assets, Events, Receipts, Conditions, Messages
  <2> QED
    BY <1>3, <2>1, <2>2, <2>3 DEF AlertsOK, EventsOK, TablesOK, BookInv, AlertRows
<1>5. Moved(c) /\ handled' \subseteq handled \cup {consumers[c].offset}
  BY <1>1, <1>3, HandledMoves, RetryMoves DEF IndInv
<1>6. HandledInv'
  BY <1>1, <1>2, <1>5 DEF IndInv, HandledInv
<1>7. ASSUME NEW d \in Consumers, d # c
      PROVE  consumers'[d] = consumers[d] /\ Fits(consumers[d])'
  <2>1. consumers'[d] = consumers[d] /\ Fits(consumers[d])
    BY <1>5, <1>7 DEF Moved, IndInv
  <2>2. InTransaction(d) => /\ Message(d).event \in Events /\ Message(d).event # m.event
                            /\ Message(d).event \notin dedup_log
    <3> SUFFICES ASSUME InTransaction(d)
                 PROVE  /\ Message(d).event \in Events /\ Message(d).event # m.event
                        /\ Message(d).event \notin dedup_log
      OBVIOUS
    <3>1. /\ Message(d) \in Messages /\ Message(d).event \in Events
          /\ Message(d).event \notin dedup_log
      BY <2>1, LogFields DEF IndInv, TypeOK, Message, Fits, InTransaction
    <3>2. Message(d).asset # m.asset
      BY <1>1, <1>7 DEF IndInv, AssetLockInv, InTransaction
    <3> QED
      BY <1>2, <3>1, <3>2, LogAssumption
  <2>3. InTransaction(d) => Message(d).event \notin dedup_log'
    BY <1>1, <2>2
  <2>4. consumers[d].pc = "write" => InTransaction(d)
    BY DEF InTransaction
  <2> QED
    BY <1>3, <2>1, <2>2, <2>3, <2>4, KeptFits DEF IndInv, FiledAt
<1>8. Fits(consumers[c])' /\ ~InTransaction(c)' /\ \A e \in Events : ~HasLock(c, e)'
  BY <1>5 DEF Moved, Fits, InTransaction, HasLock
<1>9. refused' = {}
  BY <1>1 DEF IndInv, ReplayNeverRefused
<1> QED
  BY <1>1, <1>4, <1>5, <1>6, <1>7, <1>8, <1>9, EngineStep DEF Moved

LEMMA StorageErrorInv ==
  ASSUME IndInv, NEW c \in Consumers, StorageError(c)
  PROVE  IndInv'
<1>1. /\ consumers[c].pc # "idle" /\ RetryOrGiveUp(c) /\ UNCHANGED <<group, handlers, tables, refused>>
  BY DEF StorageError, InTransaction
<1>2. Grown /\ dedup_log' = dedup_log
  BY <1>1, TablesStay DEF tables, alert_tables
<1>3. Moved(c) /\ handled' = handled
  BY <1>1, <1>2, RetryMoves DEF IndInv
<1>4. HandledInv'
  BY <1>2, <1>3 DEF IndInv, HandledInv
<1> QED
  BY <1>1, <1>3, <1>4, MovedInv DEF IndInv, ReplayNeverRefused

\* An event on file has the alert the consumer found, so its replay does not conflict.
LEMMA MessageErrorInv ==
  ASSUME IndInv, NEW c \in Consumers, MessageError(c)
  PROVE  IndInv'
<1> DEFINE m == Message(c)
<1>1. /\ consumers[c].pc = "write" /\ Unhandled(c) /\ UNCHANGED <<group, handlers, tables>>
      /\ refused' = IF Outcome(m) = "critical" THEN refused \cup {m.event} ELSE refused
  BY DEF MessageError
<1>2. Outcome(m) # "critical"
  <2> SUFFICES ASSUME Outcome(m) = "critical"
               PROVE  FALSE
    OBVIOUS
  <2>1. ReplayConflicts(m.event, Linked(c))
    BY DEF MessageError
  <2>2. /\ m.event \in DOMAIN sms_fallback_events
        /\ sms_fallback_events[m.event].alert # Linked(c)
    BY <2>1 DEF ReplayConflicts
  <2>3. sms_fallback_events[m.event].alert = consumers[c].found
    BY <1>1, <2>2 DEF IndInv, Fits, Message
  <2>4. consumers[c].found # NoAlert
    BY <2>2, <2>3, EventsType, AlertsDomain DEF EventsOK, AlertsOK
  <2> QED
    BY <2>2, <2>3, <2>4 DEF Linked, Opens
<1>3. Grown /\ dedup_log' = dedup_log
  BY <1>1, TablesStay DEF tables, alert_tables
<1>4. Moved(c) /\ handled' = handled
  BY <1>1, <1>3, UnhandledMoves DEF IndInv
<1>5. HandledInv'
  BY <1>3, <1>4 DEF IndInv, HandledInv
<1> QED
  BY <1>1, <1>2, <1>4, <1>5, MovedInv DEF IndInv, ReplayNeverRefused

-----------------------------------------------------------------------------
(* Offsets, restarts and the API *)

LEMMA AutoCommitInv ==
  ASSUME IndInv, AutoCommit
  PROVE  IndInv'
<1>1. /\ committed' = stored /\ stored' = stored /\ committed \in Positions /\ stored \in Positions
      /\ UNCHANGED <<group, consumers, handlers, tables, history>>
  BY DEF AutoCommit, IndInv, TypeOK
<1>2. /\ UNCHANGED <<assets, dedup_log, readings, alerts, outbox, sms_fallback_events,
                     sms_fallback_receipts, handled, failed, refused, owner, generation>>
  BY <1>1 DEF tables, alert_tables, history, group
<1>3. TriedInv'
  BY <1>1, <1>2 DEF IndInv, TriedInv
<1> QED
  BY <1>1, <1>2, <1>3 DEF IndInv, TypeOK, TablesOK, BookInv, Alerts, ReadingOnce, OneOpenAlert,
       OutboxFollowsAlerts, SourceInv, FileInv, OnFile, Fits, AssetLockInv, EventLockInv,
       InTransaction, HasLock, CreatesFor, Message, HandledInv, ReplayNeverRefused,
       ConsumerStates, HandlerStates

LEMMA AssignInv ==
  ASSUME IndInv, NEW c \in Consumers, Assign(c)
  PROVE  IndInv'
<1>1. /\ owner' = c /\ generation' = generation + 1 /\ generation < MaxGenerations
      /\ stored' = committed /\ committed' = committed
      /\ consumers' = [consumers EXCEPT ![c] = Waiting(committed)]
      /\ UNCHANGED <<handlers, tables, history>>
  BY DEF Assign
<1>2. /\ UNCHANGED <<assets, dedup_log, readings, alerts, outbox, sms_fallback_events,
                     sms_fallback_receipts, handled, failed, refused>>
  BY <1>1 DEF tables, alert_tables, history
<1>3. committed \in Positions /\ generation' \in 1..MaxGenerations
  BY <1>1, LogAssumption DEF IndInv, TypeOK
<1>4. consumers' \in [Consumers -> ConsumerStates']
  BY <1>1, <1>2, <1>3, TablesStay, ConsumersGrow DEF IndInv, TypeOK
<1>5. /\ consumers'[c] = Waiting(committed)
      /\ \A d \in Consumers : d # c => consumers'[d] = consumers[d]
  BY <1>1 DEF IndInv, TypeOK
<1>6. /\ consumers'[c].pc = "idle" /\ consumers'[c].offset = committed
      /\ consumers'[c].found = NoAlert
  BY <1>5 DEF Waiting
<1>7. TypeOK' /\ BookInv'
  BY <1>1, <1>2, <1>3, <1>4, <1>5, <1>6 DEF IndInv, TypeOK, TablesOK, BookInv, Alerts,
       ReadingOnce, OneOpenAlert, OutboxFollowsAlerts, SourceInv, FileInv, OnFile, HandlerStates
<1>8. \A d \in Consumers : Fits(consumers[d])'
  BY <1>2, <1>5, <1>6 DEF IndInv, Fits
<1>9. AssetLockInv' /\ EventLockInv'
  BY <1>1, <1>5, <1>6 DEF IndInv, AssetLockInv, EventLockInv, InTransaction, HasLock, CreatesFor,
       Message
<1>10. TriedInv'
  BY <1>1, <1>2, <1>6 DEF IndInv, TriedInv
<1> QED
  BY <1>2, <1>7, <1>8, <1>9, <1>10 DEF IndInv, HandledInv, ReplayNeverRefused

\* A transaction of the API or of an operator: the consumers see its rows, but none of the event
\* whose lock they hold.
LEMMA ApiStep ==
  ASSUME IndInv, AlertsOK', Grown, EventsOK',
         handlers' \in [Handlers -> HandlerStates],
         sms_fallback_receipts' \subseteq Receipts,
         \A c \in Consumers, e \in Events : HasLock(c, e) =>
           /\ \A h \in Handlers : ~CreatesFor(h, e)'
           /\ e \in DOMAIN sms_fallback_events' =>
                /\ e \in DOMAIN sms_fallback_events
                /\ sms_fallback_events'[e] = sms_fallback_events[e],
         UNCHANGED <<group, offsets, consumers, assets, dedup_log, readings, history>>
  PROVE  IndInv'
<1>1. UNCHANGED <<owner, generation, committed, stored, handled, failed, refused, consumers,
                  assets, dedup_log, readings>>
  BY DEF group, offsets, history
<1>2. TablesOK' /\ BookInv'
  <2>1. Assets' = Assets /\ Events' = Events /\ Receipts' = Receipts /\ Conditions' = Conditions
    BY DEF Assets, Events, Receipts, Conditions, Messages
  <2> QED
    BY <1>1, <2>1 DEF IndInv, TypeOK, AlertsOK, EventsOK, TablesOK, BookInv, AlertRows, ReadingOnce
<1>3. TypeOK'
  <2>1. consumers' \in [Consumers -> ConsumerStates']
    BY <1>1, ConsumersGrow DEF IndInv, TypeOK
  <2> QED
    BY <1>1, <1>2, <2>1 DEF IndInv, TypeOK, HandlerStates
<1>4. \A c \in Consumers : Fits(consumers[c])'
  <2> TAKE c \in Consumers
  <2>1. consumers'[c] = consumers[c] /\ Fits(consumers[c])
    BY <1>1 DEF IndInv
  <2>2. InTransaction(c) => Message(c).event \notin dedup_log'
    BY <1>1 DEF IndInv, Fits, InTransaction, Message
  <2>3. consumers[c].pc = "write" /\ Outcome(Message(c)) = "critical" =>
          HasLock(c, Message(c).event) /\ Message(c).event \in Events
    BY LogFields DEF IndInv, TypeOK, HasLock, Message
  <2> QED
    BY <2>1, <2>2, <2>3, KeptFits DEF IndInv
<1>5. AssetLockInv'
  BY <1>1 DEF IndInv, AssetLockInv, InTransaction, Message
<1>6. EventLockInv'
  <2>1. \A c \in Consumers, e \in Events : HasLock(c, e)' <=> HasLock(c, e)
    BY <1>1 DEF HasLock, Message
  <2> QED
    BY <2>1 DEF EventLockInv
<1> QED
  BY <1>1, <1>2, <1>3, <1>4, <1>5, <1>6 DEF IndInv, TriedInv, HandledInv, ReplayNeverRefused

LEMMA ReceiveRepeatedInv ==
  ASSUME IndInv, NEW s \in Sms, ReceiveRepeated(s)
  PROVE  IndInv'
<1>1. /\ sms_fallback_receipts' = sms_fallback_receipts \cup {s.id}
      /\ UNCHANGED <<group, offsets, consumers, handlers, assets, dedup_log, readings, alerts,
                     outbox, sms_fallback_events, history>>
  BY DEF ReceiveRepeated, alert_tables
<1>2. Grown /\ AlertsOK' /\ EventsOK'
  BY <1>1, EventsType, TablesStay, FileStays
     DEF AlertsOK, OneOpenAlert, OutboxFollowsAlerts, SourceInv, Alerts
<1>3. handlers' \in [Handlers -> HandlerStates] /\ sms_fallback_receipts' \subseteq Receipts
  BY <1>1, TextFields DEF IndInv, TypeOK, TablesOK
<1>4. \A c \in Consumers, e \in Events : HasLock(c, e) => \A h \in Handlers : ~CreatesFor(h, e)'
  BY <1>1 DEF IndInv, EventLockInv, CreatesFor
<1> QED
  BY <1>1, <1>2, <1>3, <1>4, ApiStep

\* A text's event comes on file with an alert of its condition.
LEMMA TextFiled ==
  ASSUME IndInv, NEW s \in Sms, NEW a \in Alerts', Grown, UNCHANGED dedup_log,
         s.event \notin DOMAIN sms_fallback_events,
         \A m \in Messages : m.event = s.event => alerts'[a].condition = Condition(m),
         sms_fallback_events' = Put(sms_fallback_events, s.event, [alert |-> a, replayed |-> FALSE])
  PROVE  EventsOK' /\ FiledAt(s.event)
<1>1. s.event \in Events
  BY TextFields
<1>2. \A m \in Messages : Outcome(m) = "critical" /\ m.event \in dedup_log =>
        m.event \in DOMAIN sms_fallback_events
  BY DEF IndInv, BookInv, FileInv, OnFile
<1>3. \A m \in Messages : Outcome(m) = "critical" /\ m.event \in dedup_log' =>
        m.event \in dedup_log /\ m.event # s.event
  BY <1>2
<1> QED
  BY <1>1, <1>3, EventsType, FilePut

LEMMA ReceiveLinkedInv ==
  ASSUME IndInv, NEW s \in Sms, ReceiveLinked(s)
  PROVE  IndInv'
<1> DEFINE a == ExistingAlert(s.event, TextCondition(s))
<1>1. /\ Unlocked(s.event) /\ s.event \notin DOMAIN sms_fallback_events /\ a # NoAlert
      /\ sms_fallback_events' =
           Put(sms_fallback_events, s.event, [alert |-> a, replayed |-> FALSE])
      /\ sms_fallback_receipts' = sms_fallback_receipts \cup {s.id}
      /\ UNCHANGED <<group, offsets, consumers, handlers, assets, dedup_log, readings, alerts,
                     outbox, history>>
  BY DEF ReceiveLinked
<1>2. Grown /\ AlertsOK' /\ Alerts' = Alerts
  BY <1>1, EventsType, TablesStay
     DEF AlertsOK, OneOpenAlert, OutboxFollowsAlerts, SourceInv, Alerts
<1>3. /\ a \in Alerts
      /\ alerts[a].source = s.event \/ alerts[a].condition = TextCondition(s)
  BY <1>1, Lookup
<1>4. \A m \in Messages : m.event = s.event => alerts'[a].condition = Condition(m)
  BY <1>1, <1>3, TextFields DEF IndInv, BookInv, SourceInv
<1>5. EventsOK' /\ FiledAt(s.event)
  <2> HIDE DEF a
  <2> QED
    BY <1>1, <1>2, <1>3, <1>4, TextFiled
<1>6. handlers' \in [Handlers -> HandlerStates] /\ sms_fallback_receipts' \subseteq Receipts
  BY <1>1, TextFields DEF IndInv, TypeOK, TablesOK
<1>7. \A c \in Consumers, e \in Events : HasLock(c, e) =>
        e # s.event /\ \A h \in Handlers : ~CreatesFor(h, e)'
  BY <1>1 DEF IndInv, EventLockInv, CreatesFor, Unlocked
<1> QED
  BY <1>1, <1>2, <1>5, <1>6, <1>7, ApiStep DEF FiledAt

LEMMA ReceiveNewInv ==
  ASSUME IndInv, NEW h \in Handlers, NEW s \in Sms, ReceiveNew(h, s)
  PROVE  IndInv'
<1>1. /\ Unlocked(s.event) /\ handlers' = [handlers EXCEPT ![h] = [pc |-> "create", sms |-> s]]
      /\ UNCHANGED <<group, offsets, consumers, assets, dedup_log, readings, alerts, outbox,
                     sms_fallback_events, sms_fallback_receipts, history>>
  BY DEF ReceiveNew, tables, alert_tables
<1>2. Grown /\ AlertsOK' /\ EventsOK'
  BY <1>1, EventsType, TablesStay, FileStays
     DEF AlertsOK, OneOpenAlert, OutboxFollowsAlerts, SourceInv, Alerts
<1>3. handlers' \in [Handlers -> HandlerStates] /\ sms_fallback_receipts' \subseteq Receipts
  BY <1>1 DEF IndInv, TypeOK, TablesOK, HandlerStates
<1>4. \A c \in Consumers, e \in Events : HasLock(c, e) => \A g \in Handlers : ~CreatesFor(g, e)'
  BY <1>1 DEF IndInv, TypeOK, EventLockInv, CreatesFor, Unlocked
<1> QED
  BY <1>1, <1>2, <1>3, <1>4, ApiStep

LEMMA CreateAlertInv ==
  ASSUME IndInv, NEW h \in Handlers, CreateAlert(h)
  PROVE  IndInv'
<1> DEFINE s == handlers[h].sms
           a == Len(alerts) + 1
<1>1. /\ handlers[h].pc = "create" /\ ~Collides(s.event, TextCondition(s))
      /\ s.event \notin DOMAIN sms_fallback_events /\ InsertAlert(s.event, TextCondition(s))
      /\ sms_fallback_events' =
           Put(sms_fallback_events, s.event, [alert |-> a, replayed |-> FALSE])
      /\ sms_fallback_receipts' = sms_fallback_receipts \cup {s.id}
      /\ handlers' = [handlers EXCEPT ![h] = HandlerIdle]
      /\ UNCHANGED <<group, offsets, consumers, assets, dedup_log, readings, history>>
  BY DEF CreateAlert
<1>2. s \in Sms
  BY <1>1 DEF IndInv, TypeOK, HandlerStates, HandlerIdle
<1>3. /\ s.event \in Events /\ TextCondition(s) \in Conditions /\ s.id \in Receipts
      /\ \A m \in Messages : m.event = s.event => TextCondition(s) = Condition(m)
  BY <1>2, TextFields
<1>4. AlertsOK' /\ Grown /\ a \in Alerts' /\ alerts'[a].condition = TextCondition(s)
  BY <1>1, <1>3, EventsType, InsertKeeps
<1>5. EventsOK' /\ FiledAt(s.event)
  <2> HIDE DEF s, a
  <2> QED
    BY <1>1, <1>2, <1>3, <1>4, TextFiled
<1>6. handlers' \in [Handlers -> HandlerStates] /\ sms_fallback_receipts' \subseteq Receipts
  BY <1>1, <1>3 DEF IndInv, TypeOK, TablesOK, HandlerStates
<1>7. \A c \in Consumers, e \in Events : HasLock(c, e) =>
        e # s.event /\ \A g \in Handlers : ~CreatesFor(g, e)'
  BY <1>1 DEF IndInv, TypeOK, EventLockInv, CreatesFor, HandlerIdle
<1> QED
  BY <1>1, <1>4, <1>5, <1>6, <1>7, ApiStep DEF FiledAt

LEMMA CreateFailsInv ==
  ASSUME IndInv, NEW h \in Handlers, CreateFails(h)
  PROVE  IndInv'
<1>1. /\ handlers' = [handlers EXCEPT ![h] = HandlerIdle]
      /\ UNCHANGED <<group, offsets, consumers, assets, dedup_log, readings, alerts, outbox,
                     sms_fallback_events, sms_fallback_receipts, history>>
  BY DEF CreateFails, tables, alert_tables
<1>2. Grown /\ AlertsOK' /\ EventsOK'
  BY <1>1, EventsType, TablesStay, FileStays
     DEF AlertsOK, OneOpenAlert, OutboxFollowsAlerts, SourceInv, Alerts
<1>3. handlers' \in [Handlers -> HandlerStates] /\ sms_fallback_receipts' \subseteq Receipts
  BY <1>1 DEF IndInv, TypeOK, TablesOK, HandlerStates
<1>4. \A c \in Consumers, e \in Events : HasLock(c, e) => \A g \in Handlers : ~CreatesFor(g, e)'
  BY <1>1 DEF IndInv, TypeOK, EventLockInv, CreatesFor, HandlerIdle
<1> QED
  BY <1>1, <1>2, <1>3, <1>4, ApiStep

LEMMA ResolveAlertInv ==
  ASSUME IndInv, NEW a \in Alerts, ResolveAlert(a)
  PROVE  IndInv'
<1>1. /\ StillOpen(a) /\ MarkResolved(a)
      /\ UNCHANGED <<group, offsets, consumers, handlers, assets, dedup_log, readings,
                     sms_fallback_events, sms_fallback_receipts, history>>
  BY DEF ResolveAlert
<1>2. Grown /\ AlertsOK'
  BY <1>1, EventsType, ResolveKeeps
<1>3. EventsOK'
  BY <1>1, <1>2, EventsType, FileStays
<1>4. handlers' \in [Handlers -> HandlerStates] /\ sms_fallback_receipts' \subseteq Receipts
  BY <1>1 DEF IndInv, TypeOK, TablesOK
<1>5. \A c \in Consumers, e \in Events : HasLock(c, e) => \A g \in Handlers : ~CreatesFor(g, e)'
  BY <1>1 DEF IndInv, EventLockInv, CreatesFor
<1> QED
  BY <1>1, <1>2, <1>3, <1>4, <1>5, ApiStep

-----------------------------------------------------------------------------
(* Theorems *)

LEMMA InitInv == Init => IndInv
<1> SUFFICES ASSUME Init
             PROVE  IndInv
  OBVIOUS
<1>1. /\ owner \in Consumers /\ generation = 1 /\ committed = 1 /\ stored = 1
      /\ assets = Provisioned /\ dedup_log = {} /\ readings = [e \in Events |-> 0]
      /\ alerts = << >> /\ outbox = << >> /\ sms_fallback_events = << >>
      /\ sms_fallback_receipts = {} /\ handled = {} /\ failed = {} /\ refused = {}
      /\ handlers = [h \in Handlers |-> HandlerIdle]
  BY DEF Init
<1>2. Alerts = {} /\ DOMAIN sms_fallback_events = {}
  BY <1>1 DEF Alerts
<1>3. 1 \in Positions /\ MaxGenerations \in Nat \ {0} /\ MaxAttempts \in Nat
  BY LogAssumption DEF Positions
<1>4. \A c \in Consumers : /\ consumers[c] = Waiting(1)
                           /\ consumers[c].pc = "idle" /\ consumers[c].offset = 1
                           /\ consumers[c].found = NoAlert
  BY DEF Init, Waiting
<1>5. Waiting(1) \in ConsumerStates
  BY <1>3 DEF Waiting, ConsumerStates, NoAlert
<1>6. TablesOK
  <2>1. Provisioned \subseteq Assets
    BY DEF Assets
  <2>2. alerts \in Seq([condition : Conditions, source : Events, status : {"open", "resolved"}])
    BY <1>1
  <2>3. /\ outbox \in Seq(Seq({"alert.opened", "alert.resolved"}))
        /\ Len(outbox) = Len(alerts)
    BY <1>1
  <2>4. sms_fallback_events \in [DOMAIN sms_fallback_events -> [alert : Alerts, replayed : BOOLEAN]]
    BY <1>1, <1>2
  <2> QED
    BY <1>1, <1>2, <2>1, <2>2, <2>3, <2>4 DEF TablesOK
<1>7. TypeOK
  <2>1. consumers \in [Consumers -> ConsumerStates]
    BY <1>5 DEF Init
  <2>2. handlers \in [Handlers -> HandlerStates]
    BY <1>1 DEF HandlerStates
  <2> QED
    BY <1>1, <1>3, <1>4, <1>6, <2>1, <2>2 DEF TypeOK
<1>8. BookInv
  BY <1>1, <1>2 DEF BookInv, ReadingOnce, OneOpenAlert, OutboxFollowsAlerts, SourceInv, FileInv
<1>9. AssetLockInv /\ EventLockInv /\ \A c \in Consumers : Fits(consumers[c])
  BY <1>4 DEF AssetLockInv, EventLockInv, InTransaction, HasLock, Fits
<1>10. TriedInv
  <2>1. \A o \in DOMAIN Log : ~(o < 1)
    BY LogFields
  <2> QED
    BY <1>1, <1>4, <2>1 DEF TriedInv
<1> QED
  BY <1>1, <1>7, <1>8, <1>9, <1>10 DEF IndInv, HandledInv, ReplayNeverRefused

LEMMA NextInv == IndInv /\ [Next]_vars => IndInv'
<1> SUFFICES ASSUME IndInv, [Next]_vars
             PROVE  IndInv'
  OBVIOUS
<1>1. ASSUME NEW c \in Consumers, Engine(c)
      PROVE  IndInv'
  BY <1>1, ReceiveInv, ParkInv, ClaimDedupInv, LockEventInv, FindAlertInv, CommitInv,
     StorageErrorInv, MessageErrorInv DEF Engine
<1>2. CASE AutoCommit
  BY <1>2, AutoCommitInv
<1>3. ASSUME NEW c \in Consumers, Assign(c)
      PROVE  IndInv'
  BY <1>3, AssignInv
<1>4. CASE Api
  BY <1>4, ReceiveRepeatedInv, ReceiveLinkedInv, ReceiveNewInv, CreateAlertInv, CreateFailsInv,
     ResolveAlertInv DEF Api
<1>5. CASE UNCHANGED vars
  <2>1. /\ UNCHANGED <<owner, generation, committed, stored, consumers, handlers, assets, dedup_log,
                       readings, alerts, outbox, sms_fallback_events, sms_fallback_receipts,
                       handled, failed, refused>>
    BY <1>5 DEF vars, group, offsets, tables, alert_tables, history
  <2> QED
    BY <2>1 DEF IndInv, TypeOK, TablesOK, BookInv, Alerts, ReadingOnce, OneOpenAlert,
         OutboxFollowsAlerts, SourceInv, FileInv, OnFile, Fits, AssetLockInv, EventLockInv,
         InTransaction, HasLock, CreatesFor, Message, HandledInv, ReplayNeverRefused, TriedInv,
         ConsumerStates, HandlerStates
<1> QED
  BY <1>1, <1>2, <1>3, <1>4, <1>5 DEF Next

\* The invariant holds throughout, for any engines, handlers, partition and texts.
THEOREM Invariance == Spec => []IndInv
  BY InitInv, NextInv, PTL DEF Spec

\* Rows, offsets and transactions keep their types for any engines, handlers, partition and texts.
THEOREM TypeCorrectness == Spec => []TypeOK
<1>1. IndInv => TypeOK
  BY DEF IndInv
<1> QED
  BY <1>1, Invariance, PTL

\* The readings of a partition are appended once, whatever is redelivered, retried or rebalanced.
THEOREM ReadingOnceTheorem == Spec => []ReadingOnce
<1>1. IndInv => ReadingOnce
  BY DEF IndInv, BookInv
<1> QED
  BY <1>1, Invariance, PTL

\* Engines and API, which look for an alert before they insert one, never open two for a condition.
THEOREM OneOpenAlertTheorem == Spec => []OneOpenAlert
<1>1. IndInv => OneOpenAlert
  BY DEF IndInv, BookInv
<1> QED
  BY <1>1, Invariance, PTL

\* The outbox has one opening of each alert, and one resolution exactly if it is resolved.
THEOREM OutboxTheorem == Spec => []OutboxFollowsAlerts
<1>1. IndInv => OutboxFollowsAlerts
  BY DEF IndInv, BookInv
<1> QED
  BY <1>1, Invariance, PTL

\* The shared advisory lock makes SMS and replay of an event agree on its alert.
THEOREM ReplayTheorem == Spec => []ReplayNeverRefused
<1>1. IndInv => ReplayNeverRefused
  BY DEF IndInv
<1> QED
  BY <1>1, Invariance, PTL

\* A handled critical message has its event on file as replayed, with an alert of its condition:
\* it was committed, and what is committed stays on file.
THEOREM CriticalOnFileTheorem == Spec => []CriticalOnFile
<1>1. IndInv => CriticalOnFile
  <2> SUFFICES ASSUME IndInv, NEW o \in handled, Outcome(Log[o]) = "critical"
               PROVE  OnFile(Log[o])
    BY DEF CriticalOnFile
  <2>1. o \in DOMAIN Log /\ Log[o].event \in dedup_log
    BY DEF IndInv, TypeOK, HandledInv
  <2> QED
    BY <2>1, LogFields DEF IndInv, BookInv, FileInv
<1> QED
  BY <1>1, Invariance, PTL

\* Committed offsets skip no message that nobody tried.
THEOREM CommittedTheorem == Spec => []CommittedWasTried
<1>1. IndInv => CommittedWasTried
  <2> SUFFICES ASSUME IndInv, NEW o \in 1..(committed - 1)
               PROVE  o \in handled \cup failed
    BY DEF CommittedWasTried
  <2>1. committed \in 1..(Len(Log) + 1) /\ DOMAIN Log = 1..Len(Log) /\ Len(Log) \in Nat
    BY LogAssumption DEF IndInv, TypeOK, Positions
  <2>2. o \in DOMAIN Log /\ o < committed
    BY <2>1
  <2> QED
    BY <2>2 DEF IndInv, TriedInv
<1> QED
  BY <1>1, Invariance, PTL

-----------------------------------------------------------------------------
(* The alert book is implemented *)

\* An alert inserted for an event is of the condition every text of that event has.
InsertsFor(e, k) ==
  /\ InsertAlert(e, k) /\ ~Collides(e, k)
  /\ \A s \in Sms : s.event = e => TextCondition(s) = k

LEMMA CreatesAlert ==
  ASSUME IndInv, NEW h \in Handlers, CreateAlert(h)
  PROVE  LET s == handlers[h].sms IN
         s \in Sms /\ InsertsFor(s.event, TextCondition(s))
<1> DEFINE s == handlers[h].sms
<1>1. s \in Sms
  BY DEF CreateAlert, IndInv, TypeOK, HandlerStates, HandlerIdle
<1>2. \A t \in Sms : t.event = s.event => TextCondition(t) = TextCondition(s)
  BY <1>1, LogAssumption
<1>3. InsertAlert(s.event, TextCondition(s)) /\ ~Collides(s.event, TextCondition(s))
  BY DEF CreateAlert
<1> HIDE DEF s
<1>4. InsertsFor(s.event, TextCondition(s))
  BY <1>2, <1>3 DEF InsertsFor
<1> QED
  BY <1>1, <1>4 DEF s

\* What a commit writes about alerts: one is inserted, or one resolved, or none touched.
LEMMA CommitsAlert ==
  ASSUME IndInv, NEW c \in Consumers, NEW answered \in BOOLEAN, Commit(c, answered)
  PROVE  LET m == Message(c)
             a == consumers[c].found
         IN /\ m \in Messages /\ Fits(consumers[c]) /\ consumers[c].pc = "write"
            /\ a \in {NoAlert} \cup Alerts
            /\ \/ Opens(c) /\ InsertsFor(m.event, Condition(m))
               \/ Outcome(m) = "resolve" /\ a # NoAlert /\ StillOpen(a) /\ MarkResolved(a)
               \/ ~Opens(c) /\ (Outcome(m) # "resolve" \/ a = NoAlert) /\ UNCHANGED <<alerts, outbox>>
<1> DEFINE m == Message(c)
           a == consumers[c].found
<1>1. /\ consumers[c].pc = "write" /\ WriteAlert(c)
  BY DEF Commit
<1>2. /\ m \in Messages /\ Fits(consumers[c]) /\ a \in {NoAlert} \cup Alerts
  BY <1>1, LogFields DEF IndInv, TypeOK, Message, ConsumerStates
<1>3. \A s \in Sms : s.event = m.event => TextCondition(s) = Condition(m)
  BY <1>2, TextFields
<1> HIDE DEF m, a
<1>4. \/ Opens(c) /\ ~Collides(m.event, Condition(m)) /\ InsertAlert(m.event, Condition(m))
      \/ Outcome(m) = "resolve" /\ a # NoAlert /\ StillOpen(a) /\ MarkResolved(a)
      \/ ~Opens(c) /\ (Outcome(m) # "resolve" \/ a = NoAlert) /\ UNCHANGED <<alerts, outbox>>
  BY <1>1 DEF WriteAlert, m, a
<1>5. \/ Opens(c) /\ InsertsFor(m.event, Condition(m))
      \/ Outcome(m) = "resolve" /\ a # NoAlert /\ StillOpen(a) /\ MarkResolved(a)
      \/ ~Opens(c) /\ (Outcome(m) # "resolve" \/ a = NoAlert) /\ UNCHANGED <<alerts, outbox>>
  BY <1>3, <1>4 DEF InsertsFor
<1> QED
  BY <1>1, <1>2, <1>5 DEF m, a

LEMMA TextSourceInserted ==
  ASSUME IndInv, TextSourceInv, NEW e, NEW k, InsertsFor(e, k)
  PROVE  TextSourceInv'
<1> DEFINE new == [condition |-> k, source |-> e, status |-> "open"]
<1>1. alerts \in Seq(AlertRows) /\ alerts' = Append(alerts, new)
  BY EventsType DEF AlertsOK, InsertsFor, InsertAlert
<1>2. Alerts = 1..Len(alerts) /\ Len(alerts) \in Nat
  BY <1>1, AlertsDomain
<1> HIDE DEF new
<1>3. /\ Alerts' = Alerts \cup {Len(alerts) + 1}
      /\ alerts'[Len(alerts) + 1] = new /\ \A a \in Alerts : alerts'[a] = alerts[a]
  BY <1>1, <1>2 DEF Alerts
<1>4. new.condition = k /\ new.source = e
  BY DEF new
<1>5. \A a \in Alerts', s \in Sms :
        alerts'[a].source = s.event => alerts'[a].condition = TextCondition(s)
  BY <1>3, <1>4 DEF TextSourceInv, InsertsFor
<1> QED
  BY <1>5 DEF TextSourceInv

LEMMA TextSourceResolved ==
  ASSUME IndInv, TextSourceInv, NEW a \in Alerts, MarkResolved(a)
  PROVE  TextSourceInv'
<1>1. /\ Alerts = 1..Len(alerts) /\ \A b \in Alerts : alerts[b] \in AlertRows
      /\ alerts \in Seq(AlertRows)
  BY EventsType, AlertsDomain DEF AlertsOK
<1>2. alerts' = [alerts EXCEPT ![a].status = "resolved"]
  BY DEF MarkResolved
<1>3. Alerts' = Alerts
  BY <1>1, <1>2 DEF Alerts
<1>4. \A b \in Alerts : /\ alerts'[b].condition = alerts[b].condition
                        /\ alerts'[b].source = alerts[b].source
  BY <1>1, <1>2 DEF AlertRows
<1> QED
  BY <1>3, <1>4 DEF TextSourceInv

LEMMA TextSourceNext ==
  IndInv /\ TextSourceInv /\ [Next]_vars => TextSourceInv'
<1> SUFFICES ASSUME IndInv, TextSourceInv, [Next]_vars
             PROVE  TextSourceInv'
  OBVIOUS
<1>0. UNCHANGED alerts => TextSourceInv'
  BY DEF TextSourceInv, Alerts
<1>1. ASSUME NEW c \in Consumers, NEW answered \in BOOLEAN, Commit(c, answered)
      PROVE  TextSourceInv'
  BY <1>0, <1>1, CommitsAlert, TextSourceInserted, TextSourceResolved
<1>2. ASSUME NEW c \in Consumers, Engine(c), ~\E answered \in BOOLEAN : Commit(c, answered)
      PROVE  UNCHANGED alerts
  BY <1>2 DEF Engine, Receive, Park, ClaimDedup, LockEvent, FindAlert, StorageError, MessageError,
              tables, alert_tables
<1>3. ASSUME NEW h \in Handlers, CreateAlert(h)
      PROVE  TextSourceInv'
  BY <1>3, CreatesAlert, TextSourceInserted
<1>4. ASSUME NEW a \in Alerts, ResolveAlert(a)
      PROVE  TextSourceInv'
  BY <1>4, TextSourceResolved DEF ResolveAlert
<1>5. ASSUME AutoCommit \/ (\E c \in Consumers : Assign(c)) \/ UNCHANGED vars
      PROVE  UNCHANGED alerts
  BY <1>5 DEF AutoCommit, Assign, vars, tables, alert_tables
<1>6. ASSUME \/ \E s \in Sms : ReceiveRepeated(s) \/ ReceiveLinked(s)
             \/ \E h \in Handlers : CreateFails(h) \/ \E s \in Sms : ReceiveNew(h, s)
      PROVE  UNCHANGED alerts
  BY <1>6 DEF ReceiveRepeated, ReceiveLinked, ReceiveNew, CreateFails, tables, alert_tables
<1> QED
  BY <1>0, <1>1, <1>2, <1>3, <1>4, <1>5, <1>6 DEF Next, Api

\* A consumer that moved has another message and is between two, or it has the same one still.
LEMMA DecodedMoves ==
  ASSUME IndInv, DecodedInv, NEW c \in Consumers,
         \E x : /\ consumers' = [consumers EXCEPT ![c] = x]
               /\ \/ x.pc \in {"idle", "park"}
                  \/ x.offset = consumers[c].offset /\ Outcome(Message(c)) # "malformed"
  PROVE  DecodedInv'
<1>1. consumers = [d \in Consumers |-> consumers[d]]
  BY DEF IndInv, TypeOK
<1> QED
  BY <1>1 DEF DecodedInv, Message

LEMMA DecodedNext ==
  IndInv /\ DecodedInv /\ [Next]_vars => DecodedInv'
<1> SUFFICES ASSUME IndInv, DecodedInv, [Next]_vars
             PROVE  DecodedInv'
  OBVIOUS
<1>0. consumers \in [Consumers -> ConsumerStates]
  BY DEF IndInv, TypeOK
<1>1. ASSUME UNCHANGED consumers
      PROVE  DecodedInv'
  BY <1>1 DEF DecodedInv, Message
<1>2. ASSUME NEW c \in Consumers, NEW x, consumers' = [consumers EXCEPT ![c] = x],
             x.pc \in {"idle", "park"}
      PROVE  DecodedInv'
  BY <1>2, DecodedMoves
<1>3. ASSUME NEW c \in Consumers, NEW x, consumers' = [consumers EXCEPT ![c] = x],
             x.offset = consumers[c].offset, Outcome(Message(c)) # "malformed"
      PROVE  DecodedInv'
  BY <1>3, DecodedMoves
<1>4. \A o : Waiting(o).pc = "idle"
  BY DEF Waiting
<1>5. ASSUME NEW c \in Consumers, Handled(c) \/ Unhandled(c)
      PROVE  DecodedInv'
  BY <1>2, <1>4, <1>5 DEF Handled, Unhandled
<1>6. ASSUME NEW c \in Consumers, RetryOrGiveUp(c), Outcome(Message(c)) # "malformed"
      PROVE  DecodedInv'
  <2>1. Again(consumers[c]).offset = consumers[c].offset
    BY <1>0 DEF Again, ConsumerStates
  <2> QED
    BY <1>3, <1>5, <1>6, <2>1 DEF RetryOrGiveUp
<1>7. ASSUME NEW c \in Consumers, Receive(c)
      PROVE  DecodedInv'
  <2> DEFINE pc == IF Outcome(Message(c)) = "malformed" THEN "park" ELSE "claim"
             x == [consumers[c] EXCEPT !.attempt = 1, !.pc = pc]
  <2>1. consumers' = [consumers EXCEPT ![c] = x]
    BY <1>0, <1>7 DEF Receive
  <2>2. x.pc = pc /\ x.offset = consumers[c].offset
    BY <1>0 DEF ConsumerStates
  <2> HIDE DEF x
  <2> QED
    BY <1>2, <1>3, <2>1, <2>2
<1>8. ASSUME NEW c \in Consumers, consumers[c].pc \notin {"idle", "park"}
      PROVE  Outcome(Message(c)) # "malformed"
  BY <1>8 DEF DecodedInv
<1>9. ASSUME NEW c \in Consumers, ClaimDedup(c)
      PROVE  DecodedInv'
  <2> DEFINE pc == CASE Outcome(Message(c)) = "critical" -> "lock"
                     [] Outcome(Message(c)) = "unchanged" -> "write"
                     [] OTHER -> "find"
             x == [consumers[c] EXCEPT !.pc = pc]
  <2>1. consumers[c].pc = "claim" /\ (Handled(c) \/ consumers' = [consumers EXCEPT ![c] = x])
    BY <1>9, Zenon DEF ClaimDedup
  <2>2. x.offset = consumers[c].offset
    BY <1>0 DEF ConsumerStates
  <2> HIDE DEF x
  <2> QED
    BY <1>3, <1>5, <1>8, <2>1, <2>2
<1>10. ASSUME NEW c \in Consumers, LockEvent(c)
       PROVE  DecodedInv'
  <2> DEFINE x == [consumers[c] EXCEPT !.pc = "find"]
  <2>1. consumers[c].pc = "lock" /\ consumers' = [consumers EXCEPT ![c] = x]
    BY <1>10, Zenon DEF LockEvent
  <2>2. x.offset = consumers[c].offset
    BY <1>0 DEF ConsumerStates
  <2> HIDE DEF x
  <2> QED
    BY <1>3, <1>8, <2>1, <2>2
<1>11. ASSUME NEW c \in Consumers, FindAlert(c)
       PROVE  DecodedInv'
  <2> DEFINE found(m) ==
               CASE Outcome(m) = "resolve" -> OneOf(OpenAlerts(Condition(m)))
                 [] Outcome(m) = "critical" /\ m.event \in DOMAIN sms_fallback_events ->
                      sms_fallback_events[m.event].alert
                 [] OTHER -> ExistingAlert(m.event, Condition(m))
             f == found(Message(c))
             x == [consumers[c] EXCEPT !.pc = "write", !.found = f]
  <2>1. /\ consumers[c].pc = "find"
        /\ consumers' = [consumers EXCEPT ![c].pc = "write", ![c].found = f]
    BY <1>11, Zenon DEF FindAlert
  <2> HIDE DEF f
  <2>2. x.offset = consumers[c].offset
    BY <1>0 DEF ConsumerStates
  <2>3. consumers' = [consumers EXCEPT ![c] = x]
    BY <1>0, <2>1 DEF ConsumerStates
  <2> HIDE DEF x
  <2> QED
    BY <1>3, <1>8, <2>1, <2>2, <2>3
<1>12. ASSUME NEW c \in Consumers, StorageError(c) \/ \E answered \in BOOLEAN : Commit(c, answered)
       PROVE  DecodedInv'
  <2>1. consumers[c].pc \notin {"idle", "park"} /\ (Handled(c) \/ RetryOrGiveUp(c))
    BY <1>12 DEF StorageError, Commit, InTransaction
  <2> QED
    BY <1>5, <1>6, <1>8, <2>1
<1>13. ASSUME NEW c \in Consumers, (\E written \in BOOLEAN : Park(c, written)) \/ MessageError(c)
       PROVE  DecodedInv'
  BY <1>5, <1>13 DEF Park, MessageError
<1>14. ASSUME NEW c \in Consumers, Assign(c)
       PROVE  DecodedInv'
  <2>1. consumers' = [consumers EXCEPT ![c] = Waiting(committed)]
    BY <1>14 DEF Assign
  <2> QED
    BY <1>2, <1>4, <2>1
<1>15. CASE Api \/ AutoCommit \/ UNCHANGED vars
  <2>1. UNCHANGED consumers
    BY <1>15 DEF Api, ReceiveRepeated, ReceiveLinked, ReceiveNew, CreateAlert, CreateFails,
                 ResolveAlert, AutoCommit, vars
  <2> QED
    BY <1>1, <2>1
<1> QED
  BY <1>7, <1>9, <1>10, <1>11, <1>12, <1>13, <1>14, <1>15 DEF Next, Engine

LEMMA BookInit == Init => Book!Init
<1> SUFFICES ASSUME Init PROVE Book!Init
  OBVIOUS
<1> DEFINE R == {[event |-> m.event, outcome |-> Outcome(m), condition |-> Condition(m)] :
                   m \in Messages}
           T == {[event |-> s.event, condition |-> TextCondition(s)] : s \in Sms}
<1>1. {r.event : r \in R} = {m.event : m \in Messages}
  <2>1. ASSUME NEW r \in R PROVE r.event \in {m.event : m \in Messages}
    OBVIOUS
  <2>2. ASSUME NEW m \in Messages PROVE \E r \in R : r.event = m.event
    <3> DEFINE r == [event |-> m.event, outcome |-> Outcome(m), condition |-> Condition(m)]
    <3>1. r \in R /\ r.event = m.event
      OBVIOUS
    <3> HIDE DEF r, R
    <3> QED
      BY <3>1
  <2> HIDE DEF R
  <2> QED
    BY <2>1, <2>2
<1>2. {s.event : s \in T} = {s.event : s \in Sms}
  <2>1. ASSUME NEW x \in T PROVE x.event \in {s.event : s \in Sms}
    OBVIOUS
  <2>2. ASSUME NEW s \in Sms PROVE \E x \in T : x.event = s.event
    <3> DEFINE x == [event |-> s.event, condition |-> TextCondition(s)]
    <3>1. x \in T /\ x.event = s.event
      OBVIOUS
    <3> HIDE DEF x, T
    <3> QED
      BY <3>1
  <2> HIDE DEF T
  <2> QED
    BY <2>1, <2>2
<1>3. {r.event : r \in R} \cup {s.event : s \in T} = Events
  BY <1>1, <1>2 DEF Events
<1> HIDE DEF R, T
<1>4. readings = [e \in {r.event : r \in R} \cup {s.event : s \in T} |-> 0]
  BY <1>3 DEF Init
<1> QED
  BY Zenon, <1>4 DEF Book!Init, Init, R, T

LEMMA OpensInBook ==
  ASSUME NEW e, NEW k, InsertsFor(e, k)
  PROVE  Book!Open(e, k)
<1>1. \A a \in Alerts : alerts[a].source # e
  BY DEF InsertsFor, Collides, AlertsFrom
<1>2. {a \in Alerts : alerts[a].condition = k /\ alerts[a].status = "open"} = {}
  BY DEF InsertsFor, Collides, OpenAlerts
<1> QED
  BY <1>1, <1>2 DEF InsertsFor, InsertAlert, Book!Open, Book!OpenAlerts, Book!Alerts, Alerts

LEMMA ResolvesInBook ==
  ASSUME IndInv, NEW a \in Alerts, StillOpen(a), MarkResolved(a)
  PROVE  Book!Resolve(a)
<1>1. outbox[a] = <<"alert.opened">>
  BY DEF IndInv, BookInv, OutboxFollowsAlerts, StillOpen
<1>2. Append(<<"alert.opened">>, "alert.resolved") = <<"alert.opened", "alert.resolved">>
  BY AppendToOne
<1>3. outbox' = [outbox EXCEPT ![a] = <<"alert.opened", "alert.resolved">>]
  BY Zenon, <1>1, <1>2 DEF MarkResolved
<1> QED
  BY Zenon, <1>1, <1>3 DEF MarkResolved, StillOpen, Book!Resolve

\* The alert a reading or text is about: the one inserted, or the one found.
LEMMA RaisesNew ==
  ASSUME NEW e, NEW k, InsertsFor(e, k)
  PROVE  Book!Raise(e, k, Len(alerts) + 1)
BY OpensInBook DEF Book!Raise

LEMMA RaisesFound ==
  ASSUME NEW e, NEW k, NEW a \in Alerts, alerts[a].condition = k, UNCHANGED <<alerts, outbox>>
  PROVE  Book!Raise(e, k, a)
BY DEF Book!Raise, Book!Alerts, Alerts

LEMMA FilesOnce ==
  ASSUME NEW e, NEW a, NEW r,
         e \in DOMAIN sms_fallback_events => sms_fallback_events[e].alert = a,
         sms_fallback_events' = Put(sms_fallback_events, e, [alert |-> a, replayed |-> r])
  PROVE  Book!File(e, a, r)
BY DEF Put, Book!File

LEMMA CommitInBook ==
  ASSUME IndInv, DecodedInv, NEW c \in Consumers, NEW answered \in BOOLEAN, Commit(c, answered)
  PROVE  Book!Next
<1> DEFINE m == Message(c)
           a == consumers[c].found
           k == Condition(m)
           r == [event |-> m.event, outcome |-> Outcome(m), condition |-> k]
           n == Len(alerts)
<1>1. /\ m \in Messages /\ Fits(consumers[c]) /\ consumers[c].pc = "write"
      /\ a \in {NoAlert} \cup Alerts
      /\ \/ Opens(c) /\ InsertsFor(m.event, k)
         \/ Outcome(m) = "resolve" /\ a # NoAlert /\ StillOpen(a) /\ MarkResolved(a)
         \/ ~Opens(c) /\ (Outcome(m) # "resolve" \/ a = NoAlert) /\ UNCHANGED <<alerts, outbox>>
  BY CommitsAlert
<1>2. a # NoAlert => a \in Alerts /\ alerts[a].condition = k
  BY <1>1 DEF Fits, Message
<1>3. Alerts = 1..n /\ n \in Nat
  BY BookAlerts DEF IndInv, TypeOK
<1>4. /\ readings' = [readings EXCEPT ![m.event] = @ + 1]
      /\ IF Outcome(m) = "critical"
           THEN /\ ~ReplayConflicts(m.event, Linked(c))
                /\ sms_fallback_events' = RecordReplay(m.event, Linked(c))
           ELSE UNCHANGED sms_fallback_events
  BY DEF Commit, WriteAlert
<1>5. Outcome(m) # "malformed"
  BY <1>1 DEF DecodedInv
<1>6. Outcome(m) \in {"malformed", "critical", "open", "resolve", "unchanged"}
  BY <1>1, MessageFields DEF Outcome, Temperatures
<1>7. readings[m.event] = 0 /\ readings' = [readings EXCEPT ![m.event] = 1]
  <2>1. m.event \notin dedup_log /\ m.event \in Events
    BY <1>1, MessageFields DEF Fits, Message
  <2>2. readings[m.event] = 0
    BY <2>1 DEF IndInv, BookInv, ReadingOnce
  <2> HIDE DEF m
  <2>3. readings[m.event] + 1 = 1
    BY <2>2
  <2> QED
    BY Zenon, <1>4, <2>2, <2>3
<1>8. r.event = m.event /\ r.outcome = Outcome(m) /\ r.condition = k
  OBVIOUS
<1> HIDE DEF m, a, k, r, n
\* The alert of a reading that has one
<1>9. ASSUME Outcome(m) \in {"critical", "open"}
      PROVE  Linked(c) \in 1..(n + 1) /\ Book!Raise(m.event, k, Linked(c))
  <2>1. CASE Opens(c)
    <3>1. Linked(c) = n + 1 /\ InsertsFor(m.event, k)
      BY <1>1, <1>9, <2>1 DEF Linked, n
    <3> QED
      BY <1>3, <3>1, RaisesNew DEF n
  <2>2. CASE ~Opens(c)
    <3>1. Linked(c) = a /\ a # NoAlert
      BY <1>9, <2>2 DEF Linked, Opens, m, a
    <3>2. UNCHANGED <<alerts, outbox>>
      BY <1>1, <1>9, <2>2
    <3>3. Book!Raise(m.event, k, a)
      BY <1>2, <3>1, <3>2, RaisesFound
    <3>4. a \in 1..(n + 1)
      BY <1>2, <1>3, <3>1
    <3> QED
      BY <3>1, <3>3, <3>4
  <2> QED
    BY <2>1, <2>2
<1>10. Book!Effect(r)
  <2>1. CASE Outcome(m) = "critical"
    <3>1. Book!File(m.event, Linked(c), TRUE)
      <4>1. m.event \in DOMAIN sms_fallback_events =>
              sms_fallback_events[m.event].alert = Linked(c)
        BY <1>4, <2>1 DEF ReplayConflicts
      <4> QED
        BY <1>4, <2>1, <4>1, FilesOnce DEF RecordReplay
    <3> QED
      BY <1>8, <1>9, <2>1, <3>1 DEF Book!Effect, n
  <2>2. CASE Outcome(m) = "open"
    BY <1>4, <1>8, <1>9, <2>2 DEF Book!Effect, n
  <2>3. CASE Outcome(m) = "resolve"
    <3>1. CASE a # NoAlert
      <4>1. StillOpen(a) /\ MarkResolved(a)
        BY <1>1, <2>3, <3>1 DEF Opens, m
      <4>2. Book!Resolve(a) /\ a \in Book!OpenAlerts(k)
        BY <1>2, <3>1, <4>1, ResolvesInBook DEF Book!OpenAlerts, Book!Alerts, Alerts, StillOpen
      <4> QED
        BY <1>4, <1>8, <2>3, <4>2 DEF Book!Effect
    <3>2. CASE a = NoAlert
      <4>1. UNCHANGED <<alerts, outbox>>
        BY <1>1, <2>3, <3>2 DEF Opens, m
      <4> QED
        BY <1>4, <1>8, <2>3, <4>1 DEF Book!Effect
    <3> QED
      BY <3>1, <3>2
  <2>4. CASE Outcome(m) = "unchanged"
    <3>1. UNCHANGED <<alerts, outbox>>
      BY <1>1, <2>4 DEF Opens, m
    <3> QED
      BY <1>4, <1>8, <2>4, <3>1 DEF Book!Effect
  <2> QED
    BY <1>5, <1>6, <2>1, <2>2, <2>3, <2>4
<1>11. Book!Count(r)
  BY <1>7, <1>8, <1>10 DEF Book!Count
<1>12. r \in {[event |-> x.event, outcome |-> Outcome(x), condition |-> Condition(x)] :
                x \in Messages}
  BY <1>1 DEF r, k
<1> QED
  BY <1>11, <1>12 DEF Book!Next

LEMMA TextInBook ==
  ASSUME NEW s \in Sms, NEW a \in 1..(Len(alerts) + 1), UNCHANGED readings,
         Book!Raise(s.event, TextCondition(s), a),
         s.event \notin DOMAIN sms_fallback_events,
         sms_fallback_events' = Put(sms_fallback_events, s.event, [alert |-> a, replayed |-> FALSE])
  PROVE  Book!Next
<1> DEFINE x == [event |-> s.event, condition |-> TextCondition(s)]
<1>1. x.event = s.event /\ x.condition = TextCondition(s)
  OBVIOUS
<1>2. Book!File(s.event, a, FALSE)
  BY FilesOnce
<1>3. x \in {[event |-> y.event, condition |-> TextCondition(y)] : y \in Sms}
  OBVIOUS
<1> HIDE DEF x
<1>4. Book!ReceiveText(x)
  BY <1>1, <1>2 DEF Book!ReceiveText
<1> QED
  BY <1>3, <1>4 DEF Book!Next

\* Each step is one of the book, or leaves it as it is.
LEMMA StepInBook ==
  IndInv /\ TextSourceInv /\ DecodedInv /\ [Next]_vars => [Book!Next]_(Book!vars)
<1> SUFFICES ASSUME IndInv, TextSourceInv, DecodedInv, [Next]_vars
             PROVE  Book!Next \/ UNCHANGED Book!vars
  OBVIOUS
<1>0. /\ Alerts = 1..Len(alerts) /\ Len(alerts) \in Nat
  BY BookAlerts DEF IndInv, TypeOK
<1>1. ASSUME NEW c \in Consumers, Engine(c), ~\E answered \in BOOLEAN : Commit(c, answered)
      PROVE  UNCHANGED Book!vars
  BY <1>1 DEF Engine, Receive, Park, ClaimDedup, LockEvent, FindAlert, StorageError, MessageError,
              tables, alert_tables, Book!vars
<1>2. ASSUME NEW s \in Sms, ReceiveLinked(s)
      PROVE  Book!Next
  <2> DEFINE a == ExistingAlert(s.event, TextCondition(s))
  <2>1. /\ s.event \notin DOMAIN sms_fallback_events /\ a # NoAlert
        /\ sms_fallback_events' =
             Put(sms_fallback_events, s.event, [alert |-> a, replayed |-> FALSE])
        /\ UNCHANGED <<alerts, outbox, readings>>
    BY <1>2 DEF ReceiveLinked
  <2>2. /\ a \in Alerts
        /\ alerts[a].source = s.event \/ alerts[a].condition = TextCondition(s)
    BY <2>1, Lookup
  <2>3. alerts[a].condition = TextCondition(s)
    BY <2>2 DEF TextSourceInv
  <2> HIDE DEF a
  <2>4. a \in 1..(Len(alerts) + 1)
    BY <1>0, <2>2
  <2> QED
    BY <2>1, <2>2, <2>3, <2>4, RaisesFound, TextInBook
<1>3. ASSUME NEW h \in Handlers, CreateAlert(h)
      PROVE  Book!Next
  <2> DEFINE s == handlers[h].sms
             a == Len(alerts) + 1
  <2>1. s \in Sms /\ InsertsFor(s.event, TextCondition(s))
    BY <1>3, CreatesAlert
  <2>2. /\ s.event \notin DOMAIN sms_fallback_events
        /\ sms_fallback_events' =
             Put(sms_fallback_events, s.event, [alert |-> a, replayed |-> FALSE])
        /\ UNCHANGED readings
    BY <1>3 DEF CreateAlert
  <2>3. a \in 1..(Len(alerts) + 1)
    BY <1>0
  <2>4. Book!Raise(s.event, TextCondition(s), a)
    BY <2>1, RaisesNew
  <2> HIDE DEF s, a
  <2> QED
    BY <2>1, <2>2, <2>3, <2>4, TextInBook
<1>4. ASSUME NEW a \in Alerts, ResolveAlert(a)
      PROVE  Book!Next
  <2>1. StillOpen(a) /\ MarkResolved(a) /\ UNCHANGED <<sms_fallback_events, readings>>
    BY <1>4 DEF ResolveAlert
  <2>2. Book!Resolve(a)
    BY <2>1, ResolvesInBook
  <2> QED
    BY <2>1, <2>2 DEF Book!Next, Book!ResolveAlert, Book!Alerts, Alerts
<1>5. ASSUME AutoCommit \/ (\E c \in Consumers : Assign(c)) \/ UNCHANGED vars
      PROVE  UNCHANGED Book!vars
  BY <1>5 DEF AutoCommit, Assign, vars, tables, alert_tables, Book!vars
<1>6. ASSUME \/ \E s \in Sms : ReceiveRepeated(s)
             \/ \E h \in Handlers : CreateFails(h) \/ \E s \in Sms : ReceiveNew(h, s)
      PROVE  UNCHANGED Book!vars
  BY <1>6 DEF ReceiveRepeated, ReceiveNew, CreateFails, tables, alert_tables, Book!vars
<1> QED
  BY <1>1, <1>2, <1>3, <1>4, <1>5, <1>6, CommitInBook DEF Next, Api

\* Engines and API implement the alert book, for any engines, handlers, partition and texts.
THEOREM RefinementTheorem == Spec => ImplementsAlertBook
<1>1. Init => TextSourceInv
  BY DEF Init, TextSourceInv, Alerts
<1>2. Spec => []TextSourceInv
  BY <1>1, TextSourceNext, Invariance, PTL DEF Spec
<1>3. Init => DecodedInv
  BY DEF Init, DecodedInv, Waiting
<1>4. Spec => []DecodedInv
  BY <1>3, DecodedNext, Invariance, PTL DEF Spec
<1>5. Spec => Book!Init /\ [][Book!Next]_(Book!vars)
  BY <1>2, <1>4, BookInit, StepInBook, Invariance, PTL DEF Spec
<1> QED
  BY <1>5 DEF ImplementsAlertBook, Book!Spec
=============================================================================
