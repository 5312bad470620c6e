---------------------------- MODULE CentralAlerts ----------------------------
(***************************************************************************)
(* The central end of the alert path: the engine's consumer of one telemetry *)
(* partition with its offsets and retries, the transaction that ingests a     *)
(* reading and decides on an alert, the API's receipt of the SMS of the same  *)
(* event, and operators who resolve alerts, all on one Postgres database.     *)
(*                                                                          *)
(* A transaction is split where another one can come in between: after the    *)
(* statements that wait (deduplication key, asset row, advisory lock of the   *)
(* event) and between looking for an alert and writing.  The insert of an     *)
(* alert to the commit is one step, since the unique indexes make a rival     *)
(* insert wait for exactly that commit.  Contents of readings, alerts and     *)
(* messages are left out.                                                     *)
(***************************************************************************)
EXTENDS Integers, Sequences, FiniteSets

CONSTANTS
  Consumers,      \* engine instances in the consumer group
  Handlers,       \* API requests served at the same time
  Log,            \* the partition: records [event, asset, code, temperature]
  Sms,            \* texts the provider delivers, any number of times: [id, event, asset, code]
  NoCode,         \* no critical_code header
  Provisioned,    \* assets that have a row before any reading
  MaxAttempts,    \* MAX_INGEST_ATTEMPTS
  MaxGenerations  \* bound: how often the partition is assigned

Messages == {Log[o] : o \in DOMAIN Log}
Events == {m.event : m \in Messages} \cup {s.event : s \in Sms}
Receipts == {s.id : s \in Sms}

Codes == {"overheat", "inverter_failure", "tamper_detected", "site_outage"}

\* A temperature against the asset's ceiling: at it or above, within the recovery margin below,
\* below that, not reported; or the payload cannot be decoded.
Temperatures == {"high", "margin", "low", "missing", "malformed"}

\* critical_fallback_decision: a code decides, except an overheat without its temperature.
CriticalCode(m) == m.code # NoCode /\ (m.code = "overheat" => m.temperature # "missing")

\* What a reading does to alerts.
Outcome(m) ==
  CASE m.temperature = "malformed" -> "malformed"
    [] m.temperature # "malformed" /\ CriticalCode(m) -> "critical"
    [] ~CriticalCode(m) /\ m.temperature = "high" -> "open"
    [] ~CriticalCode(m) /\ m.temperature = "low" -> "resolve"
    [] ~CriticalCode(m) /\ m.temperature \in {"margin", "missing"} -> "unchanged"

\* The alert it is about, [asset, kind].  Temperatures are about overheating only; the asset of
\* an outage is "site".
Condition(m) ==
  IF Outcome(m) # "critical" THEN [asset |-> m.asset, kind |-> "overheat"]
  ELSE [asset |-> IF m.code = "site_outage" THEN "site" ELSE m.asset, kind |-> m.code]

TextCondition(s) == [asset |-> s.asset, kind |-> s.code]

Assets == {m.asset : m \in Messages} \cup {s.asset : s \in Sms} \cup Provisioned
Conditions == [asset : Assets \cup {"site"}, kind : Codes]

\* A text is about a critical reading, with that reading's condition, and its provider id
\* belongs to one event.  A text or reading that contradicts what is on file (ErrConflict of
\* ReceiveSMS), and a sequence used again after a gateway's disk is replaced, are left out: what
\* is checked below of replays is that interleavings alone do not make them conflict.
ASSUME LogAssumption ==
  /\ Log \in Seq([event : Events, asset : Assets, code : Codes \cup {NoCode},
                   temperature : Temperatures])
  /\ NoCode \notin Codes
  /\ Sms \subseteq [id : Receipts, event : Events, asset : Assets, code : Codes]
  /\ \A m, n \in Messages : m.event = n.event => m = n
  /\ \A s \in Sms, m \in Messages :
       s.event = m.event => Outcome(m) = "critical" /\ TextCondition(s) = Condition(m)
  /\ \A s, t \in Sms : s.event = t.event => TextCondition(s) = TextCondition(t)
  /\ \A s, t \in Sms : s.id = t.id => s = t
  /\ MaxAttempts \in Nat \ {0} /\ MaxGenerations \in Nat \ {0}

VARIABLES
  owner,                \* the consumer the partition is assigned to
  generation,           \* how often it was assigned
  committed,            \* the group's committed offset, the next one to consume
  stored,               \* the offset the owner has stored for the next auto-commit
  consumers,            \* consumer -> its message and where the transaction is
  handlers,             \* handler -> the text whose alert it is about to create
  assets,               \* assets with a row
  dedup_log,            \* events claimed
  readings,             \* event -> how often its reading was appended
  alerts,               \* alert -> [condition, source, status], in order of insertion
  outbox,               \* alert -> its events in command_event_outbox
  sms_fallback_events,  \* event -> [alert, replayed]
  sms_fallback_receipts,\* provider ids on file
  handled,              \* history: offsets ingested, recognised as duplicates, or parked
  failed,               \* history: offsets given up on without being handled
  refused               \* history: events whose replay was refused as conflicting

offsets == <<committed, stored>>
group == <<owner, generation>>
alert_tables == <<alerts, outbox, sms_fallback_events>>
tables == <<assets, dedup_log, readings, alert_tables, sms_fallback_receipts>>
history == <<handled, failed, refused>>
vars == <<group, offsets, consumers, handlers, tables, history>>

-----------------------------------------------------------------------------
(* Helpers *)

Put(f, k, v) == [x \in DOMAIN f \cup {k} |-> IF x = k THEN v ELSE f[x]]

NoAlert == 0
Alerts == DOMAIN alerts
Message(c) == Log[consumers[c].offset]

InTransaction(c) == consumers[c].pc \in {"lock", "find", "write"}

HandlerIdle == [pc |-> "idle"]

MutHasLock(c, e) ==
  /\ consumers[c].pc = "find"
  /\ Outcome(Message(c)) = "critical" /\ Message(c).event = e

\* Consumers and handlers that hold the advisory lock of an event, until their transaction ends.
HasLock(c, e) ==
  /\ consumers[c].pc \in {"find", "write"}
  /\ Outcome(Message(c)) = "critical" /\ Message(c).event = e
CreatesFor(h, e) == handlers[h].pc = "create" /\ handlers[h].sms.event = e
Unlocked(e) ==
  /\ \A c \in Consumers : ~HasLock(c, e)
  /\ \A h \in Handlers : ~CreatesFor(h, e)

OpenAlerts(k) == {a \in Alerts : alerts[a].condition = k /\ alerts[a].status = "open"}
AlertsFrom(e) == {a \in Alerts : alerts[a].source = e}
\* Unique indexes leave at most one row to these lookups.
OneOf(S) == IF S = {} THEN NoAlert ELSE CHOOSE a \in S : TRUE

\* The order of the lookups: by source event, then the open alert of the condition.
ExistingAlert(e, k) ==
  IF AlertsFrom(e) # {} THEN OneOf(AlertsFrom(e)) ELSE OneOf(OpenAlerts(k))

MutCollides(e, k) == AlertsFrom(e) # {}
\* alerts_source_event_id_uidx and alerts_site_asset_kind_open_uidx
Collides(e, k) == AlertsFrom(e) # {} \/ OpenAlerts(k) # {}

\* The INSERT of an alert with its alert.opened event; its number is Len(alerts) + 1.
InsertAlert(e, k) ==
  /\ alerts' = Append(alerts, [condition |-> k, source |-> e, status |-> "open"])
  /\ outbox' = Append(outbox, <<"alert.opened">>)

\* UPDATE ... WHERE status = 'open', and the alert.resolved event.
MarkResolved(a) ==
  /\ alerts' = [alerts EXCEPT ![a].status = "resolved"]
  /\ outbox' = [outbox EXCEPT ![a] = Append(@, "alert.resolved")]

-----------------------------------------------------------------------------
(* The consumer's loop *)

Waiting(offset) == [pc |-> "idle", offset |-> offset, attempt |-> 0, found |-> NoAlert]

\* recv and decode_metric_payload
Receive(c) ==
  /\ owner = c /\ consumers[c].pc = "idle" /\ consumers[c].offset \in DOMAIN Log
  /\ consumers' = [consumers EXCEPT ![c].attempt = 1,
       ![c].pc = IF Outcome(Message(c)) = "malformed" THEN "park" ELSE "claim"]
  /\ UNCHANGED <<group, offsets, handlers, tables, history>>

\* The message is done: store_offset, which fails once the partition is somebody else's.
Handled(c) ==
  LET o == consumers[c].offset IN
  /\ consumers' = [consumers EXCEPT ![c] = Waiting(o + 1)]
  /\ handled' = handled \cup {o}
  /\ stored' = IF owner = c THEN o + 1 ELSE stored
  /\ UNCHANGED <<failed, committed>>

\* if !handled { continue }
Unhandled(c) ==
  LET o == consumers[c].offset IN
  /\ consumers' = [consumers EXCEPT ![c] = Waiting(o + 1)]
  /\ failed' = failed \cup {o}
  /\ UNCHANGED <<handled, offsets>>

\* The next attempt
Again(x) == [x EXCEPT !.pc = "claim", !.attempt = @ + 1, !.found = NoAlert]

MutRetryForEver(c) ==
  /\ consumers' = [consumers EXCEPT ![c] = [@ EXCEPT !.pc = "claim", !.found = NoAlert]]
  /\ UNCHANGED <<handled, failed, offsets>>

\* ingest_with_retry after a Storage error
RetryOrGiveUp(c) ==
  IF consumers[c].attempt < MaxAttempts
    THEN /\ consumers' = [consumers EXCEPT ![c] = Again(consumers[c])]
         /\ UNCHANGED <<handled, failed, offsets>>
    ELSE Unhandled(c)

\* The dead letter is written, or not.
Park(c, written) ==
  /\ consumers[c].pc = "park"
  /\ IF written THEN Handled(c) ELSE Unhandled(c)
  /\ UNCHANGED <<group, handlers, tables, refused>>

-----------------------------------------------------------------------------
(* The ingest transaction *)

MutClaimDedup(c) ==
  /\ consumers[c].pc = "claim"
  /\ \A d \in Consumers : InTransaction(d) => Message(d).asset # Message(c).asset
  /\ consumers' = [consumers EXCEPT ![c].pc =
       CASE Outcome(Message(c)) = "critical" -> "lock"
         [] Outcome(Message(c)) = "unchanged" -> "write"
         [] OTHER -> "find"]
  /\ UNCHANGED <<group, offsets, handlers, tables, history>>

\* claim_dedup and upsert_asset.  The key of a committed event makes the message a duplicate;
\* an uncommitted key or the row of the same asset is waited for.
ClaimDedup(c) ==
  /\ consumers[c].pc = "claim"
  /\ IF Message(c).event \in dedup_log
       THEN Handled(c)
       ELSE /\ \A d \in Consumers : InTransaction(d) => Message(d).asset # Message(c).asset
            /\ consumers' = [consumers EXCEPT ![c].pc =
                 CASE Outcome(Message(c)) = "critical" -> "lock"
                   [] Outcome(Message(c)) = "unchanged" -> "write"
                   [] OTHER -> "find"]
            /\ UNCHANGED <<handled, failed, offsets>>
  /\ UNCHANGED <<group, handlers, tables, refused>>

\* pg_advisory_xact_lock, shared with the API
LockEvent(c) ==
  /\ consumers[c].pc = "lock" /\ Unlocked(Message(c).event)
  /\ consumers' = [consumers EXCEPT ![c].pc = "find"]
  /\ UNCHANGED <<group, offsets, handlers, tables, history>>

\* find_alert_by_fallback_event, find_or_open_alert's lookups, or find_open_alert: plain
\* SELECTs.
FindAlert(c) ==
  LET m == Message(c) IN
  /\ consumers[c].pc = "find"
  /\ consumers' = [consumers EXCEPT ![c].pc = "write", ![c].found =
       CASE Outcome(m) = "resolve" -> OneOf(OpenAlerts(Condition(m)))
         [] Outcome(m) = "critical" /\ m.event \in DOMAIN sms_fallback_events ->
              sms_fallback_events[m.event].alert
         [] OTHER -> ExistingAlert(m.event, Condition(m))]
  /\ UNCHANGED <<group, offsets, handlers, tables, history>>

MutRecordReplay(e, a) ==
  IF e \in DOMAIN sms_fallback_events THEN sms_fallback_events
  ELSE Put(sms_fallback_events, e, [alert |-> a, replayed |-> TRUE])

\* record_critical_replay's row
RecordReplay(e, a) == Put(sms_fallback_events, e, [alert |-> a, replayed |-> TRUE])

\* ... whose ON CONFLICT clause finds the event linked to another alert
ReplayConflicts(e, a) ==
  e \in DOMAIN sms_fallback_events /\ sms_fallback_events[e].alert # a

MutStillOpen(a) == TRUE
\* resolve_alert's WHERE status = 'open'
StillOpen(a) == alerts[a].status = "open"

\* The transaction of c opens an alert; the alert it is about.
Opens(c) == Outcome(Message(c)) \in {"critical", "open"} /\ consumers[c].found = NoAlert
Linked(c) == IF Opens(c) THEN Len(alerts) + 1 ELSE consumers[c].found

\* The alert part of the transaction succeeds.
WriteAlert(c) ==
  LET m == Message(c)
      a == consumers[c].found
  IN
  /\ \/ Opens(c) /\ ~Collides(m.event, Condition(m)) /\ InsertAlert(m.event, Condition(m))
     \/ Outcome(m) = "resolve" /\ a # NoAlert /\ StillOpen(a) /\ MarkResolved(a)
     \/ ~Opens(c) /\ (Outcome(m) # "resolve" \/ a = NoAlert) /\ UNCHANGED <<alerts, outbox>>
  /\ IF Outcome(m) = "critical"
       THEN /\ ~ReplayConflicts(m.event, Linked(c))
            /\ sms_fallback_events' = RecordReplay(m.event, Linked(c))
       ELSE UNCHANGED sms_fallback_events

\* The write and the commit.  When the answer of the commit is lost the consumer retries.
Commit(c, answered) ==
  LET m == Message(c) IN
  /\ consumers[c].pc = "write"
  /\ WriteAlert(c)
  /\ assets' = assets \cup {m.asset}
  /\ dedup_log' = dedup_log \cup {m.event}
  /\ readings' = [readings EXCEPT ![m.event] = @ + 1]
  /\ IF answered THEN Handled(c) ELSE RetryOrGiveUp(c)
  /\ UNCHANGED <<group, handlers, sms_fallback_receipts, refused>>

\* A Storage error before or at the commit: the transaction is rolled back.  An alert that
\* collides with a unique index is one, and may also come of nothing but a lost connection.
StorageError(c) ==
  /\ InTransaction(c) \/ consumers[c].pc = "claim"
  /\ RetryOrGiveUp(c)
  /\ UNCHANGED <<group, handlers, tables, refused>>

\* A Message error, which is not retried: the alert to resolve is no longer open, or
\* record_critical_replay updates no row.
MessageError(c) ==
  LET m == Message(c)
      a == consumers[c].found
  IN
  /\ consumers[c].pc = "write"
  /\ \/ Outcome(m) = "resolve" /\ a # NoAlert /\ ~StillOpen(a)
     \/ /\ Outcome(m) = "critical" /\ ReplayConflicts(m.event, Linked(c))
        /\ Opens(c) => ~Collides(m.event, Condition(m))
  /\ Unhandled(c)
  /\ refused' = IF Outcome(m) = "critical" THEN refused \cup {m.event} ELSE refused
  /\ UNCHANGED <<group, handlers, tables>>

-----------------------------------------------------------------------------
(* Offsets, restarts and rebalances *)

\* enable.auto.commit
AutoCommit ==
  /\ committed # stored
  /\ committed' = stored
  /\ UNCHANGED <<group, stored, consumers, handlers, tables, history>>

\* c joins, or comes back after a crash that rolled its transaction back, and gets the
\* partition at the committed offset.  The previous owner may still be at its last message.
Assign(c) ==
  /\ generation < MaxGenerations
  /\ generation' = generation + 1
  /\ owner' = c
  /\ stored' = committed
  /\ consumers' = [consumers EXCEPT ![c] = Waiting(committed)]
  /\ UNCHANGED <<committed, handlers, tables, history>>

-----------------------------------------------------------------------------
(* The API: SMS receipts and manual resolutions *)

Known(asset) == asset = "site" \/ asset \in assets

\* A known event: the receipt is added, once per provider id.
ReceiveRepeated(s) ==
  /\ Unlocked(s.event) /\ s.event \in DOMAIN sms_fallback_events
  /\ sms_fallback_receipts' = sms_fallback_receipts \cup {s.id}
  /\ UNCHANGED <<group, offsets, consumers, handlers, assets, dedup_log, readings, alert_tables,
                 history>>

\* A new event with an alert to link to.  FOR UPDATE keeps that alert as it is until the commit.
ReceiveLinked(s) ==
  LET a == ExistingAlert(s.event, TextCondition(s)) IN
  /\ Unlocked(s.event) /\ s.event \notin DOMAIN sms_fallback_events
  /\ Known(s.asset) /\ a # NoAlert
  /\ sms_fallback_events' = Put(sms_fallback_events, s.event, [alert |-> a, replayed |-> FALSE])
  /\ sms_fallback_receipts' = sms_fallback_receipts \cup {s.id}
  /\ UNCHANGED <<group, offsets, consumers, handlers, assets, dedup_log, readings, alerts, outbox,
                 history>>

\* A new event without one.
ReceiveNew(h, s) ==
  /\ handlers[h] = HandlerIdle
  /\ Unlocked(s.event) /\ s.event \notin DOMAIN sms_fallback_events
  /\ Known(s.asset) /\ ExistingAlert(s.event, TextCondition(s)) = NoAlert
  /\ handlers' = [handlers EXCEPT ![h] = [pc |-> "create", sms |-> s]]
  /\ UNCHANGED <<group, offsets, consumers, tables, history>>

\* ... for which CreateAlert, InsertFallbackEvent and InsertReceipt commit together.
CreateAlert(h) ==
  LET s == handlers[h].sms IN
  /\ handlers[h].pc = "create"
  /\ ~Collides(s.event, TextCondition(s)) /\ s.event \notin DOMAIN sms_fallback_events
  /\ InsertAlert(s.event, TextCondition(s))
  /\ sms_fallback_events' =
       Put(sms_fallback_events, s.event, [alert |-> Len(alerts) + 1, replayed |-> FALSE])
  /\ sms_fallback_receipts' = sms_fallback_receipts \cup {s.id}
  /\ handlers' = [handlers EXCEPT ![h] = HandlerIdle]
  /\ UNCHANGED <<group, offsets, consumers, assets, dedup_log, readings, history>>

\* A unique index, a failing statement or a deadline: rolled back, and the provider repeats
\* the webhook.
CreateFails(h) ==
  /\ handlers[h].pc = "create"
  /\ handlers' = [handlers EXCEPT ![h] = HandlerIdle]
  /\ UNCHANGED <<group, offsets, consumers, tables, history>>

\* An operator, through the API or the engine's resolve-alert action.
ResolveAlert(a) ==
  /\ StillOpen(a)
  /\ MarkResolved(a)
  /\ UNCHANGED <<group, offsets, consumers, handlers, assets, dedup_log, readings,
                 sms_fallback_events, sms_fallback_receipts, history>>

-----------------------------------------------------------------------------
(* Specification *)

Init ==
  /\ owner \in Consumers /\ generation = 1
  /\ committed = 1 /\ stored = 1
  /\ consumers = [c \in Consumers |-> Waiting(1)]
  /\ handlers = [h \in Handlers |-> HandlerIdle]
  /\ assets = Provisioned
  /\ dedup_log = {} /\ readings = [e \in Events |-> 0]
  /\ alerts = << >> /\ outbox = << >>
  /\ sms_fallback_events = << >> /\ sms_fallback_receipts = {}
  /\ handled = {} /\ failed = {} /\ refused = {}

Engine(c) ==
  \/ Receive(c)
  \/ \E written \in BOOLEAN : Park(c, written)
  \/ ClaimDedup(c)
  \/ LockEvent(c)
  \/ FindAlert(c)
  \/ \E answered \in BOOLEAN : Commit(c, answered)
  \/ StorageError(c)
  \/ MessageError(c)

Api ==
  \/ \E s \in Sms : ReceiveRepeated(s)
  \/ \E s \in Sms : ReceiveLinked(s)
  \/ \E h \in Handlers, s \in Sms : ReceiveNew(h, s)
  \/ \E h \in Handlers : CreateAlert(h)
  \/ \E h \in Handlers : CreateFails(h)
  \/ \E a \in Alerts : ResolveAlert(a)

Next ==
  \/ \E c \in Consumers : Engine(c)
  \/ AutoCommit
  \/ \E c \in Consumers : Assign(c)
  \/ Api

Spec == Init /\ [][Next]_vars

\* Each engine's loop goes on, and every API transaction ends.
Fairness ==
  /\ \A c \in Consumers : WF_vars(Engine(c))
  /\ \A h \in Handlers : WF_vars(CreateAlert(h) \/ CreateFails(h))

FairSpec == Spec /\ Fairness

-----------------------------------------------------------------------------
(* Properties *)

Positions == 1..(Len(Log) + 1)

ConsumerStates ==
  [pc : {"idle", "park", "claim", "lock", "find", "write"}, offset : Positions,
   attempt : 0..MaxAttempts, found : {NoAlert} \cup Alerts]
HandlerStates == {HandlerIdle} \cup [pc : {"create"}, sms : Sms]

\* Rows of their schema
TablesOK ==
  /\ assets \subseteq Assets /\ dedup_log \subseteq Events
  /\ readings \in [Events -> Nat]
  /\ alerts \in Seq([condition : Conditions, source : Events, status : {"open", "resolved"}])
  /\ outbox \in Seq(Seq({"alert.opened", "alert.resolved"})) /\ Len(outbox) = Len(alerts)
  /\ DOMAIN sms_fallback_events \subseteq Events
  /\ sms_fallback_events \in [DOMAIN sms_fallback_events -> [alert : Alerts, replayed : BOOLEAN]]
  /\ sms_fallback_receipts \subseteq Receipts

\* Type invariant: rows of their schema, positions within the partition.
TypeOK ==
  /\ owner \in Consumers /\ generation \in 1..MaxGenerations
  /\ committed \in Positions /\ stored \in Positions
  /\ consumers \in [Consumers -> ConsumerStates]
  /\ \A c \in Consumers : consumers[c].pc # "idle" => consumers[c].offset \in DOMAIN Log
  /\ handlers \in [Handlers -> HandlerStates]
  /\ TablesOK
  /\ handled \subseteq DOMAIN Log /\ failed \subseteq DOMAIN Log /\ refused \subseteq Events

\* A reading is appended once however often its message is delivered, retried after a lost
\* commit, or processed by two engines, and exactly when its event is claimed.
ReadingOnce ==
  \A e \in Events : readings[e] = IF e \in dedup_log THEN 1 ELSE 0

\* A condition has at most one open alert although three kinds of transaction look first and
\* insert later.
OneOpenAlert ==
  \A a, b \in Alerts :
    alerts[a].condition = alerts[b].condition /\ alerts[a].status = "open"
      /\ alerts[b].status = "open" => a = b

\* Subscribers hear of each alert once that it opened and once, if so, that it was resolved,
\* also when a recovery and an operator resolve it at the same time.
OutboxFollowsAlerts ==
  \A a \in Alerts : outbox[a] =
    IF alerts[a].status = "open" THEN <<"alert.opened">>
                                 ELSE <<"alert.opened", "alert.resolved">>

\* SMS and replay of one event agree on its alert in either order: a replay is never refused
\* because the other path linked the event to another alert.
ReplayNeverRefused == refused = {}

\* The event of a critical message is on file as replayed, linked to an alert of its condition.
OnFile(m) ==
  /\ m.event \in DOMAIN sms_fallback_events
  /\ sms_fallback_events[m.event].replayed
  /\ alerts[sms_fallback_events[m.event].alert].condition = Condition(m)

\* Every critical message that counts as handled has its event on file, whichever path came
\* first and however often it was delivered.
CriticalOnFile == \A o \in handled : Outcome(Log[o]) = "critical" => OnFile(Log[o])

\* No crash or rebalance skips a message nobody tried: below the committed offset each one was
\* handled or failed its attempts.
CommittedWasTried == \A o \in 1..(committed - 1) : o \in handled \cup failed

\* The partition is worked off: locks, retries and collisions hold no message up for ever.
LogDrained == \A o \in DOMAIN Log : <>(o \in handled \cup failed)

Book == INSTANCE AlertBook WITH
  Readings <- {[event |-> m.event, outcome |-> Outcome(m), condition |-> Condition(m)] :
                 m \in Messages},
  Texts <- {[event |-> s.event, condition |-> TextCondition(s)] : s \in Sms},
  announced <- outbox,
  filed <- sms_fallback_events,
  counts <- readings

\* Engines, handlers and operators, each looking before it writes, implement AlertBook: no
\* step of theirs, nor any retry or redelivery, is more than one step of it.
ImplementsAlertBook == Book!Spec

-----------------------------------------------------------------------------
(* The inductive invariant *)

\* What a consumer knows in its transaction: nobody committed its event; an event on file, or an
\* alert it found, is what it was when it looked.
Fits(x) ==
  LET m == Log[x.offset] IN
  /\ x.pc = "park" => Outcome(m) = "malformed"
  /\ x.pc # "write" => x.found = NoAlert
  /\ x.pc \in {"lock", "find", "write"} => m.event \notin dedup_log
  /\ x.pc = "write" /\ Outcome(m) = "critical" /\ m.event \in DOMAIN sms_fallback_events =>
       x.found = sms_fallback_events[m.event].alert
  /\ x.pc = "write" /\ x.found # NoAlert => alerts[x.found].condition = Condition(m)

\* The row lock of an asset is exclusive, and so is the advisory lock of an event.
AssetLockInv ==
  \A c, d \in Consumers :
    InTransaction(c) /\ InTransaction(d) /\ c # d => Message(c).asset # Message(d).asset
EventLockInv ==
  \A c \in Consumers, h \in Handlers, e \in Events : ~(HasLock(c, e) /\ CreatesFor(h, e))

\* Alerts are about the condition of the event that opened them.
SourceInv ==
  \A a \in Alerts, m \in Messages :
    alerts[a].source = m.event => alerts[a].condition = Condition(m)

\* ... and of every text of it, and what reaches the transaction was decoded: the refinement of
\* AlertBook needs both.
DecodedInv ==
  \A c \in Consumers : consumers[c].pc \notin {"idle", "park"} => Outcome(Message(c)) # "malformed"
TextSourceInv ==
  \A a \in Alerts, s \in Sms :
    alerts[a].source = s.event => alerts[a].condition = TextCondition(s)

\* A committed critical event is on file, and what is on file has the event's condition.
FileInv ==
  \A m \in Messages :
    /\ Outcome(m) = "critical" /\ m.event \in dedup_log => OnFile(m)
    /\ m.event \in DOMAIN sms_fallback_events =>
         alerts[sms_fallback_events[m.event].alert].condition = Condition(m)

\* Every offset below one that is committed, stored or next was tried.
TriedInv ==
  \A o \in DOMAIN Log :
    o < committed \/ o < stored \/ o < consumers[owner].offset => o \in handled \cup failed

HandledInv ==
  \A o \in handled : Outcome(Log[o]) = "malformed" \/ Log[o].event \in dedup_log

BookInv == ReadingOnce /\ OneOpenAlert /\ OutboxFollowsAlerts /\ SourceInv /\ FileInv

IndInv ==
  /\ TypeOK /\ BookInv
  /\ \A c \in Consumers : Fits(consumers[c])
  /\ AssetLockInv /\ EventLockInv /\ TriedInv /\ HandledInv /\ ReplayNeverRefused

-----------------------------------------------------------------------------
(* What the hardware guide says, and the code does not do *)

\* hardware-integration.md: after a storage failure "the engine leaves the Kafka offset unstored
\* so valid telemetry can be redelivered after the dependency recovers".
FailedIsRedelivered ==
  \A o \in 1..(committed - 1) : o \in handled

=============================================================================
