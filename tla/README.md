# TLA+ models of AmbaGrid

These modules model the parts of AmbaGrid where several processes, transactions or restarts
meet: the edge agent's durable queue and its critical-alert path over SMS, the two ways
telemetry enters the platform, the engine's view of alerts and of site health, its outbox,
and the payment ledger of the operator API. TLC checks small instances; TLAPS proves the most
important properties for every value of the constants. `PROJECT.json` maps every definition
to the source lines it stands for, lists the runs, the hazards, and for each checked property
a mutation of the code that breaks it.

    tlc -workers 2 -config MCEdgeQueue_order.cfg MCEdgeQueue.tla
    tlapm EdgeQueueProofs.tla

## The system

Readings travel from a site to the operator like this:

    devices -> edge-agent-go -> HTTP -> ingestion-go -> Kafka -> engine-rust -> Postgres -> api-go -> control room
               (SQLite queue)           MQTT bridge --^            |  outbox -> Kafka
                    \--- SMS modem -> provider webhook ------------------------> api-go
    payment provider webhook --------------------------------------------------> api-go

| Part | State it keeps | Operations | What is hard | Correct when |
|---|---|---|---|---|
| edge: durable queue (`repository/sqlite`) | `queue_events`, `edge_sync_state` | admit, mark pending, complete, fail, abandon, purge, recover on open | crash between any two transactions; flags kept by four transactions | no record vanishes; device order; replay flags cover every outage-era row; byte budgets |
| edge: uploader | one batch in memory | read heads, POST, apply outcomes record by record, retry, heartbeat | lost and late answers, partial answers, failing store writes | published in order, settled once, nothing starves |
| edge: collector | `Collector.conditions`, `debounce_conditions` | debounce, open incident, mark opened, resolve | crash or failed write between persist, incident and mark | every lasting condition is reported, none silenced |
| edge: SMS coordinator and heartbeats | `fallback_incidents`, `fallback_attempts`, `heartbeat_attempts` | scan, reserve, send, record; heartbeat with pruning | decisions on a snapshot, crash mid-send, shared budget | attempts within every budget; never again after acceptance |
| the text between edge and API | none | write and read an event, a heartbeat | written and parsed in two programs; rounding; one segment | what is read is what was meant |
| ingestion: MQTT bridge | connection, bounded queue, workers, counters | connect, subscribe, enqueue, publish, park, shut down | lost connections, full queue, late callbacks during the shutdown, several workers | counted once, drained before Kafka closes, flow resumes, stops in the end |
| ingestion: HTTP batch | none between requests | authenticate, validate, publish contact and records, answer | publishes that fail or only seem to; concurrent requests | accepted means published, under the authenticated site |
| engine: consumer, ingest reading, resolve | offsets; assets, readings, alerts, dedup keys, outbox rows | one transaction per reading; retry; dead letters | redelivery, unique-index races, skipped offsets | one alert per condition and per event; none lost |
| engine: site-health consumer | `site_health`, offsets | upsert the newest contact | redelivered and late contacts, failed stores | the row is the newest stored observation |
| engine: outbox publisher | leases on outbox rows, back-off | claim, publish, mark, prune | lease expiry, cancelled passes, events that cannot be encoded | at least once, fenced marks |
| api: payments | `payments`, `energy_credits`, `credit_balances`, `meter_commands`, outbox | `ApplyPayment` per webhook | concurrent READ COMMITTED transactions, repeated webhooks, lost answers | credited once; repeated answers equal the first; cut-off meter reconnected |
| api: SMS receipts, heartbeats, alert resolution | fallback events, receipts, heartbeats, alerts | receive SMS, resolve alert | either arrival order of SMS and replay; delayed and repeated texts | one alert per event; a dead site never looks alive |
| api: listings; control room, scripts, contracts | views only | reads | keyset pages | - |

Interactions: the collector and the uploader share the SQLite store through one connection
(`SetMaxOpenConns(1)`), so each store operation is atomic and goroutines interleave between
them. The uploader calls the ingestion service by HTTP with a timeout. The coordinator
reads what collector and uploader write, and its texts reach the API through a provider.
The ingestion service publishes to Kafka what the engine's two consumers store. The engine
and the API share Postgres, where an advisory lock serialises the two writers of critical
alerts; the site list judges `site_health` (the engine's) next to `sms_heartbeats` (the API's).

## Modules

| Module | Models |
|---|---|
| `StoreForward` | abstract: what the edge promises upstream (in-order publication, settled once) |
| `EdgeQueue` | queue, collector, uploader, purge, crash and recovery; the ingestion service as the agent sees it |
| `CriticalConditions` | debounce, incidents and restart of critical conditions |
| `SmsMessage` | pure: the text of an event or a heartbeat, written on the edge, read in the API |
| `EdgeConfig` | pure: the edge agent's environment, what is refused and what each part makes of the rest; extends `SmsMessage` |
| `SmsFallback` | `RunOnce` call by call, attempts, budgets, heartbeats; extends `EdgeConfig` |
| `IngestionConfig` | pure: the ingestion service's environment and its topic filter |
| `MqttBridge` | the MQTT bridge process; extends `IngestionConfig` |
| `SiteHealth` | heartbeat texts, ingest endpoint, site-health consumer and site list together; extends `SmsMessage` |
| `AlertBook` | abstract: readings counted once, alerts opened, announced and resolved once, events filed under them |
| `CentralAlerts` | a partition's consumers, the ingest transaction, SMS receipts and manual resolutions on one database |
| `Outbox` | any number of outbox publishers on one table |
| `PaymentLedger` | abstract: a reference applied once, with its balance in the same step |
| `Payments` | `ApplyPayment` statement by statement for concurrent handlers |
| `*Proofs` | the theorems of `EdgeQueue`, `CriticalConditions`, `Payments`, `CentralAlerts`, `MqttBridge`, `Outbox`, `SmsFallback` (with those of `EdgeConfig`) and `SiteHealth` |
| `MC*` | the instances TLC runs |

`CentralAlerts` and `SiteHealth` are compositions: the first puts engine and API on one
database, the second follows a sign of life from the gateway to the site list, and takes
over from `EdgeQueue` (when a batch leaves) and `SmsFallback` (when a heartbeat is due),
whose detail it leaves open.

### EdgeQueue

`queue_events`, `incidents`, `replay_mode_active` and `abandoned_count` are the tables;
`collector`, `uploader` and `batch` are what the goroutines hold in memory and a crash
erases. `zombies` are requests the client gave up on that the server may still publish.
`origin`, `upstream`, `fate`, `attempted` and `unrecorded` are history.

| Action | Code |
|---|---|
| `Persist`, `OpenFallbackIncident`, `MarkPendingUpload`, `CollectorFails`, `ResolveFallbackIncident` | the calls of `Collector.persist` and the recovery path, with the store operations under them |
| `SendBatch` (with `Ready`) | `uploadBatch` up to the request; an empty batch is the gateway heartbeat |
| `IngestAnswers`, `IngestRefusesRequest`, `UploadFails`, `UploadTimesOut`, `LatePublish` | the exchange in `Client.Upload`, and what the server did meanwhile |
| `CompleteUpload`, `RejectRecord`, `RetryRecord`, `StoreWriteFails` | one record of `processResponse` or of the failure loop |
| `UploadGivesUp`, `RecordUploadContactFailure`, `RecordUploadContactSuccess` | the ends of a batch |
| `Purge`, `Crash`, `recoverInterrupted`, `recoverFallbackIncidents` | the purge loop and `Open` |

Payloads are sizes. `next_attempt_at_ms` is "still in the future or not". The purge may
take any set of terminal rows, since the wall clock may be corrected between inserts.
`Admits` leaves the free-disk check out: it may only refuse an event, which changes nothing.
An incident is resolved by the gateway's clock and its readings are stamped by a device's, and
recovery compares the two (`fallback.go:32`). No clock is modelled: a resolved incident may
suppress a later row of its condition or not (`Suppressions`), and an unresolved one always does.

### CriticalConditions

A condition is an (asset, code) pair. `active_since` is the time passed since, up to the
debounce, because the code compares it with nothing else. The calls of one reading are
steps of their own (`ReadActive`, `OpenFallbackIncident`, `markOpened`; `ReadHealthy`,
`ResolveFallbackIncident`), each of which may fail or be cut off by `Crash`. `stranded` are
the conditions with a critical row that has no incident of its own, because it could not be
written or an earlier one was unresolved. `Restart` supplies it, surely if the condition has
never had one (`filed`); beside an older incident the clocks decide (`Reopenings`), so that the
row of a past episode may open an incident again. `Unwritable` are the conditions whose device
id, or whose text as a whole, `Format` refuses: a collector configured with such an id fails to
open the incident on every reading (`OpenFails`), and only recovery, which does not call
`Format`, opens it.

### EdgeConfig

A variable of the environment is unset, not of its type, or its value. `FromEnvAccepts` is
`config.FromEnv` with its helpers (`Parses`) and checks (`SMSValid`, which formats a trial
heartbeat), `OpenConfig` and `validateConfig` what `Open` adds and refuses, `Starts` both, as
`main.go` calls them. `NewUploader`, `NewCollector` and `NewCoordinator` put defaults and
limits in place of settings they cannot use. The integers are exact. Left out are the
simulator's switches, paths, addresses, and the timing that other modules leave open.

### SmsFallback

Its limits are those of `cfg`, which `NewCoordinator` makes of the environment `Env`.

`FallbackCandidates` takes the snapshot `RunOnce` decides on; then one candidate at a time
is reserved, sent and recorded, and the heartbeat follows. Uploads, resolutions, time and
crashes come between any two calls. A send may succeed, fail, or be cut off with its
reservation left `unknown`. `heartbeat_log` remembers the heartbeats that pruning deletes.
A failed reservation or record does not end the pass: its errors are collected and the next
candidate follows. A failed `FallbackCandidates` is a pass that never starts, and a failed
`HeartbeatState` ends the pass like a failed heartbeat reservation. The time a request left
(`uploadedAt`) lies up to `UploadLag` before its answer.

### SmsMessage

A text is its title and its list of `key=value` fields. `Format` and `FormatHeartbeat` with
their guards `Formattable` and `HeartbeatFormattable` are `message.go` and `heartbeat.go` of
the agent; `IsCritical`, `IsHeartbeat` and the `Parsed...` operators are `webhook/sms.go` of
the API. Time is cut to seconds, a temperature rounded to tenths (both neighbours where the
binary fraction decides), ids are tokens with a length that counts against the one segment.
Characters are not modelled: a token is one that may be written (`PlainTokens`) or is not.

### MqttBridge

`env` is the environment of the process, chosen once. `main` and `teardown` are where `Run`
and its `finish` are; `mqtt`, `subscription`, `resubscribing` and `report` Paho's connection
and the subscriptions under way; `queue`, `closed` the guarded channel; `workers`, `stats`,
`kafkaOpen` the rest of the bridge. `arrivals` and `deaf` are history, `telemetry` and
`deadLetters` what landed in Kafka.

| Action | Code |
|---|---|
| `FromEnv`, `Start`, `Subscribed`, `StopBeforeRunning`, `ConnectFails` | `config.FromEnv`, and `Run` up to the wait for the first subscription |
| `OnConnect`, `ConnectionLost`, `resubscribe` | the connection handlers; a token granted, refused, or given up and granted all the same |
| `Receive`, `Enqueue` | the publish handler: `AddReceived`, then `queueGuard.enqueue` or `AddDropped` |
| `Take`, `ProduceSync`, `parkInDeadLetter`, `WorkerEnds` | `kafkaWorker`; a record reported failed may have landed |
| `Shutdown`, `Unsubscribe`, `Disconnect`, `closeOnce`, `CloseKafka`, `Return`, `ShutdownTimeout` | the cancelled branch of `Run` and `finish` |
| `Stop`, `Exit`, `HTTPFails` | SIGTERM and `main.go` |

The protobuf conversion is a Boolean of the message. Log lines, addresses and the metrics
ticker are left out.

`IngestionConfig` has `FromEnv` with its checks (`ConfigValid`, `SecurityValid`,
`APIKeysValid`), what `NewKafkaClient` refuses later (`SecurityOptsBuild`), and the two
readings of the topic filter: `DeriveConstraints` and `ParseTopic` against the broker's
`Routed`. A variable is unset, unparsable, or its value.

### SiteHealth

| Action | Code |
|---|---|
| `SendHeartbeat`, `SendCritical` | reservation (the sequence is spent), formatting and send on the gateway |
| `ReplaceStore`, `ProviderReceives` | a gateway with a new disk; the provider's time stamp |
| `ReceiveHeartbeat`, `ReceiveCritical` | `handleSMSFallback`: sender identity, stored heartbeat and receipt under the advisory lock, 409 on a mismatch; the hand-over to `ReceiveSMS` |
| `Receive`, `RecordContact`, `HandleRecord`, `Respond` | `handleIngest`: authentication and health, the contact, one record each, the answer |
| `Store`, `StoreFails`, `AutoCommit`, `Restart` | the loop of `site_health.rs` and its upsert |
| `siteHealthStatus` | `services/sites.go` on what `listSitesSQL` joins |

`contacts`, `observed` and `skipped` are history; `texts` is at once history and what the
provider may deliver again. A gateway's clock is a fixed amount off.

### CentralAlerts

`owner`, `generation`, `committed` and `stored` are the consumer group's view of one
partition; `consumers` is where each engine's loop and transaction stand; `handlers` are API
requests between finding no alert and creating one. The tables carry the names of the schema;
`alerts` and `outbox` are indexed by the order of insertion. `handled`, `failed` and `refused`
are history.

| Action | Code |
|---|---|
| `Receive`, `Park`, `Handled`, `Unhandled`, `RetryOrGiveUp` | the loop of `consumer::run`, the dead letter, `store_offset` or `continue`, `ingest_with_retry` |
| `ClaimDedup` | `claim_dedup` and `upsert_asset`, which wait for a rival with the same key or asset |
| `LockEvent` | `pg_advisory_xact_lock`, held by engine or API until the transaction ends |
| `FindAlert`, `Commit` (`WriteAlert`) | the lookups, which lock nothing, and the writes up to the commit, answered or not |
| `StorageError`, `MessageError` | rolled back and retried; rolled back and given up |
| `AutoCommit`, `Assign` | librdkafka's timer; a join, restart or rebalance, with the old owner still busy |
| `ReceiveRepeated`, `ReceiveLinked`, `ReceiveNew`, `CreateAlert`, `CreateFails` | `ReceiveSMS`: a known event, an alert found, none found, and the two ends of that transaction |
| `ResolveAlert` | `Store.ResolveAlert` of the API, and the engine's resolve-alert action |

The step from an alert's insert to the commit is one, since a rival insert waits on the
unique index for exactly that commit. A reading is reduced to its event, asset, critical code
and where its temperature lies. `LogAssumption` says how texts and readings go together: those of
one event agree on asset and condition, and an event has one reading, which leaves two things
of the code out. A text that contradicts what is on file (the 409 of
`services/fallback.go:41`) never occurs, nor does a replay that names another asset or
condition than the text did; and no sequence is used again after a gateway's disk was replaced,
which `edge-reliability.md:166` rules out and a fresh database does not. `ReplayNeverRefused`, `CriticalOnFile` and the
refinement are claims under that assumption: no *interleaving* makes a replay conflict. In `AlertBook` a reading is its event,
condition and outcome, the API's file (`sms_fallback_events`) is `filed`, the rows of
`readings` are `counts`, the outbox is `announced`, and everything else is gone. Left out of
both: a code that does not fit the asset's type (it counts
as no code), and an event key or site that does not match its message, which the ingestion
service refuses.

### Outbox

| Action | Code |
|---|---|
| `claim_unpublished`, `ClaimFails` | the UPDATE that leases the oldest rows; failed or unanswered |
| `publish`, `PublishFails` | one event of the batch, in any order; `continue` after an error |
| `mark_published`, `MarkFails` | the fenced UPDATE, or `ClaimLost` |
| `FinishPass` | the end of `publish_once` and the delay `main.rs` chooses |
| `prune_published` | the cleanup's turn in `select!`, which drops the pass under way |
| `GoesDown`, `ComesUp`, `Record`, `Tick` | the process, a new row, time |

Time is kept as ages and remaining delays in whole ticks, so that the system may run for
ever; the short delay after a full batch is under a tick. That an event can be encoded is a
constant. `Unheard` is what may have become of a statement whose pass was dropped.

### Payments

A step is one statement another transaction can tell apart from its neighbours. What a
transaction wrote is in its handler until `Commit`. The two statements that can wait,
`InsertPayment` (unique reference) and `UpsertCreditBalance` (row lock), are enabled when
the holder is gone; `GetPriorBalance` is a plain SELECT and locks nothing. `Rollback`
stands for any failing statement, deadline or process death, `Commit(h, FALSE)` for a lost
answer, and `RelayReported` for the engine committing a reading of the relay meanwhile.

## Runs

| Run | Bounds | Shows |
|---|---|---|
| `order` | 2 records of 2 devices, each larger than a batch, one rejection allowed, 1 failed write | nothing vanishes; implements `StoreForward` (device order, settled stays settled); every reachable record is settled once the agent stays up |
| `store` | 2 records of 1 byte in a queue of 100, 97 % reserve, 2 codes (one site-wide), 2 rejections, 1 failed write | replay mode; reserve; incidents; replay flag on every resend |
| `conditions` | 2 conditions of which no text can name 1, debounce 2, unlimited crashes | debounce survives; no silent condition; an active one is reported, if a text can name it |
| `sms` | 2 incidents, 3 instants, 2 attempts 2 apart, 1 attempt an hour and 2 a day, 1 heartbeat a day, answers up to 1 late | budgets per incident, site and heartbeats; acceptance is final |
| `payments` | 3 handlers, 5 webhooks over 3 references, 2 tariffs, 2 currencies | repeated answers; reconnection; implements `PaymentLedger` |
| `alerts` | 2 engines, 1 API handler, 3 messages (critical, recovery, malformed) of one asset, 2 texts, 2 attempts, 2 assignments | readings count once; SMS and replay agree on one alert; implements `AlertBook` (each alert opened, resolved and announced once); the log is worked off |
| `bridge` | 3 environments that run and some 20 that are refused for one reason each, 4 kinds of message of which 2 arrive, 2 connections, up to 2 workers, queues of 1 and 2 | counted once; drained before Kafka closes; routed is ingestible; one worker keeps order; what is accepted starts; stops; drains; resumes |
| `health` | 2 sites, 2 gateways (clocks 2 ahead and 1 behind), 2 handlers, 5 kinds of batch, 3 instants, 2 batches or texts | no false sign of life; texts mean what was sent; answers are true; the newest contact wins; contacts are observed |
| `outbox` | 3 events of which 1 cannot be encoded, 2 publishers, batches of 2, leases of 2 ticks, 1 fault | nothing marked is unpublished; leases exclude; at least once |
| `reconnect`, `redelivery`, `starvation` | the smallest that show it | the disagreements below |

Why these bounds suffice. `order`: a record waits behind its own device's head or beside
another device's, and TLC takes every split of the two records over the two devices; the
head is larger than the batch limit in both. `store` meets the boundary of the reserve: the
payload capacity is 65 and the normal limit 1, so the second normal record is refused and a
critical one still fits. Both instances are configurations `validateConfig` lets through,
with a MiB of up to 40 bytes. In `sms` the clock passes the retry interval once, the hourly budget binds
within a pass and the daily one across passes. `MCSmsFallback` also
evaluates `StartUp`: some twenty environments, each refused for one reason, and the defaults
and borderline ones that start. Pruning starts a day after the first
heartbeat and is not reached by the clock: it removes rows no budget counts any more
(`HeartbeatRetention >= Day` is an assumption, and a constant of the code); a second instance
with `Day` and `HeartbeatRetention` of 1, where rows are pruned, was run with the same
result. In `alerts` the second text opens the alert the first event's reading is linked to
or the other way round, the recovery and an operator race to resolve it, and the second
assignment is a crash or a rebalance with the first engine still writing. Four messages with
three texts (4.8 million states) were run once, for safety, with the same result. In
`bridge` two messages fill the smallest queue while one is in a worker's hands and overtake
each other with two workers; the second connection is the reconnect. In `health` two contacts
of one site are published in the order opposite to that in which they happened (two
handlers), a text is judged at all times after its delivery, and two heartbeats reuse a
sequence after a replaced store. In `outbox` one fault is a crash, a cut-short pass, a lost
answer or an outlived lease, after which the other publisher takes over; the event that
cannot be encoded fills half of a batch. Three handlers are one more than any race of
`Payments` needs. Beyond these bounds, what the section on proofs names is proved.

`CHECK_DEADLOCK` stays on but for the two runs of `CentralAlerts`, whose log may be worked
off with nothing left to do; `LogDrained` says there that it is. A bridge that has exited
stutters (`Exited`), and that it gets there is `StopsInTheEnd`.

## Fairness

* `EdgeQueue!FairSpec`: the uploader's next step is weakly fair (its loop runs while the
  process does), the client timeout ends each request, retry times pass, and a record
  that is sent again and again is answered again and again (strong fairness: the network
  is not down for ever). Nothing is assumed of the collector, the purge, or restarts; the
  property speaks of executions in which the process eventually stays up.
* `CriticalConditions!FairSpec`: time passes and the agent is restarted (its supervisor);
  each condition is read again and again with whatever result (strong, because crashes keep
  interrupting: the collector polls on a ticker), calls in hand end, and the store does
  not fail every time it is given an incident. This last is strong fairness of
  `OpenFallbackIncident`, and it is not asked of a condition in `Unwritable`, whose refusal is
  no accident: `ActiveIsReported` does not hold for those and does not speak of them.
* `CentralAlerts!FairSpec`: each engine's loop goes on (weak: it never stops, and a
  storage error is one of its steps), and each API transaction ends by commit, error or
  deadline. Nothing is assumed of text deliveries, operators, offset commits or rebalances.
* `MqttBridge!FairSpec`: all weak. `Run`, `finish`, the callback and each worker go on, since
  nothing they wait for has no end of its own: a `ProduceSync` has its timeout, a
  subscription token is given up after five seconds, the first connection attempt has
  `SetConnectTimeout`. Nothing is assumed of reconnections, messages, or Kafka's success.
* `SiteHealth!FairSpec`: strong fairness of `Store` and `AutoCommit`, because restarts and
  failed stores may interrupt for as long as they like but not for ever: librdkafka redelivers
  and its timer runs. Nothing is assumed of texts and requests.
* `Outbox!FairSpec`: weak fairness of time and of each publisher's pass; a publisher that went
  down comes up (its supervisor). Faults are finitely many: with a fault at every pass
  nothing would ever be delivered.
* `Payments`, `SmsFallback`: safety only.

## Proofs

All theorems rest only on the `ASSUME`s of the modules (configuration limits the code
enforces, and the shape of webhooks and messages).

**EdgeQueue.** `Spec => []IndInv` by one lemma per action. None of the properties is
inductive alone. `RowsInv` ties table status to the history, `TodoInv` says that what the
uploader read is still what the table holds (no other goroutine touches a pending
head-of-device row, so the `rejection_count` it decides on is not stale), and
`PublishedInv` says that only heads of devices (`DeviceHeads`) are ever published or in
flight, late requests included. `ReplayInv` says that a record sent before is marked unless
it is in hand now. From these: `TypeOK`, `ReplayModeCoversBacklog`, `BudgetExact`,
`IncidentDelivery`, `PerDeviceOrder`, `NothingVanishes`, `SettledForever`,
`ResentAsReplay`, and the refinement of `StoreForward`. (`BudgetExact`, `PerDeviceOrder` and
`SettledForever` are proved and in no run: the refinement implies the last two.)

`CriticalReserveKept` is about two sums over sets of rows. `MapThenSumSet` is a recursion
over subsets, and the library's induction theorems are out of the prover's reach, so the
lemmas about sums (there is one function that adds up the parts of a set, it grows by what
one more row has, it is monotone) argue from a least counterexample: `LeastSubset` takes it
from the well-foundedness of the subset ordering. What is the program's in the proof is
`PersistReserve`: a normal row is admitted only below the normal limit, a critical one only
below the payload capacity, and no other step adds bytes. `CriticalRowsHaveIncident` needs
`ConditionInv`: the incident named after a critical row is of that row's condition, and the
condition has one on file (`OnFile`) before the collector marks the row and after the row is
settled, also while the process is down.

**EdgeConfig**, in `SmsFallbackProofs`. For every environment whose variables have their
types: an agent that starts has the limits `EdgeQueue` assumes (`StartedQueueLimits`) and the debounce `CriticalConditions`
assumes (`CollectorKeepsSettings`); the coordinator's own limits never bind, so it runs with
what was configured (`CoordinatorKeepsSettings`); and `MaxIncidentAttempts` attempts of one
incident span `IncidentAttemptWindow` (`AttemptsSpanTheWindow`).

**CriticalConditions.** `IndInv` adds to the types and the two properties what the
collector holds between its calls: a condition about to be marked has its incident, and
one being resolved is tracked no more.

**SmsFallback.** For every environment `EdgeConfig` lets an agent start with, and any
incidents, delays and crashes. The limits are those of the coordinator, positive by
`CoordinatorKeepsSettings`. `TodoInv`: what `RunOnce` read of an incident it has not come to
still holds, because only the coordinator itself writes those columns. `AttemptInv`: an
incident's row is past each of its attempts by the retry interval, and says that one was
accepted if one was. `CountInv`: the counts a pass carries are never below those of the
table. `HeartbeatInv`: all heartbeats of the last day are on file, since pruning spares
`HeartbeatRetention >= Day`. Each budget then follows for every window from the one that ends
at the newest attempt. From these: `TypeOK`, `IncidentBudget`, `SiteBudget`,
`AcceptedIsLast`, `HeartbeatBudget`.

**MqttBridge.** `IndInv` has a half for control and one for data. `Phases` says which stage
of `Run`, of `finish`, of the connection and of the workers go together, so that nothing is
handed to Kafka after its client is closed: the queue is closed before the workers can end,
and they end only when it is empty. `StartFails` follows the configuration from `FromEnv` to
the client options and gives `AcceptedStarts`. In the data half, `Accounting` is inductive
with the types; `SortedInv` says that everything queued or in hand was routed to the
filter, whose constraints it therefore meets (`RoutedIsIngestible`); and `OrderInv` says that
the queue is sorted by arrival, above what is in hand, above what landed, which with a single
worker gives `SingleWorkerOrder`.

**Outbox.** `NothingLost` needs that what a publisher has to mark has landed, also after an
expired lease. `LeaseExcludes` needs that a publisher whose lease is not outlived holds only
rows it has claimed, with ages that equal its own.

**Payments.** `ReferenceInv`: a transaction that inserted its payment row is alone with its
reference. `GrantInv`: a transaction past its terms holds a credit for its payer, and if
the balance is still empty then the prior balance it read was zero, which is why *some*
payment reconnects a meter that was off from the start even when several overlap.
`OneCredit`: one credit per payment. From these: `TypeOK`, `ReplayAgrees`,
`CutOffMeterReconnected`, and the refinement of `PaymentLedger`.

**CentralAlerts.** `Fits` says what a consumer knows in its transaction: nobody has committed
its event (`AssetLockInv`: rivals with the same event have the same asset, whose row is
locked), and the alert it found for an event on file is still the one on file, because its
advisory lock keeps the API out (`EventLockInv`). The second half makes `ReplayConflicts`
impossible. `SourceInv` and `FileInv` tie alerts and the file to the events' conditions,
which needs the assumption that a text tells the condition of the reading it stands for.
`TriedInv` puts the stored and committed offsets and the owner's position above tried
messages only (`CommittedWasTried`, in no run). From these all safety properties of the module.

`RefinementTheorem`: `CentralAlerts` implements `AlertBook`. Every step that writes a table
(`Commit`, `CreateAlert`, `ReceiveLinked`, `ResolveAlert`) is one step of the book and all
others stutter. Two more facts say why: `DecodedInv`, an engine is in a transaction only with
a message it could decode, so its reading has an outcome the book knows; and `TextSourceInv`,
an alert whose source is a text's event is of the condition that text tells, so the alert a
handler finds and files the event under is one the book allows. That the
transactions see the tables as they were when they looked is `Fits` again.
`OutboxFollowsAlerts` is proved and in no run: the refinement implies it.

**SiteHealth.** `IndInv` is `SmsInv`, `IngestInv` and `ConsumerInv`, which share no variable
but the topic, and are preserved one by one. The first rests on two theorems about the pure
operators of `SmsMessage`: what `FormatHeartbeat` and `Format` write is read back as it was
meant, to the second and the tenth of a degree, and neither kind of text is taken for the
other (`HeartbeatRoundTrip`, `CriticalRoundTrip`, for all ids, sequences and times the
gateway's own checks let through). `SmsInv` then traces each row of the API to a text and what
it meant (`TextsMeanWhatWasSent`). `IngestInv` traces each event of the topic and each request
under way to an authenticated contact, and has `AnswersAreTrue`; `ConsumerInv` has
`HealthIsNewest`. `NoFalseLife` follows from the three together: a fresh row of `site_health`
is an observation in the topic and so a contact, and a fresh heartbeat is one whose contact
time is bounded both by the provider's time and by the time it left. `ContactsTried`, in no
run, is the safety half of `ContactsObserved`: no restart or commit passes over a contact.
Three assumptions serve the proofs: `NoToken`, the empty
value, is no id; there is a batch; the fields of `Incidents` have the types of an event's.

**Only model-checked.** Liveness (`EventuallySettled`, `ActiveIsReported`, `LogDrained`,
`StopsInTheEnd`, `BacklogDrains`, `FlowResumes`, `AtLeastOnce`, `ContactsObserved`), which is
beyond the prover. Every invariant, action property and refinement of a passing run has a
theorem.

## Where code and documents disagree

* `reconnect`: two overlapping first payments both enqueue a reconnect;
  `payments.go:147` says duplicates must not be.
* `redelivery`: a message that fails its attempts keeps its offset unstored, but the next
  success on the partition stores a higher one; `hardware-integration.md:35-36` and the log
  line at `consumer.rs:196` promise a redelivery. The same holds for an alert resolved by an
  operator at the moment its recovery is ingested (`MessageError`), and for a site-health
  event whose store fails (`SiteHealth!StoreFails`).
* `starvation`: the longest failure delay equals the lease, so with a single publisher a full
  batch of events that cannot be encoded is claimed by every pass from then on, and no later
  event is published; `api.md:439` promises delivery at least once.

Noted in reading, without a run:

* a refused *request* (a 4xx other than 401 with a JSON body, `client.go:151`) is decoded as a
  response without lists and spends the rejection budget of every record in the batch, where
  `uploader.go:174` says that request failures never do;
* the coordinator decides on a snapshot (`coordinator.go:113`), so an incident uploaded while
  the modem is busy is still texted; `critical-alert-fallback.md:58-62` gives the condition as
  holding when it sends;
* a failed heartbeat enters replay mode without marking a row persisted during the request
  (`fallback.go:93`), where `edge-reliability.md:182` says that a failure marks the active
  backlog;
* with more than one worker, readings of one meter may be published out of order
  (`bridge.go:323`), although `telemetry.go:195` keys records so that a meter's readings keep
  their order;
* `FromEnv` tries whether a heartbeat fits with a sequence and a time of one digit each
  (`config.go:294`, `SampleRoom` against `Room`), so site and gateway ids some ten characters
  too long are accepted and every heartbeat of that agent spends its budget unsent;
* a queue of more than about 2^57 bytes overflows the share of it an event may take
  (`sqlite/config.go:29`), which `EdgeConfig` computes exactly;
* `KAFKA_PRODUCE_TIMEOUT=0` is accepted (`config.go:75`) and lets no record through;
* a gateway whose store is replaced starts its heartbeat sequence again, and the API answers
  the reused numbers with 409 until they pass the old ones;
* a critical reading of a device whose id cannot be written in a text (a dot or a blank is
  enough) has its incident refused by `Format` (`sqlite/fallback.go:53`) after the reading was
  persisted; `persist` returns there (`collector.go:180`), so the row is not queued for upload
  until the next restart, and each further reading of the condition adds another.
  `normalizer.go` asks only that the id is not blank, and `critical-alert-fallback.md:55-56` has
  the event persisted before either delivery path is tried, as if neither could hold up the
  other;
* recovery decides whether a row belongs to an episode already resolved by comparing the
  gateway's resolution time with the device's reading time (`sqlite/fallback.go:32`), so a
  critical row whose own incident was never written may, if the device's clock is ahead, open a
  past episode again at the next start, or, if it is behind, be suppressed although its
  episode is a new one;
* `main.go:4-5` says that records are only removed after an acknowledgement, and `Purge` also
  removes abandoned ones; `ontology.md` (the `ReconnectMeter` rule) asks for a positive balance
  only, and the code also requires it to have been zero; `listCustomerSummariesSQL` joins
  credits with payments, so the energy total is multiplied by the number of payments.

## Not modelled

* JSON and protobuf encodings, the characters of a text, the AT dialogue of the modem: pure
  conversions and I/O, reduced to whether they succeed and what they keep.
* The environment of the engine and the API: its limits are the `ASSUME`s of their modules.
* Metrics and health endpoints, read-only listings with their cursors, webhook signatures:
  stateless, or reports of state that is modelled.
* Schema migrations: they end before the models begin; their indexes are guards.
* The control room, which views server state; scripts; deployment.

## Plan

1. Edge queue, conditions, payments and central alerts with proofs; SMS, MQTT bridge and
   outbox with proofs, site health from the gateway to the list: done.
2. Proofs of `SiteHealth`, of the last invariants of `EdgeQueue`, and an abstract alert book
   that `CentralAlerts` implements: done.
3. Abstract promises of `Outbox` and of the MQTT bridge (each event marked only once
   published; each arrival settled in one way), as refinements.
4. Keyset pages (`page.go` and the list queries) while rows are inserted and resolved.

To stay within a set of runs that can be read at a glance, new runs replace ones that a
stronger one has made redundant.
