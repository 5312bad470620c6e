----------------------------- MODULE SiteHealth -----------------------------
(***************************************************************************)
(* How the control room comes to know that a site is alive.  A gateway's    *)
(* batch reaches the ingest endpoint (ingest/handler.go), which publishes   *)
(* the contact and then the records; the engine keeps the newest contact in *)
(* site_health (kafka/site_health.rs).  While it has no packet data the     *)
(* gateway texts heartbeats, which the API receives (services/heartbeat.go) *)
(* next to them; services/sites.go judges the two when sites are listed.    *)
(*                                                                          *)
(* The servers share a clock, and each gateway's own is off by a fixed      *)
(* amount.  Texts take their time, get lost, overtake each other and are    *)
(* delivered again; so are requests, and contacts in Kafka.  When a gateway *)
(* texts is SmsFallback's matter, what a critical text does CentralAlerts'. *)
(***************************************************************************)
EXTENDS SmsMessage

CONSTANTS
  Sites,
  Gateways,              \* [id -> site], with their numbers
  Senders,               \* gateway -> whose number the API takes it for: [site, gateway]
  APIKeys,               \* [key -> site]
  HeartbeatsEnabled,
  Batches,               \* what gateways upload, see BatchType
  Incidents,             \* critical events they text
  Intervals,             \* the heartbeat intervals they are configured with
  Skew,                  \* gateway -> how far its clock is ahead
  OfflineAfter, EventStaleAfter,
  Handlers,              \* ingest requests served at the same time
  Epoch, MaxClock,       \* bound: the clock's first and last value
  MaxMessages            \* bound: the batches and texts that are ever sent

AssetTypes == {"battery_bms", "solar_inverter", "smart_meter"}

\* A record of a batch.  complete: every field that must not be empty is there.
RecordType ==
  [sequence : Nat, site : Sites, complete : BOOLEAN, asset_type : AssetTypes,
   code : Codes \cup {NoToken, "UNKNOWN"}, value : BOOLEAN, decodable : BOOLEAN]

NoTime == -1

\* oldest: oldest_pending_at is present; age: of the last event when the batch left, if any.
BatchType ==
  [key : DOMAIN APIKeys \cup {"unknown"}, readable : BOOLEAN,
   gateway : DOMAIN Gateways \cup {NoToken}, depth : Int, oldest : BOOLEAN, age : Nat \cup {NoTime}, records : Seq(RecordType)]

ASSUME HealthAssumption ==
  /\ APIKeys \in [DOMAIN APIKeys -> Sites] /\ "unknown" \notin DOMAIN APIKeys
  /\ Gateways \in [DOMAIN Gateways -> Sites]
  /\ Senders \in [DOMAIN Gateways -> [site : Sites, gateway : DOMAIN Gateways]]
  /\ HeartbeatsEnabled \in BOOLEAN
  /\ Batches \subseteq BatchType /\ Batches # {}
  /\ Incidents \subseteq [asset : Tokens, sequence : Nat, code : Codes, temperature : Int]
  /\ Intervals \subseteq Nat /\ Skew \in [DOMAIN Gateways -> Int]
  /\ OfflineAfter \in Nat /\ EventStaleAfter \in Nat
  /\ Epoch \in Nat /\ MaxClock \in Nat /\ MaxMessages \in Nat

VARIABLES
  clock,           \* the servers' clock
  sequences,       \* gateway -> its durable heartbeat sequence
  texts,           \* every text ever sent, with what it was to say, when it left, and when the
                   \* provider got it; the provider delivers it any number of times
  sms_heartbeats,  \* the API's table, key <<site, gateway, sequence>>
  sms_heartbeat_receipts,  \* provider message id -> heartbeat key
  handed_over,     \* critical events given to ReceiveSMS, with their message id
  requests,        \* handler -> the batch it is serving
  contacts,        \* history: the authenticated contacts, as they happened
  health_topic,    \* the topic of site health events
  telemetry,       \* the telemetry topic's records, by event key <<site, sequence>>
  position, stored, committed,   \* the engine's consumer of health_topic
  observed, skipped,  \* history: offsets whose store succeeded, and failed
  site_health      \* site -> its row

sms == <<sequences, texts, sms_heartbeats, sms_heartbeat_receipts, handed_over>>
ingest == <<requests, contacts, health_topic, telemetry>>
consumer == <<position, stored, committed, observed, skipped, site_health>>
vars == <<clock, sms, ingest, consumer>>

\* The bound on what gateways send.
MaySend == Cardinality(contacts) + Cardinality(texts) < MaxMessages

-----------------------------------------------------------------------------
(* Texts *)

Send(text, meant, gateway) ==
  texts' = texts \cup {[id |-> Cardinality(texts) + 1, from |-> gateway, text |-> text,
                        meant |-> meant, sent |-> clock, received |-> NoTime]}

\* ReserveHeartbeat and the send.  The sequence is spent whatever becomes of the text.
SendHeartbeat(g) ==
  \E interval \in Intervals :
    LET heartbeat == [site |-> Gateways[g], gateway |-> g, sequence |-> sequences[g] + 1,
                      interval |-> interval, at |-> clock + Skew[g]]
    IN /\ MaySend
       /\ sequences' = [sequences EXCEPT ![g] = @ + 1]
       /\ IF HeartbeatFormattable(heartbeat)
            THEN Send(FormatHeartbeat(heartbeat), heartbeat, g) ELSE UNCHANGED texts
       /\ UNCHANGED <<clock, sms_heartbeats, sms_heartbeat_receipts, handed_over, ingest,
                      consumer>>

SendCritical(g) ==
  \E i \in Incidents :
    LET event == [site |-> Gateways[g], asset |-> i.asset, sequence |-> i.sequence,
                  code |-> i.code, temperature |-> i.temperature, at |-> clock + Skew[g]]
    IN /\ MaySend
       /\ \E tenths \in Tenths(event.temperature) :
            /\ Formattable(event, tenths)
            /\ Send(Format(event, tenths), event, g)
       /\ UNCHANGED <<clock, sequences, sms_heartbeats, sms_heartbeat_receipts,
                      handed_over, ingest, consumer>>

\* The gateway gets a new disk, and its counter starts again.
ReplaceStore(g) ==
  /\ sequences[g] > 0
  /\ sequences' = [sequences EXCEPT ![g] = 0]
  /\ UNCHANGED <<clock, texts, sms_heartbeats, sms_heartbeat_receipts, handed_over,
                 ingest, consumer>>

ProviderReceives(m) ==
  /\ m.received = NoTime
  /\ texts' = (texts \ {m}) \cup {[m EXCEPT !.received = clock]}
  /\ UNCHANGED <<clock, sequences, sms_heartbeats, sms_heartbeat_receipts, handed_over,
                 ingest, consumer>>

HeartbeatKey(h) == <<h.site, h.gateway, h.sequence>>

MutContactAt(h, receivedAt) == receivedAt
ContactAt(h, receivedAt) == IF h.at < receivedAt THEN h.at ELSE receivedAt

\* 2.5 declared intervals
ExpiresAt(h, contactAt) == contactAt + (5 * h.interval) \div 2

\* FindHeartbeat: none or one row.
StoredHeartbeat(key) == {row \in sms_heartbeats : row.key = key}

Matches(row, h) == row.sent_at = h.at /\ row.interval = h.interval

InsertHeartbeat(h, contactAt) ==
  [key |-> HeartbeatKey(h), site |-> h.site, interval |-> h.interval, sent_at |-> h.at,
   contact_at |-> contactAt, expires_at |-> ExpiresAt(h, contactAt)]

\* A signed webhook call hands the text over, the first time or again.
Delivered(m) == m.received # NoTime

\* SMS.Parse: who the number a text came from is registered for.
Identity(m) == Senders[m.from]

\* The message id is new, or stands for the same heartbeat.
ReceiptFits(id, key) == \A r \in sms_heartbeat_receipts : r.id = id => r.key = key
InsertReceipt(id, key) == sms_heartbeat_receipts \cup {[id |-> id, key |-> key]}

\* handleSMSFallback for a heartbeat.  The advisory lock on the key and the unique message id
\* make the transaction one step; when it fails it leaves nothing.
ReceiveHeartbeat(m) ==
  LET h == ParsedHeartbeat(m.text)
      key == HeartbeatKey(h)
  IN
  /\ Delivered(m) /\ IsHeartbeat(m.text)
  /\ Identity(m) = [site |-> h.site, gateway |-> h.gateway]
  /\ HeartbeatsEnabled
  /\ \A row \in StoredHeartbeat(key) : Matches(row, h)     \* else 409
  /\ ReceiptFits(m.id, key)                                \* else 409
  /\ sms_heartbeats' = IF StoredHeartbeat(key) = {}
       THEN sms_heartbeats \cup {InsertHeartbeat(h, ContactAt(h, m.received))} ELSE sms_heartbeats
  /\ sms_heartbeat_receipts' = InsertReceipt(m.id, key)
  /\ UNCHANGED <<clock, sequences, texts, handed_over, ingest, consumer>>

\* handleSMSFallback for a critical event
ReceiveCritical(m) ==
  /\ Delivered(m) /\ IsCritical(m.text)
  /\ Identity(m).site = ParsedCritical(m.text).site
  /\ handed_over' = handed_over \cup {[id |-> m.id, event |-> ParsedCritical(m.text)]}
  /\ UNCHANGED <<clock, sequences, texts, sms_heartbeats, sms_heartbeat_receipts, ingest,
                 consumer>>

-----------------------------------------------------------------------------
(* The ingest endpoint *)

HandlerIdle == [pc |-> "idle", batch |-> CHOOSE b \in Batches : TRUE, contact_at |-> NoTime,
                last_event |-> NoTime, verdicts |-> << >>]

\* validateHealth
HealthValid(batch) ==
  batch.gateway # NoToken /\ batch.depth >= 0 /\ (batch.depth > 0 <=> batch.oldest)

CodeValid(record) ==
  CASE record.code = NoToken -> ~record.value
    [] record.code = "BATTERY_OVERHEAT" -> record.asset_type = "battery_bms" /\ record.value
    [] record.code = "INVERTER_FAILURE" -> record.asset_type = "solar_inverter" /\ ~record.value
    [] record.code \in {"TAMPER_DETECTED", "SITE_OUTAGE"} -> ~record.value
    [] record.code = "UNKNOWN" -> FALSE

\* validateRecord
RecordValid(record) == record.sequence > 0 /\ record.complete /\ CodeValid(record)

Authenticates(batch) == batch.key \in DOMAIN APIKeys
AuthSite(batch) == APIKeys[batch.key]

\* The answer leaves the model; EdgeQueue has what the uploader makes of it.
Answer(r) == requests' = [requests EXCEPT ![r] = HandlerIdle]

\* handleIngest up to RecordContact, if it gets there: 401 and 400 change nothing.  A gateway
\* that gave up waiting may send the next batch while a handler still serves the last one.
Receive(r, batch) ==
  /\ requests[r].pc = "idle"
  /\ Authenticates(batch) /\ batch.readable /\ HealthValid(batch)
  /\ MaySend
  /\ requests' = [requests EXCEPT ![r] = [HandlerIdle EXCEPT
       !.pc = "contact", !.batch = batch, !.contact_at = clock,
       !.last_event = IF batch.age = NoTime THEN NoTime
                      ELSE clock + Skew[batch.gateway] - batch.age]]
  /\ contacts' = contacts \cup
       {[id |-> Cardinality(contacts) + 1, site |-> AuthSite(batch), at |-> clock]}
  /\ UNCHANGED <<clock, sms, health_topic, telemetry, consumer>>

\* A ProduceSync: the record landed, and the broker said so.
Outcomes == {o \in [landed : BOOLEAN, acked : BOOLEAN] : o.acked => o.landed}

HealthEvent(request) ==
  [site |-> AuthSite(request.batch), gateway |-> request.batch.gateway,
   contact_at |-> request.contact_at, last_event |-> request.last_event,
   depth |-> request.batch.depth]

RecordContact(r) ==
  /\ requests[r].pc = "contact"
  /\ \E o \in Outcomes :
       /\ health_topic' = IF o.landed THEN Append(health_topic, HealthEvent(requests[r]))
                                      ELSE health_topic
       /\ IF o.acked THEN requests' = [requests EXCEPT ![r].pc = "records"] ELSE Answer(r)     \* 500
  /\ UNCHANGED <<clock, sms, contacts, telemetry, consumer>>

EventKey(site, sequence) == <<site, sequence>>

NextRecord(r) == requests[r].batch.records[Len(requests[r].verdicts) + 1]

MutVerdict(record, site, o) ==
  IF ~RecordValid(record) THEN "validation_failed"
  ELSE IF record.site # site THEN "site_mismatch"
  ELSE IF record.decodable THEN "accepted" ELSE "internal"

Verdict(record, site, o) ==
  IF ~RecordValid(record) THEN "validation_failed"
  ELSE IF record.site # site THEN "site_mismatch"
  ELSE IF record.decodable /\ o.acked THEN "accepted" ELSE "internal"

\* One record of the loop.  A payload JSONToMetricPayload cannot read is not produced.
HandleRecord(r) ==
  LET record == NextRecord(r)
      site == AuthSite(requests[r].batch)
      produced == RecordValid(record) /\ record.site = site /\ record.decodable
  IN
  /\ requests[r].pc = "records" /\ Len(requests[r].verdicts) < Len(requests[r].batch.records)
  /\ \E o \in Outcomes :
       /\ telemetry' = IF produced /\ o.landed THEN telemetry \cup {EventKey(site, record.sequence)} ELSE telemetry
       /\ requests' = [requests EXCEPT ![r].verdicts = Append(@, Verdict(record, site, o))]
  /\ UNCHANGED <<clock, sms, contacts, health_topic, consumer>>

\* With 200, 207 or 422, by the verdicts.
Respond(r) ==
  /\ requests[r].pc = "records" /\ Len(requests[r].verdicts) = Len(requests[r].batch.records)
  /\ Answer(r)
  /\ UNCHANGED <<clock, sms, contacts, health_topic, telemetry, consumer>>

-----------------------------------------------------------------------------
(* The engine's site health consumer *)

NoRow == [gateway |-> NoToken, contact_at |-> NoTime, last_event |-> NoTime, depth |-> 0,
          growing |-> FALSE]

HealthRow(event, growing) ==
  [gateway |-> event.gateway, contact_at |-> event.contact_at, last_event |-> event.last_event,
   depth |-> event.depth, growing |-> growing]

MutUpserted(row, event) ==
  IF row = NoRow THEN HealthRow(event, FALSE) ELSE HealthRow(event, event.depth > row.depth)

\* UPSERT_SITE_HEALTH
Upserted(row, event) ==
  IF row = NoRow THEN HealthRow(event, FALSE)
  ELSE IF event.contact_at > row.contact_at THEN HealthRow(event, event.depth > row.depth)
  ELSE row

MutStore ==
  LET event == health_topic[position] IN
  /\ position <= Len(health_topic)
  /\ site_health' = [site_health EXCEPT ![event.site] = Upserted(@, event)]
  /\ position' = position + 1 /\ stored' = position + 2
  /\ observed' = observed \cup {position}
  /\ UNCHANGED <<clock, sms, ingest, committed, skipped>>

\* store, then store_offset_from_message
Store ==
  LET event == health_topic[position] IN
  /\ position <= Len(health_topic)
  /\ site_health' = [site_health EXCEPT ![event.site] = Upserted(@, event)]
  /\ position' = position + 1 /\ stored' = position + 1
  /\ observed' = observed \cup {position}
  /\ UNCHANGED <<clock, sms, ingest, committed, skipped>>

\* store fails.  The loop goes on with the next message, whose offset then covers this one.
StoreFails ==
  /\ position <= Len(health_topic)
  /\ position' = position + 1
  /\ skipped' = skipped \cup {position}
  /\ UNCHANGED <<clock, sms, ingest, stored, committed, observed, site_health>>

AutoCommit ==
  /\ committed < stored
  /\ committed' = stored
  /\ UNCHANGED <<clock, sms, ingest, position, stored, observed, skipped, site_health>>

\* The engine comes up again, or the partition is assigned anew.
Restart ==
  /\ position' = committed /\ stored' = committed
  /\ UNCHANGED <<clock, sms, ingest, committed, observed, skipped, site_health>>

-----------------------------------------------------------------------------
(* Listing the sites *)

HeartbeatsOf(s) == {row \in sms_heartbeats : row.site = s}

\* The lateral join of listSitesSQL: ORDER BY contact_at DESC LIMIT 1
IsLatest(row, s) ==
  row \in HeartbeatsOf(s) /\ \A other \in HeartbeatsOf(s) : other.contact_at <= row.contact_at

\* siteHealthStatus of what ListSites read, at a time that is not before the reading.
HttpFresh(s, now) == site_health[s] # NoRow /\ site_health[s].contact_at >= now - OfflineAfter

HeartbeatFresh(s, now) == \E row \in sms_heartbeats : IsLatest(row, s) /\ row.expires_at > now

EventStale(s, now) ==
  site_health[s].last_event = NoTime \/ site_health[s].last_event < now - EventStaleAfter

siteHealthStatus(s, now) ==
  IF ~HttpFresh(s, now) THEN IF HeartbeatFresh(s, now) THEN "delayed" ELSE "offline"
  ELSE IF EventStale(s, now) \/ site_health[s].growing THEN "delayed" ELSE "live"

-----------------------------------------------------------------------------
(* Specification *)

Tick ==
  /\ clock < MaxClock
  /\ clock' = clock + 1
  /\ UNCHANGED <<sms, ingest, consumer>>

Init ==
  /\ clock = Epoch
  /\ sequences = [g \in DOMAIN Gateways |-> 0] /\ texts = {}
  /\ sms_heartbeats = {} /\ sms_heartbeat_receipts = {} /\ handed_over = {}
  /\ requests = [r \in Handlers |-> HandlerIdle]
  /\ contacts = {} /\ health_topic = << >> /\ telemetry = {}
  /\ position = 1 /\ stored = 1 /\ committed = 1 /\ observed = {} /\ skipped = {}
  /\ site_health = [s \in Sites |-> NoRow]

Texting ==
  \/ \E g \in DOMAIN Gateways : SendHeartbeat(g)
  \/ \E g \in DOMAIN Gateways : SendCritical(g)
  \/ \E g \in DOMAIN Gateways : ReplaceStore(g)
  \/ \E m \in texts : ProviderReceives(m)
  \/ \E m \in texts : ReceiveHeartbeat(m)
  \/ \E m \in texts : ReceiveCritical(m)

Serving ==
  \/ \E r \in Handlers, b \in Batches : Receive(r, b)
  \/ \E r \in Handlers : RecordContact(r)
  \/ \E r \in Handlers : HandleRecord(r)
  \/ \E r \in Handlers : Respond(r)

Consuming == Store \/ StoreFails \/ AutoCommit \/ Restart

Next == Texting \/ Serving \/ Consuming \/ Tick

Spec == Init /\ [][Next]_vars

\* The consumer polls forever, and in the end neither the database nor a restart stops it.
FairSpec == Spec /\ SF_vars(Store) /\ SF_vars(AutoCommit)

-----------------------------------------------------------------------------
(* Properties *)

SmsTypeOK ==
  /\ clock \in Nat
  /\ sequences \in [DOMAIN Gateways -> Nat]
  /\ \A row \in sms_heartbeats :
       row \in [key : Sites \X (DOMAIN Gateways) \X Nat, site : Sites, interval : Nat,
                sent_at : Int, contact_at : Int, expires_at : Int]

RequestType ==
  [pc : {"idle", "contact", "records"}, batch : Batches, contact_at : Nat \cup {NoTime},
   last_event : Int,
   verdicts : Seq({"accepted", "validation_failed", "site_mismatch", "internal"})]

HealthEventType ==
  [site : Sites, gateway : DOMAIN Gateways, contact_at : Nat, last_event : Int, depth : Nat]

IngestTypeOK ==
  /\ requests \in [Handlers -> RequestType]
  /\ health_topic \in Seq(HealthEventType)
  /\ telemetry \subseteq Sites \X Nat

ConsumerTypeOK ==
  /\ position \in 1..(Len(health_topic) + 1) /\ stored \in 1..position /\ committed \in 1..stored
  /\ observed \subseteq 1..Len(health_topic) /\ skipped \subseteq 1..Len(health_topic)
  /\ site_health \in [Sites -> [gateway : DOMAIN Gateways \cup {NoToken},
                               contact_at : Nat \cup {NoTime}, last_event : Int, depth : Nat,
                               growing : BOOLEAN]]

\* Type invariant: the tables, the topic and the handlers have the types of their columns.
TypeOK == SmsTypeOK /\ IngestTypeOK /\ ConsumerTypeOK

\* No deadline lies beyond it.
Horizon == clock + 3 * MaxHeartbeatInterval + 3

Ahead(m) == IF Skew[m.from] > 0 THEN Skew[m.from] ELSE 0

\* However late the sites are judged after they were read: a site shown live had an
\* authenticated request within OfflineAfter that reported an event within EventStaleAfter,
\* and a site not shown offline had such a request, or a heartbeat whose 2.5 intervals have
\* not passed since the provider got it, nor since it left but for what the gateway's clock is
\* ahead: although texts and contacts arrive late, twice and out of order.
NoFalseLife ==
  \A s \in Sites, now \in clock..Horizon :
    LET heard == {c \in contacts : c.site = s /\ c.at >= now - OfflineAfter} IN
    /\ siteHealthStatus(s, now) = "live" =>
         \E o \in DOMAIN health_topic, c \in heard :
           /\ health_topic[o].site = s /\ health_topic[o].contact_at = c.at
           /\ health_topic[o].last_event >= now - EventStaleAfter
    /\ siteHealthStatus(s, now) # "offline" =>
         \/ heard # {}
         \/ \E m \in texts :
              /\ IsHeartbeat(m.text) /\ m.meant.site = s /\ m.received # NoTime
              /\ now < ExpiresAt(m.meant, m.received)
              /\ now < ExpiresAt(m.meant, m.sent + Ahead(m))

\* Every row and every event the API has from a text is what a gateway meant: the same site,
\* gateway or asset, sequence, interval and code, the time to the second and the temperature
\* to the tenth.
TextsMeanWhatWasSent ==
  /\ \A row \in sms_heartbeats : \E m \in texts :
       /\ IsHeartbeat(m.text) /\ row.key = HeartbeatKey(m.meant) /\ row.interval = m.meant.interval
       /\ row.sent_at <= m.meant.at /\ m.meant.at < row.sent_at + Second
  /\ \A handed \in handed_over : \E m \in texts :
       /\ m.id = handed.id /\ IsCritical(m.text)
       /\ handed.event = [m.meant EXCEPT !.at = handed.event.at,
                                         !.temperature = handed.event.temperature]
       /\ handed.event.at <= m.meant.at /\ m.meant.at < handed.event.at + Second
       /\ IF m.meant.temperature = NoTemperature THEN handed.event.temperature = NoTemperature
          ELSE RoundsTo(m.meant.temperature, handed.event.temperature \div 10)

\* What the edge agent will be told is true: a record accepted is in the topic under the
\* authenticated site's event key, and whatever becomes of the records, the contact was
\* published before the first of them was looked at.
AnswersAreTrue ==
  \A r \in Handlers :
    LET request == requests[r]
        site == AuthSite(request.batch)
    IN request.pc = "records" =>
      /\ \A i \in DOMAIN request.verdicts : request.verdicts[i] = "accepted" =>
           /\ request.batch.records[i].site = site
           /\ EventKey(site, request.batch.records[i].sequence) \in telemetry
      /\ \E o \in DOMAIN health_topic : health_topic[o] = HealthEvent(request)

\* A site's row is an observation of that site and none the engine stored is newer; the queue
\* is called growing only if an earlier observation had less in it.  Redelivered and late
\* contacts do not change that.
HealthIsNewest ==
  \A s \in Sites :
    LET of == {o \in observed : health_topic[o].site = s}
        row == site_health[s]
    IN
    /\ row = NoRow <=> of = {}
    /\ row # NoRow =>
         /\ \E o \in of : row = HealthRow(health_topic[o], row.growing)
         /\ \A o \in of : health_topic[o].contact_at <= row.contact_at
         /\ row.growing => \E o \in of : health_topic[o].contact_at < row.contact_at
                                         /\ health_topic[o].depth < row.depth

\* Every contact that was published reaches the engine's database, but for those the database
\* refused: restarts and redelivery lose none.
ContactsObserved ==
  \A o \in 1..MaxMessages : Len(health_topic) >= o ~> o \in observed \cup skipped

\* Neither a restart nor the offsets committed pass over a contact nobody tried to store.
ContactsTried == \A o \in 1..(committed - 1) : o \in observed \cup skipped

-----------------------------------------------------------------------------
(* The inductive invariant behind the theorems of SiteHealthProofs *)

HeartbeatType ==
  [site : Sites, gateway : DOMAIN Gateways, sequence : Nat, interval : Nat, at : Int]

EventType ==
  [site : Sites, asset : Tokens, sequence : Nat, code : Codes, temperature : Int, at : Int]

\* A text is the one its meaning is written as, and it has the time of the gateway's clock.
WrittenAsMeant(m) ==
  /\ DOMAIN m = {"id", "from", "text", "meant", "sent", "received"}
  /\ m.from \in DOMAIN Gateways /\ m.sent \in Nat /\ m.received \in Nat \cup {NoTime}
  /\ m.meant.at = m.sent + Skew[m.from]
  /\ \/ /\ m.meant \in HeartbeatType /\ HeartbeatFormattable(m.meant)
        /\ m.text = FormatHeartbeat(m.meant)
     \/ /\ m.meant \in EventType
        /\ \E tenths \in Tenths(m.meant.temperature) :
             Formattable(m.meant, tenths) /\ m.text = Format(m.meant, tenths)

TextsInv == \A m \in texts : WrittenAsMeant(m)

\* What the API has, it has from a text the provider got.
RowOf(row, m) ==
  LET h == ParsedHeartbeat(m.text) IN
  /\ IsHeartbeat(m.text) /\ m.received # NoTime
  /\ row = InsertHeartbeat(h, ContactAt(h, m.received))

EventOf(handed, m) ==
  m.id = handed.id /\ IsCritical(m.text) /\ handed.event = ParsedCritical(m.text)

ReceivedInv ==
  /\ \A row \in sms_heartbeats : \E m \in texts : RowOf(row, m)
  /\ \A handed \in handed_over : \E m \in texts : EventOf(handed, m)

\* A batch under way is one the endpoint took, and every contact passed on is one it had.
ContactsInv ==
  /\ \A r \in Handlers :
       LET request == requests[r] IN
       request.pc # "idle" =>
         /\ Authenticates(request.batch) /\ HealthValid(request.batch)
         /\ request.contact_at # NoTime /\ (request.pc = "contact" => request.verdicts = << >>)
         /\ \E c \in contacts : c.site = AuthSite(request.batch) /\ c.at = request.contact_at
  /\ \A o \in DOMAIN health_topic : \E c \in contacts :
       c.site = health_topic[o].site /\ c.at = health_topic[o].contact_at

SmsInv == SmsTypeOK /\ TextsInv /\ ReceivedInv
IngestInv == IngestTypeOK /\ ContactsInv /\ AnswersAreTrue
ConsumerInv == ConsumerTypeOK /\ HealthIsNewest

\* What the consumer has read, it tried to store.  Inductive with the above.
ReadWasTried == \A o \in 1..(position - 1) : o \in observed \cup skipped

IndInv == SmsInv /\ IngestInv /\ ConsumerInv
=============================================================================
