------------------------------ MODULE EdgeQueue ------------------------------
(***************************************************************************)
(* The edge agent's durable store-and-forward path: the SQLite queue        *)
(* (internal/repository/sqlite), the collector that fills it, the uploader  *)
(* that drains it over HTTP into the ingestion service, the purge loop, and *)
(* the crash and restart of the whole process.                              *)
(*                                                                          *)
(* The store runs on one connection (SetMaxOpenConns(1)), so every store    *)
(* operation is one atomic step here and the goroutines interleave between  *)
(* operations.  A graceful shutdown is a Crash taken at a quiet moment: what *)
(* the next Open sees is the same.                                          *)
(*                                                                          *)
(* Abstractions.  Payloads are their size.  next_attempt_at_ms is "is the   *)
(* retry time still in the future" (waiting); attempt_count only feeds the  *)
(* back-off length and is left out.  Of resolved_at_ms only "is it NULL" is *)
(* kept: recovery also compares it, a reading of the gateway's clock, with  *)
(* event_at_ms, one of a device's, and that may come out either way.  The   *)
(* SMS columns of fallback_incidents (upload_failures, attempts) are not    *)
(* part of this module.                                                     *)
(***************************************************************************)
EXTENDS Integers, FiniteSets, FiniteSetsExt, Functions

CONSTANTS
  Devices,                 \* device_id values the site reports
  Codes,                   \* critical codes a reading may carry
  SiteOutage,              \* the code whose incident belongs to asset "site"
  NoCode,                  \* critical_code IS NULL
  EventSizes,              \* payload sizes a reading may have, in bytes
  MaxStorageBytes,         \* Config.MaxStorageBytes
  MaxEventBytes,           \* Config.MaxEventBytes
  CriticalReservePercent,  \* Config.CriticalReservePercent
  BatchSize,               \* uploader Config.BatchSize
  BatchMaxBytes,           \* uploader Config.BatchMaxBytes
  MaxRetries,              \* uploader Config.MaxRetries
  MaxSequence,             \* bound: how many events are ever admitted
  MaxStoreErrors           \* bound: for how many records a store write ever fails

\* The limits validateConfig and uploader.New enforce, as far as they matter here.
ASSUME ConfigAssumption ==
  /\ EventSizes \subseteq Nat \ {0}
  /\ MaxStorageBytes \in Nat /\ MaxEventBytes \in Nat
  /\ CriticalReservePercent \in 1..99
  /\ BatchSize \in Nat \ {0} /\ BatchMaxBytes \in Nat \ {0}
  /\ MaxRetries \in Nat \ {0}
  /\ MaxSequence \in Nat /\ MaxStoreErrors \in Nat
  /\ NoCode \notin Codes

VARIABLES
  queue_events,        \* durable: sequence -> row of queue_events
  incidents,           \* durable: sequence -> row of fallback_incidents
  replay_mode_active,  \* durable: edge_sync_state.replay_mode_active
  abandoned_count,     \* durable: edge_sync_state.abandoned_count
  process,             \* "running", "down", or "opening" (between the two recoveries)
  collector,           \* volatile: the row the collector has in hand and its next call
  uploader,            \* volatile: where uploadBatch is, its answer, and the records left to do
  batch,               \* volatile: sequence -> the columns Ready read for the request
  zombies,             \* requests the agent gave up on that may still be published
  origin,              \* history: device of every sequence ever assigned
  upstream,            \* history: sequences the ingestion service published to Kafka
  fate,                \* history: how each sequence left the queue
  attempted,           \* history: sequences that were in some upload request
  unrecorded           \* history: sequences whose outcome the store failed to write

durable == <<queue_events, incidents, replay_mode_active, abandoned_count>>
history == <<origin, upstream, fate, attempted, unrecorded>>
vars == <<durable, process, collector, uploader, batch, zombies, history>>

-----------------------------------------------------------------------------
(* Helpers *)

Put(f, k, v) == [x \in DOMAIN f \cup {k} |-> IF x = k THEN v ELSE f[x]]

ActiveStatus == {"persisted", "pending_upload", "uploaded"}
TerminalStatus == {"acknowledged", "expired", "abandoned"}

Active == {s \in DOMAIN queue_events : queue_events[s].status \in ActiveStatus}

Sequences == DOMAIN origin

\* The AUTOINCREMENT counter: origin has one entry per sequence ever assigned.
LastSequence == Cardinality(Sequences)

payloadCapacity == (MaxStorageBytes * 65) \div 100
normalAdmissionLimit == (payloadCapacity * (100 - CriticalReservePercent)) \div 100

Bytes(S) == MapThenSumSet(LAMBDA s : queue_events[s].payload_bytes, S)

\* recoverFallbackIncidents and the collector file a site outage under "site".
AssetOf(device, code) == IF code = SiteOutage THEN "site" ELSE device

Unresolved(asset, code) ==
  {i \in DOMAIN incidents : /\ incidents[i].asset_id = asset
                            /\ incidents[i].code = code
                            /\ ~incidents[i].resolved}

NewIncident(asset, code) ==
  [asset_id |-> asset, code |-> code, resolved |-> FALSE, normal_delivered |-> FALSE]

\* replay_mode_active = EXISTS(active row with replay_required = 1)
MarkedBacklog(q) ==
  \E s \in DOMAIN q : q[s].status \in ActiveStatus /\ q[s].replay_required

-----------------------------------------------------------------------------
(* The collector: Persist, then OpenFallbackIncident for a critical reading,
   then MarkPendingUpload. *)

MutAdmits(critical, bytes) ==
  LET queued == Bytes({s \in Active : queue_events[s].status # "persisted"}) IN
  /\ bytes <= MaxEventBytes
  /\ bytes <= payloadCapacity - queued
  /\ critical \/ bytes <= normalAdmissionLimit - queued

\* insert's checks.  checkAdmission (free disk) may refuse an event besides; a refused
\* event changes nothing, so the model need not decide it.
Admits(critical, bytes) ==
  LET queued == Bytes(Active) IN
  /\ bytes <= MaxEventBytes
  /\ bytes <= payloadCapacity - queued
  /\ critical \/ bytes <= normalAdmissionLimit - queued

CollectorIdle == [next |-> "idle", sequence |-> 0]

\* Store.Persist: admission, then one INSERT that inherits the replay mode.
Persist(device, code, bytes) ==
  LET s == LastSequence + 1
      critical == code # NoCode
  IN
  /\ process = "running" /\ collector = CollectorIdle
  /\ s <= MaxSequence
  /\ Admits(critical, bytes)
  /\ queue_events' = Put(queue_events, s,
       [device_id |-> device, critical_code |-> code, critical |-> critical,
        payload_bytes |-> bytes, status |-> "persisted", rejection_count |-> 0,
        replay_required |-> replay_mode_active, waiting |-> FALSE])
  /\ collector' = [next |-> IF critical THEN "open" ELSE "mark", sequence |-> s]
  /\ origin' = Put(origin, s, device)
  /\ fate' = Put(fate, s, "none")
  /\ UNCHANGED <<batch, incidents, replay_mode_active, abandoned_count, process, uploader,
                 zombies, upstream, attempted, unrecorded>>

\* INSERT OR IGNORE under the unique index on unresolved (asset_id, code).
OpenFallbackIncident ==
  LET s == collector.sequence
      row == queue_events[s]
      asset == AssetOf(row.device_id, row.critical_code)
  IN
  /\ process = "running" /\ collector.next = "open"
  /\ incidents' = IF s \in DOMAIN incidents \/ Unresolved(asset, row.critical_code) # {}
                    THEN incidents
                    ELSE Put(incidents, s, NewIncident(asset, row.critical_code))
  /\ collector' = [collector EXCEPT !.next = "mark"]
  /\ UNCHANGED <<batch, queue_events, replay_mode_active, abandoned_count, process, uploader,
                 zombies, history>>

\* transition(persisted -> pending_upload)
MarkPendingUpload ==
  LET s == collector.sequence IN
  /\ process = "running" /\ collector.next = "mark"
  /\ queue_events' = IF queue_events[s].status = "persisted"
       THEN [queue_events EXCEPT ![s].status = "pending_upload", ![s].waiting = FALSE]
       ELSE queue_events
  /\ collector' = CollectorIdle
  /\ UNCHANGED <<batch, incidents, replay_mode_active, abandoned_count, process, uploader,
                 zombies, history>>

\* persist() returns early when OpenFallbackIncident or MarkPendingUpload fails:
\* the committed row stays "persisted" until the next restart.
CollectorFails ==
  /\ process = "running" /\ collector # CollectorIdle
  /\ collector' = CollectorIdle
  /\ UNCHANGED <<batch, durable, process, uploader, zombies, history>>

\* A healthy reading resolves the asset's unresolved incidents of that code.
ResolveFallbackIncident(asset, code) ==
  /\ process = "running" /\ collector = CollectorIdle
  /\ Unresolved(asset, code) # {}
  /\ incidents' = [i \in DOMAIN incidents |->
       IF i \in Unresolved(asset, code)
         THEN [incidents[i] EXCEPT !.resolved = TRUE] ELSE incidents[i]]
  /\ UNCHANGED <<batch, queue_events, replay_mode_active, abandoned_count, process, collector,
                 uploader, zombies, history>>

-----------------------------------------------------------------------------
(* The uploader.  A batch is a set of sequences with the columns read by Ready;
   todo is the part of it whose outcome is not applied yet. *)

UploaderIdle == [pc |-> "idle", todo |-> {}, accepted |-> {}, rejected |-> {}]

MutEligible ==
  {s \in DOMAIN queue_events :
     /\ queue_events[s].status = "pending_upload"
     /\ ~queue_events[s].waiting
     /\ ~ \E t \in Active : /\ t < s /\ ~queue_events[t].waiting
                            /\ queue_events[t].device_id = queue_events[s].device_id}

\* Rows the anti-join of Ready lets through: the head of each device, if due.
Eligible ==
  {s \in DOMAIN queue_events :
     /\ queue_events[s].status = "pending_upload"
     /\ ~queue_events[s].waiting
     /\ ~ \E t \in Active : t < s /\ queue_events[t].device_id = queue_events[s].device_id}

MutReady ==
  {s \in Eligible :
     LET upTo == {t \in Eligible : t <= s} IN
     Cardinality(upTo) <= BatchSize /\ Bytes(upTo) <= BatchMaxBytes}

\* ORDER BY sequence LIMIT BatchSize, cut at BatchMaxBytes after the first record.
Ready ==
  {s \in Eligible :
     LET upTo == {t \in Eligible : t <= s} IN
     /\ Cardinality(upTo) <= BatchSize
     /\ upTo = {s} \/ Bytes(upTo) <= BatchMaxBytes}

\* uploadBatch up to the HTTP request; an empty batch is the gateway heartbeat.
SendBatch ==
  /\ process = "running" /\ uploader.pc = "idle"
  /\ uploader' = [pc |-> "sent", todo |-> Ready, accepted |-> {}, rejected |-> {}]
  /\ batch' = [s \in Ready |-> [rejection_count |-> queue_events[s].rejection_count,
                                replay |-> queue_events[s].replay_required]]
  /\ attempted' = attempted \cup Ready
  /\ UNCHANGED <<durable, process, collector, zombies, origin, upstream, fate, unrecorded>>

MutIngestAnswers(published, accepted) ==
  /\ process = "running" /\ uploader.pc = "sent"
  /\ upstream' = upstream \cup accepted
  /\ uploader' = [uploader EXCEPT !.pc = "answered", !.accepted = published,
                                  !.rejected = uploader.todo \ published]
  /\ UNCHANGED <<batch, durable, process, collector, zombies, origin, fate, attempted, unrecorded>>

\* The ingestion service answers record by record: it published a set, and
\* accepted those it knows to be published; a publish whose confirmation timed out
\* is rejected although Kafka may have it.
IngestAnswers(published, accepted) ==
  /\ process = "running" /\ uploader.pc = "sent"
  /\ accepted \subseteq published
  /\ upstream' = upstream \cup published
  /\ uploader' = [uploader EXCEPT !.pc = "answered", !.accepted = accepted,
                                  !.rejected = uploader.todo \ accepted]
  /\ UNCHANGED <<batch, durable, process, collector, zombies, origin, fate, attempted, unrecorded>>

\* A 4xx other than 401 (malformed, too large, no such endpoint) carries a JSON error
\* body.  Upload decodes it as a BatchResponse with neither list.
IngestRefusesRequest ==
  /\ process = "running" /\ uploader.pc = "sent"
  /\ uploader' = [uploader EXCEPT !.pc = "answered"]
  /\ UNCHANGED <<batch, durable, process, collector, zombies, history>>

\* Upload returns an error: 401, 5xx, no connection, a lost or undecodable answer
\* (whatever was published stays published).
UploadFails(published) ==
  /\ process = "running" /\ uploader.pc = "sent"
  /\ upstream' = upstream \cup published
  /\ uploader' = [uploader EXCEPT !.pc = "failed"]
  /\ UNCHANGED <<batch, durable, process, collector, zombies, origin, fate, attempted, unrecorded>>

\* The client timeout fires while the server still works on the request.
UploadTimesOut ==
  /\ process = "running" /\ uploader.pc = "sent"
  /\ zombies' = zombies \cup uploader.todo
  /\ uploader' = [uploader EXCEPT !.pc = "failed"]
  /\ UNCHANGED <<batch, durable, process, collector, history>>

LatePublish(s) ==
  /\ s \in zombies
  /\ upstream' = upstream \cup {s}
  /\ zombies' = zombies \ {s}
  /\ UNCHANGED <<batch, durable, process, collector, uploader, origin, fate, attempted, unrecorded>>

\* The loop over the batch is at record s (records are in sequence order), and moves on.
IsCurrent(s) == s \in uploader.todo /\ \A t \in uploader.todo : s <= t
Advance(s) == uploader' = [uploader EXCEPT !.todo = @ \ {s}]

MutDelivered(s) == incidents
\* fallback_incidents.normal_delivered_at_ms of the incident the record opened, if any
Delivered(s) ==
  IF s \in DOMAIN incidents THEN [incidents EXCEPT ![s].normal_delivered = TRUE] ELSE incidents

\* Store.CompleteUpload: acknowledgement, incident delivery and replay mode commit together.
CompleteUpload(s) ==
  LET done == [queue_events EXCEPT ![s].status = "acknowledged", ![s].waiting = FALSE] IN
  /\ process = "running" /\ uploader.pc = "answered" /\ IsCurrent(s)
  /\ s \in uploader.accepted
  /\ IF s \in DOMAIN queue_events
        /\ queue_events[s].status \in {"pending_upload", "uploaded", "acknowledged"}
       THEN /\ queue_events' = done
            /\ incidents' = Delivered(s)
            /\ replay_mode_active' = MarkedBacklog(done)
            /\ fate' = [fate EXCEPT ![s] = "acked"]
       ELSE UNCHANGED <<queue_events, incidents, replay_mode_active, fate>>
  /\ Advance(s)
  /\ UNCHANGED <<batch, abandoned_count, process, collector, zombies, origin, upstream, attempted,
                 unrecorded>>

\* Store.markFailed: one failed record marks the whole active backlog for replay.
MarkFailed(s, rejections) ==
  /\ queue_events' = [t \in DOMAIN queue_events |->
       LET marked == IF t \in Active THEN [queue_events[t] EXCEPT !.replay_required = TRUE]
                                     ELSE queue_events[t]
       IN IF t = s THEN [marked EXCEPT !.status = "pending_upload", !.waiting = TRUE,
                                       !.rejection_count = @ + rejections]
                   ELSE marked]
  /\ replay_mode_active' = TRUE

Exhausted(rejections) == rejections + 1 >= MaxRetries

\* Store.Abandon: the last rejection and the counter commit together.
Abandon(s) ==
  /\ queue_events' = [queue_events EXCEPT ![s].status = "abandoned", ![s].waiting = FALSE,
                                          ![s].rejection_count = @ + 1]
  /\ abandoned_count' = abandoned_count + 1
  /\ fate' = [fate EXCEPT ![s] = "abandoned"]
  /\ UNCHANGED replay_mode_active

\* rejectRecord: a rejected or omitted record is retried until its budget is spent,
\* counting from the rejection_count the batch was read with.
RejectRecord(s) ==
  LET spent == Exhausted(batch[s].rejection_count)
      open == s \in DOMAIN queue_events /\ queue_events[s].status = "pending_upload"
  IN
  /\ process = "running" /\ uploader.pc = "answered" /\ IsCurrent(s)
  /\ s \notin uploader.accepted
  /\ CASE open /\ spent  -> Abandon(s)
       [] open /\ ~spent -> MarkFailed(s, 1) /\ UNCHANGED <<abandoned_count, fate>>
       [] OTHER          -> UNCHANGED <<queue_events, replay_mode_active, abandoned_count, fate>>
  /\ Advance(s)
  /\ UNCHANGED <<batch, incidents, process, collector, zombies, origin, upstream, attempted, unrecorded>>

\* retryRecord, once per record of a batch whose request failed.
RetryRecord(s) ==
  /\ process = "running" /\ uploader.pc = "retrying" /\ IsCurrent(s)
  /\ IF s \in DOMAIN queue_events /\ queue_events[s].status \in {"pending_upload", "uploaded"}
       THEN MarkFailed(s, 0) ELSE UNCHANGED <<queue_events, replay_mode_active>>
  /\ Advance(s)
  /\ UNCHANGED <<batch, incidents, abandoned_count, process, collector, zombies, history>>

\* The store rejects the write for one record (disk full, I/O error, context cancelled
\* by a shutdown); the uploader logs it and goes on.
StoreWriteFails(s) ==
  /\ process = "running" /\ uploader.pc \in {"answered", "retrying"} /\ IsCurrent(s)
  /\ s \notin unrecorded /\ Cardinality(unrecorded) < MaxStoreErrors
  /\ unrecorded' = unrecorded \cup {s}
  /\ Advance(s)
  /\ UNCHANGED <<batch, durable, process, collector, zombies, origin, upstream, fate, attempted>>

\* handleFailure starts with RecordUploadContactFailure, which may itself fail to write.
RecordUploadContactFailure(written) ==
  /\ process = "running" /\ uploader.pc = "failed"
  /\ replay_mode_active' = (replay_mode_active \/ written)
  /\ uploader' = [uploader EXCEPT !.pc = "retrying"]
  /\ UNCHANGED <<batch, queue_events, incidents, abandoned_count, process, collector, zombies, history>>

\* The end of handleFailure: uploadBatch returns the error and the drain stops.
UploadGivesUp ==
  /\ process = "running" /\ uploader.pc = "retrying" /\ uploader.todo = {}
  /\ uploader' = UploaderIdle /\ batch' = << >>
  /\ UNCHANGED <<durable, process, collector, zombies, history>>

MutRecordUploadContactSuccess(written) ==
  /\ process = "running" /\ uploader.pc = "answered" /\ uploader.todo = {}
  /\ replay_mode_active' = (replay_mode_active /\ ~written)
  /\ uploader' = UploaderIdle /\ batch' = << >>
  /\ UNCHANGED <<queue_events, incidents, abandoned_count, process, collector, zombies, history>>

\* The end of uploadBatch after an answer.
RecordUploadContactSuccess(written) ==
  /\ process = "running" /\ uploader.pc = "answered" /\ uploader.todo = {}
  /\ replay_mode_active' = IF written THEN MarkedBacklog(queue_events) ELSE replay_mode_active
  /\ uploader' = UploaderIdle /\ batch' = << >>
  /\ UNCHANGED <<queue_events, incidents, abandoned_count, process, collector, zombies, history>>

\* next_attempt_at_ms passes.
BackoffElapses(s) ==
  /\ s \in DOMAIN queue_events /\ queue_events[s].waiting
  /\ queue_events' = [queue_events EXCEPT ![s].waiting = FALSE]
  /\ UNCHANGED <<batch, incidents, replay_mode_active, abandoned_count, process, collector, uploader,
                 zombies, history>>

-----------------------------------------------------------------------------
(* Purge, crash and restart *)

MutPurge(old) ==
  /\ process = "running" /\ old # {}
  /\ queue_events' = Restrict(queue_events, DOMAIN queue_events \ old)
  /\ UNCHANGED <<batch, incidents, replay_mode_active, abandoned_count, process, collector, uploader,
                 zombies, history>>

\* Store.Purge: terminal rows persisted before the cutoff.  The wall clock may be
\* corrected between inserts, so the old rows need not be the lowest sequences.
Purge(old) ==
  LET gone == {s \in old : queue_events[s].status \in TerminalStatus} IN
  /\ process = "running" /\ gone # {}
  /\ queue_events' = Restrict(queue_events, DOMAIN queue_events \ gone)
  /\ UNCHANGED <<batch, incidents, replay_mode_active, abandoned_count, process, collector, uploader,
                 zombies, history>>

\* Power loss or shutdown: only the database survives; a request under way may still
\* be handled by the server.
Crash ==
  /\ process # "down"
  /\ process' = "down"
  /\ collector' = CollectorIdle
  /\ uploader' = UploaderIdle /\ batch' = << >>
  /\ zombies' = IF uploader.pc = "sent" THEN zombies \cup uploader.todo ELSE zombies
  /\ UNCHANGED <<durable, history>>

MutRecovered(row) == [row EXCEPT !.status = "pending_upload"]
Recovered(row) == [row EXCEPT !.status = "pending_upload", !.replay_required = TRUE]

\* Open: every active row becomes a pending, replayed one.
recoverInterrupted ==
  LET recovered == [s \in DOMAIN queue_events |->
        IF s \in Active THEN Recovered(queue_events[s]) ELSE queue_events[s]]
  IN
  /\ process = "down"
  /\ process' = "opening"
  /\ queue_events' = recovered
  /\ replay_mode_active' = MarkedBacklog(recovered)
  /\ UNCHANGED <<batch, incidents, abandoned_count, collector, uploader, zombies, history>>

\* Rows without an incident of their own, of a condition that has an earlier one in I.
Behind(I) ==
  {s \in DOMAIN queue_events \ DOMAIN incidents :
     LET row == queue_events[s] IN
     /\ row.critical_code # NoCode
     /\ \E i \in I :
          /\ i < s
          /\ incidents[i].code = row.critical_code
          /\ incidents[i].asset_id = AssetOf(row.device_id, row.critical_code)}

\* The rows suppressed because such an incident stands for them: an unresolved one always, a
\* resolved one if resolved_at_ms >= event_at_ms, whatever the clocks make of that.
Suppressions ==
  {S \in SUBSET Behind(DOMAIN incidents) :
     Behind({i \in DOMAIN incidents : ~incidents[i].resolved}) \subseteq S}

MutReopened(suppressed) ==
  {s \in Active \ DOMAIN incidents :
     queue_events[s].critical_code # NoCode /\ queue_events[s].status = "persisted"}

\* Rows that get the incident a crash kept from being opened: the first active one of
\* each condition that has no unresolved incident.
Reopened(suppressed) ==
  LET key(s) == <<AssetOf(queue_events[s].device_id, queue_events[s].critical_code),
                  queue_events[s].critical_code>>
      missing == {s \in Active \ (suppressed \cup DOMAIN incidents) :
                    /\ queue_events[s].critical_code # NoCode
                    /\ Unresolved(key(s)[1], key(s)[2]) = {}}
  IN {s \in missing : \A t \in missing : key(t) = key(s) => s <= t}

\* The second half of Open.  Its two statements run before any goroutine starts and
\* repeat harmlessly after a crash between them.
recoverFallbackIncidents ==
  /\ process = "opening"
  /\ process' = "running"
  /\ \E suppressed \in Suppressions :
       LET reopened == Reopened(suppressed) IN
       /\ queue_events' = [s \in DOMAIN queue_events |->
            IF s \in suppressed THEN [queue_events[s] EXCEPT !.critical_code = NoCode]
                                ELSE queue_events[s]]
       /\ incidents' = [s \in DOMAIN incidents \cup reopened |->
            IF s \in DOMAIN incidents THEN incidents[s]
            ELSE NewIncident(AssetOf(queue_events[s].device_id, queue_events[s].critical_code),
                             queue_events[s].critical_code)]
  /\ UNCHANGED <<batch, replay_mode_active, abandoned_count, collector, uploader, zombies, history>>

-----------------------------------------------------------------------------
Init ==
  /\ queue_events = << >> /\ incidents = << >>
  /\ replay_mode_active = FALSE /\ abandoned_count = 0
  /\ process = "running"
  /\ collector = CollectorIdle /\ uploader = UploaderIdle /\ batch = << >>
  /\ zombies = {}
  /\ origin = << >> /\ fate = << >>
  /\ upstream = {} /\ attempted = {} /\ unrecorded = {}

Collector ==
  \/ \E d \in Devices, c \in Codes \cup {NoCode}, b \in EventSizes : Persist(d, c, b)
  \/ OpenFallbackIncident
  \/ MarkPendingUpload
  \/ CollectorFails
  \/ \E a \in Devices \cup {"site"}, c \in Codes : ResolveFallbackIncident(a, c)

Uploader ==
  \/ SendBatch
  \/ \E s \in uploader.todo : CompleteUpload(s)
  \/ \E s \in uploader.todo : RejectRecord(s)
  \/ \E s \in uploader.todo : RetryRecord(s)
  \/ \E s \in uploader.todo : StoreWriteFails(s)
  \/ \E w \in BOOLEAN : RecordUploadContactFailure(w)
  \/ UploadGivesUp
  \/ \E w \in BOOLEAN : RecordUploadContactSuccess(w)

Network ==
  \/ \E p \in SUBSET uploader.todo : \E a \in SUBSET p : IngestAnswers(p, a)
  \/ IngestRefusesRequest
  \/ \E p \in SUBSET uploader.todo : UploadFails(p)
  \/ UploadTimesOut
  \/ \E s \in zombies : LatePublish(s)

Next ==
  \/ Collector
  \/ Uploader
  \/ Network
  \/ \E s \in DOMAIN queue_events : BackoffElapses(s)
  \/ \E old \in SUBSET DOMAIN queue_events : Purge(old)
  \/ Crash
  \/ recoverInterrupted
  \/ recoverFallbackIncidents

Spec == Init /\ [][Next]_vars

\* Goroutines that have something to do get to do it, the HTTP client's timeout ends every
\* request, retry times pass, and the network is not down for ever: a record that keeps
\* being sent is answered again and again.  Nothing is assumed of the collector, of Purge
\* or of restarts.
Fairness ==
  /\ WF_vars(SendBatch) /\ WF_vars(UploadTimesOut)
  /\ WF_vars(\E s \in uploader.todo : CompleteUpload(s) \/ RejectRecord(s) \/ RetryRecord(s))
  /\ WF_vars(UploadGivesUp)
  /\ WF_vars(\E w \in BOOLEAN : RecordUploadContactFailure(w) \/ RecordUploadContactSuccess(w))
  /\ \A s \in 1..MaxSequence :
       /\ WF_vars(BackoffElapses(s))
       /\ SF_vars(s \in uploader.todo /\
            \E p \in SUBSET uploader.todo : \E a \in SUBSET p : IngestAnswers(p, a))

FairSpec == Spec /\ Fairness

-----------------------------------------------------------------------------
(* Properties *)

RowType ==
  [device_id : Devices, critical_code : Codes \cup {NoCode}, critical : BOOLEAN,
   payload_bytes : EventSizes, status : ActiveStatus \cup TerminalStatus,
   rejection_count : Nat, replay_required : BOOLEAN, waiting : BOOLEAN]

IncidentType ==
  [asset_id : Devices \cup {"site"}, code : Codes, resolved : BOOLEAN, normal_delivered : BOOLEAN]

HistoryTypeOK ==
  /\ \E n \in 0..MaxSequence : origin \in [1..n -> Devices]
  /\ fate \in [Sequences -> {"none", "acked", "abandoned"}]
  /\ zombies \subseteq Sequences /\ upstream \subseteq Sequences
  /\ attempted \subseteq Sequences /\ unrecorded \subseteq Sequences

StoreTypeOK ==
  /\ DOMAIN queue_events \subseteq Sequences
  /\ queue_events \in [DOMAIN queue_events -> RowType]
  /\ DOMAIN incidents \subseteq Sequences
  /\ incidents \in [DOMAIN incidents -> IncidentType]
  /\ replay_mode_active \in BOOLEAN
  /\ abandoned_count \in Nat

ProcessTypeOK ==
  /\ process \in {"running", "down", "opening"}
  /\ collector \in [next : {"idle", "open", "mark"}, sequence : {0} \cup Sequences]
  /\ uploader \in [pc : {"idle", "sent", "answered", "failed", "retrying"},
                   todo : SUBSET Sequences, accepted : SUBSET Sequences,
                   rejected : SUBSET Sequences]
  /\ batch \in [DOMAIN batch -> [rejection_count : Nat, replay : BOOLEAN]]
  /\ uploader.todo \subseteq DOMAIN batch /\ DOMAIN batch \subseteq Sequences

\* Type invariant: the tables hold rows of their schema, keyed by assigned sequences, and
\* the sequences assigned are 1 .. n.
TypeOK == HistoryTypeOK /\ StoreTypeOK /\ ProcessTypeOK

\* While any outage-era record is still queued the agent is in replay mode, so what it
\* collects meanwhile is flagged as replay too (markFailed's comment), whatever crashes,
\* partial answers and failed writes came between.
ReplayModeCoversBacklog == MarkedBacklog(queue_events) => replay_mode_active

\* Nothing vanishes: a record leaves the queue only acknowledged, and then Kafka has it,
\* or abandoned, and then it was counted; purge, crash and recovery lose none.
NothingVanishes ==
  /\ \A s \in Sequences : fate[s] = "none" => s \in Active
  /\ \A s \in Sequences : fate[s] = "acked" => s \in upstream
  /\ abandoned_count = Cardinality({s \in Sequences : fate[s] = "abandoned"})

\* Upstream sees each device in order: a record is published only after every earlier
\* record of its device was published or given up, late requests included.
PerDeviceOrder ==
  \A t \in upstream : \A s \in Sequences :
    s < t /\ origin[s] = origin[t] => s \in upstream \/ fate[s] = "abandoned"

\* A record is abandoned on exactly its MaxRetries-th rejection: the count the uploader
\* read before the request is still the row's when it decides.
BudgetExact ==
  \A s \in DOMAIN queue_events :
    LET row == queue_events[s] IN
    IF row.status = "abandoned" THEN row.rejection_count = MaxRetries
                                ELSE row.rejection_count < MaxRetries

\* The queue stays within the payload budget, and normal events never hold bytes of the
\* critical reserve, however admissions, acknowledgements and recoveries interleave.
CriticalReserveKept ==
  /\ Bytes(Active) <= payloadCapacity
  /\ Bytes({s \in Active : ~queue_events[s].critical}) <= normalAdmissionLimit

\* There is an incident of the row's condition.
OnFile(row) ==
  \E i \in DOMAIN incidents :
    /\ incidents[i].code = row.critical_code
    /\ incidents[i].asset_id = AssetOf(row.device_id, row.critical_code)

\* No critical record can be uploaded before an incident of its condition is on file,
\* even when a crash hits between Persist and OpenFallbackIncident.
CriticalRowsHaveIncident ==
  process = "running" =>
    \A s \in DOMAIN queue_events :
      queue_events[s].critical_code # NoCode /\ queue_events[s].status # "persisted" =>
        OnFile(queue_events[s])

\* An incident counts as delivered over the network exactly when its record was
\* acknowledged, so the SMS path neither repeats nor drops it.
IncidentDelivery ==
  \A s \in DOMAIN incidents : incidents[s].normal_delivered <=> fate[s] = "acked"

\* A record that was in an earlier request is sent again only with the replay flag, unless
\* the store failed to write that request's outcome.
ResentAsReplay ==
  [][\A s \in DOMAIN batch' :
       uploader.pc = "idle" /\ uploader'.pc = "sent" /\ s \in attempted \ unrecorded =>
         batch'[s].replay]_vars

\* A settled record stays settled: no crash, recovery or late answer revives it.
SettledForever ==
  [][\A s \in Sequences : fate[s] # "none" => fate'[s] = fate[s] /\ s \notin Active']_vars

Delivery == INSTANCE StoreForward

\* The durable queue with its batches, retries, crashes and recoveries implements
\* StoreForward: in-order publication, acknowledgement only of what is published, and one
\* settlement per record.
ImplementsStoreForward == Delivery!Spec

\* The uploader can reach s: it is pending, and so is all of its device's queue before it.
Reachable(s) ==
  /\ s \in DOMAIN queue_events
  /\ \A t \in Active : t <= s /\ queue_events[t].device_id = queue_events[s].device_id =>
       queue_events[t].status = "pending_upload"
  /\ s \in Active

\* If the agent eventually stays up, every reachable record is eventually acknowledged or
\* abandoned: neither back-off nor batch limits nor other devices starve it.
EventuallySettled ==
  <>[](process = "running") =>
    \A s \in 1..MaxSequence : Reachable(s) ~> (s \in Sequences /\ fate[s] # "none")

-----------------------------------------------------------------------------
(* The inductive invariant behind the theorems of EdgeQueueProofs *)

\* The sequences before which nothing of their device is still queued.
DeviceHeads ==
  {s \in Sequences : \A t \in Sequences : t < s /\ origin[t] = origin[s] => fate[t] # "none"}

\* The goroutines live only while the process runs, and the collector's row is one it
\* has just persisted and nobody else touches.
GoroutinesInv ==
  /\ process # "running" => collector = CollectorIdle /\ uploader = UploaderIdle
  /\ uploader.pc = "idle" => uploader = UploaderIdle
  /\ collector.next # "idle" =>
       /\ collector.sequence \in DOMAIN queue_events
       /\ queue_events[collector.sequence].status = "persisted"
       /\ collector.next = "open" => queue_events[collector.sequence].critical_code # NoCode

\* The table agrees with the history of each sequence.
RowsInv ==
  /\ \A s \in DOMAIN queue_events :
       /\ queue_events[s].device_id = origin[s]
       /\ queue_events[s].status \in ActiveStatus <=> fate[s] = "none"
  /\ \A s \in Sequences : fate[s] = "none" => s \in DOMAIN queue_events

\* What the uploader has in hand is still as it read it, and at the head of its device.
TodoInv ==
  \A s \in uploader.todo :
    /\ s \in DOMAIN queue_events
    /\ queue_events[s].status = "pending_upload"
    /\ queue_events[s].rejection_count = batch[s].rejection_count
    /\ s \in attempted
    /\ s \in DeviceHeads

\* Only the head of a device is ever published, and only published records are accepted
\* or acknowledged.
PublishedInv ==
  /\ upstream \cup zombies \subseteq DeviceHeads
  /\ uploader.accepted \subseteq upstream
  /\ \A s \in Sequences : fate[s] = "acked" => s \in upstream

\* A record that was sent and is not in the uploader's hand is marked for replay.
ReplayInv ==
  process # "down" =>
    \A s \in (attempted \ unrecorded) \ uploader.todo :
      s \in Active => queue_events[s].replay_required

IndInv ==
  /\ TypeOK
  /\ GoroutinesInv
  /\ RowsInv
  /\ TodoInv
  /\ PublishedInv
  /\ ReplayInv
  /\ ReplayModeCoversBacklog
  /\ BudgetExact
  /\ IncidentDelivery

\* What CriticalRowsHaveIncident needs besides: an incident is of the condition of the record
\* it is named after, and is on file before the collector marks its row and after the row is
\* settled, also while the process is down.
ConditionInv ==
  /\ \A s \in DOMAIN queue_events \cap DOMAIN incidents :
       LET row == queue_events[s] IN
       row.critical_code # NoCode =>
         /\ incidents[s].code = row.critical_code
         /\ incidents[s].asset_id = AssetOf(row.device_id, row.critical_code)
  /\ \A s \in DOMAIN queue_events :
       queue_events[s].critical_code # NoCode /\ queue_events[s].status \in TerminalStatus =>
         OnFile(queue_events[s])
  /\ collector.next = "mark" /\ queue_events[collector.sequence].critical_code # NoCode =>
       OnFile(queue_events[collector.sequence])
  /\ CriticalRowsHaveIncident
=============================================================================
