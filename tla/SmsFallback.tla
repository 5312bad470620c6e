---------------------------- MODULE SmsFallback ----------------------------
(***************************************************************************)
(* The edge agent's SMS coordinator: it texts the incidents that the         *)
(* network does not deliver, within a budget per incident and per site, and   *)
(* sends liveness heartbeats while the site is offline.  The attempts are     *)
(* reserved on disk before the modem is asked, so that a crash spends them.   *)
(*                                                                          *)
(* The collector and the uploader run concurrently; CriticalConditions and    *)
(* EdgeQueue have their detail, here they are what they do to the incidents.  *)
(* Time is a discrete clock that never goes back.  Nothing happens at a given *)
(* speed: a modem or a request may take any number of ticks.                  *)
(***************************************************************************)
EXTENDS EdgeConfig, Sequences, FiniteSets, Functions

CONSTANTS
  Env,                  \* the environment the agent was started in
  Hour, Day,            \* the windows of the site budget
  HeartbeatRetention,
  UploadLag,            \* bound: how long ago a request that succeeds may have left
  MaxClock,             \* bound: the last clock value
  MaxIncidents          \* bound: how many incidents are ever opened

\* The coordinator runs when the agent starts with SMS enabled.
ASSUME FallbackAssumption ==
  /\ Typed(Env) /\ Starts(Env) /\ SMSSettings(Env).enabled
  /\ Hour \in Nat /\ Day \in Nat /\ HeartbeatRetention \in Nat /\ HeartbeatRetention >= Day
  /\ UploadLag \in Nat /\ MaxClock \in Nat /\ MaxIncidents \in Nat

cfg == NewCoordinator(SMSSettings(Env))

FailureThreshold == cfg.failureThreshold   \* failed uploads that make an incident eligible
OfflineAfter == cfg.offlineAfter           \* time without a successful upload that does
MaxAttempts == cfg.maxAttempts             \* per incident
RetryInterval == cfg.retryInterval
HourlyLimit == cfg.hourlyLimit             \* the site budget
DailyLimit == cfg.dailyLimit
HeartbeatEnabled == cfg.heartbeatEnabled
HeartbeatInterval == cfg.heartbeatInterval
HeartbeatDailyLimit == cfg.heartbeatDailyLimit

VARIABLES
  clock,
  incidents,            \* durable: fallback_incidents, by number
  fallback_attempts,    \* durable: rows (incident, attempted at, outcome)
  heartbeat_attempts,   \* durable: sequence -> attempted at, outcome
  last_upload_success,  \* durable: edge_sync_state.last_upload_success_at_ms
  coordinator,          \* volatile: where RunOnce is, with what it read at its start
  startedAt,            \* volatile: Coordinator.startedAt, NoTime before the first RunOnce
  heartbeat_log         \* history: the times of all heartbeats reserved, pruned ones included

tables == <<incidents, fallback_attempts, heartbeat_attempts, heartbeat_log,
            last_upload_success>>
vars == <<clock, tables, coordinator, startedAt>>

-----------------------------------------------------------------------------
(* Helpers *)

NoTime == -1     \* NULL, and the zero time.Time
Put(f, k, v) == [x \in DOMAIN f \cup {k} |-> IF x = k THEN v ELSE f[x]]
Incidents == DOMAIN incidents

NewIncident ==
  [opened_at |-> clock, resolved |-> FALSE, delivered |-> FALSE, sms_sent |-> FALSE,
   upload_failures |-> 0, sms_attempt_count |-> 0, next_sms_attempt |-> NoTime]

CoordinatorIdle ==
  [pc |-> "idle", now |-> NoTime, todo |-> {}, current |-> 0, sent |-> FALSE, hour |-> 0, day |-> 0]

-----------------------------------------------------------------------------
(* The collector and the uploader, as the coordinator sees them *)

OpenFallbackIncident ==
  /\ Len(incidents) < MaxIncidents
  /\ incidents' = Append(incidents, NewIncident)
  /\ UNCHANGED <<clock, fallback_attempts, heartbeat_attempts, heartbeat_log,
                 last_upload_success, coordinator, startedAt>>

ResolveFallbackIncident(i) ==
  /\ ~incidents[i].resolved
  /\ incidents' = [incidents EXCEPT ![i].resolved = TRUE]
  /\ UNCHANGED <<clock, fallback_attempts, heartbeat_attempts, heartbeat_log,
                 last_upload_success, coordinator, startedAt>>

\* Failures beyond the threshold change no decision and are not counted.
RecordFallbackUploadFailure(i) ==
  /\ ~incidents[i].resolved /\ ~incidents[i].delivered
  /\ incidents[i].upload_failures < FailureThreshold
  /\ incidents' = [incidents EXCEPT ![i].upload_failures = @ + 1]
  /\ UNCHANGED <<clock, fallback_attempts, heartbeat_attempts, heartbeat_log,
                 last_upload_success, coordinator, startedAt>>

\* CompleteUpload of the incident's record; uploadedAt is when its request left.
CompleteUpload(i, uploadedAt) ==
  /\ ~incidents[i].delivered
  /\ uploadedAt >= incidents[i].opened_at /\ uploadedAt >= last_upload_success
  /\ incidents' = [incidents EXCEPT ![i].delivered = TRUE]
  /\ last_upload_success' = uploadedAt
  /\ UNCHANGED <<clock, fallback_attempts, heartbeat_attempts, heartbeat_log, coordinator,
                 startedAt>>

RecordUploadContactSuccess(uploadedAt) ==
  /\ uploadedAt >= 0 /\ uploadedAt > last_upload_success
  /\ last_upload_success' = uploadedAt
  /\ UNCHANGED <<clock, incidents, fallback_attempts, heartbeat_attempts, heartbeat_log,
                 coordinator, startedAt>>

-----------------------------------------------------------------------------
(* RunOnce: the candidates, one after the other *)

AttemptsOf(i) == {a \in fallback_attempts : a.event = i}
AttemptsSince(t) == Cardinality({a \in fallback_attempts : a.at >= t})

\* When the current outage began.
OfflineSince(i) ==
  IF last_upload_success = NoTime THEN incidents[i].opened_at ELSE last_upload_success

MutEligible(i, now) ==
  LET row == incidents[i] IN
  /\ ~row.resolved /\ ~row.delivered
  /\ Cardinality(AttemptsOf(i)) < MaxAttempts
  /\ row.next_sms_attempt <= now
  /\ row.upload_failures >= FailureThreshold \/ now - OfflineSince(i) >= OfflineAfter

\* FallbackCandidates' WHERE and eligible, but for the site budget.
Eligible(i, now) ==
  LET row == incidents[i] IN
  /\ ~row.resolved /\ ~row.delivered /\ ~row.sms_sent
  /\ Cardinality(AttemptsOf(i)) < MaxAttempts
  /\ row.next_sms_attempt <= now
  /\ row.upload_failures >= FailureThreshold \/ now - OfflineSince(i) >= OfflineAfter

\* The start of RunOnce.  What eligible will look at is read here, once for all candidates.
FallbackCandidates ==
  /\ coordinator.pc = "idle"
  /\ coordinator' = [CoordinatorIdle EXCEPT !.pc = "scan", !.now = clock,
       !.todo = {i \in Incidents : Eligible(i, clock)},
       !.hour = AttemptsSince(clock - Hour), !.day = AttemptsSince(clock - Day)]
  /\ startedAt' = IF startedAt = NoTime THEN clock ELSE startedAt
  /\ UNCHANGED <<clock, tables>>

\* ORDER BY opened_at_ms, sequence
IsCurrent(i) ==
  /\ i \in coordinator.todo
  /\ \A j \in coordinator.todo :
       \/ incidents[i].opened_at < incidents[j].opened_at
       \/ incidents[i].opened_at = incidents[j].opened_at /\ i <= j

MutCountedAttempt(c) == [c EXCEPT !.day = @ + 1]
\* hourAttempts++, dayAttempts++
CountedAttempt(c) == [c EXCEPT !.hour = @ + 1, !.day = @ + 1]

MutReserved(i) == [incidents EXCEPT ![i].sms_attempt_count = @ + 1]

\* The incident's columns after a reservation.
Reserved(i) ==
  LET next == coordinator.now + RetryInterval IN
  [incidents EXCEPT ![i].sms_attempt_count = @ + 1,
                    ![i].next_sms_attempt = IF @ < next THEN next ELSE @]

\* The attempt and its retry delay are on disk before the modem is asked.
ReserveFallbackAttempt(i) ==
  /\ coordinator.pc = "scan" /\ IsCurrent(i)
  /\ coordinator.hour < HourlyLimit /\ coordinator.day < DailyLimit
  /\ fallback_attempts' = fallback_attempts \cup
       {[event |-> i, at |-> coordinator.now, outcome |-> "unknown"]}
  /\ incidents' = Reserved(i)
  /\ coordinator' = CountedAttempt([coordinator EXCEPT !.pc = "send", !.current = i, !.todo = @ \ {i}])
  /\ UNCHANGED <<clock, heartbeat_attempts, heartbeat_log, last_upload_success, startedAt>>

\* Over the site budget, or the reservation fails: the candidate is passed over.
SkipCandidate(i) ==
  /\ coordinator.pc = "scan" /\ IsCurrent(i)
  /\ coordinator' = [coordinator EXCEPT !.todo = @ \ {i}]
  /\ UNCHANGED <<clock, tables, startedAt>>

\* The modem accepts the message, or fails or times out (and may have sent it all the same).
Send(sent) ==
  /\ coordinator.pc \in {"send", "heartbeat_send"}
  /\ coordinator' = [coordinator EXCEPT !.sent = sent,
       !.pc = IF @ = "send" THEN "record" ELSE "heartbeat_record"]
  /\ UNCHANGED <<clock, tables, startedAt>>

Outcome(sent) == IF sent THEN "sent" ELSE "failed"

\* One transaction; when it fails the reservation stands alone.
RecordFallbackAttempt(written) ==
  LET i == coordinator.current
      mine == {a \in fallback_attempts : a.event = i /\ a.at = coordinator.now}
  IN
  /\ coordinator.pc = "record"
  /\ IF written
       THEN /\ fallback_attempts' = (fallback_attempts \ mine) \cup
                 {[a EXCEPT !.outcome = Outcome(coordinator.sent)] : a \in mine}
            /\ incidents' = IF coordinator.sent
                 THEN [incidents EXCEPT ![i].sms_sent = TRUE]
                 ELSE [incidents EXCEPT ![i].next_sms_attempt = coordinator.now + RetryInterval]
       ELSE UNCHANGED <<fallback_attempts, incidents>>
  /\ coordinator' = [coordinator EXCEPT !.pc = "scan", !.current = 0, !.sent = FALSE]
  /\ UNCHANGED <<clock, heartbeat_attempts, heartbeat_log, last_upload_success, startedAt>>

CandidatesDone ==
  /\ coordinator.pc = "scan" /\ coordinator.todo = {}
  /\ coordinator' = IF HeartbeatEnabled THEN [coordinator EXCEPT !.pc = "heartbeat"]
                                        ELSE CoordinatorIdle
  /\ UNCHANGED <<clock, tables, startedAt>>

-----------------------------------------------------------------------------
(* The heartbeat at the end of RunOnce *)

Heartbeats == DOMAIN heartbeat_attempts

\* The AUTOINCREMENT counter: one entry of the log per sequence ever assigned.
HeartbeatSequence == Len(heartbeat_log)

MutHeartbeatsSince(t) ==
  Cardinality({h \in Heartbeats : heartbeat_attempts[h].at >= t
                                 /\ heartbeat_attempts[h].outcome # "unknown"})
HeartbeatsSince(t) == Cardinality({h \in Heartbeats : heartbeat_attempts[h].at >= t})

\* heartbeatDue, on the HeartbeatState of this moment
HeartbeatDue(now) ==
  LET offlineSince == IF last_upload_success = NoTime THEN startedAt ELSE last_upload_success
      latest == heartbeat_attempts[Max(Heartbeats)]
      wait == IF latest.outcome = "failed" THEN Min({HeartbeatInterval, RetryInterval})
                                           ELSE HeartbeatInterval
  IN
  /\ now - offlineSince >= OfflineAfter
  /\ HeartbeatsSince(now - Day) < HeartbeatDailyLimit
  /\ \/ Heartbeats = {}
     \/ latest.at <= last_upload_success
     \/ now - latest.at >= wait

runHeartbeat ==
  /\ coordinator.pc = "heartbeat"
  /\ coordinator' = IF HeartbeatDue(coordinator.now)
       THEN [coordinator EXCEPT !.pc = "heartbeat_reserve"] ELSE CoordinatorIdle
  /\ UNCHANGED <<clock, tables, startedAt>>

Retained(now) == {h \in Heartbeats : heartbeat_attempts[h].at >= now - HeartbeatRetention}

\* Prune and insert, one transaction, before the modem is asked.
ReserveHeartbeat ==
  /\ coordinator.pc = "heartbeat_reserve"
  /\ heartbeat_log' = Append(heartbeat_log, coordinator.now)
  /\ heartbeat_attempts' =
       Put(Restrict(heartbeat_attempts, Retained(coordinator.now)), HeartbeatSequence + 1,
           [at |-> coordinator.now, outcome |-> "unknown"])
  /\ coordinator' = [coordinator EXCEPT !.pc = "heartbeat_send", !.current = HeartbeatSequence + 1]
  /\ UNCHANGED <<clock, incidents, fallback_attempts, last_upload_success, startedAt>>

\* ReserveHeartbeat fails: RunOnce ends.
ReserveHeartbeatFails ==
  /\ coordinator.pc = "heartbeat_reserve"
  /\ coordinator' = CoordinatorIdle
  /\ UNCHANGED <<clock, tables, startedAt>>

RecordHeartbeat(written) ==
  /\ coordinator.pc = "heartbeat_record"
  /\ heartbeat_attempts' = IF written
       THEN [heartbeat_attempts EXCEPT ![coordinator.current].outcome = Outcome(coordinator.sent)]
       ELSE heartbeat_attempts
  /\ coordinator' = CoordinatorIdle
  /\ UNCHANGED <<clock, incidents, fallback_attempts, heartbeat_log, last_upload_success,
                 startedAt>>

-----------------------------------------------------------------------------
(* Specification *)

Tick ==
  /\ clock < MaxClock
  /\ clock' = clock + 1
  /\ UNCHANGED <<tables, coordinator, startedAt>>

\* The process goes down and comes up, at some later time, with a new coordinator.
CrashAndRestart ==
  /\ coordinator' = CoordinatorIdle /\ startedAt' = NoTime
  /\ UNCHANGED <<clock, tables>>

Init ==
  /\ clock = 0
  /\ incidents = << >> /\ fallback_attempts = {}
  /\ heartbeat_attempts = << >> /\ heartbeat_log = << >>
  /\ last_upload_success = NoTime
  /\ coordinator = CoordinatorIdle /\ startedAt = NoTime

Environment ==
  \/ OpenFallbackIncident
  \/ \E i \in Incidents : ResolveFallbackIncident(i)
  \/ \E i \in Incidents : RecordFallbackUploadFailure(i)
  \/ \E i \in Incidents, lag \in 0..UploadLag : CompleteUpload(i, clock - lag)
  \/ \E lag \in 0..UploadLag : RecordUploadContactSuccess(clock - lag)

RunOnce ==
  \/ FallbackCandidates
  \/ \E i \in coordinator.todo : ReserveFallbackAttempt(i)
  \/ \E i \in coordinator.todo : SkipCandidate(i)
  \/ \E sent \in BOOLEAN : Send(sent)
  \/ \E written \in BOOLEAN : RecordFallbackAttempt(written)
  \/ CandidatesDone
  \/ runHeartbeat
  \/ ReserveHeartbeat
  \/ ReserveHeartbeatFails
  \/ \E written \in BOOLEAN : RecordHeartbeat(written)

Next == Environment \/ RunOnce \/ Tick \/ CrashAndRestart

Spec == Init /\ [][Next]_vars

-----------------------------------------------------------------------------
(* Properties *)

Time == 0..MaxClock
Outcomes == {"unknown", "sent", "failed"}

IncidentType ==
  [opened_at : Time, resolved : BOOLEAN, delivered : BOOLEAN, sms_sent : BOOLEAN,
   upload_failures : 0..FailureThreshold, sms_attempt_count : Nat,
   next_sms_attempt : {NoTime} \cup 0..(MaxClock + RetryInterval)]

CoordinatorType ==
  [pc : {"idle", "scan", "send", "record", "heartbeat", "heartbeat_reserve", "heartbeat_send",
         "heartbeat_record"},
   now : {NoTime} \cup 0..clock, todo : SUBSET Incidents, current : Nat, sent : BOOLEAN,
   hour : Nat, day : Nat]

\* Type invariant: rows of their schema; attempts and heartbeats belong to existing ones.
TypeOK ==
  /\ clock \in Time
  /\ incidents \in Seq(IncidentType)
  /\ fallback_attempts \subseteq [event : Incidents, at : 0..clock, outcome : Outcomes]
  /\ heartbeat_log \in Seq(0..clock) /\ Heartbeats \subseteq DOMAIN heartbeat_log
  /\ heartbeat_attempts \in [Heartbeats -> [at : 0..clock, outcome : Outcomes]]
  /\ last_upload_success \in {NoTime} \cup 0..clock
  /\ coordinator \in CoordinatorType
  /\ startedAt \in {NoTime} \cup 0..clock

\* One incident is texted at most MaxAttempts times, at least RetryInterval apart, and the
\* counter the health report reads agrees with the attempts on file: across failed sends,
\* lost results, and crashes between reservation and send.
IncidentBudget ==
  \A i \in Incidents :
    /\ Cardinality(AttemptsOf(i)) <= MaxAttempts
    /\ incidents[i].sms_attempt_count = Cardinality(AttemptsOf(i))
    /\ \A a, b \in AttemptsOf(i) :
         a # b => a.at - b.at >= RetryInterval \/ b.at - a.at >= RetryInterval

\* No hour and no day holds more attempts than the site budget, although RunOnce counts them
\* once for all its candidates and stamps them with the time of its start.
SiteBudget ==
  \A t \in Time :
    /\ Cardinality({a \in fallback_attempts : a.at \in (t - Hour)..t}) <= HourlyLimit
    /\ Cardinality({a \in fallback_attempts : a.at \in (t - Day)..t}) <= DailyLimit

\* After the modem accepted an incident's message on record, the incident is never tried again.
AcceptedIsLast ==
  \A a, b \in fallback_attempts : a.event = b.event /\ a.outcome = "sent" => b.at <= a.at

\* No day holds more heartbeats than their own budget, also after crashes mid-send.
HeartbeatBudget ==
  \A t \in Time :
    Cardinality({h \in DOMAIN heartbeat_log : heartbeat_log[h] \in (t - Day)..t})
      <= HeartbeatDailyLimit
=============================================================================
