------------------------- MODULE SmsFallbackProofs -------------------------
(***************************************************************************)
(* What an edge agent that has started may rely on, whatever its            *)
(* environment: its settings satisfy the assumptions EdgeQueue and          *)
(* CriticalConditions are proved from, and SmsFallback's attempts are as    *)
(* few and as far apart as fallback/coordinator.go promises.  From these,   *)
(* the safety of the SMS coordinator: its budgets, and that a message on    *)
(* record as accepted is the last one.                                      *)
(***************************************************************************)
EXTENDS SmsFallback, FiniteSetTheorems, TLAPS

-----------------------------------------------------------------------------
(* The environment *)

(* What an accepted number or duration is: the one given, or the default. *)
LEMMA ParsedNumber ==
  ASSUME NEW env, Typed(env), Parses(env), NEW raw \in Numbers(env), NEW fallback \in Int
  PROVE Parsed(raw, fallback) \in Int
BY DEF Typed, Parses, Parsed

LEMMA ParsedDuration ==
  ASSUME NEW env, Typed(env), Parses(env), NEW raw \in Durations(env), NEW fallback \in Nat \ {0}
  PROVE Parsed(raw, fallback) \in Nat \ {0}
BY DEF Typed, Parses, Parsed

(* What EdgeQueue assumes of its limits (its ConfigAssumption) holds in every agent that
   starts: its queue's limits are those validateConfig lets through, an event takes at most
   a twentieth of it, and the uploader's batches and retries are positive. *)
THEOREM StartedQueueLimits ==
  ASSUME NEW env, Typed(env), Starts(env)
  PROVE LET queue == OpenConfig(QueueSettings(env))
            uploader == NewUploader(UploaderSettings(env))
        IN /\ queue.maxStorageBytes \in Nat /\ queue.maxEventBytes \in Nat \ {0}
           /\ 20 * queue.maxEventBytes <= queue.maxStorageBytes
           /\ queue.criticalReservePercent \in 1..99
           /\ uploader.batchSize \in Nat \ {0} /\ uploader.batchMaxBytes \in Nat \ {0}
           /\ uploader.maxRetries \in Nat \ {0}
<1> DEFINE settings == QueueSettings(env)
           queue == OpenConfig(settings)
           uploader == UploaderSettings(env)
<1>0. MiB \in Nat \ {0} BY SettingsAssumption DEF SettingsAssumption
<1>1. Parses(env) /\ validateConfig(queue)
  BY DEF Starts, FromEnvAccepts
<1>2. {env.maxStorageBytes, env.maxEventBytes, env.batchSize, env.batchMaxBytes, env.maxRetries}
        \subseteq Numbers(env)
  BY DEF Numbers
<1>3. settings.maxStorageBytes \in Int
  <2>1. settings.maxStorageBytes = Parsed(env.maxStorageBytes, 512 * MiB) BY DEF QueueSettings
  <2> QED BY <1>0, <1>1, <1>2, <2>1, ParsedNumber
<1>4. settings.maxEventBytes \in Int
  <2>1. settings.maxEventBytes = Parsed(env.maxEventBytes, MiB) BY DEF QueueSettings
  <2> QED BY <1>0, <1>1, <1>2, <2>1, ParsedNumber
<1>5. /\ queue.maxStorageBytes = settings.maxStorageBytes
      /\ queue.criticalReservePercent = settings.criticalReservePercent
      /\ queue.maxEventBytes \in Int
  <2> DEFINE share == (settings.maxStorageBytes * 5) \div 100
             bytes == IF settings.maxEventBytes # 0 THEN settings.maxEventBytes
                      ELSE IF MiB < share THEN MiB ELSE share
  <2>1. bytes \in Int BY <1>0, <1>3, <1>4
  <2>2. queue = [settings EXCEPT !.maxEventBytes = bytes] BY DEF OpenConfig
  <2>3. queue.maxEventBytes = bytes BY <2>2 DEF QueueSettings
  <2> HIDE DEF bytes
  <2> QED BY <2>1, <2>2, <2>3 DEF QueueSettings
<1>6. /\ queue.maxStorageBytes \in Nat /\ queue.maxEventBytes \in Nat \ {0}
      /\ queue.maxEventBytes <= (queue.maxStorageBytes * 5) \div 100
      /\ queue.criticalReservePercent \in 1..99
  <2> HIDE DEF queue
  <2> QED BY <1>0, <1>1, <1>3, <1>5 DEF validateConfig
<1>7. 20 * queue.maxEventBytes <= queue.maxStorageBytes
  <2> DEFINE bytes == queue.maxStorageBytes
             event == queue.maxEventBytes
  <2>1. bytes \in Nat /\ event \in Nat /\ event <= (bytes * 5) \div 100 BY <1>6
  <2> HIDE DEF bytes, event
  <2>2. 20 * event <= bytes BY <2>1
  <2> QED BY <2>2 DEF bytes, event
<1>8. uploader.batchSize \in Int /\ uploader.batchMaxBytes \in Int /\ uploader.maxRetries \in Int
  <2>1. /\ uploader.batchSize = Parsed(env.batchSize, 50)
        /\ uploader.batchMaxBytes = Parsed(env.batchMaxBytes, MiB)
        /\ uploader.maxRetries = Parsed(env.maxRetries, 20)
    BY DEF UploaderSettings
  <2> QED BY <1>0, <1>1, <1>2, <2>1, ParsedNumber
<1>9. LET started == NewUploader(uploader) IN
      /\ started.batchSize \in Nat \ {0} /\ started.batchMaxBytes \in Nat \ {0}
      /\ started.maxRetries \in Nat \ {0}
  <2> HIDE DEF uploader
  <2>1. /\ OrDefault(uploader.batchSize, 50) \in Nat \ {0}
        /\ OrDefault(uploader.batchMaxBytes, MiB) \in Nat \ {0}
        /\ OrDefault(uploader.maxRetries, 20) \in Nat \ {0}
    BY <1>0, <1>8 DEF OrDefault
  <2> QED BY <2>1 DEF NewUploader
<1> QED BY <1>6, <1>7, <1>9

(* The SMS settings FromEnv accepts, with SMS enabled or not. *)
LEMMA AcceptedSMSSettings ==
  ASSUME NEW env, Typed(env), FromEnvAccepts(env)
  PROVE LET sms == SMSSettings(env) IN
        /\ sms.maxAttempts \in 1..MaxIncidentAttempts
        /\ sms.failureThreshold \in Nat \ {0} /\ sms.hourlyLimit \in Nat \ {0}
        /\ sms.dailyLimit \in Nat \ {0} /\ sms.heartbeatDailyLimit \in Nat \ {0}
        /\ sms.overheatC \in Nat \ {0}
        /\ sms.debounce \in Nat \ {0} /\ sms.retryInterval \in Nat \ {0}
        /\ sms.offlineAfter \in Nat \ {0} /\ sms.heartbeatInterval \in Nat \ {0}
        /\ sms.heartbeatInterval >= sms.offlineAfter
        /\ sms.retryInterval >= MinimumRetryInterval(sms.maxAttempts)
<1> DEFINE sms == SMSSettings(env)
<1>0. /\ Second \in Nat \ {0} /\ MaxIncidentAttempts \in Nat
  BY MessageAssumption, SettingsAssumption DEF MessageAssumption, SettingsAssumption
<1>1. Parses(env) /\ SMSValid(QueueSettings(env), sms)
  BY DEF FromEnvAccepts
<1>2. {env.failureThreshold, env.maxAttempts, env.hourlyLimit, env.dailyLimit,
       env.heartbeatDailyLimit, env.overheatC} \subseteq Numbers(env)
  BY DEF Numbers
<1>3. {env.offlineAfter, env.retryInterval, env.debounce, env.heartbeatInterval}
        \subseteq Durations(env)
  BY DEF Durations
<1>4. /\ sms.failureThreshold \in Int /\ sms.maxAttempts \in Int /\ sms.hourlyLimit \in Int
      /\ sms.dailyLimit \in Int /\ sms.heartbeatDailyLimit \in Int /\ sms.overheatC \in Int
  <2>1. /\ sms.failureThreshold = Parsed(env.failureThreshold, 3)
        /\ sms.maxAttempts = Parsed(env.maxAttempts, 3)
        /\ sms.hourlyLimit = Parsed(env.hourlyLimit, 6)
        /\ sms.dailyLimit = Parsed(env.dailyLimit, 20)
        /\ sms.heartbeatDailyLimit = Parsed(env.heartbeatDailyLimit, 48)
        /\ sms.overheatC = Parsed(env.overheatC, 55)
    BY DEF SMSSettings
  <2> QED BY SMTT(30), <1>1, <1>2, <2>1, ParsedNumber
<1>5. /\ sms.offlineAfter \in Nat \ {0} /\ sms.retryInterval \in Nat \ {0}
      /\ sms.debounce \in Nat \ {0} /\ sms.heartbeatInterval \in Nat \ {0}
  <2>1. /\ sms.offlineAfter = Parsed(env.offlineAfter, 120 * Second)
        /\ sms.retryInterval = Parsed(env.retryInterval, 450 * Second)
        /\ sms.debounce = Parsed(env.debounce, 30 * Second)
        /\ sms.heartbeatInterval = Parsed(env.heartbeatInterval, 1800 * Second)
    BY DEF SMSSettings
  <2>2. /\ 120 * Second \in Nat \ {0} /\ 450 * Second \in Nat \ {0}
        /\ 30 * Second \in Nat \ {0} /\ 1800 * Second \in Nat \ {0}
    BY <1>0
  <2> QED BY <1>1, <1>3, <2>1, <2>2, ParsedDuration
<1>6. /\ sms.maxAttempts > 0 /\ sms.maxAttempts <= MaxIncidentAttempts
      /\ sms.failureThreshold > 0 /\ sms.hourlyLimit > 0 /\ sms.dailyLimit > 0
      /\ sms.heartbeatDailyLimit > 0 /\ sms.overheatC > 0
      /\ sms.heartbeatInterval >= sms.offlineAfter
      /\ sms.retryInterval >= MinimumRetryInterval(sms.maxAttempts)
  <2> HIDE DEF sms
  <2> QED BY <1>1 DEF SMSValid
<1> HIDE DEF sms
<1>7. QED BY <1>0, <1>4, <1>5, <1>6 DEF sms

(* What FromEnv accepts the collector uses unchanged, and its debounce is one that
   CriticalConditions assumes (its DebounceAssumption). *)
THEOREM CollectorKeepsSettings ==
  ASSUME NEW env, Typed(env), FromEnvAccepts(env)
  PROVE LET sms == SMSSettings(env) IN
        /\ NewCollector(sms) = [overheatC |-> sms.overheatC, debounce |-> sms.debounce]
        /\ sms.debounce \in Nat \ {0}
<1> DEFINE sms == SMSSettings(env)
<1>1. sms.overheatC \in Nat \ {0} /\ sms.debounce \in Nat \ {0}
  BY AcceptedSMSSettings
<1> HIDE DEF sms
<1>2. OrDefault(sms.overheatC, 55) = sms.overheatC /\ OrDefault(sms.debounce, 30 * Second) = sms.debounce
  BY <1>1 DEF OrDefault
<1>3. QED BY <1>1, <1>2 DEF NewCollector, sms

(* What FromEnv accepts the coordinator uses unchanged: NewCoordinator replaces attempts and
   intervals out of its range, and none of them gets that far, so that SmsFallback runs with
   the settings of the environment. *)
THEOREM CoordinatorKeepsSettings ==
  ASSUME NEW env, Typed(env), FromEnvAccepts(env)
  PROVE NewCoordinator(SMSSettings(env)) = SMSSettings(env)
<1> DEFINE sms == SMSSettings(env)
           minimum == MinimumRetryInterval(sms.maxAttempts)
<1>1. /\ sms.maxAttempts \in 1..MaxIncidentAttempts
      /\ sms.retryInterval \in Int /\ sms.retryInterval >= minimum
  BY AcceptedSMSSettings
<1>2. minimum \in Int
  BY SettingsAssumption DEF SettingsAssumption, MinimumRetryInterval
<1>3. sms = [x \in DOMAIN sms |-> sms[x]] /\ {"maxAttempts", "retryInterval"} \subseteq DOMAIN sms
  BY DEF SMSSettings
<1> HIDE DEF sms
<1>4. /\ [sms EXCEPT !.maxAttempts = sms.maxAttempts] = sms
      /\ [sms EXCEPT !.retryInterval = sms.retryInterval] = sms
  BY <1>3
<1>5. [sms EXCEPT !.maxAttempts = IF @ \in 1..MaxIncidentAttempts THEN @ ELSE MaxIncidentAttempts]
        = sms
  BY <1>1, <1>4
<1>6. [sms EXCEPT !.retryInterval = IF @ < minimum THEN minimum ELSE @] = sms
  BY <1>1, <1>2, <1>4
<1> HIDE DEF minimum
<1>7. NewCoordinator(sms) = sms
  BY <1>5, <1>6 DEF NewCoordinator, minimum
<1> QED BY <1>7 DEF sms

(* The attempts of one incident are at most MaxIncidentAttempts, and if it may have several,
   MaxIncidentAttempts of them would span IncidentAttemptWindow, rounding aside. *)
THEOREM AttemptsSpanTheWindow ==
  ASSUME NEW env, Typed(env), FromEnvAccepts(env)
  PROVE LET started == NewCoordinator(SMSSettings(env))
            gaps == MaxIncidentAttempts - 1
        IN /\ started.maxAttempts \in 1..MaxIncidentAttempts
           /\ started.maxAttempts > 1
                => gaps * started.retryInterval > IncidentAttemptWindow - gaps
<1> DEFINE sms == SMSSettings(env)
           gaps == MaxIncidentAttempts - 1
<1>1. NewCoordinator(sms) = sms
  BY CoordinatorKeepsSettings
<1>2. /\ sms.maxAttempts \in 1..MaxIncidentAttempts /\ sms.retryInterval \in Nat
      /\ sms.retryInterval >= MinimumRetryInterval(sms.maxAttempts)
  BY AcceptedSMSSettings
<1>3. gaps \in Nat \ {0} /\ IncidentAttemptWindow \in Nat
  BY SettingsAssumption DEF SettingsAssumption
<1> HIDE DEF sms, gaps
<1>4. ASSUME sms.maxAttempts > 1
      PROVE gaps * sms.retryInterval > IncidentAttemptWindow - gaps
  <2> DEFINE minimum == IncidentAttemptWindow \div gaps
             rest == IncidentAttemptWindow % gaps
  <2>1. sms.retryInterval >= minimum
    BY <1>2, <1>4 DEF MinimumRetryInterval, gaps
  <2>2. /\ minimum \in Nat /\ rest \in 0..gaps-1
        /\ IncidentAttemptWindow = gaps * minimum + rest
    BY <1>3
  <2> HIDE DEF minimum, rest
  <2>3. gaps * sms.retryInterval >= gaps * minimum
    BY <1>2, <1>3, <2>1, <2>2
  <2>4. gaps * sms.retryInterval \in Nat /\ gaps * minimum \in Nat
    BY <1>2, <1>3, <2>2
  <2> QED BY <1>3, <2>2, <2>3, <2>4
<1> QED BY <1>1, <1>2, <1>4 DEF sms, gaps

-----------------------------------------------------------------------------
(* The limits *)

LEMMA Limits ==
  /\ FailureThreshold \in Nat \ {0} /\ OfflineAfter \in Nat \ {0} /\ MaxAttempts \in Nat \ {0}
  /\ RetryInterval \in Nat \ {0} /\ HourlyLimit \in Nat \ {0} /\ DailyLimit \in Nat \ {0}
  /\ HeartbeatInterval \in Nat \ {0} /\ HeartbeatDailyLimit \in Nat \ {0}
<1>1. Typed(Env) /\ FromEnvAccepts(Env)
  BY FallbackAssumption DEF FallbackAssumption, Starts
<1>2. cfg = SMSSettings(Env)
  BY <1>1, CoordinatorKeepsSettings DEF cfg
<1>3. MaxIncidentAttempts \in Nat
  BY SettingsAssumption DEF SettingsAssumption
<1> QED
  BY <1>1, <1>2, <1>3, AcceptedSMSSettings
  DEF FailureThreshold, OfflineAfter, MaxAttempts, RetryInterval, HourlyLimit, DailyLimit,
      HeartbeatInterval, HeartbeatDailyLimit

LEMMA Windows ==
  /\ Hour \in Nat /\ Day \in Nat /\ HeartbeatRetention \in Nat /\ HeartbeatRetention >= Day
  /\ UploadLag \in Nat /\ MaxClock \in Nat
BY FallbackAssumption DEF FallbackAssumption

USE DEF NoTime

-----------------------------------------------------------------------------
(* The inductive invariant *)

\* The time the last pass counts from: nothing on file is younger.
PassTime == IF coordinator.pc = "idle" THEN clock ELSE coordinator.now

PassInv ==
  /\ coordinator.pc = "idle" => coordinator.todo = {}
  /\ coordinator.pc # "idle" => coordinator.now \in 0..clock
  /\ IsFiniteSet(fallback_attempts)
  /\ \A a \in fallback_attempts : a.at <= PassTime
  /\ \A h \in DOMAIN heartbeat_log : heartbeat_log[h] <= PassTime

\* What the coordinator read of the incidents it has not come to still holds.
TodoInv ==
  /\ \A i \in coordinator.todo :
       /\ ~incidents[i].sms_sent
       /\ Cardinality(AttemptsOf(i)) < MaxAttempts
       /\ incidents[i].next_sms_attempt <= coordinator.now
  /\ coordinator.pc \in {"send", "record"} =>
       coordinator.current \in Incidents /\ coordinator.current \notin coordinator.todo

\* The incident's row tells of each of its attempts.
AttemptInv ==
  \A a \in fallback_attempts :
    /\ a.at + RetryInterval <= incidents[a.event].next_sms_attempt
    /\ a.outcome = "sent" => incidents[a.event].sms_sent

\* The counts of the pass are at least those of the table.
CountInv ==
  coordinator.pc # "idle" =>
    /\ AttemptsSince(coordinator.now - Hour) <= coordinator.hour
    /\ AttemptsSince(coordinator.now - Day) <= coordinator.day

\* The heartbeats of the last day are all on file.
HeartbeatInv ==
  /\ \A h \in Heartbeats : heartbeat_attempts[h].at = heartbeat_log[h]
  /\ \A h \in DOMAIN heartbeat_log \ Heartbeats : heartbeat_log[h] < PassTime - HeartbeatRetention
  /\ coordinator.pc = "heartbeat_reserve" =>
       HeartbeatsSince(coordinator.now - Day) < HeartbeatDailyLimit

IndInv ==
  /\ TypeOK /\ PassInv
  /\ TodoInv /\ AttemptInv /\ IncidentBudget /\ AcceptedIsLast
  /\ CountInv /\ SiteBudget
  /\ HeartbeatInv /\ HeartbeatBudget

-----------------------------------------------------------------------------
(* Steps that touch one thing only *)

LEMMA SequenceFacts ==
  ASSUME NEW S, NEW s \in Seq(S)
  PROVE /\ Len(s) \in Nat /\ DOMAIN s = 1..Len(s) /\ \A i \in DOMAIN s : s[i] \in S
        /\ s = [i \in 1..Len(s) |-> s[i]]
OBVIOUS

(* A step of the collector or the uploader. *)
LEMMA IncidentsChange ==
  ASSUME IndInv,
         UNCHANGED <<clock, fallback_attempts, heartbeat_attempts, heartbeat_log, coordinator,
                     startedAt>>,
         incidents' \in Seq(IncidentType),
         last_upload_success' \in {NoTime} \cup 0..clock,
         Incidents \subseteq Incidents',
         \A i \in Incidents :
           /\ incidents'[i].sms_sent = incidents[i].sms_sent
           /\ incidents'[i].next_sms_attempt = incidents[i].next_sms_attempt
           /\ incidents'[i].sms_attempt_count = incidents[i].sms_attempt_count,
         \A i \in Incidents' \ Incidents : incidents'[i].sms_attempt_count = 0
  PROVE IndInv'
<1> USE DEF IndInv
<1>1. TypeOK'
  BY DEF TypeOK, CoordinatorType, Heartbeats
<1>2. PassInv'
  BY DEF PassInv, PassTime
<1>3. TodoInv'
  BY DEF TodoInv, AttemptsOf, TypeOK, CoordinatorType
<1>4. AttemptInv' /\ AcceptedIsLast'
  BY DEF AttemptInv, AcceptedIsLast, TypeOK
<1>5. IncidentBudget'
  <2>1. \A i \in Incidents' \ Incidents : AttemptsOf(i) = {}
    BY DEF AttemptsOf, TypeOK
  <2>2. Cardinality({}) = 0 BY FS_EmptySet
  <2>3. \A i \in Incidents' : AttemptsOf(i)' = AttemptsOf(i) BY DEF AttemptsOf
  <2>4. ASSUME NEW i \in Incidents'
        PROVE /\ Cardinality(AttemptsOf(i)) <= MaxAttempts
              /\ incidents'[i].sms_attempt_count = Cardinality(AttemptsOf(i))
              /\ \A a, b \in AttemptsOf(i) :
                   a # b => a.at - b.at >= RetryInterval \/ b.at - a.at >= RetryInterval
    <3>1. CASE i \in Incidents BY <3>1 DEF IncidentBudget
    <3>2. CASE i \notin Incidents
      <4>1. AttemptsOf(i) = {} /\ incidents'[i].sms_attempt_count = 0 BY <2>1, <2>4, <3>2
      <4> QED BY <2>2, <4>1, Limits
    <3> QED BY <3>1, <3>2
  <2> QED BY <2>3, <2>4 DEF IncidentBudget
<1>6. CountInv' /\ SiteBudget'
  BY DEF CountInv, SiteBudget, AttemptsSince
<1>7. HeartbeatInv' /\ HeartbeatBudget'
  BY DEF HeartbeatInv, HeartbeatBudget, Heartbeats, PassTime, HeartbeatsSince
<1> QED BY <1>1, <1>2, <1>3, <1>4, <1>5, <1>6, <1>7

(* A step of the coordinator that writes nothing. *)
LEMMA CoordinatorChange ==
  ASSUME IndInv, UNCHANGED <<clock, tables>>,
         coordinator' \in CoordinatorType, startedAt' \in {NoTime} \cup 0..clock,
         PassInv', TodoInv', CountInv', HeartbeatInv'
  PROVE IndInv'
<1> USE DEF IndInv, tables
<1>1. TypeOK'
  <2>1. CoordinatorType' = CoordinatorType BY DEF CoordinatorType, Incidents
  <2> QED BY <2>1 DEF TypeOK, Heartbeats, Incidents
<1>2. AttemptInv' /\ AcceptedIsLast' /\ IncidentBudget'
  <2>1. \A i \in Incidents' : AttemptsOf(i)' = AttemptsOf(i) BY DEF AttemptsOf
  <2>2. IncidentBudget' BY <2>1 DEF IncidentBudget, Incidents
  <2> QED BY <2>2 DEF AttemptInv, AcceptedIsLast
<1>3. SiteBudget' /\ HeartbeatBudget'
  BY DEF SiteBudget, HeartbeatBudget
<1> QED BY <1>1, <1>2, <1>3

-----------------------------------------------------------------------------
(* The collector and the uploader *)

LEMMA SequenceExcept ==
  ASSUME NEW S, NEW s \in Seq(S), NEW i \in DOMAIN s, NEW v \in S
  PROVE /\ [s EXCEPT ![i] = v] \in Seq(S)
        /\ DOMAIN [s EXCEPT ![i] = v] = DOMAIN s
        /\ [s EXCEPT ![i] = v][i] = v
        /\ \A j \in DOMAIN s \ {i} : [s EXCEPT ![i] = v][j] = s[j]
OBVIOUS

LEMMA SequenceAppend ==
  ASSUME NEW S, NEW s \in Seq(S), NEW v \in S
  PROVE /\ Append(s, v) \in Seq(S)
        /\ DOMAIN Append(s, v) = DOMAIN s \cup {Len(s) + 1} /\ Len(s) + 1 \notin DOMAIN s
        /\ Append(s, v)[Len(s) + 1] = v
        /\ \A j \in DOMAIN s : Append(s, v)[j] = s[j]
OBVIOUS

LEMMA Rows ==
  ASSUME TypeOK
  PROVE /\ incidents \in Seq(IncidentType)
        /\ \A i \in Incidents : incidents[i] \in IncidentType
BY SequenceFacts DEF TypeOK, Incidents

LEMMA OpenFallbackIncidentStep ==
  ASSUME IndInv, OpenFallbackIncident
  PROVE IndInv'
<1>1. NewIncident \in IncidentType /\ NewIncident.sms_attempt_count = 0
  BY Limits DEF NewIncident, IncidentType, IndInv, TypeOK
<1>2. incidents \in Seq(IncidentType) /\ incidents' = Append(incidents, NewIncident)
  BY Rows DEF IndInv, OpenFallbackIncident
<1>3. /\ incidents' \in Seq(IncidentType)
      /\ DOMAIN incidents' = DOMAIN incidents \cup {Len(incidents) + 1}
      /\ incidents'[Len(incidents) + 1] = NewIncident
      /\ \A j \in DOMAIN incidents : incidents'[j] = incidents[j]
  BY <1>1, <1>2, SequenceAppend
<1>4. /\ Incidents \subseteq Incidents'
      /\ \A i \in Incidents' \ Incidents : incidents'[i].sms_attempt_count = 0
      /\ \A i \in Incidents : incidents'[i] = incidents[i]
  BY <1>1, <1>3 DEF Incidents
<1> QED BY <1>3, <1>4, IncidentsChange DEF OpenFallbackIncident, IndInv, TypeOK

(* One column of one incident, that no attempt depends on. *)
LEMMA RowChange ==
  ASSUME IndInv,
         NEW i \in Incidents, NEW row \in IncidentType,
         row.sms_sent = incidents[i].sms_sent,
         row.next_sms_attempt = incidents[i].next_sms_attempt,
         row.sms_attempt_count = incidents[i].sms_attempt_count,
         incidents' = [incidents EXCEPT ![i] = row],
         UNCHANGED <<clock, fallback_attempts, heartbeat_attempts, heartbeat_log, coordinator,
                     startedAt>>,
         last_upload_success' \in {NoTime} \cup 0..clock
  PROVE IndInv'
<1>1. incidents \in Seq(IncidentType)
  BY Rows DEF IndInv
<1>2. /\ incidents' \in Seq(IncidentType) /\ DOMAIN incidents' = DOMAIN incidents
      /\ incidents'[i] = row
      /\ \A j \in DOMAIN incidents \ {i} : incidents'[j] = incidents[j]
  BY <1>1, SequenceExcept DEF Incidents
<1>3. /\ Incidents' = Incidents
      /\ \A j \in Incidents :
           /\ incidents'[j].sms_sent = incidents[j].sms_sent
           /\ incidents'[j].next_sms_attempt = incidents[j].next_sms_attempt
           /\ incidents'[j].sms_attempt_count = incidents[j].sms_attempt_count
  BY <1>2 DEF Incidents
<1> QED BY <1>2, <1>3, IncidentsChange

LEMMA ResolveFallbackIncidentStep ==
  ASSUME IndInv, NEW i \in Incidents, ResolveFallbackIncident(i)
  PROVE IndInv'
<1> DEFINE row == [incidents[i] EXCEPT !.resolved = TRUE]
<1>1. incidents[i] \in IncidentType
  BY Rows DEF IndInv
<1>2. /\ row \in IncidentType /\ row.sms_sent = incidents[i].sms_sent
      /\ row.next_sms_attempt = incidents[i].next_sms_attempt
      /\ row.sms_attempt_count = incidents[i].sms_attempt_count
  BY <1>1 DEF IncidentType
<1>3. incidents' = [incidents EXCEPT ![i] = row]
  BY DEF ResolveFallbackIncident
<1>4. /\ UNCHANGED <<clock, fallback_attempts, heartbeat_attempts, heartbeat_log, coordinator,
                      startedAt>>
      /\ last_upload_success' \in {NoTime} \cup 0..clock
  BY DEF ResolveFallbackIncident, IndInv, TypeOK
<1> HIDE DEF row
<1> QED BY <1>2, <1>3, <1>4, RowChange

LEMMA RecordFallbackUploadFailureStep ==
  ASSUME IndInv, NEW i \in Incidents, RecordFallbackUploadFailure(i)
  PROVE IndInv'
<1> DEFINE row == [incidents[i] EXCEPT !.upload_failures = @ + 1]
<1>1. incidents[i] \in IncidentType /\ incidents[i].upload_failures < FailureThreshold
  BY Rows DEF IndInv, RecordFallbackUploadFailure
<1>2. /\ row \in IncidentType /\ row.sms_sent = incidents[i].sms_sent
      /\ row.next_sms_attempt = incidents[i].next_sms_attempt
      /\ row.sms_attempt_count = incidents[i].sms_attempt_count
  BY <1>1, Limits DEF IncidentType
<1>3. incidents' = [incidents EXCEPT ![i] = row]
  BY DEF RecordFallbackUploadFailure
<1>4. /\ UNCHANGED <<clock, fallback_attempts, heartbeat_attempts, heartbeat_log, coordinator,
                      startedAt>>
      /\ last_upload_success' \in {NoTime} \cup 0..clock
  BY DEF RecordFallbackUploadFailure, IndInv, TypeOK
<1> HIDE DEF row
<1> QED BY <1>2, <1>3, <1>4, RowChange

LEMMA CompleteUploadStep ==
  ASSUME IndInv, NEW i \in Incidents, NEW lag \in 0..UploadLag, CompleteUpload(i, clock - lag)
  PROVE IndInv'
<1> DEFINE row == [incidents[i] EXCEPT !.delivered = TRUE]
<1>1. incidents[i] \in IncidentType
  BY Rows DEF IndInv
<1>2. /\ row \in IncidentType /\ row.sms_sent = incidents[i].sms_sent
      /\ row.next_sms_attempt = incidents[i].next_sms_attempt
      /\ row.sms_attempt_count = incidents[i].sms_attempt_count
  BY <1>1 DEF IncidentType
<1>3. incidents' = [incidents EXCEPT ![i] = row]
  BY DEF CompleteUpload
<1>4. /\ UNCHANGED <<clock, fallback_attempts, heartbeat_attempts, heartbeat_log, coordinator,
                      startedAt>>
      /\ last_upload_success' = clock - lag /\ clock - lag >= incidents[i].opened_at
  BY DEF CompleteUpload
<1>5. incidents[i].opened_at \in Nat /\ clock \in Nat
  BY <1>1, Windows DEF IncidentType, Time, IndInv, TypeOK
<1>6. last_upload_success' \in {NoTime} \cup 0..clock
  BY <1>4, <1>5, Windows
<1> HIDE DEF row
<1> QED BY <1>2, <1>3, <1>4, <1>6, RowChange

LEMMA RecordUploadContactSuccessStep ==
  ASSUME IndInv, NEW lag \in 0..UploadLag, RecordUploadContactSuccess(clock - lag)
  PROVE IndInv'
<1>1. /\ UNCHANGED <<clock, incidents, fallback_attempts, heartbeat_attempts, heartbeat_log,
                      coordinator, startedAt>>
      /\ last_upload_success' = clock - lag /\ clock - lag >= 0
  BY DEF RecordUploadContactSuccess
<1>2. last_upload_success' \in {NoTime} \cup 0..clock
  BY <1>1, Windows DEF IndInv, TypeOK, Time
<1>3. incidents' \in Seq(IncidentType)
  BY <1>1, Rows DEF IndInv
<1>4. Incidents' = Incidents
  BY <1>1 DEF Incidents
<1> QED BY <1>1, <1>2, <1>3, <1>4, IncidentsChange

-----------------------------------------------------------------------------
(* The coordinator, between its writes *)

LEMMA PassTimeType ==
  ASSUME TypeOK, PassInv
  PROVE clock \in Nat /\ PassTime \in 0..clock
<1>1. clock \in Nat
  BY Windows DEF TypeOK, Time
<1> QED BY <1>1 DEF PassInv, PassTime

LEMMA AttemptsSinceType ==
  ASSUME TypeOK, PassInv, NEW t
  PROVE AttemptsSince(t) \in Nat
<1> DEFINE recent == {a \in fallback_attempts : a.at >= t}
<1>1. IsFiniteSet(fallback_attempts) /\ recent \subseteq fallback_attempts
  BY DEF PassInv
<1>2. IsFiniteSet(recent)
  BY <1>1, FS_Subset
<1> QED BY <1>2, FS_CardinalityType DEF AttemptsSince

(* The end of a pass, or of the process. *)
LEMMA IdleStep ==
  ASSUME IndInv, UNCHANGED <<clock, tables>>, coordinator' = CoordinatorIdle,
         startedAt' \in {NoTime} \cup 0..clock
  PROVE IndInv'
<1>1. /\ coordinator' \in CoordinatorType /\ coordinator'.pc = "idle" /\ coordinator'.todo = {}
  BY DEF CoordinatorIdle, CoordinatorType
<1>2. clock \in Nat /\ PassTime \in 0..clock /\ PassTime' = clock
  BY <1>1, PassTimeType DEF IndInv, PassTime
<1>3. \A a \in fallback_attempts : a.at \in Int
  BY <1>2 DEF IndInv, TypeOK
<1>4. \A h \in DOMAIN heartbeat_log : heartbeat_log[h] \in Int
  BY <1>2, SequenceFacts DEF IndInv, TypeOK
<1>5. PassInv'
  BY <1>1, <1>2, <1>3, <1>4 DEF IndInv, PassInv, tables
<1>6. TodoInv' /\ CountInv'
  BY <1>1 DEF TodoInv, CountInv
<1>7. HeartbeatInv'
  BY <1>1, <1>2, <1>4, Windows DEF IndInv, HeartbeatInv, Heartbeats, tables
<1> QED BY <1>1, <1>5, <1>6, <1>7, CoordinatorChange

(* A step within a pass. *)
LEMMA SamePass ==
  ASSUME IndInv, UNCHANGED <<clock, tables, startedAt>>,
         coordinator.pc # "idle", coordinator'.pc # "idle", coordinator' \in CoordinatorType,
         coordinator'.now = coordinator.now,
         coordinator'.hour = coordinator.hour, coordinator'.day = coordinator.day,
         coordinator'.todo \subseteq coordinator.todo,
         coordinator'.pc \in {"send", "record"} =>
           coordinator.pc \in {"send", "record"} /\ coordinator'.current = coordinator.current,
         coordinator'.pc = "heartbeat_reserve" =>
           HeartbeatsSince(coordinator.now - Day) < HeartbeatDailyLimit
  PROVE IndInv'
<1> USE DEF IndInv, tables
<1>1. PassTime' = PassTime
  BY DEF PassTime
<1>2. PassInv'
  BY <1>1 DEF PassInv
<1>3. Incidents' = Incidents /\ \A i : AttemptsOf(i)' = AttemptsOf(i)
  BY DEF Incidents, AttemptsOf
<1>4. TodoInv'
  BY <1>3 DEF TodoInv
<1>5. CountInv'
  BY DEF CountInv, AttemptsSince
<1>6. HeartbeatInv'
  BY <1>1 DEF HeartbeatInv, Heartbeats, HeartbeatsSince
<1>7. startedAt' \in {NoTime} \cup 0..clock
  BY DEF TypeOK
<1> QED BY <1>2, <1>4, <1>5, <1>6, <1>7, CoordinatorChange

LEMMA FallbackCandidatesStep ==
  ASSUME IndInv, FallbackCandidates
  PROVE IndInv'
<1> DEFINE todo == {i \in Incidents : Eligible(i, clock)}
           hour == AttemptsSince(clock - Hour)
           day == AttemptsSince(clock - Day)
<1>1. clock \in Nat /\ PassTime = clock /\ UNCHANGED <<clock, tables>>
  BY PassTimeType DEF IndInv, FallbackCandidates, PassTime
<1>2. coordinator' = [pc |-> "scan", now |-> clock, todo |-> todo, current |-> 0, sent |-> FALSE,
                      hour |-> hour, day |-> day]
  BY DEF FallbackCandidates, CoordinatorIdle
<1>3. hour \in Nat /\ day \in Nat /\ todo \subseteq Incidents
  BY AttemptsSinceType DEF IndInv
<1>4. \A i \in todo : /\ ~incidents[i].sms_sent /\ Cardinality(AttemptsOf(i)) < MaxAttempts
                       /\ incidents[i].next_sms_attempt <= clock
  BY DEF Eligible
<1> HIDE DEF todo
<1>5. coordinator' \in CoordinatorType
  BY <1>1, <1>2, <1>3 DEF CoordinatorType
<1>6. /\ coordinator'.pc = "scan" /\ coordinator'.now = clock /\ coordinator'.todo = todo
      /\ coordinator'.hour = hour /\ coordinator'.day = day
  BY <1>2
<1> HIDE DEF hour, day
<1>7. PassTime' = PassTime
  BY <1>1, <1>6 DEF PassTime
<1>8. PassInv'
  BY <1>1, <1>6, <1>7 DEF IndInv, PassInv, tables
<1>9. \A i : AttemptsOf(i)' = AttemptsOf(i)
  BY <1>1 DEF AttemptsOf, tables
<1>10. TodoInv'
  BY <1>1, <1>4, <1>6, <1>9 DEF TodoInv, tables
<1>11. \A t : AttemptsSince(t)' = AttemptsSince(t)
  BY <1>1 DEF AttemptsSince, tables
<1>12. CountInv'
  <2>1. hour <= hour /\ day <= day BY <1>3
  <2> QED BY <1>1, <1>6, <2>1 DEF CountInv, hour, day, AttemptsSince, tables
<1>13. HeartbeatInv'
  BY <1>1, <1>6, <1>7 DEF IndInv, HeartbeatInv, Heartbeats, tables
<1>14. startedAt' \in {NoTime} \cup 0..clock
  BY <1>1 DEF FallbackCandidates, IndInv, TypeOK
<1> QED BY <1>1, <1>5, <1>8, <1>10, <1>12, <1>13, <1>14, CoordinatorChange

LEMMA SkipCandidateStep ==
  ASSUME IndInv, NEW i \in coordinator.todo, SkipCandidate(i)
  PROVE IndInv'
<1>1. /\ coordinator' = [coordinator EXCEPT !.todo = @ \ {i}]
      /\ coordinator.pc = "scan" /\ UNCHANGED <<clock, tables, startedAt>>
  BY DEF SkipCandidate
<1>2. coordinator \in CoordinatorType
  BY DEF IndInv, TypeOK
<1>3. /\ coordinator' \in CoordinatorType /\ coordinator'.pc = coordinator.pc
      /\ coordinator'.now = coordinator.now /\ coordinator'.hour = coordinator.hour
      /\ coordinator'.day = coordinator.day /\ coordinator'.todo \subseteq coordinator.todo
  BY <1>1, <1>2 DEF CoordinatorType
<1> QED BY <1>1, <1>3, SamePass

LEMMA SendStep ==
  ASSUME IndInv, NEW sent \in BOOLEAN, Send(sent)
  PROVE IndInv'
<1> DEFINE next == IF coordinator.pc = "send" THEN "record" ELSE "heartbeat_record"
<1>1. /\ coordinator.pc \in {"send", "heartbeat_send"} /\ UNCHANGED <<clock, tables, startedAt>>
      /\ coordinator' = [[coordinator EXCEPT !.sent = sent] EXCEPT !.pc = next]
  BY DEF Send
<1>2. coordinator \in CoordinatorType
  BY DEF IndInv, TypeOK
<1>3. [coordinator EXCEPT !.sent = sent] \in CoordinatorType
  BY <1>2 DEF CoordinatorType
<1>4. coordinator' \in CoordinatorType
  BY <1>1, <1>3 DEF CoordinatorType
<1>5. /\ coordinator'.pc = next /\ coordinator'.now = coordinator.now
      /\ coordinator'.hour = coordinator.hour /\ coordinator'.day = coordinator.day
      /\ coordinator'.todo = coordinator.todo /\ coordinator'.current = coordinator.current
  BY <1>1, <1>2 DEF CoordinatorType
<1> QED BY <1>1, <1>4, <1>5, SamePass

LEMMA CandidatesDoneStep ==
  ASSUME IndInv, CandidatesDone
  PROVE IndInv'
<1>1. coordinator.pc = "scan" /\ UNCHANGED <<clock, tables, startedAt>>
  BY DEF CandidatesDone
<1>2. coordinator \in CoordinatorType /\ startedAt' \in {NoTime} \cup 0..clock
  BY <1>1 DEF IndInv, TypeOK
<1>3. CASE coordinator' = CoordinatorIdle
  BY <1>1, <1>2, <1>3, IdleStep
<1>4. CASE coordinator' = [coordinator EXCEPT !.pc = "heartbeat"]
  <2>1. /\ coordinator' \in CoordinatorType /\ coordinator'.pc = "heartbeat"
        /\ coordinator'.now = coordinator.now /\ coordinator'.hour = coordinator.hour
        /\ coordinator'.day = coordinator.day /\ coordinator'.todo = coordinator.todo
    BY <1>2, <1>4 DEF CoordinatorType
  <2> QED BY <1>1, <2>1, SamePass
<1> QED BY <1>3, <1>4 DEF CandidatesDone

LEMMA runHeartbeatStep ==
  ASSUME IndInv, runHeartbeat
  PROVE IndInv'
<1>1. coordinator.pc = "heartbeat" /\ UNCHANGED <<clock, tables, startedAt>>
  BY DEF runHeartbeat
<1>2. coordinator \in CoordinatorType /\ startedAt' \in {NoTime} \cup 0..clock
  BY <1>1 DEF IndInv, TypeOK
<1>3. CASE coordinator' = CoordinatorIdle
  BY <1>1, <1>2, <1>3, IdleStep
<1>4. CASE /\ coordinator' = [coordinator EXCEPT !.pc = "heartbeat_reserve"]
           /\ HeartbeatDue(coordinator.now)
  <2>1. /\ coordinator' \in CoordinatorType /\ coordinator'.pc = "heartbeat_reserve"
        /\ coordinator'.now = coordinator.now /\ coordinator'.hour = coordinator.hour
        /\ coordinator'.day = coordinator.day /\ coordinator'.todo = coordinator.todo
    BY <1>2, <1>4 DEF CoordinatorType
  <2>2. HeartbeatsSince(coordinator.now - Day) < HeartbeatDailyLimit
    BY <1>4 DEF HeartbeatDue
  <2> QED BY <1>1, <2>1, <2>2, SamePass
<1> QED BY <1>3, <1>4 DEF runHeartbeat

LEMMA ReserveHeartbeatFailsStep ==
  ASSUME IndInv, ReserveHeartbeatFails
  PROVE IndInv'
<1>1. /\ coordinator' = CoordinatorIdle /\ UNCHANGED <<clock, tables>>
      /\ startedAt' \in {NoTime} \cup 0..clock
  BY DEF ReserveHeartbeatFails, IndInv, TypeOK
<1> QED BY <1>1, IdleStep

LEMMA CrashAndRestartStep ==
  ASSUME IndInv, CrashAndRestart
  PROVE IndInv'
BY IdleStep DEF CrashAndRestart

LEMMA TickStep ==
  ASSUME IndInv, Tick
  PROVE IndInv'
<1>1. /\ clock < MaxClock /\ clock' = clock + 1 /\ UNCHANGED <<tables, coordinator, startedAt>>
      /\ clock \in Nat /\ PassTime \in 0..clock
  BY PassTimeType DEF Tick, IndInv
<1>2. PassTime' \in Int /\ PassTime <= PassTime'
  BY <1>1 DEF PassTime
<1>3. /\ Incidents' = Incidents /\ \A i : AttemptsOf(i)' = AttemptsOf(i)
      /\ \A t : AttemptsSince(t)' = AttemptsSince(t)
  BY <1>1 DEF Incidents, AttemptsOf, AttemptsSince, tables
<1>4. \A a \in fallback_attempts : a.at \in Int
  BY <1>1 DEF IndInv, TypeOK
<1>5. \A h \in DOMAIN heartbeat_log : heartbeat_log[h] \in Int
  BY <1>1, SequenceFacts DEF IndInv, TypeOK
<1>6. TypeOK'
  <2>1. clock' \in Time /\ 0..clock \subseteq 0..clock'
    BY <1>1, Windows DEF Time
  <2>2. fallback_attempts' \subseteq [event : Incidents', at : 0..clock', outcome : Outcomes]
    BY <1>1, <1>3, <2>1 DEF IndInv, TypeOK, tables
  <2>3. heartbeat_log' \in Seq(0..clock')
    <3>1. /\ Len(heartbeat_log) \in Nat
          /\ heartbeat_log = [h \in 1..Len(heartbeat_log) |-> heartbeat_log[h]]
          /\ \A h \in 1..Len(heartbeat_log) : heartbeat_log[h] \in 0..clock
      BY SequenceFacts DEF IndInv, TypeOK
    <3>2. \A h \in 1..Len(heartbeat_log) : heartbeat_log[h] \in 0..clock'
      BY <2>1, <3>1
    <3> QED BY <1>1, <3>1, <3>2 DEF tables
  <2>4. coordinator' \in CoordinatorType'
    BY <1>1, <1>3, <2>1 DEF IndInv, TypeOK, CoordinatorType
  <2>5. heartbeat_attempts' \in [Heartbeats' -> [at : 0..clock', outcome : Outcomes]]
    BY <1>1, <2>1 DEF IndInv, TypeOK, Heartbeats, tables
  <2> QED BY <1>1, <2>1, <2>2, <2>3, <2>4, <2>5 DEF IndInv, TypeOK, Heartbeats, tables
<1>7. PassInv'
  BY <1>1, <1>2, <1>4, <1>5, PassTimeType DEF IndInv, PassInv, tables
<1>8. TodoInv' /\ IncidentBudget'
  BY <1>1, <1>3 DEF IndInv, TodoInv, IncidentBudget, tables
<1>9. AttemptInv' /\ AcceptedIsLast'
  BY <1>1 DEF IndInv, AttemptInv, AcceptedIsLast, tables
<1>10. CountInv' /\ SiteBudget' /\ HeartbeatBudget'
  BY <1>1, <1>3 DEF IndInv, CountInv, SiteBudget, HeartbeatBudget, tables
<1>11. HeartbeatInv'
  BY <1>1, <1>2, <1>5, PassTimeType, Windows
  DEF IndInv, HeartbeatInv, Heartbeats, HeartbeatsSince, tables
<1> QED BY <1>6, <1>7, <1>8, <1>9, <1>10, <1>11 DEF IndInv

-----------------------------------------------------------------------------
(* Reservation and result of an attempt *)

LEMMA OneMore ==
  ASSUME NEW S, IsFiniteSet(S), NEW x, x \notin S
  PROVE /\ IsFiniteSet(S \cup {x}) /\ Cardinality(S) \in Nat
        /\ Cardinality(S \cup {x}) = Cardinality(S) + 1
BY FS_AddElement, FS_CardinalityType

LEMMA Swapped ==
  ASSUME NEW S, IsFiniteSet(S), NEW x \in S, NEW y, y \notin S \ {x}
  PROVE /\ IsFiniteSet((S \ {x}) \cup {y})
        /\ Cardinality((S \ {x}) \cup {y}) = Cardinality(S)
<1>1. /\ IsFiniteSet(S \ {x}) /\ Cardinality(S \ {x}) = Cardinality(S) - 1
      /\ Cardinality(S) \in Nat
  BY FS_RemoveElement, FS_CardinalityType
<1>2. Cardinality((S \ {x}) \cup {y}) = (Cardinality(S) - 1) + 1
  BY <1>1, OneMore
<1> QED BY <1>1, <1>2, OneMore

LEMMA FiniteParts ==
  ASSUME PassInv
  PROVE /\ \A i : IsFiniteSet(AttemptsOf(i)) /\ Cardinality(AttemptsOf(i)) \in Nat
        /\ \A t : /\ IsFiniteSet({a \in fallback_attempts : a.at >= t})
                 /\ AttemptsSince(t) \in Nat
        /\ \A t, w : /\ IsFiniteSet({a \in fallback_attempts : a.at \in (t - w)..t})
                    /\ Cardinality({a \in fallback_attempts : a.at \in (t - w)..t}) \in Nat
<1>1. IsFiniteSet(fallback_attempts)
  BY DEF PassInv
<1>2. ASSUME NEW S, S \subseteq fallback_attempts
      PROVE IsFiniteSet(S) /\ Cardinality(S) \in Nat
  BY <1>1, <1>2, FS_Subset, FS_CardinalityType
<1> QED BY <1>2 DEF AttemptsOf, AttemptsSince

LEMMA ReservedRows ==
  ASSUME IndInv, NEW i \in Incidents, coordinator.now \in 0..clock
  PROVE /\ Reserved(i) \in Seq(IncidentType) /\ DOMAIN Reserved(i) = Incidents
        /\ Reserved(i)[i].sms_attempt_count = incidents[i].sms_attempt_count + 1
        /\ Reserved(i)[i].sms_sent = incidents[i].sms_sent
        /\ Reserved(i)[i].next_sms_attempt >= incidents[i].next_sms_attempt
        /\ Reserved(i)[i].next_sms_attempt >= coordinator.now + RetryInterval
        /\ \A j \in Incidents \ {i} : Reserved(i)[j] = incidents[j]
<1> DEFINE next == coordinator.now + RetryInterval
           count == incidents[i].sms_attempt_count + 1
           counted == [incidents[i] EXCEPT !.sms_attempt_count = count]
           row == [counted EXCEPT !.next_sms_attempt = IF @ < next THEN next ELSE @]
<1>1. incidents \in Seq(IncidentType) /\ incidents[i] \in IncidentType
  BY Rows DEF IndInv
<1>2. clock \in Time /\ next \in 0..(MaxClock + RetryInterval)
  BY Limits, Windows DEF IndInv, TypeOK, Time
<1>3. /\ counted \in IncidentType /\ counted.sms_sent = incidents[i].sms_sent
      /\ counted.sms_attempt_count = count
      /\ counted.next_sms_attempt = incidents[i].next_sms_attempt
  <2>1. count \in Nat BY <1>1 DEF IncidentType
  <2> HIDE DEF count
  <2> QED BY <1>1, <2>1 DEF IncidentType
<1>4. counted.next_sms_attempt \in {NoTime} \cup 0..(MaxClock + RetryInterval)
  BY <1>3 DEF IncidentType
<1> HIDE DEF next
<1>5. /\ row.sms_sent = counted.sms_sent /\ row.sms_attempt_count = counted.sms_attempt_count
      /\ row.next_sms_attempt
           = IF counted.next_sms_attempt < next THEN next ELSE counted.next_sms_attempt
      /\ row \in IncidentType
  <2> HIDE DEF counted
  <2> QED BY <1>2, <1>3, <1>4 DEF IncidentType
<1>6. row.next_sms_attempt >= incidents[i].next_sms_attempt /\ row.next_sms_attempt >= next
  <2> HIDE DEF counted, row
  <2> QED BY <1>2, <1>3, <1>4, <1>5, Limits, Windows
<1>7. Reserved(i) = [incidents EXCEPT ![i] = row]
  BY DEF Reserved, next
<1> HIDE DEF counted, row
<1>8. /\ Reserved(i) \in Seq(IncidentType) /\ DOMAIN Reserved(i) = DOMAIN incidents
      /\ Reserved(i)[i] = row /\ \A j \in DOMAIN incidents \ {i} : Reserved(i)[j] = incidents[j]
  BY <1>1, <1>5, <1>7, SequenceExcept DEF Incidents
<1> QED BY <1>3, <1>5, <1>6, <1>8 DEF Incidents, next

(* What one more attempt, made now, does to a window of w that holds at most `most`. *)
LEMMA WindowAdd ==
  ASSUME TypeOK, PassInv, NEW new, new \notin fallback_attempts, new.at \in Int,
         NEW w \in Nat, NEW most \in Nat,
         AttemptsSince(new.at - w) < most,
         \A t \in Time :
           Cardinality({a \in fallback_attempts : a.at \in (t - w)..t}) <= most
  PROVE \A t \in Time :
          Cardinality({a \in fallback_attempts \cup {new} : a.at \in (t - w)..t}) <= most
<1> TAKE t \in Time
<1> DEFINE old == {a \in fallback_attempts : a.at \in (t - w)..t}
           recent == {a \in fallback_attempts : a.at >= new.at - w}
           all == {a \in fallback_attempts \cup {new} : a.at \in (t - w)..t}
<1>1. IsFiniteSet(old) /\ Cardinality(old) \in Nat /\ IsFiniteSet(recent)
  BY FiniteParts
<1>2. t \in Int /\ \A a \in fallback_attempts : a.at \in Int
  BY PassTimeType, Windows DEF TypeOK, Time
<1>3. CASE new.at \in (t - w)..t
  <2>1. old \subseteq recent
    BY <1>2, <1>3
  <2>2. Cardinality(old) <= Cardinality(recent) /\ Cardinality(recent) \in Nat
    BY <1>1, <2>1, FS_Subset, FS_CardinalityType
  <2>3. Cardinality(recent) < most
    BY DEF AttemptsSince
  <2>4. all = old \cup {new} /\ new \notin old
    BY <1>3
  <2>5. Cardinality(all) = Cardinality(old) + 1
    BY <1>1, <2>4, OneMore
  <2> HIDE DEF all, old, recent
  <2>6. Cardinality(all) <= most
    BY <1>1, <2>2, <2>3, <2>5
  <2> QED BY <2>6 DEF all
<1>4. CASE new.at \notin (t - w)..t
  <2>1. all = old
    BY <1>4
  <2> QED BY <2>1
<1> QED BY <1>3, <1>4

LEMMA ReserveFallbackAttemptStep ==
  ASSUME IndInv, NEW i \in coordinator.todo, ReserveFallbackAttempt(i)
  PROVE IndInv'
<1> DEFINE now == coordinator.now
           new == [event |-> i, at |-> now, outcome |-> "unknown"]
<1>1. /\ coordinator.pc = "scan" /\ coordinator.hour < HourlyLimit /\ coordinator.day < DailyLimit
      /\ fallback_attempts' = fallback_attempts \cup {new}
      /\ incidents' = Reserved(i)
      /\ UNCHANGED <<clock, heartbeat_attempts, heartbeat_log, last_upload_success, startedAt>>
  BY DEF ReserveFallbackAttempt
<1>2. /\ clock \in Nat /\ now \in 0..clock /\ PassTime = now
      /\ coordinator \in CoordinatorType /\ i \in Incidents
      /\ coordinator.hour \in Nat /\ coordinator.day \in Nat
  BY <1>1, PassTimeType DEF IndInv, PassInv, PassTime, TypeOK, CoordinatorType
<1>3. /\ coordinator'.pc = "send" /\ coordinator'.now = now /\ coordinator'.current = i
      /\ coordinator'.todo = coordinator.todo \ {i}
      /\ coordinator'.hour = coordinator.hour + 1 /\ coordinator'.day = coordinator.day + 1
      /\ coordinator' \in CoordinatorType
  <2> DEFINE c1 == [coordinator EXCEPT !.pc = "send"]
             c2 == [c1 EXCEPT !.current = i]
             c3 == [c2 EXCEPT !.todo = @ \ {i}]
             c4 == [c3 EXCEPT !.hour = @ + 1]
             c5 == [c4 EXCEPT !.day = @ + 1]
  <2>1. coordinator' = c5
    BY DEF ReserveFallbackAttempt, CountedAttempt
  <2>2. i \in Nat
    BY <1>2, Rows, SequenceFacts DEF IndInv, Incidents
  <2>3. /\ c1 \in CoordinatorType /\ c1.pc = "send" /\ c1.now = now
        /\ c1.todo = coordinator.todo /\ c1.hour = coordinator.hour /\ c1.day = coordinator.day
    BY <1>2 DEF CoordinatorType
  <2> HIDE DEF c1
  <2>4. /\ c2 \in CoordinatorType /\ c2.pc = "send" /\ c2.now = now /\ c2.current = i
        /\ c2.todo = coordinator.todo /\ c2.hour = coordinator.hour /\ c2.day = coordinator.day
    BY <2>2, <2>3 DEF CoordinatorType
  <2> HIDE DEF c2
  <2>5. /\ c3 \in CoordinatorType /\ c3.pc = "send" /\ c3.now = now /\ c3.current = i
        /\ c3.todo = coordinator.todo \ {i}
        /\ c3.hour = coordinator.hour /\ c3.day = coordinator.day
    BY <2>4 DEF CoordinatorType
  <2> HIDE DEF c3
  <2>6. /\ c4 \in CoordinatorType /\ c4.pc = "send" /\ c4.now = now /\ c4.current = i
        /\ c4.todo = coordinator.todo \ {i}
        /\ c4.hour = coordinator.hour + 1 /\ c4.day = coordinator.day
    BY <2>5 DEF CoordinatorType
  <2> HIDE DEF c4
  <2>7. /\ c5 \in CoordinatorType /\ c5.pc = "send" /\ c5.now = now /\ c5.current = i
        /\ c5.todo = coordinator.todo \ {i}
        /\ c5.hour = coordinator.hour + 1 /\ c5.day = coordinator.day + 1
    BY <2>6 DEF CoordinatorType
  <2> HIDE DEF c5
  <2> QED BY <2>1, <2>7
<1>4. /\ incidents' \in Seq(IncidentType) /\ Incidents' = Incidents
      /\ incidents'[i].sms_attempt_count = incidents[i].sms_attempt_count + 1
      /\ incidents'[i].sms_sent = incidents[i].sms_sent
      /\ incidents'[i].next_sms_attempt >= incidents[i].next_sms_attempt
      /\ incidents'[i].next_sms_attempt >= now + RetryInterval
      /\ \A j \in Incidents \ {i} : incidents'[j] = incidents[j]
  BY <1>1, <1>2, ReservedRows DEF Incidents
<1>5. PassTime' = PassTime
  BY <1>1, <1>2, <1>3 DEF PassTime
<1>6. /\ ~incidents[i].sms_sent /\ Cardinality(AttemptsOf(i)) < MaxAttempts
      /\ incidents[i].next_sms_attempt <= now
  BY DEF IndInv, TodoInv
<1>7. /\ \A a \in fallback_attempts : a.at \in 0..clock /\ a.event \in Incidents /\ a.at <= now
      /\ \A j \in Incidents : incidents[j].next_sms_attempt \in Int
                            /\ incidents'[j].next_sms_attempt \in Int
                            /\ incidents[j].sms_attempt_count \in Nat
  <2>1. \A j \in Incidents : incidents[j] \in IncidentType /\ incidents'[j] \in IncidentType
    BY <1>4, Rows, SequenceFacts DEF IndInv, Incidents
  <2>2. \A row \in IncidentType :
          row.next_sms_attempt \in Int /\ row.sms_attempt_count \in Nat
    BY Limits, Windows DEF IncidentType
  <2>3. \A a \in fallback_attempts : a.at \in 0..clock /\ a.event \in Incidents /\ a.at <= now
    BY <1>2 DEF IndInv, TypeOK, PassInv
  <2> QED BY <2>1, <2>2, <2>3
<1>8. \A a \in AttemptsOf(i) : a.at + RetryInterval <= now /\ a.outcome # "sent"
  BY <1>2, <1>6, <1>7, Limits DEF AttemptsOf, IndInv, AttemptInv
<1>9. /\ new.event = i /\ new.at = now /\ new.outcome = "unknown"
      /\ new \in [event : Incidents, at : 0..clock, outcome : Outcomes]
  BY <1>2 DEF Outcomes
<1> HIDE DEF new
<1>10. new \notin fallback_attempts
  BY <1>2, <1>7, <1>8, <1>9, Limits DEF AttemptsOf
<1>11. TypeOK'
  <2>1. CoordinatorType' = CoordinatorType
    BY <1>1, <1>4 DEF CoordinatorType
  <2>2. fallback_attempts' \subseteq [event : Incidents', at : 0..clock', outcome : Outcomes]
    BY <1>1, <1>4, <1>9 DEF IndInv, TypeOK
  <2> QED BY <1>1, <1>3, <1>4, <2>1, <2>2 DEF IndInv, TypeOK, Heartbeats
<1>12. PassInv'
  <2>1. IsFiniteSet(fallback_attempts')
    BY <1>1, <1>10, OneMore DEF IndInv, PassInv
  <2> QED BY <1>1, <1>2, <1>3, <1>5, <1>9, <2>1 DEF IndInv, PassInv
<1>13. /\ AttemptsOf(i)' = AttemptsOf(i) \cup {new} /\ new \notin AttemptsOf(i)
       /\ \A j \in Incidents \ {i} : AttemptsOf(j)' = AttemptsOf(j)
  BY <1>1, <1>9, <1>10 DEF AttemptsOf
<1>14. TodoInv'
  <2>1. \A j \in coordinator'.todo : j \in Incidents \ {i} /\ j \in coordinator.todo
    BY <1>2, <1>3 DEF CoordinatorType
  <2> QED BY <1>2, <1>3, <1>4, <1>13, <2>1 DEF IndInv, TodoInv
<1>15. AttemptInv'
  <2> SUFFICES ASSUME NEW a \in fallback_attempts'
               PROVE /\ a.at + RetryInterval <= incidents'[a.event].next_sms_attempt
                     /\ a.outcome = "sent" => incidents'[a.event].sms_sent
    BY DEF AttemptInv
  <2>1. CASE a = new
    BY <1>4, <1>9, <2>1
  <2>2. CASE a \in fallback_attempts /\ a.event = i
    <3>1. a \in AttemptsOf(i)
      BY <2>2 DEF AttemptsOf
    <3>2. a.at + RetryInterval <= now /\ a.outcome # "sent"
      BY <1>8, <3>1
    <3>3. a.at \in Int /\ a.at <= now
      BY <1>7, <2>2
    <3>4. incidents'[i].next_sms_attempt >= now + RetryInterval
      BY <1>4
    <3>5. now \in Int /\ RetryInterval \in Nat /\ incidents'[i].next_sms_attempt \in Int
      BY <1>2, <1>7, Limits
    <3> HIDE DEF now
    <3>6. a.at + RetryInterval <= incidents'[i].next_sms_attempt
      BY <3>2, <3>3, <3>4, <3>5
    <3> QED  BY <2>2, <3>2, <3>6
  <2>3. CASE a \in fallback_attempts /\ a.event # i
    BY <1>4, <1>7, <2>3 DEF IndInv, AttemptInv
  <2> QED BY <1>1, <2>1, <2>2, <2>3
<1>16. AcceptedIsLast'
  <2> SUFFICES ASSUME NEW a \in fallback_attempts', NEW b \in fallback_attempts',
                      a.event = b.event, a.outcome = "sent"
               PROVE b.at <= a.at
    BY DEF AcceptedIsLast
  <2>1. a \in fallback_attempts /\ a.event # i
    BY <1>1, <1>8, <1>9 DEF AttemptsOf
  <2>2. b \in fallback_attempts
    BY <1>1, <1>9, <2>1
  <2> QED BY <2>1, <2>2 DEF IndInv, AcceptedIsLast
<1>17. IncidentBudget'
  <2> SUFFICES ASSUME NEW j \in Incidents
               PROVE /\ Cardinality(AttemptsOf(j)') <= MaxAttempts
                     /\ incidents'[j].sms_attempt_count = Cardinality(AttemptsOf(j)')
                     /\ \A a, b \in AttemptsOf(j)' :
                          a # b => a.at - b.at >= RetryInterval \/ b.at - a.at >= RetryInterval
    BY <1>4 DEF IncidentBudget
  <2>1. CASE j # i
    BY <1>4, <1>13, <2>1 DEF IndInv, IncidentBudget
  <2>2. CASE j = i
    <3>1. IsFiniteSet(AttemptsOf(i)) /\ Cardinality(AttemptsOf(i)) \in Nat
      BY FiniteParts DEF IndInv
    <3>2. Cardinality(AttemptsOf(i)') = Cardinality(AttemptsOf(i)) + 1
      BY <1>13, <3>1, OneMore
    <3>3. incidents[i].sms_attempt_count = Cardinality(AttemptsOf(i))
      BY <1>2 DEF IndInv, IncidentBudget
    <3>4. ASSUME NEW a \in AttemptsOf(i)', NEW b \in AttemptsOf(i)', a # b
          PROVE a.at - b.at >= RetryInterval \/ b.at - a.at >= RetryInterval
      <4>1. CASE a = new
        <5>1. b \in AttemptsOf(i) BY <1>13, <3>4, <4>1
        <5> QED BY <1>2, <1>7, <1>8, <1>9, <4>1, <5>1, Limits DEF AttemptsOf
      <4>2. CASE b = new
        <5>1. a \in AttemptsOf(i) BY <1>13, <3>4, <4>2
        <5> QED BY <1>2, <1>7, <1>8, <1>9, <4>2, <5>1, Limits DEF AttemptsOf
      <4>3. CASE a \in AttemptsOf(i) /\ b \in AttemptsOf(i)
        BY <1>2, <3>4, <4>3 DEF IndInv, IncidentBudget
      <4> QED BY <1>13, <4>1, <4>2, <4>3
    <3> QED BY <1>4, <1>6, <2>2, <3>1, <3>2, <3>3, <3>4, Limits
  <2> QED BY <2>1, <2>2
<1>18. /\ AttemptsSince(now - Hour) <= coordinator.hour /\ AttemptsSince(now - Hour) \in Nat
       /\ AttemptsSince(now - Day) <= coordinator.day /\ AttemptsSince(now - Day) \in Nat
  BY <1>1, FiniteParts DEF IndInv, CountInv
<1>19. ASSUME NEW w \in Nat
       PROVE AttemptsSince(now - w)' = AttemptsSince(now - w) + 1
  <2> DEFINE recent == {a \in fallback_attempts : a.at >= now - w}
  <2>1. {a \in fallback_attempts' : a.at >= now - w} = recent \cup {new} /\ new \notin recent
    BY <1>1, <1>2, <1>9, <1>10
  <2>2. IsFiniteSet(recent)
    BY FiniteParts DEF IndInv
  <2>3. Cardinality(recent \cup {new}) = Cardinality(recent) + 1
    BY <2>1, <2>2, OneMore
  <2> QED BY <1>3, <2>1, <2>3 DEF AttemptsSince
<1>20. CountInv'
  <2>1. AttemptsSince(now - Hour)' <= coordinator'.hour
    BY <1>2, <1>3, <1>18, <1>19, Windows
  <2>2. AttemptsSince(now - Day)' <= coordinator'.day
    BY <1>2, <1>3, <1>18, <1>19, Windows
  <2> QED BY <1>3, <2>1, <2>2 DEF CountInv, AttemptsSince
<1>21. SiteBudget'
  <2>1. \A t \in Time :
          Cardinality({a \in fallback_attempts \cup {new} : a.at \in (t - Hour)..t}) <= HourlyLimit
    <3>1. /\ HourlyLimit \in Nat /\ Hour \in Nat /\ new.at \in Int
          /\ AttemptsSince(new.at - Hour) < HourlyLimit
      BY <1>1, <1>2, <1>9, <1>18, Limits, Windows
    <3>2. \A t \in Time :
            Cardinality({a \in fallback_attempts : a.at \in (t - Hour)..t}) <= HourlyLimit
      BY DEF IndInv, SiteBudget
    <3>3. TypeOK /\ PassInv BY DEF IndInv
    <3> QED BY <1>10, <3>1, <3>2, <3>3, WindowAdd, Zenon
  <2>2. \A t \in Time :
          Cardinality({a \in fallback_attempts \cup {new} : a.at \in (t - Day)..t}) <= DailyLimit
    <3>1. /\ DailyLimit \in Nat /\ Day \in Nat /\ new.at \in Int
          /\ AttemptsSince(new.at - Day) < DailyLimit
      BY <1>1, <1>2, <1>9, <1>18, Limits, Windows
    <3>2. \A t \in Time :
            Cardinality({a \in fallback_attempts : a.at \in (t - Day)..t}) <= DailyLimit
      BY DEF IndInv, SiteBudget
    <3>3. TypeOK /\ PassInv BY DEF IndInv
    <3> QED BY <1>10, <3>1, <3>2, <3>3, WindowAdd, Zenon
  <2> QED BY <1>1, <2>1, <2>2 DEF SiteBudget
<1>22. HeartbeatInv' /\ HeartbeatBudget'
  BY <1>1, <1>3, <1>5 DEF IndInv, HeartbeatInv, HeartbeatBudget, Heartbeats
<1> QED BY <1>11, <1>12, <1>14, <1>15, <1>16, <1>17, <1>20, <1>21, <1>22 DEF IndInv

(* The attempt on record gets its outcome: the row it becomes, and what is counted by event
   or time stays as many. *)
LEMMA OutcomeSwap ==
  ASSUME PassInv, NEW x \in fallback_attempts, NEW y,
         y \notin fallback_attempts \ {x}, y.event = x.event, y.at = x.at
  PROVE LET table == (fallback_attempts \ {x}) \cup {y} IN
        /\ IsFiniteSet(table)
        /\ \A i : Cardinality({a \in table : a.event = i}) = Cardinality(AttemptsOf(i))
        /\ \A t : Cardinality({a \in table : a.at >= t}) = AttemptsSince(t)
        /\ \A t, w : Cardinality({a \in table : a.at \in (t - w)..t})
                     = Cardinality({a \in fallback_attempts : a.at \in (t - w)..t})
<1> DEFINE table == (fallback_attempts \ {x}) \cup {y}
<1>1. IsFiniteSet(fallback_attempts)
  BY DEF PassInv
<1>2. ASSUME NEW S, NEW T, S \subseteq fallback_attempts,
             T = IF x \in S THEN (S \ {x}) \cup {y} ELSE S
      PROVE Cardinality(T) = Cardinality(S)
  <2>1. IsFiniteSet(S) BY <1>1, <1>2, FS_Subset
  <2>2. y \notin S \ {x} BY <1>2
  <2>3. CASE x \in S BY <1>2, <2>1, <2>2, <2>3, Swapped
  <2> QED BY <1>2, <2>3
<1>3. ASSUME NEW i
      PROVE Cardinality({a \in table : a.event = i}) = Cardinality(AttemptsOf(i))
  <2> DEFINE T == {a \in table : a.event = i}
             S == {a \in fallback_attempts : a.event = i}
  <2>1. S \subseteq fallback_attempts /\ T = IF x \in S THEN (S \ {x}) \cup {y} ELSE S
    OBVIOUS
  <2> HIDE DEF T, S
  <2>2. Cardinality(T) = Cardinality(S) BY <1>2, <2>1
  <2> QED BY <2>2 DEF T, S, AttemptsOf
<1>4. ASSUME NEW t
      PROVE Cardinality({a \in table : a.at >= t}) = AttemptsSince(t)
  <2> DEFINE T == {a \in table : a.at >= t}
             S == {a \in fallback_attempts : a.at >= t}
  <2>1. S \subseteq fallback_attempts /\ T = IF x \in S THEN (S \ {x}) \cup {y} ELSE S
    OBVIOUS
  <2> HIDE DEF T, S
  <2>2. Cardinality(T) = Cardinality(S) BY <1>2, <2>1
  <2> QED BY <2>2 DEF T, S, AttemptsSince
<1>5. ASSUME NEW t, NEW w
      PROVE Cardinality({a \in table : a.at \in (t - w)..t})
              = Cardinality({a \in fallback_attempts : a.at \in (t - w)..t})
  <2> DEFINE T == {a \in table : a.at \in (t - w)..t}
             S == {a \in fallback_attempts : a.at \in (t - w)..t}
  <2>1. S \subseteq fallback_attempts /\ T = IF x \in S THEN (S \ {x}) \cup {y} ELSE S
    OBVIOUS
  <2> HIDE DEF T, S
  <2>2. Cardinality(T) = Cardinality(S) BY <1>2, <2>1
  <2> QED BY <2>2 DEF T, S
<1>6. IsFiniteSet(table)
  BY <1>1, Swapped
<1> QED BY <1>3, <1>4, <1>5, <1>6

(* The incidents after a result: accepted for good, or due again after the retry interval. *)
LEMMA RecordedRows ==
  ASSUME IndInv, NEW i \in Incidents, coordinator.now \in 0..clock,
         \/ incidents' = [incidents EXCEPT ![i].sms_sent = TRUE]
         \/ incidents' = [incidents EXCEPT ![i].next_sms_attempt = coordinator.now + RetryInterval]
  PROVE /\ incidents' \in Seq(IncidentType) /\ Incidents' = Incidents
        /\ incidents'[i].sms_attempt_count = incidents[i].sms_attempt_count
        /\ incidents[i].sms_sent => incidents'[i].sms_sent
        /\ \/ incidents'[i].next_sms_attempt = incidents[i].next_sms_attempt
           \/ incidents'[i].next_sms_attempt = coordinator.now + RetryInterval
        /\ \A j \in Incidents \ {i} : incidents'[j] = incidents[j]
<1> DEFINE next == coordinator.now + RetryInterval
           accepted == [incidents[i] EXCEPT !.sms_sent = TRUE]
           due == [incidents[i] EXCEPT !.next_sms_attempt = next]
<1>1. incidents \in Seq(IncidentType) /\ incidents[i] \in IncidentType
  BY Rows DEF IndInv
<1>2. next \in {NoTime} \cup 0..(MaxClock + RetryInterval)
  <2>1. clock \in 0..MaxClock BY DEF IndInv, TypeOK, Time
  <2>2. next \in 0..(MaxClock + RetryInterval) BY <2>1, Limits, Windows
  <2> QED BY <2>2
<1>3. PICK row \in {accepted, due} : incidents' = [incidents EXCEPT ![i] = row]
  OBVIOUS
<1> HIDE DEF next
<1>4. /\ row \in IncidentType /\ row.sms_attempt_count = incidents[i].sms_attempt_count
      /\ incidents[i].sms_sent => row.sms_sent
      /\ row.next_sms_attempt = incidents[i].next_sms_attempt \/ row.next_sms_attempt = next
  BY <1>1, <1>2 DEF IncidentType
<1> HIDE DEF accepted, due
<1>5. /\ incidents' \in Seq(IncidentType) /\ DOMAIN incidents' = DOMAIN incidents
      /\ incidents'[i] = row /\ \A j \in DOMAIN incidents \ {i} : incidents'[j] = incidents[j]
  BY <1>1, <1>3, <1>4, SequenceExcept DEF Incidents
<1> QED BY <1>4, <1>5 DEF Incidents, next

\* What the result of an attempt leaves as it is.
LEMMA RecordFrame ==
  ASSUME IndInv, NEW written \in BOOLEAN, RecordFallbackAttempt(written)
  PROVE /\ coordinator.pc = "record" /\ coordinator.now \in 0..clock /\ PassTime = coordinator.now
        /\ coordinator.current \in Incidents /\ coordinator.current \notin coordinator.todo
        /\ coordinator'.pc = "scan" /\ coordinator'.now = coordinator.now
        /\ coordinator'.todo = coordinator.todo /\ coordinator'.hour = coordinator.hour
        /\ coordinator'.day = coordinator.day /\ coordinator' \in CoordinatorType
        /\ PassTime' = PassTime /\ clock \in Nat
        /\ UNCHANGED <<clock, heartbeat_attempts, heartbeat_log, last_upload_success, startedAt>>
<1> DEFINE c1 == [coordinator EXCEPT !.pc = "scan"]
           c2 == [c1 EXCEPT !.current = 0]
           c3 == [c2 EXCEPT !.sent = FALSE]
<1>1. /\ coordinator.pc = "record" /\ coordinator' = c3
      /\ UNCHANGED <<clock, heartbeat_attempts, heartbeat_log, last_upload_success, startedAt>>
  BY DEF RecordFallbackAttempt
<1>2. /\ coordinator.now \in 0..clock /\ PassTime = coordinator.now /\ clock \in Nat
      /\ coordinator.current \in Incidents /\ coordinator.current \notin coordinator.todo
  BY <1>1, PassTimeType DEF IndInv, PassInv, PassTime, TodoInv
<1>3. coordinator \in CoordinatorType
  BY DEF IndInv, TypeOK
<1>4. /\ c1 \in CoordinatorType /\ c1.pc = "scan" /\ c1.now = coordinator.now
      /\ c1.todo = coordinator.todo /\ c1.hour = coordinator.hour /\ c1.day = coordinator.day
  BY <1>3 DEF CoordinatorType
<1> HIDE DEF c1
<1>5. /\ c2 \in CoordinatorType /\ c2.pc = "scan" /\ c2.now = coordinator.now
      /\ c2.todo = coordinator.todo /\ c2.hour = coordinator.hour /\ c2.day = coordinator.day
  BY <1>4 DEF CoordinatorType
<1> HIDE DEF c2
<1>6. /\ c3 \in CoordinatorType /\ c3.pc = "scan" /\ c3.now = coordinator.now
      /\ c3.todo = coordinator.todo /\ c3.hour = coordinator.hour /\ c3.day = coordinator.day
  BY <1>5 DEF CoordinatorType
<1> HIDE DEF c3
<1>7. PassTime' = PassTime
  BY <1>1, <1>2, <1>6 DEF PassTime
<1> QED BY <1>1, <1>2, <1>6, <1>7

\* The result was not written, or there was no attempt to write it to.
LEMMA RecordNothing ==
  ASSUME IndInv, NEW written \in BOOLEAN, RecordFallbackAttempt(written),
         UNCHANGED fallback_attempts,
         Incidents' = Incidents, incidents' \in Seq(IncidentType),
         \A j \in Incidents :
           /\ incidents'[j].sms_attempt_count = incidents[j].sms_attempt_count
           /\ incidents[j].sms_sent => incidents'[j].sms_sent
           /\ \A a \in AttemptsOf(j) : a.at + RetryInterval <= incidents'[j].next_sms_attempt
           /\ j \in coordinator.todo => incidents'[j] = incidents[j]
  PROVE IndInv'
<1>1. \A j : AttemptsOf(j)' = AttemptsOf(j)
  BY DEF AttemptsOf
<1>2. TypeOK'
  <2>1. CoordinatorType' = CoordinatorType
    BY RecordFrame DEF CoordinatorType
  <2> QED BY <2>1, RecordFrame DEF IndInv, TypeOK, Heartbeats
<1>3. PassInv'
  BY RecordFrame DEF IndInv, PassInv
<1>4. TodoInv'
  <2>1. coordinator.todo \subseteq Incidents
    BY DEF IndInv, TypeOK, CoordinatorType
  <2> QED BY <1>1, <2>1, RecordFrame DEF IndInv, TodoInv
<1>5. AttemptInv' /\ AcceptedIsLast'
  BY DEF IndInv, TypeOK, AttemptInv, AcceptedIsLast, AttemptsOf
<1>6. IncidentBudget'
  BY <1>1 DEF IndInv, IncidentBudget
<1>7. CountInv' /\ SiteBudget'
  BY RecordFrame DEF IndInv, CountInv, SiteBudget, AttemptsSince
<1>8. HeartbeatInv' /\ HeartbeatBudget'
  BY RecordFrame DEF IndInv, HeartbeatInv, HeartbeatBudget, Heartbeats
<1> QED BY <1>2, <1>3, <1>4, <1>5, <1>6, <1>7, <1>8 DEF IndInv

LEMMA RecordFallbackAttemptStep ==
  ASSUME IndInv, NEW written \in BOOLEAN, RecordFallbackAttempt(written)
  PROVE IndInv'
<1> DEFINE i == coordinator.current
           now == coordinator.now
           outcome == Outcome(coordinator.sent)
           mine == {a \in fallback_attempts : a.event = i /\ a.at = now}
<1>1. /\ now \in 0..clock /\ clock \in Nat /\ PassTime = now /\ i \in Incidents
      /\ i \notin coordinator.todo /\ coordinator.todo \subseteq Incidents
      /\ coordinator'.todo = coordinator.todo /\ coordinator'.now = now
  BY RecordFrame DEF IndInv, TypeOK, CoordinatorType
<1>2. \A a \in fallback_attempts :
        /\ a \in [event : Incidents, at : 0..clock, outcome : Outcomes]
        /\ a.at \in Int /\ a.event \in Incidents /\ a.at <= now
  BY <1>1 DEF IndInv, TypeOK, PassInv
<1>3. \A j \in Incidents : incidents[j].next_sms_attempt \in Int
  BY Rows, Limits, Windows DEF IndInv, IncidentType
<1>4. \A a \in fallback_attempts : a.at + RetryInterval <= incidents[a.event].next_sms_attempt
  BY DEF IndInv, AttemptInv
<1>5. CASE ~written
  <2>1. UNCHANGED <<fallback_attempts, incidents>>
    BY <1>5 DEF RecordFallbackAttempt
  <2>2. Incidents' = Incidents /\ incidents' \in Seq(IncidentType)
    BY <2>1, Rows DEF Incidents, IndInv
  <2> QED BY <1>4, <2>1, <2>2, RecordNothing DEF AttemptsOf
<1>6. CASE written
  <2>1. /\ fallback_attempts' = (fallback_attempts \ mine)
                                \cup {[a EXCEPT !.outcome = outcome] : a \in mine}
        /\ incidents' = IF coordinator.sent
             THEN [incidents EXCEPT ![i].sms_sent = TRUE]
             ELSE [incidents EXCEPT ![i].next_sms_attempt = now + RetryInterval]
    BY <1>6 DEF RecordFallbackAttempt
  <2>2. /\ incidents' \in Seq(IncidentType) /\ Incidents' = Incidents
        /\ incidents'[i].sms_attempt_count = incidents[i].sms_attempt_count
        /\ incidents[i].sms_sent => incidents'[i].sms_sent
        /\ \/ incidents'[i].next_sms_attempt = incidents[i].next_sms_attempt
           \/ incidents'[i].next_sms_attempt = now + RetryInterval
        /\ \A j \in Incidents \ {i} : incidents'[j] = incidents[j]
    BY <1>1, <2>1, RecordedRows
  <2>3. \A a \in fallback_attempts : a.at + RetryInterval <= incidents'[a.event].next_sms_attempt
    <3> SUFFICES ASSUME NEW a \in fallback_attempts
                 PROVE a.at + RetryInterval <= incidents'[a.event].next_sms_attempt
      OBVIOUS
    <3>1. CASE a.event = i BY <1>1, <1>2, <1>4, <2>2, <3>1, Limits
    <3>2. CASE a.event # i BY <1>2, <1>4, <2>2, <3>2
    <3> QED BY <3>1, <3>2
  <2>4. \A j \in Incidents :
          /\ incidents'[j].sms_attempt_count = incidents[j].sms_attempt_count
          /\ incidents[j].sms_sent => incidents'[j].sms_sent
          /\ j \in coordinator.todo => incidents'[j] = incidents[j]
    BY <1>1, <2>2
  <2>5. CASE mine = {}
    <3>1. fallback_attempts' = fallback_attempts
      BY <2>1, <2>5
    <3> QED BY <2>2, <2>3, <2>4, <3>1, RecordNothing DEF AttemptsOf
  <2>6. CASE mine # {}
    <3>1. PICK x \in fallback_attempts : x.event = i /\ x.at = now
      BY <2>6
    <3> DEFINE y == [x EXCEPT !.outcome = outcome]
    <3>2. mine = {x}
      <4>1. \A a, b \in AttemptsOf(i) :
              a # b => a.at - b.at >= RetryInterval \/ b.at - a.at >= RetryInterval
        BY <1>1 DEF IndInv, IncidentBudget
      <4> QED BY <1>2, <3>1, <4>1, Limits DEF AttemptsOf
    <3>3. fallback_attempts' = (fallback_attempts \ {x}) \cup {y}
      BY <2>1, <3>2
    <3>4. /\ y.event = i /\ y.at = now /\ y.outcome = outcome
          /\ y \in [event : Incidents, at : 0..clock, outcome : Outcomes]
      BY <1>2, <3>1 DEF Outcome, Outcomes
    <3>5. outcome = "sent" => incidents'[i].sms_sent
      <4>1. CASE coordinator.sent
        <5>1. incidents' = [incidents EXCEPT ![i].sms_sent = TRUE] /\ i \in DOMAIN incidents
          BY <1>1, <2>1, <4>1 DEF Incidents
        <5>2. incidents[i] \in IncidentType
          BY <1>1, Rows DEF IndInv
        <5> QED BY <5>1, <5>2 DEF IncidentType
      <4>2. CASE ~coordinator.sent
        BY <4>2 DEF Outcome
      <4> QED BY <4>1, <4>2
    <3> HIDE DEF y, outcome, mine
    <3>6. y \notin fallback_attempts \ {x}
      BY <3>2, <3>4 DEF mine
    <3>7. /\ IsFiniteSet(fallback_attempts')
          /\ \A j : Cardinality({a \in fallback_attempts' : a.event = j})
                     = Cardinality(AttemptsOf(j))
          /\ \A t : Cardinality({a \in fallback_attempts' : a.at >= t}) = AttemptsSince(t)
          /\ \A t, w : Cardinality({a \in fallback_attempts' : a.at \in (t - w)..t})
                       = Cardinality({a \in fallback_attempts : a.at \in (t - w)..t})
      BY <3>1, <3>3, <3>4, <3>6, OutcomeSwap DEF IndInv
    <3>8. TypeOK'
      <4>1. CoordinatorType' = CoordinatorType
        BY <2>2, RecordFrame DEF CoordinatorType
      <4>2. fallback_attempts' \subseteq [event : Incidents', at : 0..clock', outcome : Outcomes]
        BY <1>2, <2>2, <3>3, <3>4, RecordFrame
      <4> QED BY <2>2, <4>1, <4>2, RecordFrame DEF IndInv, TypeOK, Heartbeats
    <3>9. PassInv'
      BY <1>1, <1>2, <3>3, <3>4, <3>7, RecordFrame DEF IndInv, PassInv
    <3>10. \A j : Cardinality(AttemptsOf(j)') = Cardinality(AttemptsOf(j))
      BY <3>7 DEF AttemptsOf
    <3>11. TodoInv'
      BY <1>1, <2>2, <2>4, <3>10, RecordFrame DEF IndInv, TodoInv
    <3>12. AttemptInv'
      <4>1. \A a \in fallback_attempts : a.outcome = "sent" => incidents'[a.event].sms_sent
        BY <1>2, <2>4 DEF IndInv, AttemptInv
      <4>2. y.at + RetryInterval <= incidents'[y.event].next_sms_attempt
        BY <2>3, <3>1, <3>4
      <4> QED BY <2>3, <3>3, <3>4, <3>5, <4>1, <4>2 DEF AttemptInv
    <3>13. AcceptedIsLast'
      <4> SUFFICES ASSUME NEW a \in fallback_attempts', NEW b \in fallback_attempts',
                          a.event = b.event, a.outcome = "sent"
                   PROVE b.at <= a.at
        BY DEF AcceptedIsLast
      <4>1. CASE a = y
        BY <1>1, <1>2, <3>3, <3>4, <4>1
      <4>2. CASE a \in fallback_attempts /\ b = y
        BY <3>1, <3>4, <4>2 DEF IndInv, AcceptedIsLast
      <4>3. CASE a \in fallback_attempts /\ b \in fallback_attempts
        BY <4>3 DEF IndInv, AcceptedIsLast
      <4> QED BY <3>3, <4>1, <4>2, <4>3
    <3>14. IncidentBudget'
      <4> SUFFICES ASSUME NEW j \in Incidents
                   PROVE /\ Cardinality(AttemptsOf(j)') <= MaxAttempts
                         /\ incidents'[j].sms_attempt_count = Cardinality(AttemptsOf(j)')
                         /\ \A a, b \in AttemptsOf(j)' :
                              a # b => a.at - b.at >= RetryInterval
                                       \/ b.at - a.at >= RetryInterval
        BY <2>2 DEF IncidentBudget
      <4>1. /\ Cardinality(AttemptsOf(j)) <= MaxAttempts
            /\ incidents[j].sms_attempt_count = Cardinality(AttemptsOf(j))
            /\ \A a, b \in AttemptsOf(j) :
                 a # b => a.at - b.at >= RetryInterval \/ b.at - a.at >= RetryInterval
        BY DEF IndInv, IncidentBudget
      <4>2. ASSUME NEW a \in AttemptsOf(j)', NEW b \in AttemptsOf(j)', a # b
            PROVE a.at - b.at >= RetryInterval \/ b.at - a.at >= RetryInterval
        <5>1. CASE a = y
          <6>1. b \in AttemptsOf(j) /\ b # x /\ x \in AttemptsOf(j) /\ x.at = a.at
            BY <3>1, <3>3, <3>4, <4>2, <5>1 DEF AttemptsOf
          <6> QED BY <4>1, <6>1
        <5>2. CASE b = y
          <6>1. a \in AttemptsOf(j) /\ a # x /\ x \in AttemptsOf(j) /\ x.at = b.at
            BY <3>1, <3>3, <3>4, <4>2, <5>2 DEF AttemptsOf
          <6> QED BY <4>1, <6>1
        <5>3. CASE a # y /\ b # y
          <6>1. a \in AttemptsOf(j) /\ b \in AttemptsOf(j)
            BY <3>3, <4>2, <5>3 DEF AttemptsOf
          <6> QED BY <4>1, <4>2, <6>1
        <5> QED BY <5>1, <5>2, <5>3
      <4> QED BY <2>4, <3>10, <4>1, <4>2
    <3>15. CountInv' /\ SiteBudget'
      BY <3>7, RecordFrame DEF IndInv, CountInv, SiteBudget, AttemptsSince
    <3>16. HeartbeatInv' /\ HeartbeatBudget'
      BY RecordFrame DEF IndInv, HeartbeatInv, HeartbeatBudget, Heartbeats
    <3> QED BY <3>8, <3>9, <3>11, <3>12, <3>13, <3>14, <3>15, <3>16 DEF IndInv
  <2> QED BY <2>5, <2>6
<1> QED BY <1>5, <1>6

-----------------------------------------------------------------------------
(* Heartbeats *)

LEMMA ReserveHeartbeatStep ==
  ASSUME IndInv, ReserveHeartbeat
  PROVE IndInv'
<1> DEFINE now == coordinator.now
           n == Len(heartbeat_log)
           row == [at |-> now, outcome |-> "unknown"]
           kept == Retained(now)
<1>1. /\ coordinator.pc = "heartbeat_reserve"
      /\ heartbeat_log' = Append(heartbeat_log, now)
      /\ heartbeat_attempts' = Put(Restrict(heartbeat_attempts, kept), n + 1, row)
      /\ UNCHANGED <<clock, incidents, fallback_attempts, last_upload_success, startedAt>>
  BY DEF ReserveHeartbeat, HeartbeatSequence
<1>2. /\ now \in 0..clock /\ clock \in Nat /\ PassTime = now /\ coordinator \in CoordinatorType
  BY <1>1, PassTimeType DEF IndInv, PassInv, PassTime, TypeOK
<1>3. /\ heartbeat_log \in Seq(0..clock) /\ n \in Nat /\ DOMAIN heartbeat_log = 1..n
      /\ \A h \in 1..n : heartbeat_log[h] \in 0..clock /\ heartbeat_log[h] <= now
  BY <1>2, SequenceFacts DEF IndInv, TypeOK, PassInv
<1>4. /\ heartbeat_log' \in Seq(0..clock) /\ DOMAIN heartbeat_log' = 1..n \cup {n + 1}
      /\ n + 1 \notin 1..n /\ heartbeat_log'[n + 1] = now
      /\ \A h \in 1..n : heartbeat_log'[h] = heartbeat_log[h]
  BY <1>1, <1>2, <1>3, SequenceAppend
<1>5. /\ Heartbeats \subseteq 1..n /\ kept \subseteq Heartbeats
      /\ \A h \in Heartbeats : /\ heartbeat_attempts[h] \in [at : 0..clock, outcome : Outcomes]
                             /\ heartbeat_attempts[h].at = heartbeat_log[h]
      /\ \A h \in Heartbeats \ kept : heartbeat_log[h] < now - HeartbeatRetention
  <2>1. /\ Heartbeats \subseteq 1..n
        /\ \A h \in Heartbeats : heartbeat_attempts[h] \in [at : 0..clock, outcome : Outcomes]
    BY <1>3 DEF IndInv, TypeOK
  <2>2. \A h \in Heartbeats : heartbeat_attempts[h].at = heartbeat_log[h]
    BY DEF IndInv, HeartbeatInv
  <2>3. \A h \in Heartbeats : heartbeat_attempts[h].at \in Int
    BY <1>2, <2>1
  <2>4. now - HeartbeatRetention \in Int
    BY <1>2, Windows
  <2>5. kept \subseteq Heartbeats
    BY DEF Retained
  <2>6. \A h \in Heartbeats \ kept : heartbeat_log[h] < now - HeartbeatRetention
    <3> TAKE h \in Heartbeats \ kept
    <3>1. ~ (heartbeat_attempts[h].at >= now - HeartbeatRetention)
      BY DEF Retained
    <3> HIDE DEF kept, now, n
    <3> QED BY <2>2, <2>3, <2>4, <3>1
  <2> HIDE DEF kept, now, n
  <2> QED BY <2>1, <2>2, <2>5, <2>6
<1>6. /\ Heartbeats' = kept \cup {n + 1}
      /\ heartbeat_attempts'[n + 1] = row
      /\ \A h \in kept : heartbeat_attempts'[h] = heartbeat_attempts[h]
      /\ heartbeat_attempts' = [h \in Heartbeats' |-> heartbeat_attempts'[h]]
  BY <1>1, <1>4, <1>5 DEF Put, Restrict, Heartbeats
<1>7. /\ coordinator'.pc = "heartbeat_send" /\ coordinator'.now = now
      /\ coordinator'.todo = coordinator.todo /\ coordinator'.hour = coordinator.hour
      /\ coordinator'.day = coordinator.day /\ coordinator' \in CoordinatorType
  <2> DEFINE c1 == [coordinator EXCEPT !.pc = "heartbeat_send"]
             c2 == [c1 EXCEPT !.current = n + 1]
  <2>1. coordinator' = c2
    BY DEF ReserveHeartbeat, HeartbeatSequence
  <2>2. /\ c1 \in CoordinatorType /\ c1.pc = "heartbeat_send" /\ c1.now = now
        /\ c1.todo = coordinator.todo /\ c1.hour = coordinator.hour /\ c1.day = coordinator.day
    BY <1>2 DEF CoordinatorType
  <2> HIDE DEF c1
  <2>3. n + 1 \in Nat BY <1>3
  <2> HIDE DEF n
  <2>4. /\ c2 \in CoordinatorType /\ c2.pc = "heartbeat_send" /\ c2.now = now
        /\ c2.todo = coordinator.todo /\ c2.hour = coordinator.hour /\ c2.day = coordinator.day
    BY <2>2, <2>3 DEF CoordinatorType
  <2> QED BY <2>1, <2>4
<1>8. PassTime' = now
  BY <1>7 DEF PassTime
<1>9. HeartbeatsSince(now - Day) < HeartbeatDailyLimit
  BY <1>1 DEF IndInv, HeartbeatInv
<1> HIDE DEF row, kept, n
<1>10. row.at = now /\ row \in [at : 0..clock, outcome : Outcomes]
  BY <1>2 DEF row, Outcomes
<1>11. TypeOK'
  <2>1. CoordinatorType' = CoordinatorType /\ Incidents' = Incidents
    BY <1>1 DEF CoordinatorType, Incidents
  <2>2. \A h \in Heartbeats' : heartbeat_attempts'[h] \in [at : 0..clock, outcome : Outcomes]
    BY <1>5, <1>6, <1>10
  <2>3. heartbeat_attempts' \in [Heartbeats' -> [at : 0..clock, outcome : Outcomes]]
    BY <1>6, <2>2
  <2>4. Heartbeats' \subseteq DOMAIN heartbeat_log'
    BY <1>4, <1>5, <1>6
  <2> QED BY <1>1, <1>4, <1>7, <2>1, <2>3, <2>4 DEF IndInv, TypeOK
<1>12. PassInv'
  BY <1>1, <1>2, <1>3, <1>4, <1>7, <1>8 DEF IndInv, PassInv
<1>13. \A j : AttemptsOf(j)' = AttemptsOf(j)
  BY <1>1 DEF AttemptsOf
<1>14. TodoInv' /\ IncidentBudget'
  BY <1>1, <1>7, <1>13 DEF IndInv, TodoInv, IncidentBudget, Incidents
<1>15. AttemptInv' /\ AcceptedIsLast' /\ CountInv' /\ SiteBudget'
  BY <1>1, <1>7 DEF IndInv, AttemptInv, AcceptedIsLast, CountInv, SiteBudget, AttemptsSince
<1>16. HeartbeatInv'
  <2>1. \A h \in Heartbeats' : heartbeat_attempts'[h].at = heartbeat_log'[h]
    BY <1>4, <1>5, <1>6, <1>10
  <2>2. \A h \in DOMAIN heartbeat_log' \ Heartbeats' :
          heartbeat_log'[h] < PassTime' - HeartbeatRetention
    <3> TAKE h \in DOMAIN heartbeat_log' \ Heartbeats'
    <3>1. h \in 1..n /\ h \notin kept
      BY <1>4, <1>6
    <3>2. CASE h \in Heartbeats
      BY <1>4, <1>5, <1>8, <3>1, <3>2
    <3>3. CASE h \notin Heartbeats
      BY <1>2, <1>3, <1>4, <1>8, <3>1, <3>3 DEF IndInv, HeartbeatInv
    <3> QED BY <3>2, <3>3
  <2> QED BY <1>7, <2>1, <2>2 DEF HeartbeatInv
<1>17. HeartbeatBudget'
  <2> SUFFICES ASSUME NEW t \in Time
               PROVE Cardinality({h \in DOMAIN heartbeat_log' : heartbeat_log'[h] \in (t - Day)..t})
                       <= HeartbeatDailyLimit
    BY DEF HeartbeatBudget
  <2> DEFINE old == {h \in 1..n : heartbeat_log[h] \in (t - Day)..t}
             all == {h \in DOMAIN heartbeat_log' : heartbeat_log'[h] \in (t - Day)..t}
             recent == {h \in Heartbeats : heartbeat_attempts[h].at >= now - Day}
  <2>1. IsFiniteSet(1..n)
    BY <1>3, FS_Interval
  <2>2. IsFiniteSet(old) /\ IsFiniteSet(recent)
    BY <1>5, <2>1, FS_Subset
  <2>3. Cardinality(old) \in Nat /\ Cardinality(recent) \in Nat /\ Cardinality(old) <= HeartbeatDailyLimit
    BY <1>3, <2>2, FS_CardinalityType DEF IndInv, HeartbeatBudget
  <2>4. CASE now \in (t - Day)..t
    <3>1. old \subseteq recent
      <4>1. t \in Int BY Windows DEF Time
      <4>2. ASSUME NEW h \in 1..n, heartbeat_log[h] \in (t - Day)..t
            PROVE h \in Heartbeats /\ heartbeat_attempts[h].at >= now - Day
        <5>1. heartbeat_log[h] >= now - Day /\ heartbeat_log[h] \in Int
          BY <1>2, <2>4, <4>1, <4>2, Windows
        <5>2. h \in Heartbeats
          <6> SUFFICES ASSUME h \notin Heartbeats PROVE FALSE
            OBVIOUS
          <6>1. heartbeat_log[h] < PassTime - HeartbeatRetention
            BY <1>3, <4>2 DEF IndInv, HeartbeatInv
          <6> QED BY <1>2, <5>1, <6>1, Windows
        <5> QED BY <1>5, <5>1, <5>2
      <4> HIDE DEF n, now
      <4> QED BY <4>2
    <3>2. Cardinality(old) <= Cardinality(recent)
      BY <2>2, <3>1, FS_Subset
    <3>3. Cardinality(recent) < HeartbeatDailyLimit
      BY <1>9 DEF HeartbeatsSince
    <3>4. all = old \cup {n + 1} /\ n + 1 \notin old
      BY <1>4, <2>4
    <3>5. Cardinality(all) = Cardinality(old) + 1
      BY <2>2, <3>4, OneMore
    <3> HIDE DEF all, old, recent
    <3>6. Cardinality(all) <= HeartbeatDailyLimit
      BY <2>3, <3>2, <3>3, <3>5, Limits
    <3> QED BY <3>6 DEF all
  <2>5. CASE now \notin (t - Day)..t
    <3>1. all = old
      BY <1>4, <2>5
    <3> QED BY <2>3, <3>1
  <2> QED BY <2>4, <2>5
<1> QED BY <1>11, <1>12, <1>14, <1>15, <1>16, <1>17 DEF IndInv

LEMMA RecordHeartbeatStep ==
  ASSUME IndInv, NEW written \in BOOLEAN, RecordHeartbeat(written)
  PROVE IndInv'
<1> DEFINE outcome == Outcome(coordinator.sent)
           h == coordinator.current
<1>1. /\ coordinator.pc = "heartbeat_record" /\ coordinator' = CoordinatorIdle
      /\ UNCHANGED <<clock, incidents, fallback_attempts, heartbeat_log, last_upload_success,
                     startedAt>>
      /\ \/ heartbeat_attempts' = heartbeat_attempts
         \/ heartbeat_attempts' = [heartbeat_attempts EXCEPT ![h].outcome = outcome]
  BY DEF RecordHeartbeat
<1>2. /\ coordinator' \in CoordinatorType /\ coordinator'.pc = "idle" /\ coordinator'.todo = {}
  BY <1>1 DEF CoordinatorIdle, CoordinatorType
<1>3. /\ clock \in Nat /\ PassTime \in 0..clock /\ PassTime' = clock
  BY <1>1, <1>2, PassTimeType DEF IndInv, PassTime
<1>4. outcome \in Outcomes
  BY DEF Outcome, Outcomes
<1>5. /\ heartbeat_attempts' \in [Heartbeats -> [at : 0..clock, outcome : Outcomes]]
      /\ Heartbeats' = Heartbeats
      /\ \A k \in Heartbeats : heartbeat_attempts'[k].at = heartbeat_attempts[k].at
  <2>1. heartbeat_attempts \in [Heartbeats -> [at : 0..clock, outcome : Outcomes]]
    BY DEF IndInv, TypeOK
  <2> HIDE DEF outcome
  <2> QED BY <1>1, <1>4, <2>1 DEF Heartbeats
<1>6. /\ \A a \in fallback_attempts : a.at \in Int
      /\ \A k \in DOMAIN heartbeat_log : heartbeat_log[k] \in Int
  BY <1>3, SequenceFacts DEF IndInv, TypeOK
<1>7. TypeOK'
  <2>1. CoordinatorType' = CoordinatorType /\ Incidents' = Incidents
    BY <1>1 DEF CoordinatorType, Incidents
  <2> QED BY <1>1, <1>2, <1>5, <2>1 DEF IndInv, TypeOK
<1>8. PassInv'
  BY <1>1, <1>2, <1>3, <1>6 DEF IndInv, PassInv
<1>9. TodoInv' /\ CountInv'
  BY <1>2 DEF TodoInv, CountInv
<1>10. \A j : AttemptsOf(j)' = AttemptsOf(j)
  BY <1>1 DEF AttemptsOf
<1>11. IncidentBudget'
  BY <1>1, <1>10 DEF IndInv, IncidentBudget, Incidents
<1>12. AttemptInv' /\ AcceptedIsLast' /\ SiteBudget' /\ HeartbeatBudget'
  BY <1>1 DEF IndInv, AttemptInv, AcceptedIsLast, SiteBudget, HeartbeatBudget
<1>13. HeartbeatInv'
  BY <1>1, <1>2, <1>3, <1>5, <1>6, Windows DEF IndInv, HeartbeatInv
<1> QED BY <1>7, <1>8, <1>9, <1>11, <1>12, <1>13 DEF IndInv

-----------------------------------------------------------------------------
(* The theorems *)

LEMMA InitIndInv == Init => IndInv
<1> SUFFICES ASSUME Init PROVE IndInv
  OBVIOUS
<1>1. /\ clock = 0 /\ incidents = << >> /\ fallback_attempts = {} /\ heartbeat_attempts = << >>
      /\ heartbeat_log = << >> /\ last_upload_success = NoTime /\ coordinator = CoordinatorIdle
      /\ startedAt = NoTime
  BY DEF Init
<1>2. /\ coordinator \in CoordinatorType /\ coordinator.pc = "idle" /\ coordinator.todo = {}
  BY <1>1 DEF CoordinatorIdle, CoordinatorType
<1>3. Incidents = {} /\ Heartbeats = {} /\ DOMAIN heartbeat_log = {}
  BY <1>1 DEF Incidents, Heartbeats
<1>4. IsFiniteSet({}) /\ Cardinality({}) = 0
  BY FS_EmptySet
<1>5. TypeOK
  BY <1>1, <1>2, <1>3, Windows DEF TypeOK, Time, Heartbeats
<1>6. PassInv /\ TodoInv /\ AttemptInv /\ CountInv
  BY <1>1, <1>2, <1>3, <1>4 DEF PassInv, TodoInv, AttemptInv, CountInv
<1>7. IncidentBudget /\ AcceptedIsLast
  BY <1>1, <1>3 DEF IncidentBudget, AcceptedIsLast
<1>8. SiteBudget
  <2> SUFFICES ASSUME NEW t \in Time
               PROVE /\ Cardinality({a \in fallback_attempts : a.at \in (t - Hour)..t}) <= HourlyLimit
                     /\ Cardinality({a \in fallback_attempts : a.at \in (t - Day)..t}) <= DailyLimit
    BY DEF SiteBudget
  <2>1. /\ {a \in fallback_attempts : a.at \in (t - Hour)..t} = {}
        /\ {a \in fallback_attempts : a.at \in (t - Day)..t} = {}
    BY <1>1
  <2>2. 0 <= HourlyLimit /\ 0 <= DailyLimit
    BY Limits
  <2> QED BY <1>4, <2>1, <2>2
<1>9. HeartbeatInv
  BY <1>2, <1>3 DEF HeartbeatInv
<1>10. HeartbeatBudget
  <2> SUFFICES ASSUME NEW t \in Time
               PROVE Cardinality({h \in DOMAIN heartbeat_log : heartbeat_log[h] \in (t - Day)..t})
                       <= HeartbeatDailyLimit
    BY DEF HeartbeatBudget
  <2>1. {h \in DOMAIN heartbeat_log : heartbeat_log[h] \in (t - Day)..t} = {}
    BY <1>3
  <2>2. 0 <= HeartbeatDailyLimit
    BY Limits
  <2> QED BY <1>4, <2>1, <2>2
<1> QED BY <1>5, <1>6, <1>7, <1>8, <1>9, <1>10 DEF IndInv

LEMMA NextIndInv == IndInv /\ [Next]_vars => IndInv'
<1> SUFFICES ASSUME IndInv, [Next]_vars PROVE IndInv'
  OBVIOUS
<1>1. CASE UNCHANGED vars
  <2>1. /\ UNCHANGED <<clock, tables>> /\ UNCHANGED startedAt /\ UNCHANGED coordinator
    BY <1>1 DEF vars
  <2>2. /\ coordinator' \in CoordinatorType /\ startedAt' \in {NoTime} \cup 0..clock
    BY <2>1 DEF IndInv, TypeOK
  <2>3. /\ PassTime' = PassTime /\ Incidents' = Incidents /\ \A j : AttemptsOf(j)' = AttemptsOf(j)
    BY <2>1 DEF PassTime, Incidents, AttemptsOf, tables
  <2>4. PassInv' /\ TodoInv' /\ CountInv'
    BY <2>1, <2>3 DEF IndInv, PassInv, TodoInv, CountInv, AttemptsSince, tables
  <2>5. HeartbeatInv'
    BY <2>1, <2>3 DEF IndInv, HeartbeatInv, Heartbeats, HeartbeatsSince, tables
  <2> QED BY <2>1, <2>2, <2>4, <2>5, CoordinatorChange
<1>2. CASE Environment
  BY <1>2, OpenFallbackIncidentStep, ResolveFallbackIncidentStep, RecordFallbackUploadFailureStep,
     CompleteUploadStep, RecordUploadContactSuccessStep DEF Environment
<1>3. CASE RunOnce
  BY <1>3, FallbackCandidatesStep, ReserveFallbackAttemptStep, SkipCandidateStep, SendStep,
     RecordFallbackAttemptStep, CandidatesDoneStep, runHeartbeatStep, ReserveHeartbeatStep,
     ReserveHeartbeatFailsStep, RecordHeartbeatStep DEF RunOnce
<1>4. CASE Tick
  BY <1>4, TickStep
<1>5. CASE CrashAndRestart
  BY <1>5, CrashAndRestartStep
<1> QED BY <1>1, <1>2, <1>3, <1>4, <1>5 DEF Next

LEMMA Inductive == Spec => []IndInv
BY InitIndInv, NextIndInv, PTL DEF Spec

(* The tables and the coordinator keep their types; attempts and heartbeats on file belong to
   incidents and sequences that exist. *)
THEOREM TypeCorrectness == Spec => []TypeOK
<1>1. IndInv => TypeOK BY DEF IndInv
<1> QED BY <1>1, Inductive, PTL

(* ReserveFallbackAttempt and RecordFallbackAttempt keep every incident within its attempts,
   apart by the retry interval and counted in its row, whatever crashes in between. *)
THEOREM IncidentBudgetTheorem == Spec => []IncidentBudget
<1>1. IndInv => IncidentBudget BY DEF IndInv
<1> QED BY <1>1, Inductive, PTL

(* The hourly and daily site budgets of RunOnce hold in every window, although it counts the
   attempts once per pass. *)
THEOREM SiteBudgetTheorem == Spec => []SiteBudget
<1>1. IndInv => SiteBudget BY DEF IndInv
<1> QED BY <1>1, Inductive, PTL

(* After an attempt RecordFallbackAttempt has put on record as sent, its incident is left alone. *)
THEOREM AcceptedIsLastTheorem == Spec => []AcceptedIsLast
<1>1. IndInv => AcceptedIsLast BY DEF IndInv
<1> QED BY <1>1, Inductive, PTL

(* ReserveHeartbeat stays within the daily budget of heartbeats, also after pruning the rows
   it is counted from, and after crashes. *)
THEOREM HeartbeatBudgetTheorem == Spec => []HeartbeatBudget
<1>1. IndInv => HeartbeatBudget BY DEF IndInv
<1> QED BY <1>1, Inductive, PTL
=============================================================================
