----------------------------- MODULE EdgeConfig -----------------------------
(***************************************************************************)
(* What the edge agent makes of its environment                             *)
(* (internal/config/config.go), what opening the queue still refuses        *)
(* (internal/repository/sqlite/config.go), and what the uploader, the       *)
(* collector and the SMS coordinator put in place of settings they cannot   *)
(* use.  SmsFallback takes its parameters from here; those of EdgeQueue and *)
(* CriticalConditions are what SmsFallbackProofs shows them to be.          *)
(*                                                                          *)
(* A variable is Unset (or blank), Garbage (not of its type), or the value  *)
(* it parses to.  Paths, addresses and polling intervals decide nothing a   *)
(* model can tell and are left out, but for whether they are given.         *)
(* Integers are exact: a queue of 2^57 bytes would overflow the code's.     *)
(***************************************************************************)
EXTENDS SmsMessage

CONSTANTS
  Unset, Garbage,
  MiB,                      \* bytes in a MiB
  SampleRoom,               \* what FromEnv's trial heartbeat leaves the ids
  MaxIncidentAttempts, IncidentAttemptWindow

\* The trial has a sequence and a time of one digit each.
ASSUME SettingsAssumption ==
  /\ MiB \in Nat \ {0}
  /\ SampleRoom \in Nat /\ SampleRoom >= Room
  /\ MaxIncidentAttempts \in Nat \ {0, 1} /\ IncidentAttemptWindow \in Nat
  /\ Unset \notin Int \cup BOOLEAN \cup {Garbage}
  /\ Garbage \notin Int \cup BOOLEAN

Parsed(raw, fallback) == IF raw = Unset THEN fallback ELSE raw

-----------------------------------------------------------------------------
(* The settings, with their defaults *)

QueueSettings(env) ==
  [site |-> env.site,
   gateway |-> env.gateway,
   maxStorageBytes |-> Parsed(env.maxStorageBytes, 512 * MiB),
   maxEventBytes |-> Parsed(env.maxEventBytes, MiB),
   warningPercent |-> Parsed(env.warningPercent, 70),
   criticalReservePercent |-> Parsed(env.criticalReservePercent, 10),
   minFilesystemFreeBytes |-> Parsed(env.minFilesystemFreeBytes, 256 * MiB)]

UploaderSettings(env) ==
  [enabled |-> Parsed(env.uploaderEnabled, FALSE),
   endpoint |-> env.endpoint,
   apiKey |-> env.apiKey,
   batchSize |-> Parsed(env.batchSize, 50),
   batchMaxBytes |-> Parsed(env.batchMaxBytes, MiB),
   maxRetries |-> Parsed(env.maxRetries, 20)]

SMSSettings(env) ==
  [enabled |-> Parsed(env.smsEnabled, FALSE),
   destination |-> env.destination,
   failureThreshold |-> Parsed(env.failureThreshold, 3),
   offlineAfter |-> Parsed(env.offlineAfter, 120 * Second),
   maxAttempts |-> Parsed(env.maxAttempts, 3),
   hourlyLimit |-> Parsed(env.hourlyLimit, 6),
   dailyLimit |-> Parsed(env.dailyLimit, 20),
   retryInterval |-> Parsed(env.retryInterval, 450 * Second),
   overheatC |-> Parsed(env.overheatC, 55),
   debounce |-> Parsed(env.debounce, 30 * Second),
   heartbeatEnabled |-> Parsed(env.heartbeatEnabled, TRUE),
   heartbeatInterval |-> Parsed(env.heartbeatInterval, 1800 * Second),
   heartbeatDailyLimit |-> Parsed(env.heartbeatDailyLimit, 48)]

-----------------------------------------------------------------------------
(* FromEnv *)

Durations(env) == {env.offlineAfter, env.retryInterval, env.debounce, env.heartbeatInterval}

Booleans(env) == {env.uploaderEnabled, env.smsEnabled, env.heartbeatEnabled}

Numbers(env) ==
  {env.maxStorageBytes, env.maxEventBytes, env.warningPercent, env.criticalReservePercent,
   env.minFilesystemFreeBytes, env.batchSize, env.batchMaxBytes, env.maxRetries,
   env.failureThreshold, env.maxAttempts, env.hourlyLimit, env.dailyLimit, env.overheatC,
   env.heartbeatDailyLimit}

\* What a variable may hold: env's values, by the type they should have.
Typed(env) ==
  /\ Booleans(env) \subseteq BOOLEAN \cup {Unset, Garbage}
  /\ Numbers(env) \cup Durations(env) \subseteq Int \cup {Unset, Garbage}

\* The env... helpers return no error; a duration must be positive.
Parses(env) ==
  /\ Garbage \notin Booleans(env) /\ Garbage \notin Numbers(env) /\ Garbage \notin Durations(env)
  /\ \A d \in Durations(env) : d = Unset \/ d > 0

MinimumRetryInterval(maxAttempts) ==
  IF maxAttempts <= 1 THEN 0 ELSE IncidentAttemptWindow \div (MaxIncidentAttempts - 1)

\* The heartbeat FromEnv formats to see whether the ids and the interval fit.
Sample(queue, sms) ==
  [site |-> queue.site, gateway |-> queue.gateway, sequence |-> 1,
   interval |-> sms.heartbeatInterval, at |-> Second]

SMSValid(queue, sms) ==
  /\ sms.enabled => sms.destination # Unset
  /\ \A limit \in {sms.failureThreshold, sms.maxAttempts, sms.hourlyLimit, sms.dailyLimit,
                   sms.overheatC, sms.debounce, sms.heartbeatDailyLimit} : limit > 0
  /\ sms.maxAttempts <= MaxIncidentAttempts
  /\ sms.heartbeatInterval >= sms.offlineAfter
  /\ sms.enabled /\ sms.heartbeatEnabled => HeartbeatFits(Sample(queue, sms), SampleRoom)
  /\ sms.retryInterval >= MinimumRetryInterval(sms.maxAttempts)

FromEnvAccepts(env) ==
  /\ env.site # Unset /\ env.gateway # Unset
  /\ Parses(env)
  /\ LET uploader == UploaderSettings(env) IN
       uploader.enabled => uploader.endpoint # Unset /\ uploader.apiKey # Unset
  /\ SMSValid(QueueSettings(env), SMSSettings(env))

-----------------------------------------------------------------------------
(* The parts that are started *)

\* Open
OpenConfig(queue) ==
  [queue EXCEPT !.maxEventBytes =
     IF @ # 0 THEN @
     ELSE LET share == (queue.maxStorageBytes * 5) \div 100 IN IF MiB < share THEN MiB ELSE share]

validateConfig(queue) ==
  /\ queue.maxStorageBytes >= MiB
  /\ queue.maxEventBytes >= 1 /\ queue.maxEventBytes <= (queue.maxStorageBytes * 5) \div 100
  /\ queue.warningPercent \in 1..99 /\ queue.criticalReservePercent \in 1..99
  /\ queue.warningPercent < 100 - queue.criticalReservePercent
  /\ queue.minFilesystemFreeBytes >= 0

\* run gets as far as starting its goroutines.
Starts(env) == FromEnvAccepts(env) /\ validateConfig(OpenConfig(QueueSettings(env)))

OrDefault(value, default) == IF value <= 0 THEN default ELSE value

\* uploader.New
NewUploader(uploader) ==
  [batchSize |-> OrDefault(uploader.batchSize, 50),
   batchMaxBytes |-> OrDefault(uploader.batchMaxBytes, MiB),
   maxRetries |-> OrDefault(uploader.maxRetries, 20)]

\* collector.New
NewCollector(sms) ==
  [overheatC |-> OrDefault(sms.overheatC, 55), debounce |-> OrDefault(sms.debounce, 30 * Second)]

\* NewCoordinator; EnableHeartbeat takes its part of the settings as it is.
NewCoordinator(sms) ==
  LET bounded == [sms EXCEPT !.maxAttempts =
                    IF @ \in 1..MaxIncidentAttempts THEN @ ELSE MaxIncidentAttempts]
      minimum == MinimumRetryInterval(bounded.maxAttempts)
  IN [bounded EXCEPT !.retryInterval = IF @ < minimum THEN minimum ELSE @]
=============================================================================
