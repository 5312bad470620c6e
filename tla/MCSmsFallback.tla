---------------------------- MODULE MCSmsFallback ----------------------------
(* Small instances of SmsFallback for TLC. *)
EXTENDS SmsFallback

MCTokens == {"s1", "g1", "site", "a very long name", "no token"}
MCTokenLength == [t \in MCTokens |-> IF t = "a very long name" THEN 15 ELSE 4]

\* An environment as systemd would leave it, but for the names.
Bare ==
  [site |-> "s1", gateway |-> "g1",
   maxStorageBytes |-> Unset, maxEventBytes |-> Unset, warningPercent |-> Unset,
   criticalReservePercent |-> Unset, minFilesystemFreeBytes |-> Unset,
   uploaderEnabled |-> Unset, endpoint |-> Unset, apiKey |-> Unset, batchSize |-> Unset,
   batchMaxBytes |-> Unset, maxRetries |-> Unset,
   smsEnabled |-> Unset, destination |-> Unset, failureThreshold |-> Unset,
   offlineAfter |-> Unset, maxAttempts |-> Unset, hourlyLimit |-> Unset, dailyLimit |-> Unset,
   retryInterval |-> Unset, overheatC |-> Unset, debounce |-> Unset, heartbeatEnabled |-> Unset,
   heartbeatInterval |-> Unset, heartbeatDailyLimit |-> Unset]

\* Two attempts two ticks apart, one an hour and two a day, one heartbeat a day.
MCEnv ==
  [Bare EXCEPT !.uploaderEnabled = TRUE, !.endpoint = "url", !.apiKey = "key", !.smsEnabled = TRUE,
               !.destination = "number", !.failureThreshold = 1, !.offlineAfter = 1,
               !.maxAttempts = 2, !.retryInterval = 2, !.hourlyLimit = 1, !.dailyLimit = 2,
               !.heartbeatInterval = 1, !.heartbeatDailyLimit = 1]

\* Environments refused, each for one reason, by FromEnv or by Open.
Refused ==
  {[MCEnv EXCEPT !.site = Unset], [MCEnv EXCEPT !.endpoint = Unset],
   [MCEnv EXCEPT !.destination = Unset], [MCEnv EXCEPT !.gateway = "no token"],
   [MCEnv EXCEPT !.gateway = "a very long name"]}
  \cup {[MCEnv EXCEPT !.maxAttempts = n] : n \in {0, 4, Garbage}}
  \cup {[MCEnv EXCEPT !.debounce = d] : d \in {0, -1}}
  \cup {[MCEnv EXCEPT !.offlineAfter = 2], [MCEnv EXCEPT !.retryInterval = 1],
         [MCEnv EXCEPT !.heartbeatInterval = 3]}
  \cup {[MCEnv EXCEPT !.maxEventBytes = n] : n \in {-1, 26}}
  \cup {[MCEnv EXCEPT !.criticalReservePercent = 30], [MCEnv EXCEPT !.warningPercent = 0]}

\* Unset leaves what the code calls its defaults, which start; SMS settings that are only
\* used with SMS enabled are checked without it, but for the heartbeat's fit.
ASSUME StartUp ==
  /\ \A env \in Refused : Typed(env) /\ ~Starts(env)
  /\ Typed(Bare) /\ Typed(MCEnv)
  /\ Starts(Bare) /\ Starts([Bare EXCEPT !.gateway = "no token"])
  /\ Starts([MCEnv EXCEPT !.maxEventBytes = 0])
=============================================================================
