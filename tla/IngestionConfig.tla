--------------------------- MODULE IngestionConfig ---------------------------
(***************************************************************************)
(* What the ingestion service makes of its environment                      *)
(* (internal/config/config.go), the MQTT topic filter included              *)
(* (internal/telemetry/telemetry.go).                                       *)
(*                                                                          *)
(* A variable of the environment is Unset (or blank, which is the same to   *)
(* the code), Garbage (set to something its type does not parse), or the    *)
(* value it parses to.  Only variables whose value decides something after  *)
(* start-up are kept: addresses, names and the logging interval are not.    *)
(* A topic and a topic filter are sequences of segments, a CA is its PEM    *)
(* contents, good or bad.                                                   *)
(***************************************************************************)
EXTENDS Integers, Sequences, FiniteSets

CONSTANTS Unset, Garbage

Empty == ""
Parsed(raw, fallback) == IF raw = Unset THEN fallback ELSE raw

-----------------------------------------------------------------------------
(* Kafka security *)

Protocols == {"PLAINTEXT", "SSL", "SASL_PLAINTEXT", "SASL_SSL"}
Mechanisms == {"PLAIN", "SCRAM-SHA-256", "SCRAM-SHA-512"}

UsesTLS(sec) == sec.protocol \in {"SSL", "SASL_SSL"}
UsesSASL(sec) == sec.protocol \in {"SASL_PLAINTEXT", "SASL_SSL"}

MutSecurityValid(sec) ==
  /\ sec.protocol \in Protocols
  /\ sec.caFile = Unset \/ sec.caPEM = Unset
  /\ UsesSASL(sec) => sec.username # Unset /\ sec.password # Unset

SecurityValid(sec) ==
  /\ sec.protocol \in Protocols
  /\ sec.caFile = Unset \/ sec.caPEM = Unset
  /\ UsesSASL(sec) => /\ sec.mechanism \in Mechanisms
                      /\ sec.username # Unset /\ sec.password # Unset

\* tlsConfig and tlsConfigFromPEM: no CA means the system roots.
TLSConfigBuilds(ca) == ca # Garbage

\* kafkaSecurityOpts: what NewKafkaClient still refuses when it builds its options.
SecurityOptsBuild(sec) ==
  /\ UsesTLS(sec) => TLSConfigBuilds(IF sec.caPEM # Unset THEN sec.caPEM ELSE sec.caFile)
  /\ UsesSASL(sec) => sec.mechanism \in Mechanisms

-----------------------------------------------------------------------------
(* API keys of the HTTP side: entries "site:key", blank ones passed over *)

Blank == << >>
Entries(raw) == SelectSeq(raw, LAMBDA e : e # Blank)

\* parseAPIKeys
APIKeysValid(raw) ==
  /\ \A i \in DOMAIN Entries(raw) : Entries(raw)[i].site # Empty /\ Entries(raw)[i].key # Empty
  /\ \A i, j \in DOMAIN Entries(raw) : Entries(raw)[i].key = Entries(raw)[j].key => i = j

-----------------------------------------------------------------------------
(* Topics *)

Segments == 5

WellFormed(topic) ==
  /\ Len(topic) = Segments
  /\ \A i \in 1..Segments : topic[i] # Empty
  /\ topic[Segments] = "telemetry"

ValidateFilter(filter) == WellFormed(filter)

MutnonWildcard(seg) == IF seg = "#" THEN Empty ELSE seg
nonWildcard(seg) == IF seg \in {"+", "#"} THEN Empty ELSE seg

\* The suffix is not part of the constraints: validateFilterSegments has fixed it.
DeriveConstraints(filter) == [i \in 1..(Segments - 1) |-> nonWildcard(filter[i])]

violation(constraints, topic) ==
  \E i \in 1..(Segments - 1) : constraints[i] # Empty /\ topic[i] # constraints[i]

ParseTopic(topic, constraints) == WellFormed(topic) /\ ~violation(constraints, topic)

Device(topic) == topic[4]

-----------------------------------------------------------------------------
(* FromEnv *)

Config(env) ==
  [filter |-> Parsed(env.filter, <<"africa-west", "+", "+", "+", "telemetry">>),
   qos |-> Parsed(env.qos, 1),
   username |-> env.mqttUsername,
   password |-> env.mqttPassword,
   queueSize |-> Parsed(env.queueSize, 1000),
   workerCount |-> Parsed(env.workers, 4),
   produceTimeout |-> Parsed(env.produceTimeout, 10),
   shutdownTimeout |-> Parsed(env.shutdownTimeout, 10),
   security |-> [env.security EXCEPT !.protocol = Parsed(@, "PLAINTEXT")],
   mqttCA |-> env.mqttCA,
   httpEnabled |-> Parsed(env.httpEnabled, FALSE),
   apiKeys |-> Entries(env.apiKeys)]

Parses(env) ==
  Garbage \notin {env.qos, env.queueSize, env.workers, env.produceTimeout, env.shutdownTimeout,
                  env.httpEnabled}

\* The last checks of FromEnv.
ConfigValid(c) ==
  /\ c.qos \in 0..2
  /\ (c.username = Unset) = (c.password = Unset)
  /\ ValidateFilter(c.filter)
  /\ SecurityValid(c.security)
  /\ c.queueSize >= 1 /\ c.workerCount >= 1
  /\ c.httpEnabled => c.apiKeys # << >>

FromEnvAccepts(env) == Parses(env) /\ APIKeysValid(env.apiKeys) /\ ConfigValid(Config(env))
=============================================================================
