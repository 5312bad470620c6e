---------------------------- MODULE MCMqttBridge ----------------------------
(* Small instances of MqttBridge for TLC. *)
EXTENDS MqttBridge

Site == <<"africa-west", "+", "+", "+", "telemetry">>

NoSecurity ==
  [protocol |-> Unset, mechanism |-> Unset, username |-> Unset, password |-> Unset,
   caFile |-> Unset, caPEM |-> Unset]
Sasl == [NoSecurity EXCEPT !.protocol = "SASL_SSL", !.mechanism = "PLAIN", !.username = "u",
                           !.password = "p"]

\* The smallest environment that starts.
Base ==
  [filter |-> Site, qos |-> Unset, mqttUsername |-> Unset, mqttPassword |-> Unset, queueSize |-> 1,
   workers |-> 1, produceTimeout |-> Unset, shutdownTimeout |-> Unset, security |-> NoSecurity,
   mqttCA |-> Unset, httpEnabled |-> Unset, apiKeys |-> << >>]

Key(site, key) == [site |-> site, key |-> key]

\* Environments that run: one worker; two workers for one meter, beside
\* the HTTP side; a wildcard the broker does not grant.
Running ==
  {[Base EXCEPT !.queueSize = 2],
   [Base EXCEPT !.workers = 2, !.filter = <<"africa-west", "+", "meter", "m", "telemetry">>,
                !.security = Sasl, !.httpEnabled = TRUE, !.apiKeys = <<Key("s", "k"), Blank>>],
   [Base EXCEPT !.filter[2] = "#"]}

\* Environments refused, each for one reason, by FromEnv or by Run.
Refused ==
  {[Base EXCEPT !.qos = q] : q \in {Garbage, 3}}
  \cup {[Base EXCEPT !.workers = n] : n \in {Garbage, 0}}
  \cup {[Base EXCEPT !.queueSize = n] : n \in {Garbage, 0}}
  \cup {[Base EXCEPT !.mqttUsername = "u"]}
  \cup {[Base EXCEPT !.filter = f] : f \in {<<"africa-west", "+", "telemetry">>,
                                            <<"africa-west", "", "+", "+", "telemetry">>,
                                            <<"africa-west", "+", "+", "+", "state">>}}
  \cup {[Base EXCEPT !.security = s] : s \in
          {[Sasl EXCEPT !.protocol = "sasl"], [Sasl EXCEPT !.mechanism = "GSSAPI"],
           [Sasl EXCEPT !.password = Unset], [Sasl EXCEPT !.caFile = "good", !.caPEM = "good"],
           [Sasl EXCEPT !.caFile = Garbage], [Sasl EXCEPT !.caPEM = Garbage]}}
  \cup {[Base EXCEPT !.mqttCA = Garbage]}
  \cup {[Base EXCEPT !.httpEnabled = TRUE, !.apiKeys = k] : k \in
          {<<Blank>>, <<Key("s", "")>>, <<Key("s", "k"), Key("t", "k")>>}}

MCEnvironments == Running \cup Refused

Topic(device) == <<"africa-west", "s", "meter", device, "telemetry">>

\* Readings of one meter, and what must be parked: an empty segment and a bad payload.
MCMessages ==
  {[topic |-> Topic("m"), decodable |-> TRUE],
   [topic |-> Topic(""), decodable |-> TRUE],
   [topic |-> Topic("m"), decodable |-> FALSE],
   [topic |-> <<"africa-east", "s", "meter", "m", "telemetry">>, decodable |-> TRUE]}
=============================================================================
