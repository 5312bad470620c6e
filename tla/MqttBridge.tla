----------------------------- MODULE MqttBridge -----------------------------
(***************************************************************************)
(* The ingestion service's MQTT bridge (internal/bridge/bridge.go): the     *)
(* Paho callback that fills a bounded queue, the workers that empty it into *)
(* Kafka, the subscription renewed on every connection, and the shutdown    *)
(* that takes these apart in order; with main.go around it.                 *)
(*                                                                          *)
(* A step is what one goroutine does between two points where another can   *)
(* tell.  The guard's RWMutex makes enqueue and closeOnce such steps, and a *)
(* worker builds its record in the step that takes the message.  Paho, the  *)
(* MQTT broker and franz-go are external: a connection may be lost and      *)
(* found again, a subscription be granted, refused or left unanswered, and  *)
(* a record that was reported failed may have landed.                       *)
(***************************************************************************)
EXTENDS IngestionConfig

CONSTANTS
  Environments,    \* the environments the process may be started in
  Messages,        \* what devices publish: records of topic and decodable
  MaxWorkers,      \* no environment asks for more workers
  MaxMessages,     \* bound: how many messages arrive
  MaxConnections   \* bound: how often the client gets connected

ASSUME BridgeAssumption ==
  /\ MaxMessages \in Nat /\ MaxConnections \in Nat
  /\ \A m \in Messages : m.decodable \in BOOLEAN
  /\ \A e \in Environments : FromEnvAccepts(e) =>
       Config(e).workerCount \in 1..MaxWorkers /\ Config(e).queueSize \in Nat

VARIABLES
  env,            \* the environment of this process; never changes
  stop,           \* ctx is cancelled (SIGTERM)
  main,           \* where Run is: see Stages
  result,         \* what Run will return: "none", "cancelled" or "error"
  teardown,       \* where finish is, with the Unsubscribe before it
  mqtt,           \* Paho's connection: "connecting", "connected" or "down"
  connections,    \* how often it was connected so far
  subscription,   \* the MQTT broker routes the filter's messages to this client
  resubscribing,  \* resubscribe goroutines still waiting for their token
  report,         \* what the first of them sent on subscribed
  deaf,           \* history: a resubscribe failed on the present connection
  arrivals,       \* history: the messages Paho handed over; their index is their identity
  callback,       \* the publish handler is between AddReceived and enqueue
  queue, closed,  \* queueGuard
  workers,        \* worker -> its stage and the message in its hands
  stats,          \* IngestionStats; received is Len(arrivals)
  kafkaOpen,      \* the Kafka client is not closed
  telemetry,      \* the records of the telemetry topic, by message
  deadLetters     \* those of the dead-letter topic

run == <<stop, main, result, teardown>>
link == <<mqtt, connections, subscription, resubscribing, report, deaf>>
intake == <<arrivals, callback>>
guard == <<queue, closed>>
kafka == <<kafkaOpen, telemetry, deadLetters>>
vars == <<env, run, link, intake, guard, workers, stats, kafka>>

cfg == Config(env)
Workers == 1..cfg.workerCount

Stages == {"starting", "connecting", "subscribing", "running",
           "draining",     \* stop requested: finish runs aside, under the shutdown timeout
           "finishing",    \* finish runs in Run itself
           "returned", "exited"}

Idle == [stage |-> "idle", message |-> 0]

-----------------------------------------------------------------------------
(* Start-up *)

\* main: an environment FromEnv refuses ends the process.
FromEnv ==
  /\ main = "starting" /\ ~FromEnvAccepts(env)
  /\ main' = "exited"
  /\ UNCHANGED <<env, stop, result, teardown, link, intake, guard, workers, stats, kafka>>

\* Run up to Connect.  The workers run from here on.
Start ==
  /\ main = "starting" /\ FromEnvAccepts(env)
  /\ IF SecurityOptsBuild(cfg.security) /\ ValidateFilter(cfg.filter) /\ TLSConfigBuilds(cfg.mqttCA)
       THEN /\ main' = "connecting" /\ mqtt' = "connecting"
            /\ workers' = [w \in Workers |-> Idle]
            /\ UNCHANGED result
       ELSE /\ main' = "returned" /\ result' = "error"
            /\ UNCHANGED <<mqtt, workers>>
  /\ UNCHANGED <<env, stop, teardown, connections, subscription, resubscribing, report, deaf,
                 intake, guard, stats, kafka>>

Stop ==
  /\ ~stop /\ main # "exited"
  /\ stop' = TRUE
  /\ UNCHANGED <<env, main, result, teardown, link, intake, guard, workers, stats, kafka>>

\* waitForMQTTConnect and the wait for the first subscription, when they end badly.
Finish(outcome) ==
  /\ main' = "finishing" /\ result' = outcome /\ teardown' = "disconnect"

StopBeforeRunning ==
  /\ stop /\ main \in {"connecting", "subscribing"}
  /\ Finish("cancelled")
  /\ UNCHANGED <<env, stop, link, intake, guard, workers, stats, kafka>>

\* The first connection attempt fails; Paho only retries connections it lost.
ConnectFails ==
  /\ main = "connecting" /\ mqtt = "connecting"
  /\ mqtt' = "down"
  /\ Finish("error")
  /\ UNCHANGED <<env, stop, connections, subscription, resubscribing, report, deaf, intake, guard,
                 workers, stats, kafka>>

Subscribed ==
  /\ main = "subscribing" /\ report # "none"
  /\ IF report = "granted" THEN main' = "running" /\ UNCHANGED <<result, teardown>>
                           ELSE Finish("error")
  /\ UNCHANGED <<env, stop, link, intake, guard, workers, stats, kafka>>

-----------------------------------------------------------------------------
(* The connection *)

MutOnConnect ==
  /\ main # "exited" /\ mqtt = "connecting" /\ connections < MaxConnections
  /\ mqtt' = "connected" /\ connections' = connections + 1
  /\ resubscribing' = IF main = "connecting" THEN resubscribing + 1 ELSE resubscribing
  /\ deaf' = FALSE
  /\ main' = IF main = "connecting" THEN "subscribing" ELSE main
  /\ UNCHANGED <<env, stop, result, teardown, subscription, report, intake, guard, workers, stats,
                 kafka>>

\* OnConnectHandler: a clean session, so a new resubscribe goroutine.
OnConnect ==
  /\ main # "exited" /\ mqtt = "connecting" /\ connections < MaxConnections
  /\ mqtt' = "connected" /\ connections' = connections + 1
  /\ resubscribing' = resubscribing + 1 /\ deaf' = FALSE
  /\ main' = IF main = "connecting" THEN "subscribing" ELSE main
  /\ UNCHANGED <<env, stop, result, teardown, subscription, report, intake, guard, workers, stats,
                 kafka>>

ConnectionLost ==
  /\ main # "exited" /\ mqtt = "connected"
  /\ mqtt' = "connecting" /\ subscription' = FALSE
  /\ UNCHANGED <<env, run, connections, resubscribing, report, deaf, intake, guard, workers, stats,
                 kafka>>

\* The broker and Paho take no filter with # before its last segment.
Grantable == "#" \notin {cfg.filter[i] : i \in 1..Segments}

Once(outcome) == IF report = "none" THEN outcome ELSE report

\* resubscribe: granted, or refused, or given up after 5 s (and granted all the same).
resubscribe(granted, answered) ==
  /\ main # "exited" /\ resubscribing > 0
  /\ resubscribing' = resubscribing - 1
  /\ granted => mqtt = "connected" /\ Grantable
  /\ answered => granted
  /\ subscription' = (subscription \/ granted)
  /\ deaf' = (deaf \/ ~answered)
  /\ report' = Once(IF answered THEN "granted" ELSE "failed")
  /\ UNCHANGED <<env, run, mqtt, connections, intake, guard, workers, stats, kafka>>

-----------------------------------------------------------------------------
(* Messages *)

\* External: what an MQTT broker routes to a subscription.
Routed(filter, topic) ==
  /\ Len(filter) = Len(topic)
  /\ \A i \in 1..Len(filter) : filter[i] \in {"+", topic[i]}

\* The publish handler is called: AddReceived.
Receive(m) ==
  /\ main # "exited" /\ mqtt = "connected" /\ subscription /\ ~callback
  /\ Len(arrivals) < MaxMessages
  /\ Routed(cfg.filter, m.topic)
  /\ arrivals' = Append(arrivals, m) /\ callback' = TRUE
  /\ UNCHANGED <<env, run, link, guard, workers, stats, kafka>>

Accepts == ~closed /\ Len(queue) < cfg.queueSize

Count(counter) == stats' = [stats EXCEPT ![counter] = @ + 1]

\* The rest of the handler: enqueue, or AddDropped; it never waits.
Enqueue ==
  /\ main # "exited" /\ callback
  /\ callback' = FALSE
  /\ IF Accepts
       THEN /\ queue' = Append(queue, Len(arrivals))
            /\ UNCHANGED stats
       ELSE /\ Count("dropped")
            /\ UNCHANGED queue
  /\ UNCHANGED <<env, run, link, arrivals, closed, workers, kafka>>

-----------------------------------------------------------------------------
(* Workers *)

Ingestible(m) == ParseTopic(m.topic, DeriveConstraints(cfg.filter)) /\ m.decodable

\* The records of the two topics, keyed by device and by the topic as it came.
BuildRecord(m) == [key |-> Device(arrivals[m].topic), message |-> m]
BuildDeadLetterRecord(m) == [key |-> arrivals[m].topic, message |-> m]

\* The head of the channel, and whether a record can be built of it.
Take(w) ==
  LET m == Head(queue)
      fits == Ingestible(arrivals[m])
  IN
  /\ main # "exited" /\ workers[w].stage = "idle" /\ queue # << >>
  /\ queue' = Tail(queue)
  /\ workers' = [workers EXCEPT ![w] = [stage |-> IF fits THEN "produce" ELSE "park", message |-> m]]
  /\ IF fits THEN UNCHANGED stats ELSE Count("failed")
  /\ UNCHANGED <<env, run, link, intake, closed, kafka>>

\* A timeout of zero has run out before ProduceSync looks.
CanProduce == kafkaOpen /\ cfg.produceTimeout > 0

MutProduced(w) == workers' = [workers EXCEPT ![w] = Idle] /\ UNCHANGED stats
Produced(w) ==
  /\ workers' = [workers EXCEPT ![w] = Idle]
  /\ Count("produced")

MutProduceSyncRequeues(w, landed, acknowledged) ==
  /\ main # "exited" /\ workers[w].stage = "produce"
  /\ acknowledged => landed
  /\ landed => CanProduce
  /\ telemetry' = IF landed THEN Append(telemetry, BuildRecord(workers[w].message))
                            ELSE telemetry
  /\ workers' = [workers EXCEPT ![w] = Idle]
  /\ queue' = IF acknowledged THEN queue ELSE Append(queue, workers[w].message)
  /\ UNCHANGED <<env, run, link, intake, closed, stats, kafkaOpen, deadLetters>>

MutProduceSyncReturns(w, landed, acknowledged) ==
  /\ main # "exited" /\ workers[w].stage = "produce"
  /\ acknowledged => landed
  /\ landed => CanProduce
  /\ telemetry' = IF landed THEN Append(telemetry, BuildRecord(workers[w].message))
                            ELSE telemetry
  /\ IF acknowledged THEN Produced(w)
     ELSE /\ workers' = [workers EXCEPT ![w].stage = "stopped"]
          /\ Count("failed")
  /\ UNCHANGED <<env, run, link, intake, guard, kafkaOpen, deadLetters>>

\* ProduceSync returns: acknowledged, or failed, whether the record landed or not.
ProduceSync(w, landed, acknowledged) ==
  /\ main # "exited" /\ workers[w].stage = "produce"
  /\ acknowledged => landed
  /\ landed => CanProduce
  /\ telemetry' = IF landed THEN Append(telemetry, BuildRecord(workers[w].message))
                            ELSE telemetry
  /\ IF acknowledged THEN Produced(w)
                     ELSE workers' = [workers EXCEPT ![w] = Idle] /\ Count("failed")
  /\ UNCHANGED <<env, run, link, intake, guard, kafkaOpen, deadLetters>>

parkInDeadLetter(w, landed, acknowledged) ==
  /\ main # "exited" /\ workers[w].stage = "park"
  /\ acknowledged => landed
  /\ landed => CanProduce
  /\ deadLetters' = IF landed THEN Append(deadLetters, BuildDeadLetterRecord(workers[w].message))
                              ELSE deadLetters
  /\ workers' = [workers EXCEPT ![w] = Idle]
  /\ IF acknowledged THEN UNCHANGED stats ELSE Count("dlqFailed")
  /\ UNCHANGED <<env, run, link, intake, guard, kafkaOpen, telemetry>>

\* The range over the channel ends.
WorkerEnds(w) ==
  /\ main # "exited" /\ workers[w].stage = "idle" /\ closed /\ queue = << >>
  /\ workers' = [workers EXCEPT ![w].stage = "stopped"]
  /\ UNCHANGED <<env, run, link, intake, guard, stats, kafka>>

-----------------------------------------------------------------------------
(* Shutdown *)

Shutdown ==
  /\ main = "running" /\ stop
  /\ main' = "draining" /\ result' = "cancelled" /\ teardown' = "unsubscribe"
  /\ UNCHANGED <<env, stop, link, intake, guard, workers, stats, kafka>>

Unsubscribe(done) ==
  /\ main # "exited" /\ teardown = "unsubscribe"
  /\ teardown' = "disconnect"
  /\ subscription' = (subscription /\ ~done)
  /\ UNCHANGED <<env, stop, main, result, mqtt, connections, resubscribing, report, deaf, intake,
                 guard, workers, stats, kafka>>

\* No reconnection after this; a handler already called goes on.
Disconnect ==
  /\ main # "exited" /\ teardown = "disconnect"
  /\ teardown' = "close" /\ mqtt' = "down" /\ subscription' = FALSE
  /\ UNCHANGED <<env, stop, main, result, connections, resubscribing, report, deaf, intake, guard,
                 workers, stats, kafka>>

MutcloseOnce ==
  /\ main # "exited" /\ teardown = "close"
  /\ teardown' = "wait"
  /\ UNCHANGED <<env, stop, main, result, link, intake, guard, workers, stats, kafka>>

closeOnce ==
  /\ main # "exited" /\ teardown = "close"
  /\ teardown' = "wait" /\ closed' = TRUE
  /\ UNCHANGED <<env, stop, main, result, link, intake, queue, workers, stats, kafka>>

MutWorkersDone == queue = << >>
WorkersDone == \A w \in Workers : workers[w].stage = "stopped"

\* wg.Wait, and the Kafka client is closed.
CloseKafka ==
  /\ main # "exited" /\ teardown = "wait" /\ WorkersDone
  /\ teardown' = "closed" /\ kafkaOpen' = FALSE
  /\ UNCHANGED <<env, stop, main, result, link, intake, guard, workers, stats, telemetry,
                 deadLetters>>

Return ==
  /\ main \in {"draining", "finishing"} /\ teardown = "closed"
  /\ main' = "returned"
  /\ UNCHANGED <<env, stop, result, teardown, link, intake, guard, workers, stats, kafka>>

\* The shutdown timeout: Run returns while finish is still at it.
ShutdownTimeout ==
  /\ main = "draining"
  /\ main' = "returned" /\ result' = "error"
  /\ UNCHANGED <<env, stop, teardown, link, intake, guard, workers, stats, kafka>>

\* main: log.Fatal for an error, or the end of the program once the HTTP side is done too.
Exit ==
  /\ main = "returned"
  /\ main' = "exited"
  /\ UNCHANGED <<env, stop, result, teardown, link, intake, guard, workers, stats, kafka>>

\* An error of the HTTP side ends the process at any moment.
HTTPFails ==
  /\ main \notin {"starting", "exited"} /\ cfg.httpEnabled
  /\ main' = "exited"
  /\ UNCHANGED <<env, stop, result, teardown, link, intake, guard, workers, stats, kafka>>

Exited == main = "exited" /\ UNCHANGED vars

-----------------------------------------------------------------------------
(* Specification *)

Init ==
  /\ env \in Environments
  /\ stop = FALSE /\ main = "starting" /\ result = "none" /\ teardown = "none"
  /\ mqtt = "down" /\ connections = 0 /\ subscription = FALSE
  /\ resubscribing = 0 /\ report = "none" /\ deaf = FALSE
  /\ arrivals = << >> /\ callback = FALSE
  /\ queue = << >> /\ closed = FALSE
  /\ workers = << >>
  /\ stats = [produced |-> 0, dropped |-> 0, failed |-> 0, dlqFailed |-> 0]
  /\ kafkaOpen = TRUE /\ telemetry = << >> /\ deadLetters = << >>

Worker(w) ==
  \/ Take(w)
  \/ \E landed, acknowledged \in BOOLEAN : ProduceSync(w, landed, acknowledged)
  \/ \E landed, acknowledged \in BOOLEAN : parkInDeadLetter(w, landed, acknowledged)
  \/ WorkerEnds(w)

Resubscribe == \E granted, answered \in BOOLEAN : resubscribe(granted, answered)

Run == FromEnv \/ Start \/ Subscribed \/ Shutdown \/ StopBeforeRunning \/ Return \/ Exit

finish == (\E done \in BOOLEAN : Unsubscribe(done)) \/ Disconnect \/ closeOnce \/ CloseKafka

Next ==
  \/ Run \/ finish \/ Stop \/ ShutdownTimeout \/ HTTPFails
  \/ OnConnect \/ ConnectFails \/ ConnectionLost \/ Resubscribe
  \/ \E m \in Messages : Receive(m)
  \/ Enqueue
  \/ \E w \in DOMAIN workers : Worker(w)
  \/ Exited

Spec == Init /\ [][Next]_vars

\* Goroutines run on; the first connection attempt ends (SetConnectTimeout), a token is
\* answered or given up after 5 s, and ProduceSync ends by its timeout.
Fairness ==
  /\ WF_vars(Run) /\ WF_vars(finish) /\ WF_vars(Enqueue) /\ WF_vars(Resubscribe)
  /\ WF_vars(main = "connecting" /\ (OnConnect \/ ConnectFails))
  /\ \A w \in 1..MaxWorkers : WF_vars(w \in DOMAIN workers /\ Worker(w))

FairSpec == Spec /\ Fairness

-----------------------------------------------------------------------------
(* Properties *)

ReceivedIds == 1..Len(arrivals)
InHand(stage) == Cardinality({w \in DOMAIN workers : workers[w].stage = stage})

\* Type invariant: goroutines at their stages, messages that did arrive, a queue of its size.
TypeOK ==
  /\ env \in Environments
  /\ stop \in BOOLEAN /\ main \in Stages /\ result \in {"none", "cancelled", "error"}
  /\ teardown \in {"none", "unsubscribe", "disconnect", "close", "wait", "closed"}
  /\ mqtt \in {"connecting", "connected", "down"} /\ connections \in 0..MaxConnections
  /\ subscription \in BOOLEAN /\ deaf \in BOOLEAN
  /\ resubscribing \in 0..connections /\ report \in {"none", "granted", "failed"}
  /\ arrivals \in Seq(Messages) /\ callback \in BOOLEAN /\ closed \in BOOLEAN
  /\ queue \in Seq(ReceivedIds) /\ (queue # << >> => Len(queue) <= cfg.queueSize)
  /\ workers = << >> \/ DOMAIN workers = Workers
  /\ workers \in [DOMAIN workers ->
       [stage : {"idle", "produce", "park", "stopped"}, message : {0} \cup ReceivedIds]]
  /\ stats \in [produced : Nat, dropped : Nat, failed : Nat, dlqFailed : Nat]
  /\ kafkaOpen \in BOOLEAN
  /\ telemetry \in Seq([key : {Device(m.topic) : m \in Messages}, message : ReceivedIds])
  /\ deadLetters \in Seq([key : {m.topic : m \in Messages}, message : ReceivedIds])

\* Every message received is counted exactly once, as dropped, produced or failed, when it is
\* neither queued nor in somebody's hands: the callback and the workers update the counters
\* (stats.go) from different goroutines, and the last log line of Run reports them.
Accounting ==
  Len(arrivals) = (IF callback THEN 1 ELSE 0) + Len(queue) + InHand("produce")
                  + stats.produced + stats.dropped + stats.failed

\* finish tears down in dependency order: Kafka is closed only when each message accepted was
\* handed to it and answered for, although handlers already called may enqueue until the queue
\* is closed, and a reconnection may renew the subscription during the shutdown.
DrainedBeforeClose ==
  ~kafkaOpen => /\ queue = << >> /\ InHand("produce") = 0 /\ InHand("park") = 0
                /\ closed /\ mqtt = "down"

\* The topic check never refuses what the subscription brings: only a message with an empty
\* topic segment or a payload that does not convert is ever parked, and never published.
RoutedIsIngestible ==
  /\ \A i \in DOMAIN deadLetters : LET m == arrivals[deadLetters[i].message] IN
       Empty \in {m.topic[s] : s \in 1..Segments} \/ ~m.decodable
  /\ \A i \in DOMAIN telemetry : LET m == arrivals[telemetry[i].message] IN
       Empty \notin {m.topic[s] : s \in 1..Segments} /\ m.decodable

\* The records of one key are on the topic in the order they were received, each once.
MeterOrder ==
  \A i, j \in DOMAIN telemetry :
    i < j /\ telemetry[i].key = telemetry[j].key => telemetry[i].message < telemetry[j].message

\* With one worker the readings of a meter stay in order, and none is published twice, through
\* failures, drops and reconnections; with more they do not (see MeterOrder).
SingleWorkerOrder == cfg.workerCount = 1 => MeterOrder

\* What FromEnv accepts is refused by Run only for a certificate that cannot be read: the two
\* check the topic filter and the Kafka security settings in different places.
AcceptedStarts ==
  FromEnvAccepts(env) /\ result = "error" /\ teardown = "none"
    => Garbage \in {cfg.security.caFile, cfg.security.caPEM, cfg.mqttCA}

\* Once SIGTERM arrives the process ends: the workers drain the queue and end, no goroutine
\* waits for another for ever.
StopsInTheEnd == stop ~> main = "exited"

\* When devices fall silent, every message accepted is settled, unless the process ends first.
BacklogDrains ==
  []<>(\/ main = "exited"
       \/ ~callback /\ queue = << >> /\ InHand("produce") = 0 /\ InHand("park") = 0)

\* After a (re)connect messages flow again, unless that very subscription failed, the connection
\* is lost again or the bridge is stopping: nobody else subscribes.
FlowResumes ==
  mqtt = "connected" ~> subscription \/ deaf \/ mqtt # "connected" \/ teardown # "none"
                        \/ main = "exited"
=============================================================================
