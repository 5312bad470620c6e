-------------------------- MODULE MqttBridgeProofs --------------------------
(* The MQTT bridge, for any environments, messages, workers and connections. *)
EXTENDS MqttBridge, FiniteSetTheorems, TLAPS

\* How far Run and finish are, and what that says of the parts they take apart.
Phases ==
  /\ main \in {"starting", "connecting", "subscribing", "running"} =>
       teardown = "none" /\ result = "none"
  /\ main \in {"draining", "finishing"} => teardown # "none"
  /\ main = "starting" => workers = << >>
  /\ main \in {"connecting", "subscribing", "running"} \/ teardown # "none" =>
       DOMAIN workers = Workers
  /\ main \in {"connecting", "subscribing", "running"} \/ teardown # "none" \/ mqtt # "down"
       => workers # << >>
  /\ workers # << >> \/ arrivals # << >> => FromEnvAccepts(env)
  /\ teardown \in {"close", "wait", "closed"} => mqtt = "down"
  /\ teardown \in {"wait", "closed"} => closed
  /\ ~kafkaOpen => teardown = "closed" /\ WorkersDone

\* Run stops at the start, for a reason FromEnv does not know.
StartFails ==
  teardown = "none" /\ result = "error" =>
    ~(SecurityOptsBuild(cfg.security) /\ ValidateFilter(cfg.filter) /\ TLSConfigBuilds(cfg.mqttCA))

\* A worker ends only at a closed and empty queue, and nobody fills it again.
StoppedInv ==
  \A w \in DOMAIN workers : workers[w].stage = "stopped" => closed /\ queue = << >>

\* Whatever came through the subscription is sorted by whether it can be ingested.
SortedInv ==
  /\ \A i \in ReceivedIds : arrivals[i] \in Messages /\ Routed(cfg.filter, arrivals[i].topic)
  /\ \A w \in DOMAIN workers :
       /\ workers[w].stage = "produce" => Ingestible(arrivals[workers[w].message])
       /\ workers[w].stage = "park" => ~Ingestible(arrivals[workers[w].message])
       /\ workers[w].stage \in {"produce", "park"} => workers[w].message \in ReceivedIds
  /\ \A i \in 1..Len(telemetry) : Ingestible(arrivals[telemetry[i].message])
  /\ \A i \in 1..Len(deadLetters) : ~Ingestible(arrivals[deadLetters[i].message])

\* One worker: published, in hand, queued, not yet queued.
OrderInv ==
  /\ \A i, j \in 1..Len(queue) : i < j => queue[i] < queue[j]
  /\ callback => \A i \in 1..Len(queue) : queue[i] < Len(arrivals)
  /\ callback => arrivals # << >>
  /\ workers = << >> => telemetry = << >>
  /\ \A w \in DOMAIN workers : workers[w].stage \in {"produce", "park"} =>
       /\ \A i \in 1..Len(queue) : workers[w].message < queue[i]
       /\ callback => workers[w].message < Len(arrivals)
  /\ callback => \A i \in 1..Len(telemetry) : telemetry[i].message < Len(arrivals)
  /\ \A i \in 1..Len(telemetry) : \A j \in 1..Len(queue) : telemetry[i].message < queue[j]
  /\ DOMAIN workers = {1} =>
       /\ workers[1].stage \in {"produce", "park"} =>
            \A i \in 1..Len(telemetry) : telemetry[i].message < workers[1].message
       /\ \A i, j \in 1..Len(telemetry) : i < j => telemetry[i].message < telemetry[j].message

\* The control state: Run, finish and the connection, whose types TypeOK states first.
ControlType ==
  /\ stop \in BOOLEAN /\ main \in Stages /\ result \in {"none", "cancelled", "error"}
  /\ teardown \in {"none", "unsubscribe", "disconnect", "close", "wait", "closed"}
  /\ mqtt \in {"connecting", "connected", "down"} /\ connections \in 0..MaxConnections
  /\ subscription \in BOOLEAN /\ deaf \in BOOLEAN
  /\ resubscribing \in 0..connections /\ report \in {"none", "granted", "failed"}
  /\ kafkaOpen \in BOOLEAN

Holding == [stage : {"idle", "produce", "park", "stopped"}, message : {0} \cup ReceivedIds]
Devices == {Device(m.topic) : m \in Messages}
Topics == {m.topic : m \in Messages}
Record == [key : Devices, message : ReceivedIds]
DeadLetter == [key : Topics, message : ReceivedIds]
Stats == [produced : Nat, dropped : Nat, failed : Nat, dlqFailed : Nat]

\* The data: the messages, the queue, the workers, the counters and the two topics.
IntakeType == arrivals \in Seq(Messages) /\ callback \in BOOLEAN /\ closed \in BOOLEAN
QueueType == queue \in Seq(ReceivedIds) /\ (queue # << >> => Len(queue) <= cfg.queueSize)
WorkersType == (workers = << >> \/ DOMAIN workers = Workers) /\ workers \in [DOMAIN workers -> Holding]
TopicsType == telemetry \in Seq(Record) /\ deadLetters \in Seq(DeadLetter)
DataType == IntakeType /\ QueueType /\ WorkersType /\ stats \in Stats /\ TopicsType

ControlInv == env \in Environments /\ ControlType /\ Phases /\ StartFails
DataInv == DataType /\ StoppedInv /\ Accounting /\ SortedInv /\ OrderInv

IndInv == ControlInv /\ DataInv

-----------------------------------------------------------------------------
(* What is counted *)

\* TypeOK is the types of the two halves.
LEMMA Halves == TypeOK <=> env \in Environments /\ ControlType /\ DataType
BY DEF TypeOK, ControlType, DataType, IntakeType, QueueType, WorkersType, TopicsType, Holding,
       Devices, Topics, Record, DeadLetter, Stats

\* An accepted environment has some workers, and a queue of a size.
LEMMA Accepted ==
  ASSUME env \in Environments, FromEnvAccepts(env)
  PROVE  /\ cfg.workerCount \in Nat /\ cfg.workerCount >= 1 /\ cfg.queueSize \in Nat
         /\ 1 \in Workers /\ IsFiniteSet(Workers)
<1>1. cfg.workerCount \in 1..MaxWorkers /\ cfg.queueSize \in Nat
  BY BridgeAssumption DEF cfg
<1>2. cfg.workerCount \in Nat /\ cfg.workerCount >= 1
  BY <1>1
<1>3. IsFiniteSet(1..cfg.workerCount)
  BY <1>2, FS_Interval
<1> QED
  BY <1>1, <1>2, <1>3 DEF Workers

-----------------------------------------------------------------------------
(* Control *)

\* What the control steps leave alone keeps its invariant.
LEMMA Steady ==
  ASSUME DataInv, UNCHANGED <<env, intake, guard, workers, stats, telemetry, deadLetters>>
  PROVE  DataInv'
<1> USE DEF intake, guard
<1>a. cfg' = cfg /\ Workers' = Workers /\ ReceivedIds' = ReceivedIds
  BY DEF cfg, Workers, ReceivedIds
<1>b. Holding' = Holding /\ Record' = Record /\ DeadLetter' = DeadLetter
  BY <1>a DEF Holding, Record, DeadLetter
<1>1. DataType'
  BY <1>a, <1>b DEF DataInv, DataType, IntakeType, QueueType, WorkersType, TopicsType
<1>2. StoppedInv'
  BY DEF DataInv, StoppedInv, guard
<1>3. Accounting'
  BY DEF DataInv, Accounting, InHand, intake, guard
<1>4. SortedInv'
  BY DEF DataInv, SortedInv, intake, ReceivedIds, Ingestible, cfg
<1>5. OrderInv'
  BY DEF DataInv, OrderInv, intake, guard
<1> QED
  BY <1>1, <1>2, <1>3, <1>4, <1>5 DEF DataInv

ControlStep ==
  \/ FromEnv \/ Stop \/ StopBeforeRunning \/ ConnectFails \/ Subscribed
  \/ OnConnect \/ ConnectionLost \/ Resubscribe
  \/ Shutdown \/ (\E done \in BOOLEAN : Unsubscribe(done)) \/ Disconnect \/ CloseKafka
  \/ Return \/ ShutdownTimeout \/ Exit \/ HTTPFails

LEMMA ControlKeepsData ==
  ASSUME ControlStep
  PROVE  UNCHANGED <<env, intake, guard, workers, stats, telemetry, deadLetters>>
<1>1. CASE FromEnv \/ Stop \/ StopBeforeRunning \/ ConnectFails \/ Subscribed
  BY <1>1 DEF FromEnv, Stop, StopBeforeRunning, ConnectFails, Subscribed, kafka
<1>2. CASE OnConnect \/ ConnectionLost \/ Resubscribe
  BY <1>2 DEF OnConnect, ConnectionLost, Resubscribe, resubscribe, kafka
<1>3. CASE Shutdown \/ (\E done \in BOOLEAN : Unsubscribe(done)) \/ Disconnect \/ CloseKafka
  BY <1>3 DEF Shutdown, Unsubscribe, Disconnect, CloseKafka, kafka
<1>4. CASE Return \/ ShutdownTimeout \/ Exit \/ HTTPFails
  BY <1>4 DEF Return, ShutdownTimeout, Exit, HTTPFails, kafka
<1> QED
  BY <1>1, <1>2, <1>3, <1>4 DEF ControlStep

\* Run, finish and the connection keep their own invariant.
LEMMA ControlKeepsControl ==
  ASSUME ControlInv, ControlStep
  PROVE  ControlInv'
<1> USE DEF run, link, intake, guard, kafka
<1>1. UNCHANGED <<env, arrivals, workers, closed>>
  BY ControlKeepsData
<1>2. (env \in Environments)'
  BY <1>1 DEF ControlInv
<1>3. ControlType'
  <2> USE DEF ControlInv, ControlType, Stages, Finish
  <2>1. CASE FromEnv \/ Stop \/ StopBeforeRunning \/ ConnectFails \/ Subscribed
    BY <2>1 DEF FromEnv, Stop, StopBeforeRunning, ConnectFails, Subscribed
  <2>2. CASE OnConnect
    <3>1. MaxConnections \in Nat
      BY BridgeAssumption
    <3>2. connections' \in 0..MaxConnections /\ resubscribing' \in 0..connections'
      BY <2>2, <3>1 DEF OnConnect
    <3>3. main' \in Stages /\ mqtt' = "connected" /\ deaf' = FALSE
      BY <2>2 DEF OnConnect
    <3>4. UNCHANGED <<stop, result, teardown, subscription, report, kafkaOpen>>
      BY <2>2 DEF OnConnect
    <3> QED
      BY <3>2, <3>3, <3>4
  <2>3. CASE ConnectionLost
    BY ZenonT(40), <2>3 DEF ConnectionLost
  <2>4. CASE Resubscribe
    BY <2>4 DEF Resubscribe, resubscribe, Once
  <2>5. CASE Shutdown \/ (\E done \in BOOLEAN : Unsubscribe(done)) \/ Disconnect \/ CloseKafka
    BY <2>5 DEF Shutdown, Unsubscribe, Disconnect, CloseKafka
  <2>6. CASE Return \/ ShutdownTimeout \/ Exit \/ HTTPFails
    BY <2>6 DEF Return, ShutdownTimeout, Exit, HTTPFails
  <2> QED
    BY <2>1, <2>2, <2>3, <2>4, <2>5, <2>6 DEF ControlStep
<1>4. cfg' = cfg /\ Workers' = Workers /\ (WorkersDone => WorkersDone')
  BY <1>1 DEF cfg, Workers, WorkersDone
<1>5. Phases'
  <2> USE <1>1, <1>4 DEF ControlInv, ControlType, Phases, Stages, Finish
  <2>1. CASE FromEnv
    BY <2>1 DEF FromEnv
  <2>2. CASE Stop
    BY <2>2 DEF Stop
  <2>3. CASE StopBeforeRunning
    BY <2>3 DEF StopBeforeRunning
  <2>4. CASE ConnectFails
    BY <2>4 DEF ConnectFails
  <2>5. CASE Subscribed
    BY <2>5 DEF Subscribed
  <2>6. CASE OnConnect
    BY <2>6 DEF OnConnect
  <2>7. CASE ConnectionLost
    BY <2>7 DEF ConnectionLost
  <2>8. CASE Resubscribe
    BY <2>8 DEF Resubscribe, resubscribe
  <2>9. CASE Shutdown
    BY <2>9 DEF Shutdown
  <2>10. CASE \E done \in BOOLEAN : Unsubscribe(done)
    BY <2>10 DEF Unsubscribe
  <2>11. CASE Disconnect
    BY <2>11 DEF Disconnect
  <2>12. CASE CloseKafka
    BY <2>12 DEF CloseKafka
  <2>13. CASE Return
    BY <2>13 DEF Return
  <2>14. CASE ShutdownTimeout
    BY <2>14 DEF ShutdownTimeout
  <2>15. CASE Exit
    BY <2>15 DEF Exit
  <2>16. CASE HTTPFails
    BY <2>16 DEF HTTPFails
  <2> QED
    BY <2>1, <2>2, <2>3, <2>4, <2>5, <2>6, <2>7, <2>8, <2>9, <2>10, <2>11, <2>12, <2>13, <2>14,
       <2>15, <2>16 DEF ControlStep
<1>6. StartFails'
  <2> USE <1>1, <1>4 DEF ControlInv, ControlType, Phases, StartFails, Finish
  <2>1. CASE FromEnv \/ Stop \/ StopBeforeRunning \/ ConnectFails \/ Subscribed
    BY <2>1 DEF FromEnv, Stop, StopBeforeRunning, ConnectFails, Subscribed
  <2>2. CASE OnConnect \/ ConnectionLost \/ Resubscribe
    BY <2>2 DEF OnConnect, ConnectionLost, Resubscribe, resubscribe
  <2>3. CASE Shutdown \/ (\E done \in BOOLEAN : Unsubscribe(done)) \/ Disconnect \/ CloseKafka
    BY <2>3 DEF Shutdown, Unsubscribe, Disconnect, CloseKafka
  <2>4. CASE Return \/ ShutdownTimeout \/ Exit \/ HTTPFails
    BY <2>4 DEF Return, ShutdownTimeout, Exit, HTTPFails
  <2> QED
    BY <2>1, <2>2, <2>3, <2>4 DEF ControlStep
<1> QED
  BY <1>2, <1>3, <1>5, <1>6 DEF ControlInv

-----------------------------------------------------------------------------
(* Data: the steps of the handler, the workers and the queue *)

\* The steps that leave Run, finish and the connection alone keep the control invariant.
LEMMA DataStepKeepsControl ==
  ASSUME ControlInv, UNCHANGED <<env, run, link, kafkaOpen, closed>>,
         DOMAIN workers' = DOMAIN workers,
         workers' = << >> <=> workers = << >>,
         arrivals' # << >> => FromEnvAccepts(env),
         WorkersDone => WorkersDone'
  PROVE  ControlInv'
<1>1. ControlType' /\ StartFails' /\ (env \in Environments)'
  BY DEF ControlInv, ControlType, StartFails, run, link, cfg
<1>2. Phases'
  BY DEF ControlInv, Phases, run, link, cfg, Workers
<1> QED
  BY <1>1, <1>2 DEF ControlInv

\* What is queued or sent is about messages received.
LEMMA RecordMessages ==
  ASSUME NEW K, NEW R, NEW s \in Seq([key : K, message : R])
  PROVE  \A i \in 1..Len(s) : s[i].message \in R
<1> DEFINE T == [key : K, message : R]
<1>1. \A r \in T : r.message \in R
  OBVIOUS
<1>2. s \in Seq(T)
  OBVIOUS
<1> HIDE DEF T
<1> QED
  BY <1>1, <1>2

LEMMA Sent ==
  ASSUME DataInv
  PROVE  /\ \A i \in 1..Len(telemetry) : telemetry[i].message \in ReceivedIds
         /\ \A i \in 1..Len(deadLetters) : deadLetters[i].message \in ReceivedIds
         /\ \A i \in 1..Len(queue) : queue[i] \in ReceivedIds
<1>1. \A i \in 1..Len(telemetry) : telemetry[i].message \in ReceivedIds
  BY RecordMessages DEF DataInv, DataType, Record, IntakeType, QueueType, WorkersType, TopicsType
<1>2. \A i \in 1..Len(deadLetters) : deadLetters[i].message \in ReceivedIds
  BY RecordMessages DEF DataInv, DataType, DeadLetter, IntakeType, QueueType, WorkersType, TopicsType
<1>3. \A i \in 1..Len(queue) : queue[i] \in ReceivedIds
  BY DEF DataInv, DataType, IntakeType, QueueType, WorkersType, TopicsType
<1> QED
  BY <1>1, <1>2, <1>3

\* The number of workers at a stage is a number, and so are the counters.
LEMMA Numbers ==
  ASSUME ControlInv, DataInv, NEW s
  PROVE  /\ IsFiniteSet(DOMAIN workers) /\ InHand(s) \in Nat
         /\ stats.produced \in Nat /\ stats.dropped \in Nat
         /\ stats.failed \in Nat /\ stats.dlqFailed \in Nat
         /\ Len(arrivals) \in Nat /\ Len(queue) \in Nat
<1>3. IsFiniteSet(DOMAIN workers)
  <2>1. CASE workers = << >>
    <3>1. DOMAIN workers = {}
      BY <2>1
    <3> QED
      BY <3>1, FS_EmptySet
  <2>2. CASE workers # << >>
    <3>1. FromEnvAccepts(env) /\ env \in Environments /\ DOMAIN workers = Workers
      BY <2>2 DEF ControlInv, Phases, DataInv, DataType, IntakeType, QueueType, WorkersType, TopicsType
    <3> QED
      BY <3>1, Accepted
  <2> QED
    BY <2>1, <2>2
<1>4. IsFiniteSet({w \in DOMAIN workers : workers[w].stage = s})
  BY <1>3, FS_Subset
<1>5. InHand(s) \in Nat
  BY <1>4, FS_CardinalityType DEF InHand
<1>6. stats \in Stats /\ arrivals \in Seq(Messages) /\ queue \in Seq(ReceivedIds)
  BY DEF DataInv, DataType, IntakeType, QueueType, WorkersType, TopicsType
<1> QED
  BY <1>3, <1>5, <1>6 DEF Stats

\* The callback takes a message from the subscription.
LEMMA ReceiveKeeps ==
  ASSUME ControlInv, DataInv, NEW m \in Messages, Receive(m)
  PROVE  ControlInv' /\ DataInv'
<1> USE DEF run, link, guard, kafka
<1>1. FromEnvAccepts(env)
  BY DEF ControlInv, Phases, Receive
<1>2. ControlInv'
  BY <1>1, DataStepKeepsControl DEF Receive, WorkersDone, Workers, cfg
<1>3. cfg' = cfg /\ Workers' = Workers /\ Ingestible(m) = Ingestible(m)'
  BY DEF Receive, cfg, Workers, Ingestible
<1>4. /\ arrivals \in Seq(Messages) /\ arrivals' \in Seq(Messages)
      /\ Len(arrivals') = Len(arrivals) + 1 /\ Len(arrivals) \in Nat
      /\ \A i \in 1..Len(arrivals) : arrivals'[i] = arrivals[i]
      /\ arrivals'[Len(arrivals) + 1] = m /\ arrivals' # << >>
  <2>1. arrivals \in Seq(Messages) /\ arrivals' = Append(arrivals, m)
    BY DEF Receive, DataInv, DataType, IntakeType, QueueType, WorkersType, TopicsType
  <2> QED
    BY <2>1
<1>5. ReceivedIds \subseteq ReceivedIds' /\ ReceivedIds' = ReceivedIds \cup {Len(arrivals) + 1}
  BY <1>4 DEF ReceivedIds
<1>6. DataType'
  <2>1. QueueType'
    BY <1>3, <1>5 DEF DataInv, DataType, QueueType, Receive
  <2>2. Holding \subseteq Holding' /\ Record \subseteq Record' /\ DeadLetter \subseteq DeadLetter'
    BY <1>5 DEF Holding, Record, DeadLetter
  <2>3. WorkersType'
    BY <1>3, <2>2 DEF DataInv, DataType, WorkersType, Receive
  <2>4. TopicsType'
    BY <2>2 DEF DataInv, DataType, TopicsType, Receive
  <2>5. IntakeType' /\ stats' \in Stats
    BY <1>4 DEF DataInv, DataType, IntakeType, Receive
  <2> QED
    BY <2>1, <2>3, <2>4, <2>5 DEF DataType, Stats
<1>7. StoppedInv'
  BY DEF DataInv, StoppedInv, Receive
<1>8. Accounting'
  <2>1. InHand("produce")' = InHand("produce")
    BY DEF Receive, InHand
  <2>2. queue' = queue /\ stats' = stats /\ ~callback /\ callback'
    BY DEF Receive
  <2>4. /\ InHand("produce") \in Nat /\ Len(queue) \in Nat
        /\ stats.produced \in Nat /\ stats.dropped \in Nat /\ stats.failed \in Nat
    BY Numbers
  <2>3. Len(arrivals) = Len(queue) + InHand("produce") + stats.produced + stats.dropped + stats.failed
    BY <2>2, <2>4 DEF DataInv, Accounting
  <2> QED
    <3>1. (IF callback' THEN 1 ELSE 0) = 1
      BY <2>2
    <3>2. Len(arrivals') = 1 + Len(queue') + InHand("produce")' + stats'.produced + stats'.dropped
                           + stats'.failed
      <4> DEFINE n == Len(arrivals)
                 q == Len(queue)
                 i == InHand("produce")
                 p == stats.produced
                 d == stats.dropped
                 f == stats.failed
      <4>1. /\ Len(arrivals') = n + 1 /\ Len(queue') = q /\ InHand("produce")' = i
            /\ stats'.produced = p /\ stats'.dropped = d /\ stats'.failed = f
        BY <1>4, <2>1, <2>2
      <4>2. /\ q \in Nat /\ i \in Nat /\ p \in Nat /\ d \in Nat /\ f \in Nat
            /\ n = q + i + p + d + f
        BY <2>3, <2>4
      <4> HIDE DEF n, q, i, p, d, f
      <4>3. n + 1 = 1 + q + i + p + d + f
        BY ONLY <4>2
      <4> QED
        BY ONLY <4>1, <4>3
    <3> QED
      BY <3>1, <3>2 DEF Accounting
<1>9. SortedInv'
  <2>1. \A i \in ReceivedIds' : arrivals'[i] \in Messages /\ Routed(cfg.filter, arrivals'[i].topic)
    BY <1>4, <1>5 DEF DataInv, SortedInv, Receive, ReceivedIds
  <2>2. \A i \in ReceivedIds : arrivals'[i] = arrivals[i]
    BY <1>4 DEF ReceivedIds
  <2> DEFINE Fits(x) == Ingestible(x)
  <2>3. \A x : Ingestible(x)' = Ingestible(x)
    BY <1>3 DEF Ingestible
  <2>4. \A w \in DOMAIN workers : workers[w].stage \in {"produce", "park"} =>
          workers[w].message \in ReceivedIds
    BY DEF DataInv, SortedInv
  <2>5. /\ \A i \in 1..Len(telemetry) : telemetry[i].message \in ReceivedIds
        /\ \A i \in 1..Len(deadLetters) : deadLetters[i].message \in ReceivedIds
    BY Sent
  <2>6. UNCHANGED <<workers, telemetry, deadLetters>>
    BY DEF Receive
  <2> QED
    BY <1>3, <1>5, <2>1, <2>2, <2>4, <2>5, <2>6 DEF DataInv, SortedInv, Ingestible
<1>10. OrderInv'
  <2>1. /\ \A i \in 1..Len(telemetry) : telemetry[i].message \in ReceivedIds
        /\ \A i \in 1..Len(queue) : queue[i] \in ReceivedIds
    BY Sent
  <2>2. \A w \in DOMAIN workers : workers[w].stage \in {"produce", "park"} =>
          workers[w].message \in ReceivedIds
    BY DEF DataInv, SortedInv
  <2>3. \A i \in ReceivedIds : i < Len(arrivals')
    BY <1>4 DEF ReceivedIds
  <2>4. UNCHANGED <<queue, workers, telemetry>>
    BY DEF Receive
  <2> QED
    BY <1>4, <2>1, <2>2, <2>3, <2>4 DEF DataInv, OrderInv
<1> QED
  BY <1>2, <1>6, <1>7, <1>8, <1>9, <1>10 DEF DataInv

\* The rest of the handler: the message is queued, or counted as dropped.
LEMMA EnqueueKeeps ==
  ASSUME ControlInv, DataInv, Enqueue
  PROVE  ControlInv' /\ DataInv'
<1> USE DEF run, link, guard, kafka
<1>1. /\ arrivals' = arrivals /\ arrivals # << >> /\ callback /\ ~callback'
      /\ UNCHANGED <<env, workers, telemetry, deadLetters, closed>>
  BY DEF Enqueue, DataInv, OrderInv
<1>2. FromEnvAccepts(env)
  BY <1>1 DEF ControlInv, Phases
<1>3. ControlInv'
  BY <1>1, <1>2, DataStepKeepsControl DEF Enqueue, WorkersDone, Workers, cfg
<1>4. cfg' = cfg /\ Workers' = Workers /\ ReceivedIds' = ReceivedIds
  BY <1>1 DEF cfg, Workers, ReceivedIds
<1>5. Len(arrivals) \in ReceivedIds /\ cfg.queueSize \in Nat
  BY <1>1, <1>2, Accepted DEF ReceivedIds, DataInv, DataType, ControlInv, IntakeType, QueueType, WorkersType, TopicsType
<1>6. queue \in Seq(ReceivedIds) /\ stats \in Stats
  BY DEF DataInv, DataType, IntakeType, QueueType, WorkersType, TopicsType
<1>7. SortedInv'
  BY <1>1, <1>4 DEF DataInv, SortedInv, Ingestible
<1>8. InHand("produce")' = InHand("produce")
  BY <1>1 DEF InHand
<1>12. Holding' = Holding /\ Record' = Record /\ DeadLetter' = DeadLetter
  BY <1>4 DEF Holding, Record, DeadLetter
<1>11. IntakeType' /\ WorkersType' /\ TopicsType'
  BY <1>1, <1>4, <1>12 DEF DataInv, DataType, IntakeType, WorkersType, TopicsType, Enqueue
<1>9. CASE Accepts
  <2>1. queue' = Append(queue, Len(arrivals)) /\ stats' = stats /\ ~closed
        /\ Len(queue) < cfg.queueSize
    BY <1>9 DEF Enqueue, Accepts
  <2>2. /\ queue' \in Seq(ReceivedIds) /\ Len(queue') = Len(queue) + 1
        /\ \A i \in 1..Len(queue) : queue'[i] = queue[i]
        /\ queue'[Len(queue) + 1] = Len(arrivals) /\ Len(queue) \in Nat
    BY <1>5, <1>6, <2>1
  <2>3. DataType'
    <3>1. QueueType'
      BY <1>4, <1>5, <2>1, <2>2 DEF QueueType
    <3> QED
      BY <1>1, <1>6, <1>11, <2>1, <3>1 DEF DataType
  <2>4. StoppedInv'
    BY <1>1, <2>1 DEF DataInv, StoppedInv
  <2>5. Accounting'
    BY <1>1, <1>8, <2>1, <2>2 DEF DataInv, Accounting
  <2>6. OrderInv'
    <3>1. \A i \in 1..Len(queue') : i \in 1..Len(queue) \/ i = Len(queue) + 1
      BY <2>2
    <3>2. \A i, j \in 1..Len(queue') : i < j => queue'[i] < queue'[j]
      BY <1>1, <2>2, <3>1 DEF DataInv, OrderInv
    <3>3. \A w \in DOMAIN workers : workers[w].stage \in {"produce", "park"} =>
            \A i \in 1..Len(queue') : workers[w].message < queue'[i]
      BY <1>1, <2>2, <3>1 DEF DataInv, OrderInv
    <3>4. \A i \in 1..Len(telemetry) : \A j \in 1..Len(queue') : telemetry[i].message < queue'[j]
      BY <1>1, <2>2, <3>1 DEF DataInv, OrderInv
    <3> QED
      BY <1>1, <3>2, <3>3, <3>4 DEF DataInv, OrderInv
  <2> QED
    BY <1>3, <1>7, <2>3, <2>4, <2>5, <2>6 DEF DataInv
<1>10. CASE ~Accepts
  <2>1. queue' = queue /\ stats' = [stats EXCEPT !.dropped = @ + 1]
    BY <1>10 DEF Enqueue, Count
  <2>2. /\ stats' \in Stats /\ stats'.dropped = stats.dropped + 1
        /\ stats'.produced = stats.produced /\ stats'.failed = stats.failed
        /\ stats.dropped \in Nat /\ stats.produced \in Nat /\ stats.failed \in Nat
    BY <1>6, <2>1 DEF Stats
  <2>3. DataType'
    <3>1. QueueType'
      BY <1>4, <2>1 DEF DataInv, DataType, QueueType
    <3> QED
      BY <1>1, <1>11, <2>2, <3>1 DEF DataType, Stats
  <2>4. StoppedInv'
    BY <1>1, <2>1 DEF DataInv, StoppedInv
  <2>5. Accounting'
    <3>1. InHand("produce") \in Nat /\ Len(queue) \in Nat
      BY Numbers
    <3>2. Len(arrivals) = 1 + Len(queue) + InHand("produce") + stats.produced + stats.dropped
                          + stats.failed
      BY <1>1 DEF DataInv, Accounting
    <3>3. /\ Len(arrivals') = Len(arrivals) /\ Len(queue') = Len(queue)
          /\ stats'.dropped = stats.dropped + 1 /\ stats'.produced = stats.produced
          /\ stats'.failed = stats.failed
          /\ stats.dropped \in Nat /\ stats.produced \in Nat /\ stats.failed \in Nat
      BY <1>1, <2>1, <2>2
    <3> QED
      <4>1. Len(arrivals') = Len(queue') + InHand("produce")' + stats'.produced + stats'.dropped
                             + stats'.failed
        <5> DEFINE n == Len(arrivals)
                   q == Len(queue)
                   i == InHand("produce")
                   p == stats.produced
                   d == stats.dropped
                   f == stats.failed
        <5>1. /\ q \in Nat /\ i \in Nat /\ p \in Nat /\ d \in Nat /\ f \in Nat
              /\ n = 1 + q + i + p + d + f
          BY <3>1, <3>2, <3>3
        <5>2. /\ Len(arrivals') = n /\ Len(queue') = q /\ InHand("produce")' = i
              /\ stats'.produced = p /\ stats'.dropped = d + 1 /\ stats'.failed = f
          BY <1>8, <3>3
        <5> HIDE DEF n, q, i, p, d, f
        <5>3. n = q + i + p + (d + 1) + f
          BY ONLY <5>1
        <5> QED
          BY ONLY <5>2, <5>3
      <4>2. (IF callback' THEN 1 ELSE 0) = 0
        BY <1>1
      <4>3. stats'.produced \in Nat /\ stats'.failed \in Nat
        BY <2>2
      <4> QED
        BY <3>1, <4>1, <4>2 DEF Accounting
  <2>6. OrderInv'
    BY <1>1, <2>1 DEF DataInv, OrderInv
  <2> QED
    BY <1>3, <1>7, <2>3, <2>4, <2>5, <2>6 DEF DataInv
<1> QED
  BY <1>9, <1>10

\* A worker takes up or lays down a message: what that says of the rest.
LEMMA WorkerSteps ==
  ASSUME ControlInv, DataInv, NEW w \in DOMAIN workers, workers[w].stage # "stopped",
         NEW h \in Holding, workers' = [workers EXCEPT ![w] = h],
         UNCHANGED <<env, run, link, intake, closed, kafkaOpen>>
  PROVE  /\ ControlInv' /\ IntakeType' /\ WorkersType'
         /\ cfg' = cfg /\ Workers' = Workers /\ ReceivedIds' = ReceivedIds
         /\ Record' = Record /\ DeadLetter' = DeadLetter /\ cfg.queueSize \in Nat
         /\ DOMAIN workers' = DOMAIN workers /\ workers'[w] = h
         /\ \A v \in DOMAIN workers : v # w => workers'[v] = workers[v]
<1> USE DEF intake
<1>1. workers \in [DOMAIN workers -> Holding] /\ workers # << >>
  BY DEF DataInv, DataType, WorkersType
<1>2. FromEnvAccepts(env) /\ DOMAIN workers = Workers
  BY <1>1 DEF ControlInv, Phases, DataInv, DataType, WorkersType
<1>3. /\ DOMAIN workers' = DOMAIN workers /\ workers'[w] = h
      /\ \A v \in DOMAIN workers : v # w => workers'[v] = workers[v]
      /\ workers' \in [DOMAIN workers' -> Holding]
  BY <1>1
<1>4. ~WorkersDone
  BY <1>2 DEF WorkersDone
<1>5. ControlInv'
  BY <1>1, <1>2, <1>3, <1>4, DataStepKeepsControl
<1>6. cfg' = cfg /\ Workers' = Workers /\ ReceivedIds' = ReceivedIds
  BY DEF cfg, Workers, ReceivedIds
<1>7. Holding' = Holding /\ Record' = Record /\ DeadLetter' = DeadLetter
  BY <1>6 DEF Holding, Record, DeadLetter
<1>8. IntakeType' /\ WorkersType'
  BY <1>2, <1>3, <1>6, <1>7 DEF DataInv, DataType, IntakeType, WorkersType
<1> QED
  BY <1>2, <1>3, <1>5, <1>6, <1>7, <1>8, Accepted DEF ControlInv

\* One worker changes its stage: the number of messages in hand changes by that worker.
LEMMA InHandChanges ==
  ASSUME ControlInv, DataInv, NEW w \in DOMAIN workers, NEW h,
         DOMAIN workers' = DOMAIN workers, workers'[w] = h,
         \A v \in DOMAIN workers : v # w => workers'[v] = workers[v]
  PROVE  /\ InHand("produce") \in Nat /\ InHand("produce")' \in Nat
         /\ workers[w].stage = "produce" /\ h.stage # "produce" =>
              InHand("produce")' = InHand("produce") - 1
         /\ workers[w].stage # "produce" /\ h.stage = "produce" =>
              InHand("produce")' = InHand("produce") + 1
         /\ workers[w].stage # "produce" /\ h.stage # "produce" =>
              InHand("produce")' = InHand("produce")
<1> DEFINE A == {v \in DOMAIN workers : workers[v].stage = "produce"}
           B == {v \in DOMAIN workers : workers'[v].stage = "produce"}
           R == {v \in DOMAIN workers : v # w /\ workers[v].stage = "produce"}
<1>1. IsFiniteSet(DOMAIN workers)
  BY Numbers
<1>2. IsFiniteSet(R) /\ IsFiniteSet(A) /\ IsFiniteSet(B)
  BY <1>1, FS_Subset
<1>3. Cardinality(R) \in Nat /\ Cardinality(A) \in Nat /\ Cardinality(B) \in Nat
  BY <1>2, FS_CardinalityType
<1>4. Cardinality(R \cup {w}) = Cardinality(R) + 1
  <2>1. w \notin R
    OBVIOUS
  <2> QED
    BY <1>2, <2>1, FS_AddElement
<1>5. A = IF workers[w].stage = "produce" THEN R \cup {w} ELSE R
  OBVIOUS
<1>6. B = IF h.stage = "produce" THEN R \cup {w} ELSE R
  OBVIOUS
<1>7. InHand("produce") = Cardinality(A) /\ InHand("produce")' = Cardinality(B)
  BY DEF InHand
<1> HIDE DEF A, B, R
<1> QED
  BY <1>3, <1>4, <1>5, <1>6, <1>7

\* One counter goes up.
LEMMA Counts ==
  ASSUME DataInv
  PROVE  /\ Count("produced") => /\ stats' \in Stats /\ stats'.produced = stats.produced + 1
                                 /\ stats'.dropped = stats.dropped /\ stats'.failed = stats.failed
         /\ Count("failed") => /\ stats' \in Stats /\ stats'.failed = stats.failed + 1
                               /\ stats'.dropped = stats.dropped /\ stats'.produced = stats.produced
         /\ Count("dlqFailed") => /\ stats' \in Stats /\ stats'.failed = stats.failed
                                  /\ stats'.dropped = stats.dropped
                                  /\ stats'.produced = stats.produced
<1>1. stats \in Stats
  BY DEF DataInv, DataType
<1> QED
  BY <1>1 DEF Count, Stats

\* The sum of Accounting, for the steps that leave the callback alone.
LEMMA StillAccounted ==
  ASSUME ControlInv, DataInv, UNCHANGED intake,
         InHand("produce")' \in Nat, Len(queue') \in Nat, stats' \in Stats,
         Len(queue') + InHand("produce")' + stats'.produced + stats'.dropped + stats'.failed
           = Len(queue) + InHand("produce") + stats.produced + stats.dropped + stats.failed
  PROVE  Accounting'
<1> DEFINE c == IF callback THEN 1 ELSE 0
<1>1. /\ InHand("produce") \in Nat /\ Len(queue) \in Nat /\ stats.produced \in Nat
      /\ stats.dropped \in Nat /\ stats.failed \in Nat
  BY Numbers
<1>2. stats'.produced \in Nat /\ stats'.dropped \in Nat /\ stats'.failed \in Nat
  BY DEF Stats
<1>3. c \in Nat
  OBVIOUS
<1>4. Len(arrivals) = c + Len(queue) + InHand("produce") + stats.produced + stats.dropped
                      + stats.failed
  BY DEF DataInv, Accounting
<1>5. arrivals' = arrivals /\ (IF callback' THEN 1 ELSE 0) = c
  BY DEF intake
<1> HIDE DEF c
<1>6. c + Len(queue) + InHand("produce") + stats.produced + stats.dropped + stats.failed
      = c + (Len(queue) + InHand("produce") + stats.produced + stats.dropped + stats.failed)
  <2> DEFINE q == Len(queue)
             i == InHand("produce")
             p == stats.produced
             d == stats.dropped
             f == stats.failed
  <2>1. c \in Nat /\ q \in Nat /\ i \in Nat /\ p \in Nat /\ d \in Nat /\ f \in Nat
    BY <1>1, <1>3
  <2> HIDE DEF q, i, p, d, f
  <2>2. c + q + i + p + d + f = c + (q + i + p + d + f)
    BY ONLY <2>1
  <2> QED
    BY <2>2 DEF q, i, p, d, f
<1>7. c + Len(queue') + InHand("produce")' + stats'.produced + stats'.dropped + stats'.failed
      = c + (Len(queue') + InHand("produce")' + stats'.produced + stats'.dropped + stats'.failed)
  <2> DEFINE q == Len(queue')
             i == InHand("produce")'
             p == stats'.produced
             d == stats'.dropped
             f == stats'.failed
  <2>1. c \in Nat /\ q \in Nat /\ i \in Nat /\ p \in Nat /\ d \in Nat /\ f \in Nat
    BY <1>2, <1>3
  <2> HIDE DEF q, i, p, d, f
  <2>2. c + q + i + p + d + f = c + (q + i + p + d + f)
    BY ONLY <2>1
  <2> QED
    BY <2>2 DEF q, i, p, d, f
<1>8. Len(arrivals') = c + Len(queue') + InHand("produce")' + stats'.produced + stats'.dropped
                       + stats'.failed
  BY <1>4, <1>5, <1>6, <1>7
<1> QED
  BY <1>5, <1>8 DEF Accounting

\* A worker takes the head of the queue.
LEMMA TakeKeeps ==
  ASSUME ControlInv, DataInv, NEW w \in DOMAIN workers, Take(w)
  PROVE  ControlInv' /\ DataInv'
<1> USE DEF run, link, intake, guard, kafka
<1> DEFINE m == Head(queue)
           h == [stage |-> IF Ingestible(arrivals[m]) THEN "produce" ELSE "park", message |-> m]
<1>1. /\ workers[w].stage = "idle" /\ queue # << >> /\ queue' = Tail(queue)
      /\ workers' = [workers EXCEPT ![w] = h]
      /\ UNCHANGED <<env, run, link, intake, closed, kafka>>
      /\ IF Ingestible(arrivals[m]) THEN stats' = stats ELSE Count("failed")
  BY DEF Take
<1>2. /\ queue \in Seq(ReceivedIds) /\ Len(queue) \in Nat /\ Len(queue) >= 1 /\ m = queue[1]
      /\ m \in ReceivedIds /\ queue' \in Seq(ReceivedIds) /\ Len(queue') = Len(queue) - 1
      /\ \A i \in 1..Len(queue') : i + 1 \in 1..Len(queue) /\ queue'[i] = queue[i + 1]
  <2>1. queue \in Seq(ReceivedIds) /\ queue # << >> /\ queue' = Tail(queue)
    BY <1>1 DEF DataInv, DataType, QueueType
  <2> QED
    BY <2>1
<1>3. h \in Holding /\ h.message = m
      /\ (Ingestible(arrivals[m]) => h.stage = "produce")
      /\ (~Ingestible(arrivals[m]) => h.stage = "park")
  BY <1>2 DEF Holding
<1> HIDE DEF m, h
<1>4. /\ ControlInv' /\ IntakeType' /\ WorkersType'
      /\ cfg' = cfg /\ Workers' = Workers /\ ReceivedIds' = ReceivedIds
      /\ Record' = Record /\ DeadLetter' = DeadLetter /\ cfg.queueSize \in Nat
      /\ DOMAIN workers' = DOMAIN workers /\ workers'[w] = h
      /\ \A v \in DOMAIN workers : v # w => workers'[v] = workers[v]
  BY <1>1, <1>3, WorkerSteps
<1>5. /\ InHand("produce") \in Nat /\ InHand("produce")' \in Nat
      /\ h.stage = "produce" => InHand("produce")' = InHand("produce") + 1
      /\ h.stage # "produce" => InHand("produce")' = InHand("produce")
  BY <1>1, <1>4, InHandChanges
<1>6. DataType'
  <2>1. stats' \in Stats
    BY <1>1, Counts DEF DataInv, DataType
  <2>2. QueueType'
    BY <1>2, <1>4 DEF DataInv, DataType, QueueType
  <2>3. TopicsType'
    BY <1>1, <1>4 DEF DataInv, DataType, TopicsType
  <2> QED
    BY <1>4, <2>1, <2>2, <2>3 DEF DataType, Stats
<1>7. StoppedInv'
  BY <1>1, <1>3, <1>4 DEF DataInv, StoppedInv
<1>8. Accounting'
  <2>1. stats' \in Stats /\ Len(queue') \in Nat
    BY <1>1, <1>2, Counts DEF DataInv, DataType
  <2>2. /\ stats.produced \in Nat /\ stats.dropped \in Nat /\ stats.failed \in Nat
    BY Numbers
  <2>3. CASE Ingestible(arrivals[m])
    <3>1. stats' = stats /\ InHand("produce")' = InHand("produce") + 1
      BY <1>1, <1>3, <1>5, <2>3
    <3>2. Len(queue') + InHand("produce")' = Len(queue) + InHand("produce")
      BY <1>2, <1>5, <3>1
    <3> QED
      BY <1>1, <1>5, <2>1, <3>1, <3>2, StillAccounted
  <2>4. CASE ~Ingestible(arrivals[m])
    <3>1. /\ InHand("produce")' = InHand("produce") /\ stats'.failed = stats.failed + 1
          /\ stats'.dropped = stats.dropped /\ stats'.produced = stats.produced
      BY <1>1, <1>3, <1>5, <2>4, Counts
    <3>2. (Len(queue) - 1) + InHand("produce") + stats.produced + stats.dropped + (stats.failed + 1)
          = Len(queue) + InHand("produce") + stats.produced + stats.dropped + stats.failed
      <4> DEFINE q == Len(queue)
                 i == InHand("produce")
                 p == stats.produced
                 d == stats.dropped
                 f == stats.failed
      <4>1. q \in Nat /\ i \in Nat /\ p \in Nat /\ d \in Nat /\ f \in Nat
        BY <1>2, <1>5, <2>2
      <4> HIDE DEF q, i, p, d, f
      <4>2. (q - 1) + i + p + d + (f + 1) = q + i + p + d + f
        BY ONLY <4>1
      <4> QED
        BY <4>2 DEF q, i, p, d, f
    <3>3. Len(queue') + InHand("produce")' + stats'.produced + stats'.dropped + stats'.failed
          = Len(queue) + InHand("produce") + stats.produced + stats.dropped + stats.failed
      BY <1>2, <3>1, <3>2
    <3> QED
      BY <1>1, <1>5, <2>1, <3>3, StillAccounted
  <2> QED
    BY <2>3, <2>4
<1>9. SortedInv'
  <2>1. \A i : Ingestible(arrivals[i])' = Ingestible(arrivals[i])
    BY <1>1, <1>4 DEF Ingestible
  <2> QED
    BY <1>1, <1>2, <1>3, <1>4, <2>1 DEF DataInv, SortedInv
<1>10. OrderInv'
  <2>1. \A i, j \in 1..Len(queue') : i < j => queue'[i] < queue'[j]
    BY <1>2 DEF DataInv, OrderInv
  <2>2. \A i \in 1..Len(queue') : m < queue'[i]
    BY <1>2 DEF DataInv, OrderInv
  <2>3. \A v \in DOMAIN workers : v # w /\ workers[v].stage \in {"produce", "park"} =>
          /\ \A i \in 1..Len(queue') : workers[v].message < queue'[i]
          /\ callback => workers[v].message < Len(arrivals)
    BY <1>2 DEF DataInv, OrderInv
  <2>4. callback => m < Len(arrivals) /\ \A i \in 1..Len(queue') : queue'[i] < Len(arrivals)
    BY <1>2 DEF DataInv, OrderInv
  <2>5. \A i \in 1..Len(telemetry) :
          telemetry[i].message < m /\ \A j \in 1..Len(queue') : telemetry[i].message < queue'[j]
    BY <1>2 DEF DataInv, OrderInv
  <2>6. \A v \in DOMAIN workers : workers'[v].stage \in {"produce", "park"} =>
          /\ \A i \in 1..Len(queue') : workers'[v].message < queue'[i]
          /\ callback => workers'[v].message < Len(arrivals)
    BY <1>3, <1>4, <2>2, <2>3, <2>4
  <2>7. UNCHANGED <<callback, arrivals, telemetry>>
    BY <1>1
  <2>8. DOMAIN workers = {1} => workers'[1].message = m
    BY <1>3, <1>4
  <2> QED
    BY SMTT(30), <1>4, <2>1, <2>4, <2>5, <2>6, <2>7, <2>8 DEF DataInv, OrderInv
<1> QED
  BY <1>4, <1>6, <1>7, <1>8, <1>9, <1>10 DEF DataInv

\* What the steps that end with an idle worker, over the same queue, keep anyway.
LEMMA LayDown ==
  ASSUME ControlInv, DataInv, NEW w \in DOMAIN workers, workers[w].stage \in {"produce", "park"},
         workers' = [workers EXCEPT ![w] = Idle], stats' \in Stats, TopicsType',
         UNCHANGED <<env, run, link, intake, guard, kafkaOpen>>
  PROVE  /\ ControlInv' /\ DataType' /\ StoppedInv'
         /\ cfg' = cfg /\ ReceivedIds' = ReceivedIds
         /\ DOMAIN workers' = DOMAIN workers /\ workers'[w] = Idle
         /\ \A v \in DOMAIN workers : v # w => workers'[v] = workers[v]
<1> USE DEF guard
<1>1. Idle \in Holding /\ Idle.stage = "idle" /\ workers[w].stage # "stopped"
  BY DEF Idle, Holding
<1>2. /\ ControlInv' /\ IntakeType' /\ WorkersType'
      /\ cfg' = cfg /\ ReceivedIds' = ReceivedIds
      /\ DOMAIN workers' = DOMAIN workers /\ workers'[w] = Idle
      /\ \A v \in DOMAIN workers : v # w => workers'[v] = workers[v]
  BY <1>1, WorkerSteps
<1>3. QueueType'
  BY <1>2 DEF DataInv, DataType, QueueType
<1>4. DataType'
  BY <1>2, <1>3 DEF DataType, Stats
<1>5. StoppedInv'
  BY <1>1, <1>2 DEF DataInv, StoppedInv
<1> QED
  BY <1>2, <1>4, <1>5

LEMMA ProduceSyncKeeps ==
  ASSUME ControlInv, DataInv, NEW w \in DOMAIN workers,
         NEW landed \in BOOLEAN, NEW acknowledged \in BOOLEAN, ProduceSync(w, landed, acknowledged)
  PROVE  ControlInv' /\ DataInv'
<1> USE DEF run, link, intake, guard, kafka
<1> DEFINE m == workers[w].message
           r == BuildRecord(m)
<1>1. /\ workers[w].stage = "produce" /\ workers' = [workers EXCEPT ![w] = Idle]
      /\ telemetry' = IF landed THEN Append(telemetry, r) ELSE telemetry
      /\ Count("produced") \/ Count("failed")
      /\ UNCHANGED <<env, run, link, intake, guard, kafkaOpen, deadLetters>>
  BY DEF ProduceSync, Produced
<1>2. stats' \in Stats
  BY <1>1, Counts
<1>3. m \in ReceivedIds /\ Ingestible(arrivals[m]) /\ arrivals[m] \in Messages
  BY <1>1 DEF DataInv, SortedInv
<1>4. r \in Record /\ r.message = m /\ telemetry \in Seq(Record)
  BY <1>3 DEF BuildRecord, Record, Devices, DataInv, DataType, TopicsType
<1> HIDE DEF m, r
<1>5. /\ telemetry' \in Seq(Record)
      /\ \A i \in 1..Len(telemetry') :
           \/ i \in 1..Len(telemetry) /\ telemetry'[i] = telemetry[i]
           \/ i = Len(telemetry) + 1 /\ telemetry'[i].message = m
      /\ Len(telemetry) \in Nat
  BY <1>1, <1>4
<1>6. Record' = Record /\ DeadLetter' = DeadLetter
  BY <1>1 DEF Record, DeadLetter, ReceivedIds
<1>7. TopicsType'
  BY <1>1, <1>5, <1>6 DEF DataInv, DataType, TopicsType
<1>8. /\ ControlInv' /\ DataType' /\ StoppedInv' /\ cfg' = cfg /\ ReceivedIds' = ReceivedIds
      /\ DOMAIN workers' = DOMAIN workers /\ workers'[w] = Idle
      /\ \A v \in DOMAIN workers : v # w => workers'[v] = workers[v]
  BY <1>1, <1>2, <1>7, LayDown
<1>9. Idle.stage = "idle"
  BY DEF Idle
<1>10. Accounting'
  <2>1. /\ InHand("produce") \in Nat /\ InHand("produce")' \in Nat
        /\ InHand("produce")' = InHand("produce") - 1
    BY <1>1, <1>8, <1>9, InHandChanges
  <2>2. /\ stats.produced \in Nat /\ stats.dropped \in Nat /\ stats.failed \in Nat
        /\ Len(queue) \in Nat /\ InHand("produce") \in Nat
    BY Numbers
  <2>4. Len(queue') + InHand("produce")' + stats'.produced + stats'.dropped + stats'.failed
        = Len(queue) + InHand("produce") + stats.produced + stats.dropped + stats.failed
    <3>1. CASE Count("produced")
      <4>1. /\ stats'.produced = stats.produced + 1 /\ stats'.dropped = stats.dropped
            /\ stats'.failed = stats.failed
        BY <3>1, Counts
      <4>2. Len(queue) + (InHand("produce") - 1) + (stats.produced + 1) + stats.dropped + stats.failed
            = Len(queue) + InHand("produce") + stats.produced + stats.dropped + stats.failed
        <5> DEFINE q == Len(queue)
                   i == InHand("produce")
                   p == stats.produced
                   d == stats.dropped
                   f == stats.failed
        <5>1. q \in Nat /\ i \in Nat /\ p \in Nat /\ d \in Nat /\ f \in Nat
          BY <2>2
        <5> HIDE DEF q, i, p, d, f
        <5>2. q + (i - 1) + (p + 1) + d + f = q + i + p + d + f
          BY ONLY <5>1
        <5> QED
          BY <5>2 DEF q, i, p, d, f
      <4> QED
        BY <1>1, <2>1, <4>1, <4>2
    <3>2. CASE Count("failed")
      <4>1. /\ stats'.produced = stats.produced /\ stats'.dropped = stats.dropped
            /\ stats'.failed = stats.failed + 1
        BY <3>2, Counts
      <4>2. Len(queue) + (InHand("produce") - 1) + stats.produced + stats.dropped + (stats.failed + 1)
            = Len(queue) + InHand("produce") + stats.produced + stats.dropped + stats.failed
        <5> DEFINE q == Len(queue)
                   i == InHand("produce")
                   p == stats.produced
                   d == stats.dropped
                   f == stats.failed
        <5>1. q \in Nat /\ i \in Nat /\ p \in Nat /\ d \in Nat /\ f \in Nat
          BY <2>2
        <5> HIDE DEF q, i, p, d, f
        <5>2. q + (i - 1) + p + d + (f + 1) = q + i + p + d + f
          BY ONLY <5>1
        <5> QED
          BY <5>2 DEF q, i, p, d, f
      <4> QED
        BY <1>1, <2>1, <4>1, <4>2
    <3> QED
      BY <1>1, <3>1, <3>2
  <2> QED
    BY <1>1, <1>2, <2>1, <2>2, <2>4, StillAccounted
<1>11. SortedInv'
  <2>1. \A i : Ingestible(arrivals[i])' = Ingestible(arrivals[i])
    BY <1>1, <1>8 DEF Ingestible
  <2>2. \A i \in 1..Len(telemetry') : Ingestible(arrivals[telemetry'[i].message])
    BY <1>3, <1>5 DEF DataInv, SortedInv
  <2> QED
    BY <1>1, <1>8, <1>9, <2>1, <2>2 DEF DataInv, SortedInv
<1>12. OrderInv'
  <2>1. /\ \A i \in 1..Len(queue) : m < queue[i]
        /\ callback => m < Len(arrivals)
    BY <1>1 DEF DataInv, OrderInv, m
  <2>2. callback => \A i \in 1..Len(telemetry') : telemetry'[i].message < Len(arrivals)
    BY <1>5, <2>1 DEF DataInv, OrderInv
  <2>3. \A i \in 1..Len(telemetry') : \A j \in 1..Len(queue) : telemetry'[i].message < queue[j]
    BY <1>5, <2>1 DEF DataInv, OrderInv
  <2>4. DOMAIN workers = {1} =>
          \A i, j \in 1..Len(telemetry') : i < j => telemetry'[i].message < telemetry'[j].message
    <3> SUFFICES ASSUME DOMAIN workers = {1},
                        NEW i \in 1..Len(telemetry'), NEW j \in 1..Len(telemetry'), i < j
                 PROVE  telemetry'[i].message < telemetry'[j].message
      OBVIOUS
    <3>1. i \in 1..Len(telemetry) /\ telemetry'[i] = telemetry[i]
      BY <1>5
    <3>2. telemetry[i].message < m
      BY <1>1, <3>1 DEF DataInv, OrderInv, m
    <3> QED
      BY <1>5, <3>1, <3>2 DEF DataInv, OrderInv
  <2> QED
    BY <1>1, <1>8, <1>9, <2>2, <2>3, <2>4 DEF DataInv, OrderInv
<1> QED
  BY <1>8, <1>10, <1>11, <1>12 DEF DataInv

LEMMA parkInDeadLetterKeeps ==
  ASSUME ControlInv, DataInv, NEW w \in DOMAIN workers,
         NEW landed \in BOOLEAN, NEW acknowledged \in BOOLEAN,
         parkInDeadLetter(w, landed, acknowledged)
  PROVE  ControlInv' /\ DataInv'
<1> USE DEF run, link, intake, guard, kafka
<1> DEFINE m == workers[w].message
           r == BuildDeadLetterRecord(m)
<1>1. /\ workers[w].stage = "park" /\ workers' = [workers EXCEPT ![w] = Idle]
      /\ deadLetters' = IF landed THEN Append(deadLetters, r) ELSE deadLetters
      /\ stats' = stats \/ Count("dlqFailed")
      /\ UNCHANGED <<env, run, link, intake, guard, kafkaOpen, telemetry>>
  BY DEF parkInDeadLetter
<1>2. /\ stats' \in Stats /\ stats'.failed = stats.failed /\ stats'.dropped = stats.dropped
      /\ stats'.produced = stats.produced
  BY <1>1, Counts DEF DataInv, DataType
<1>3. m \in ReceivedIds /\ ~Ingestible(arrivals[m]) /\ arrivals[m] \in Messages
  BY <1>1 DEF DataInv, SortedInv
<1>4. r \in DeadLetter /\ r.message = m /\ deadLetters \in Seq(DeadLetter)
  BY <1>3 DEF BuildDeadLetterRecord, DeadLetter, Topics, DataInv, DataType, TopicsType
<1> HIDE DEF m, r
<1>5. /\ deadLetters' \in Seq(DeadLetter)
      /\ \A i \in 1..Len(deadLetters') :
           \/ i \in 1..Len(deadLetters) /\ deadLetters'[i] = deadLetters[i]
           \/ deadLetters'[i].message = m
  BY <1>1, <1>4
<1>6. Record' = Record /\ DeadLetter' = DeadLetter
  BY <1>1 DEF Record, DeadLetter, ReceivedIds
<1>7. TopicsType'
  BY <1>1, <1>5, <1>6 DEF DataInv, DataType, TopicsType
<1>8. /\ ControlInv' /\ DataType' /\ StoppedInv' /\ cfg' = cfg /\ ReceivedIds' = ReceivedIds
      /\ DOMAIN workers' = DOMAIN workers /\ workers'[w] = Idle
      /\ \A v \in DOMAIN workers : v # w => workers'[v] = workers[v]
  BY <1>1, <1>2, <1>7, LayDown
<1>9. Idle.stage = "idle"
  BY DEF Idle
<1>10. Accounting'
  <2>1. InHand("produce")' \in Nat /\ InHand("produce")' = InHand("produce")
    BY <1>1, <1>8, <1>9, InHandChanges
  <2>2. Len(queue') = Len(queue) /\ Len(queue') \in Nat
    BY <1>1, Numbers
  <2>3. Len(queue') + InHand("produce")' + stats'.produced + stats'.dropped + stats'.failed
        = Len(queue) + InHand("produce") + stats.produced + stats.dropped + stats.failed
    BY <1>2, <2>1, <2>2
  <2> QED
    BY <1>1, <1>2, <2>1, <2>2, <2>3, StillAccounted
<1>11. SortedInv'
  <2>1. \A i : Ingestible(arrivals[i])' = Ingestible(arrivals[i])
    BY <1>1, <1>8 DEF Ingestible
  <2>2. \A i \in 1..Len(deadLetters') : ~Ingestible(arrivals[deadLetters'[i].message])
    BY <1>3, <1>5 DEF DataInv, SortedInv
  <2> QED
    BY <1>1, <1>8, <1>9, <2>1, <2>2 DEF DataInv, SortedInv
<1>12. OrderInv'
  BY <1>1, <1>8, <1>9 DEF DataInv, OrderInv
<1> QED
  BY <1>8, <1>10, <1>11, <1>12 DEF DataInv

LEMMA WorkerEndsKeeps ==
  ASSUME ControlInv, DataInv, NEW w \in DOMAIN workers, WorkerEnds(w)
  PROVE  ControlInv' /\ DataInv'
<1> USE DEF run, link, intake, guard, kafka
<1> DEFINE h == [stage |-> "stopped", message |-> workers[w].message]
<1>1. /\ workers[w].stage = "idle" /\ closed /\ queue = << >>
      /\ UNCHANGED <<env, run, link, intake, guard, stats, kafkaOpen, telemetry, deadLetters>>
  BY DEF WorkerEnds
<1>2. h \in Holding /\ workers' = [workers EXCEPT ![w] = h]
  <2>1. workers[w] \in Holding
    BY DEF DataInv, DataType, WorkersType
  <2> QED
    <3>1. \A x \in Holding : [x EXCEPT !.stage = "stopped"]
                              = [stage |-> "stopped", message |-> x.message]
      BY DEF Holding
    <3>2. workers' = [workers EXCEPT ![w] = [workers[w] EXCEPT !.stage = "stopped"]]
      BY DEF WorkerEnds
    <3>3. workers' = [workers EXCEPT ![w] = h]
      BY <2>1, <3>1, <3>2
    <3> QED
      BY <2>1, <3>3 DEF Holding
<1>3. h.stage = "stopped"
  OBVIOUS
<1> HIDE DEF h
<1>4. /\ ControlInv' /\ IntakeType' /\ WorkersType'
      /\ cfg' = cfg /\ Workers' = Workers /\ ReceivedIds' = ReceivedIds
      /\ Record' = Record /\ DeadLetter' = DeadLetter
      /\ DOMAIN workers' = DOMAIN workers /\ workers'[w] = h
      /\ \A v \in DOMAIN workers : v # w => workers'[v] = workers[v]
  BY <1>1, <1>2, WorkerSteps
<1>5. DataType'
  BY <1>1, <1>4 DEF DataInv, DataType, QueueType, TopicsType, Stats
<1>6. StoppedInv'
  BY <1>1 DEF StoppedInv
<1>7. Accounting'
  <2>1. InHand("produce")' \in Nat /\ InHand("produce")' = InHand("produce")
    BY <1>1, <1>3, <1>4, InHandChanges
  <2>2. Len(queue') \in Nat /\ stats' \in Stats
    BY <1>1, Numbers DEF DataInv, DataType
  <2>3. Len(queue') + InHand("produce")' + stats'.produced + stats'.dropped + stats'.failed
        = Len(queue) + InHand("produce") + stats.produced + stats.dropped + stats.failed
    BY <1>1, <2>1
  <2> QED
    BY <1>1, <2>1, <2>2, <2>3, StillAccounted
<1>8. SortedInv'
  <2>1. \A i : Ingestible(arrivals[i])' = Ingestible(arrivals[i])
    BY <1>1, <1>4 DEF Ingestible
  <2> QED
    BY <1>1, <1>3, <1>4, <2>1 DEF DataInv, SortedInv
<1>9. OrderInv'
  BY <1>1, <1>3, <1>4 DEF DataInv, OrderInv
<1> QED
  BY <1>4, <1>5, <1>6, <1>7, <1>8, <1>9 DEF DataInv

\* Run starts the workers, or gives up before there are any.
LEMMA StartKeeps ==
  ASSUME ControlInv, DataInv, Start
  PROVE  ControlInv' /\ DataInv'
<1> USE DEF link, intake, guard, kafka
<1>1. /\ main = "starting" /\ workers = << >> /\ FromEnvAccepts(env) /\ teardown = "none"
      /\ UNCHANGED <<env, stop, teardown, connections, subscription, resubscribing, report, deaf,
                     intake, guard, stats, kafka>>
  BY DEF Start, ControlInv, Phases
<1>2. cfg' = cfg /\ Workers' = Workers /\ ReceivedIds' = ReceivedIds
  BY <1>1 DEF cfg, Workers, ReceivedIds
<1>3. CASE ~(SecurityOptsBuild(cfg.security) /\ ValidateFilter(cfg.filter) /\ TLSConfigBuilds(cfg.mqttCA))
  <2>1. main' = "returned" /\ result' = "error" /\ mqtt' = mqtt /\ workers' = workers
    BY <1>3 DEF Start
  <2>2. DataInv'
    BY <1>1, <2>1, Steady
  <2>3. ControlType' /\ (env \in Environments)'
    BY <1>1, <2>1 DEF ControlInv, ControlType, Stages
  <2>4. Phases'
    BY <1>1, <1>2, <2>1 DEF ControlInv, Phases, WorkersDone
  <2>5. StartFails'
    BY <1>2, <1>3 DEF StartFails
  <2> QED
    BY <2>2, <2>3, <2>4, <2>5 DEF ControlInv
<1>4. CASE SecurityOptsBuild(cfg.security) /\ ValidateFilter(cfg.filter) /\ TLSConfigBuilds(cfg.mqttCA)
  <2>1. /\ main' = "connecting" /\ mqtt' = "connecting" /\ result' = result
        /\ workers' = [w \in Workers |-> Idle]
    BY <1>4 DEF Start
  <2>2. /\ DOMAIN workers' = Workers /\ \A w \in Workers : workers'[w].stage = "idle"
        /\ 1 \in Workers /\ workers' # << >> /\ workers' \in [Workers -> Holding]
    <3>1. Idle \in Holding /\ Idle.stage = "idle"
      BY DEF Idle, Holding
    <3>2. 1 \in Workers
      BY <1>1, Accepted DEF ControlInv
    <3>3. DOMAIN workers' = Workers /\ \A w \in Workers : workers'[w] = Idle
      BY <2>1
    <3>4. workers' # << >>
      <4>1. DOMAIN << >> = {}
        OBVIOUS
      <4> QED
        BY <3>2, <3>3, <4>1
    <3> QED
      BY <2>1, <3>1, <3>2, <3>3, <3>4
  <2>3. ControlType' /\ StartFails' /\ (env \in Environments)'
    BY <1>1, <1>2, <2>1 DEF ControlInv, ControlType, StartFails, Stages, Phases
  <2>4. Phases'
    BY <1>1, <1>2, <2>1, <2>2 DEF ControlInv, Phases
  <2>5. Holding' = Holding /\ Record' = Record /\ DeadLetter' = DeadLetter
    BY <1>2 DEF Holding, Record, DeadLetter
  <2>6. DataType'
    <3>1. IntakeType' /\ QueueType' /\ TopicsType' /\ stats' \in Stats
      BY <1>1, <1>2, <2>5 DEF DataInv, DataType, IntakeType, QueueType, TopicsType
    <3>2. WorkersType'
      BY <1>2, <2>2, <2>5 DEF WorkersType
    <3> QED
      BY <3>1, <3>2 DEF DataType, Stats
  <2>7. StoppedInv'
    BY <2>2 DEF StoppedInv
  <2>8. Accounting'
    <3>1. {w \in DOMAIN workers : workers[w].stage = "produce"} = {}
      BY <1>1
    <3>2. {w \in DOMAIN workers' : workers'[w].stage = "produce"} = {}
      BY <2>2
    <3>3. InHand("produce")' = InHand("produce")
      BY <3>1, <3>2 DEF InHand
    <3> QED
      BY <1>1, <3>3 DEF DataInv, Accounting
  <2>9. SortedInv'
    BY <1>1, <1>2, <2>2 DEF DataInv, SortedInv, Ingestible
  <2>10. OrderInv'
    <3>1. telemetry = << >> /\ UNCHANGED <<telemetry, queue, callback, arrivals>>
      BY <1>1 DEF DataInv, OrderInv
    <3>2. Len(telemetry) = 0
      BY <3>1
    <3> QED
      BY <2>2, <3>1, <3>2 DEF DataInv, OrderInv
  <2> QED
    BY <2>3, <2>4, <2>6, <2>7, <2>8, <2>9, <2>10 DEF ControlInv, DataInv
<1> QED
  BY <1>3, <1>4

LEMMA closeOnceKeeps ==
  ASSUME ControlInv, DataInv, closeOnce
  PROVE  ControlInv' /\ DataInv'
<1> USE DEF run, link, intake, guard, kafka
<1>1. /\ teardown = "close" /\ teardown' = "wait" /\ closed' = TRUE
      /\ UNCHANGED <<env, stop, main, result, link, intake, queue, workers, stats, kafka>>
  BY DEF closeOnce
<1>2. cfg' = cfg /\ Workers' = Workers /\ ReceivedIds' = ReceivedIds
  BY <1>1 DEF cfg, Workers, ReceivedIds
<1>3. ControlType' /\ StartFails' /\ (env \in Environments)'
  BY <1>1, <1>2 DEF ControlInv, ControlType, StartFails
<1>4. Phases'
  BY <1>1, <1>2 DEF ControlInv, Phases, WorkersDone
<1>5. DataType'
  <2>1. Holding' = Holding /\ Record' = Record /\ DeadLetter' = DeadLetter
    BY <1>2 DEF Holding, Record, DeadLetter
  <2> QED
    BY <1>1, <1>2, <2>1
       DEF DataInv, DataType, IntakeType, QueueType, WorkersType, TopicsType, Stats
<1>6. StoppedInv' /\ OrderInv'
  BY <1>1 DEF DataInv, StoppedInv, OrderInv
<1>7. Accounting'
  BY <1>1 DEF DataInv, Accounting, InHand
<1>8. SortedInv'
  BY <1>1, <1>2 DEF DataInv, SortedInv, Ingestible
<1> QED
  BY <1>3, <1>4, <1>5, <1>6, <1>7, <1>8 DEF ControlInv, DataInv

-----------------------------------------------------------------------------
(* The invariant *)

LEMMA InitInv ==
  ASSUME Init
  PROVE  IndInv
<1>1. ControlInv
  <2>1. env \in Environments /\ ControlType
    <3>1. MaxConnections \in Nat
      BY BridgeAssumption
    <3> QED
      <4>1. /\ stop = FALSE /\ main = "starting" /\ result = "none" /\ teardown = "none"
            /\ mqtt = "down" /\ subscription = FALSE /\ report = "none" /\ deaf = FALSE
            /\ kafkaOpen = TRUE /\ env \in Environments
        BY DEF Init
      <4>2. connections = 0 /\ resubscribing = 0
        BY DEF Init
      <4>3. connections \in 0..MaxConnections /\ resubscribing \in 0..connections
        BY <3>1, <4>2
      <4> QED
        BY <4>1, <4>3 DEF ControlType, Stages
  <2>2. Phases /\ StartFails
    BY DEF Init, Phases, StartFails
  <2> QED
    BY <2>1, <2>2 DEF ControlInv
<1>2. DataType
  <2>1. IntakeType /\ QueueType /\ TopicsType
    <3>1. /\ arrivals = << >> /\ queue = << >> /\ telemetry = << >> /\ deadLetters = << >>
          /\ callback = FALSE /\ closed = FALSE
      BY DEF Init
    <3>2. \A S : << >> \in Seq(S)
      OBVIOUS
    <3> QED
      BY <3>1, <3>2 DEF IntakeType, QueueType, TopicsType
  <2>2. WorkersType
    <3>1. workers = << >> /\ DOMAIN workers = {}
      BY DEF Init
    <3> QED
      BY <3>1 DEF WorkersType
  <2>3. stats \in Stats
    BY DEF Init, Stats
  <2> QED
    BY <2>1, <2>2, <2>3 DEF DataType
<1>3. DOMAIN workers = {}
  BY DEF Init
<1>4. Accounting
  <2>1. {w \in DOMAIN workers : workers[w].stage = "produce"} = {}
    BY <1>3
  <2>2. InHand("produce") = 0
    BY <2>1, FS_EmptySet DEF InHand
  <2> QED
    BY <2>2 DEF Init, Accounting
<1>5. StoppedInv /\ SortedInv /\ OrderInv
  BY <1>3 DEF Init, StoppedInv, SortedInv, OrderInv, ReceivedIds
<1> QED
  BY <1>1, <1>2, <1>4, <1>5 DEF IndInv, DataInv

LEMMA NextInv ==
  ASSUME IndInv, [Next]_vars
  PROVE  IndInv'
<1> USE DEF IndInv
<1>1. CASE ControlStep
  BY <1>1, ControlKeepsControl, ControlKeepsData, Steady
<1>2. CASE Start
  BY <1>2, StartKeeps
<1>3. CASE closeOnce
  BY <1>3, closeOnceKeeps
<1>4. CASE \E m \in Messages : Receive(m)
  BY <1>4, ReceiveKeeps
<1>5. CASE Enqueue
  BY <1>5, EnqueueKeeps
<1>6. CASE \E w \in DOMAIN workers : Worker(w)
  <2> SUFFICES ASSUME NEW w \in DOMAIN workers, Worker(w)
               PROVE  IndInv'
    BY <1>6
  <2>1. CASE Take(w)
    BY <2>1, TakeKeeps
  <2>2. CASE \E landed, acknowledged \in BOOLEAN : ProduceSync(w, landed, acknowledged)
    BY <2>2, ProduceSyncKeeps
  <2>3. CASE \E landed, acknowledged \in BOOLEAN : parkInDeadLetter(w, landed, acknowledged)
    BY <2>3, parkInDeadLetterKeeps
  <2>4. CASE WorkerEnds(w)
    BY <2>4, WorkerEndsKeeps
  <2> QED
    BY <2>1, <2>2, <2>3, <2>4 DEF Worker
<1>7. CASE UNCHANGED vars
  <2>1. UNCHANGED <<env, intake, guard, workers, stats, telemetry, deadLetters>>
    BY <1>7 DEF vars, kafka
  <2>2. DataInv'
    BY <2>1, Steady
  <2>3. UNCHANGED <<env, run, link, kafkaOpen, closed, workers, arrivals>>
    BY <1>7 DEF vars, kafka, guard, intake
  <2>4. arrivals # << >> => FromEnvAccepts(env)
    BY DEF ControlInv, Phases
  <2>5. WorkersDone => WorkersDone'
    BY <2>3 DEF WorkersDone, Workers, cfg
  <2>6. ControlInv'
    BY <2>3, <2>4, <2>5, DataStepKeepsControl
  <2> QED
    BY <2>2, <2>6
<1>8. Next => \/ ControlStep \/ Start \/ closeOnce \/ (\E m \in Messages : Receive(m)) \/ Enqueue
              \/ (\E w \in DOMAIN workers : Worker(w)) \/ UNCHANGED vars
  BY Zenon DEF Next, Run, finish, ControlStep, Exited
<1> QED
  BY <1>1, <1>2, <1>3, <1>4, <1>5, <1>6, <1>7, <1>8

\* Every state of the bridge has the invariant.
LEMMA Invariance == Spec => []IndInv
<1>1. Init => IndInv
  BY InitInv
<1>2. IndInv /\ [Next]_vars => IndInv'
  BY NextInv
<1> QED
  BY <1>1, <1>2, PTL DEF Spec

-----------------------------------------------------------------------------
(* What follows *)

\* Goroutines are at their stages, and only messages that did arrive are queued or published.
THEOREM TypeCorrectness == Spec => []TypeOK
<1>1. IndInv => TypeOK
  BY Halves DEF IndInv, ControlInv, DataInv
<1> QED
  BY <1>1, Invariance, PTL

\* The handler and the workers (bridge.go, stats.go) count each message once, whatever order
\* they run in: the sum is part of the invariant.
THEOREM AccountingTheorem == Spec => []Accounting
<1>1. IndInv => Accounting
  BY DEF IndInv, DataInv
<1> QED
  BY <1>1, Invariance, PTL

\* The Kafka client is closed only after the last message was answered for (finish of
\* bridge.go): the last worker ends at a closed and empty queue, which stays so.
THEOREM DrainedTheorem == Spec => []DrainedBeforeClose
<1>1. IndInv => DrainedBeforeClose
  <2> SUFFICES ASSUME IndInv, ~kafkaOpen
               PROVE  /\ queue = << >> /\ InHand("produce") = 0 /\ InHand("park") = 0
                      /\ closed /\ mqtt = "down"
    BY DEF DrainedBeforeClose
  <2>1. teardown = "closed" /\ WorkersDone /\ mqtt = "down" /\ DOMAIN workers = Workers
        /\ workers # << >> /\ FromEnvAccepts(env) /\ env \in Environments
    BY DEF IndInv, ControlInv, Phases
  <2>2. 1 \in DOMAIN workers /\ \A w \in DOMAIN workers : workers[w].stage = "stopped"
    BY <2>1, Accepted DEF WorkersDone
  <2>3. closed /\ queue = << >>
    BY <2>2 DEF IndInv, DataInv, StoppedInv
  <2>4. /\ {w \in DOMAIN workers : workers[w].stage = "produce"} = {}
        /\ {w \in DOMAIN workers : workers[w].stage = "park"} = {}
    BY <2>2
  <2>5. InHand("produce") = 0 /\ InHand("park") = 0
    BY <2>4, FS_EmptySet DEF InHand
  <2> QED
    BY <2>1, <2>3, <2>5
<1> QED
  BY <1>1, Invariance, PTL

\* A topic the filter routes is one ParseTopic takes, unless a segment is empty.
LEMMA RoutedParses ==
  ASSUME NEW filter, NEW topic, WellFormed(filter), Routed(filter, topic),
         Empty \notin {topic[s] : s \in 1..Segments}
  PROVE  ParseTopic(topic, DeriveConstraints(filter))
<1>1. /\ Len(filter) = 5 /\ Len(topic) = 5 /\ filter[5] = "telemetry"
      /\ \A i \in 1..5 : filter[i] = "+" \/ filter[i] = topic[i]
  BY DEF WellFormed, Routed, Segments
<1>2. WellFormed(topic)
  <2>1. topic[5] = "telemetry"
    <3>1. filter[5] = "+" \/ filter[5] = topic[5]
      BY <1>1
    <3> QED
      BY <1>1, <3>1
  <2>2. \A i \in 1..5 : topic[i] # Empty
    BY DEF Segments
  <2> QED
    BY <1>1, <2>1, <2>2 DEF WellFormed, Segments
<1>3. ~violation(DeriveConstraints(filter), topic)
  <2> SUFFICES ASSUME NEW i \in 1..4, DeriveConstraints(filter)[i] # Empty
               PROVE  topic[i] = DeriveConstraints(filter)[i]
    BY DEF violation, Segments
  <2>1. DeriveConstraints(filter)[i] = nonWildcard(filter[i])
    BY DEF DeriveConstraints, Segments
  <2>2. filter[i] # "+" /\ nonWildcard(filter[i]) = filter[i]
    BY <2>1 DEF nonWildcard
  <2> QED
    BY <1>1, <2>1, <2>2
<1> QED
  BY <1>2, <1>3 DEF ParseTopic

\* What the subscription brings is parked only for an empty segment or a payload that does not
\* convert (telemetry.go), and never published then.
THEOREM RoutedTheorem == Spec => []RoutedIsIngestible
<1>1. IndInv => RoutedIsIngestible
  <2> SUFFICES ASSUME IndInv
               PROVE  RoutedIsIngestible
    OBVIOUS
  <2>1. /\ \A i \in 1..Len(telemetry) : telemetry[i].message \in ReceivedIds
        /\ \A i \in 1..Len(deadLetters) : deadLetters[i].message \in ReceivedIds
    BY Sent DEF IndInv
  <2>2. DOMAIN telemetry = 1..Len(telemetry) /\ DOMAIN deadLetters = 1..Len(deadLetters)
    BY DEF IndInv, DataInv, DataType, TopicsType
  <2>3. ASSUME NEW i \in DOMAIN telemetry
        PROVE  LET m == arrivals[telemetry[i].message] IN
                 Empty \notin {m.topic[s] : s \in 1..Segments} /\ m.decodable
    BY <2>2 DEF IndInv, DataInv, SortedInv, Ingestible, ParseTopic, WellFormed
  <2>4. ASSUME NEW i \in DOMAIN deadLetters
        PROVE  LET m == arrivals[deadLetters[i].message] IN
                 Empty \in {m.topic[s] : s \in 1..Segments} \/ ~m.decodable
    <3> DEFINE m == arrivals[deadLetters[i].message]
    <3>1. ~Ingestible(m) /\ Routed(cfg.filter, m.topic)
      BY <2>1, <2>2 DEF IndInv, DataInv, SortedInv
    <3>2. arrivals # << >>
      BY <2>1, <2>2 DEF ReceivedIds
    <3>3. WellFormed(cfg.filter)
      BY <3>2 DEF IndInv, ControlInv, Phases, FromEnvAccepts, ConfigValid, ValidateFilter, cfg
    <3>4. CASE Empty \notin {m.topic[s] : s \in 1..Segments}
      <4>1. ParseTopic(m.topic, DeriveConstraints(cfg.filter))
        BY <3>1, <3>3, <3>4, RoutedParses
      <4> QED
        BY <3>1, <4>1 DEF Ingestible
    <3> QED
      BY <3>4
  <2> QED
    BY <2>3, <2>4 DEF RoutedIsIngestible
<1> QED
  BY <1>1, Invariance, PTL

\* With one producer worker the readings of a meter are published in the order they came and
\* once (produceWorker and enqueue of bridge.go): what is published came before what is in
\* hand, and that before what is queued.
THEOREM OrderTheorem == Spec => []SingleWorkerOrder
<1>1. IndInv => SingleWorkerOrder
  <2> SUFFICES ASSUME IndInv, cfg.workerCount = 1
               PROVE  MeterOrder
    BY DEF SingleWorkerOrder
  <2>1. workers = << >> => telemetry = << >>
    BY DEF IndInv, DataInv, OrderInv
  <2>2. workers # << >> => DOMAIN workers = {1}
    BY DEF IndInv, DataInv, DataType, WorkersType, Workers
  <2>3. DOMAIN telemetry = 1..Len(telemetry)
    BY DEF IndInv, DataInv, DataType, TopicsType
  <2>4. CASE workers = << >>
    BY <2>1, <2>4 DEF MeterOrder
  <2>5. CASE workers # << >>
    BY <2>2, <2>3, <2>5 DEF IndInv, DataInv, OrderInv, MeterOrder
  <2> QED
    BY <2>4, <2>5
<1> QED
  BY <1>1, Invariance, PTL

\* FromEnv (config.go) refuses all that Run would stop at before it connects, but for a CA that
\* cannot be read.
THEOREM AcceptedStartsTheorem == Spec => []AcceptedStarts
<1>1. IndInv => AcceptedStarts
  <2> SUFFICES ASSUME IndInv, FromEnvAccepts(env), result = "error", teardown = "none"
               PROVE  Garbage \in {cfg.security.caFile, cfg.security.caPEM, cfg.mqttCA}
    BY DEF AcceptedStarts
  <2>1. ~(SecurityOptsBuild(cfg.security) /\ ValidateFilter(cfg.filter) /\ TLSConfigBuilds(cfg.mqttCA))
    BY DEF IndInv, ControlInv, StartFails
  <2>2. ValidateFilter(cfg.filter) /\ SecurityValid(cfg.security)
    BY DEF FromEnvAccepts, ConfigValid, cfg
  <2>3. CASE ~TLSConfigBuilds(cfg.mqttCA)
    BY <2>3 DEF TLSConfigBuilds
  <2>4. CASE ~SecurityOptsBuild(cfg.security)
    BY <2>2, <2>4 DEF SecurityOptsBuild, SecurityValid, TLSConfigBuilds
  <2> QED
    BY <2>1, <2>2, <2>3, <2>4
<1> QED
  BY <1>1, Invariance, PTL
=============================================================================
