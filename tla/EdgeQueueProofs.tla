--------------------------- MODULE EdgeQueueProofs ---------------------------
EXTENDS EdgeQueue, FiniteSetTheorems, TLAPS

\* The AUTOINCREMENT counter of a history 1 .. n is n.
LEMMA CounterIsLength ==
  ASSUME NEW n \in Nat, NEW f, f \in [1..n -> Devices]
  PROVE  Cardinality(DOMAIN f) = n
  BY FS_Interval, FS_EmptySet

\* Admitting an event: a fresh row at the end of its device, replayed if the mode says so.
LEMMA PersistInv ==
  ASSUME IndInv, NEW d \in Devices, NEW c \in Codes \cup {NoCode}, NEW b \in EventSizes,
         Persist(d, c, b)
  PROVE  IndInv'
<1> USE DEF IndInv
<1>1. PICK n \in 0..MaxSequence : origin \in [1..n -> Devices]
  BY DEF TypeOK, HistoryTypeOK
<1>2. LastSequence = n
  BY <1>1, CounterIsLength, ConfigAssumption DEF LastSequence, Sequences
<1>3. n + 1 \notin Sequences /\ n + 1 <= MaxSequence /\ Sequences = 1..n
  BY <1>1, <1>2, ConfigAssumption DEF Persist, Sequences
<1>4. /\ origin' \in [1..(n + 1) -> Devices]
      /\ \A s \in 1..n : origin'[s] = origin[s]
      /\ origin'[n + 1] = d
      /\ Sequences' = 1..(n + 1)
  <2>1. origin' = Put(origin, n + 1, d)
    BY <1>2 DEF Persist
  <2>2. (1..n) \cup {n + 1} = 1..(n + 1)
    BY <1>1, ConfigAssumption
  <2>3. n + 1 \notin 1..n
    BY <1>1
  <2>4. /\ Put(origin, n + 1, d) \in [(1..n) \cup {n + 1} -> Devices]
        /\ Put(origin, n + 1, d)[n + 1] = d
        /\ \A s \in (1..n) \ {n + 1} : Put(origin, n + 1, d)[s] = origin[s]
    BY <1>1 DEF Put
  <2> QED  BY <2>1, <2>2, <2>3, <2>4 DEF Sequences
<1>5. /\ fate' \in [1..(n + 1) -> {"none", "acked", "abandoned"}]
      /\ fate'[n + 1] = "none"
      /\ \A s \in 1..n : fate'[s] = fate[s]
  <2>1. fate' = Put(fate, n + 1, "none")
    BY <1>2 DEF Persist
  <2>2. (1..n) \cup {n + 1} = 1..(n + 1)
    BY <1>1, ConfigAssumption
  <2>3. fate \in [1..n -> {"none", "acked", "abandoned"}]
    BY <1>3 DEF TypeOK, HistoryTypeOK
  <2>4. n + 1 \notin 1..n
    BY <1>1
  <2>5. /\ Put(fate, n + 1, "none") \in [(1..n) \cup {n + 1} -> {"none", "acked", "abandoned"}]
        /\ Put(fate, n + 1, "none")[n + 1] = "none"
        /\ \A s \in (1..n) \ {n + 1} : Put(fate, n + 1, "none")[s] = fate[s]
    BY <2>3 DEF Put
  <2> QED  BY <2>1, <2>2, <2>4, <2>5
<1>6. /\ queue_events' \in [DOMAIN queue_events \cup {n + 1} -> RowType]
      /\ queue_events'[n + 1].device_id = d
      /\ queue_events'[n + 1].critical_code = c
      /\ queue_events'[n + 1].status = "persisted"
      /\ queue_events'[n + 1].rejection_count = 0
      /\ queue_events'[n + 1].replay_required = replay_mode_active
      /\ \A s \in DOMAIN queue_events : queue_events'[s] = queue_events[s]
  <2> DEFINE row == [device_id |-> d, critical_code |-> c, critical |-> c # NoCode,
                     payload_bytes |-> b, status |-> "persisted", rejection_count |-> 0,
                     replay_required |-> replay_mode_active, waiting |-> FALSE]
  <2>1. queue_events' = Put(queue_events, n + 1, row)
    BY <1>2 DEF Persist
  <2>2. row \in RowType
    BY DEF RowType, ActiveStatus, TypeOK, StoreTypeOK
  <2> HIDE DEF row
  <2>3. /\ queue_events' \in [DOMAIN queue_events \cup {n + 1} -> RowType]
        /\ queue_events'[n + 1] = row
        /\ \A s \in DOMAIN queue_events : queue_events'[s] = queue_events[s]
    <3>1. queue_events \in [DOMAIN queue_events -> RowType] /\ n + 1 \notin DOMAIN queue_events
      BY <1>3 DEF TypeOK, StoreTypeOK
    <3>2. /\ Put(queue_events, n + 1, row) \in [DOMAIN queue_events \cup {n + 1} -> RowType]
          /\ Put(queue_events, n + 1, row)[n + 1] = row
          /\ \A s \in DOMAIN queue_events \ {n + 1} :
               Put(queue_events, n + 1, row)[s] = queue_events[s]
      BY <3>1, <2>2 DEF Put
    <3> QED  BY <3>1, <3>2, <2>1
  <2> QED  BY <2>3 DEF row
<1>7. HistoryTypeOK'
  <2>1. UNCHANGED <<zombies, upstream, attempted, unrecorded>>
    BY DEF Persist
  <2>2. n + 1 \in 0..MaxSequence
    BY <1>3, ConfigAssumption
  <2>3. Sequences \subseteq Sequences'
    BY <1>3, <1>4
  <2> QED  BY <1>4, <1>5, <2>1, <2>2, <2>3 DEF TypeOK, HistoryTypeOK
<1>8. StoreTypeOK'
  <2>1. UNCHANGED <<incidents, replay_mode_active, abandoned_count>>
    BY DEF Persist
  <2>2. Sequences \cup {n + 1} \subseteq Sequences'
    BY <1>3, <1>4
  <2> QED  BY <1>6, <2>1, <2>2 DEF TypeOK, StoreTypeOK, IncidentType
<1>9. ProcessTypeOK'
  BY <1>2, <1>3, <1>4 DEF TypeOK, ProcessTypeOK, Persist
<1>10. GoroutinesInv'
  BY <1>2, <1>6 DEF GoroutinesInv, Persist
<1>11. RowsInv'
  <2>1. \A s \in DOMAIN queue_events : s \in 1..n
    BY <1>3 DEF TypeOK, StoreTypeOK
  <2>2. DOMAIN queue_events' = DOMAIN queue_events \cup {n + 1}
    BY <1>6
  <2>3. \A s \in DOMAIN queue_events :
          /\ queue_events'[s].device_id = origin'[s]
          /\ queue_events'[s].status \in ActiveStatus <=> fate'[s] = "none"
    BY <1>4, <1>5, <1>6, <2>1 DEF RowsInv
  <2>4. queue_events'[n + 1].status \in ActiveStatus
    BY <1>6 DEF ActiveStatus
  <2>5. \A s \in Sequences' : fate'[s] = "none" => s \in DOMAIN queue_events'
    BY <1>3, <1>4, <1>5, <2>2 DEF RowsInv
  <2> QED  BY <1>4, <1>5, <1>6, <2>2, <2>3, <2>4, <2>5 DEF RowsInv
<1>12. DeviceHeads \subseteq DeviceHeads'
  BY <1>3, <1>4, <1>5 DEF DeviceHeads
<1>13. TodoInv'
  <2>1. UNCHANGED <<uploader, batch, attempted>> /\ uploader.todo \subseteq Sequences
    BY DEF Persist, TypeOK, ProcessTypeOK
  <2>2. DOMAIN queue_events \subseteq DOMAIN queue_events'
    BY <1>6
  <2> QED  BY <1>6, <1>12, <2>1, <2>2 DEF TodoInv
<1>14. PublishedInv'
  BY <1>3, <1>4, <1>5, <1>12 DEF PublishedInv, Persist, TypeOK, HistoryTypeOK
<1>15. ReplayInv'
  BY ZenonT(40), <1>3, <1>6 DEF ReplayInv, Persist, Active, TypeOK, HistoryTypeOK
<1>16. ReplayModeCoversBacklog'
  BY ZenonT(40), <1>6 DEF ReplayModeCoversBacklog, MarkedBacklog, Persist
<1>17. BudgetExact'
  BY <1>6, ConfigAssumption DEF BudgetExact
<1>18. IncidentDelivery'
  BY <1>3, <1>5 DEF IncidentDelivery, Persist, TypeOK, StoreTypeOK
<1> QED
  BY <1>7, <1>8, <1>9, <1>10, <1>11, <1>13, <1>14, <1>15, <1>16, <1>17, <1>18 DEF TypeOK

-----------------------------------------------------------------------------
(* Facts shared by the proofs of the actions *)

\* A step that assigns and settles nothing keeps the sequences and the heads of devices.
LEMMA HistoryFrame ==
  ASSUME UNCHANGED <<origin, fate>>
  PROVE  Sequences' = Sequences /\ DeviceHeads' = DeviceHeads
  BY DEF Sequences, DeviceHeads

\* A step that leaves the queue table and the fates alone keeps what is said of them.
LEMMA TableFrame ==
  ASSUME UNCHANGED <<queue_events, origin, fate>>, IndInv
  PROVE  RowsInv' /\ BudgetExact' /\ Active' = Active
  BY DEF IndInv, RowsInv, BudgetExact, Active, Sequences

\* A step that leaves every table alone keeps what is said of the tables only.
LEMMA StoreFrame ==
  ASSUME UNCHANGED <<queue_events, incidents, replay_mode_active, abandoned_count, origin, fate>>,
         IndInv
  PROVE  StoreTypeOK' /\ ReplayModeCoversBacklog' /\ IncidentDelivery'
  BY DEF IndInv, TypeOK, StoreTypeOK, Sequences, ReplayModeCoversBacklog, MarkedBacklog,
         IncidentDelivery

\* Opening an incident leaves the queue alone and starts undelivered.
LEMMA OpenFallbackIncidentInv ==
  ASSUME IndInv, OpenFallbackIncident
  PROVE  IndInv'
<1> USE DEF IndInv
<1>1. /\ UNCHANGED <<queue_events, replay_mode_active, abandoned_count, process, uploader, batch,
                     zombies, origin, upstream, fate, attempted, unrecorded>>
      /\ process = "running" /\ collector.next = "open"
      /\ collector' = [collector EXCEPT !.next = "mark"]
  BY DEF OpenFallbackIncident, history
<1>2. Sequences' = Sequences /\ DeviceHeads' = DeviceHeads
  BY <1>1, HistoryFrame
<1>3. RowsInv' /\ BudgetExact' /\ Active' = Active
  BY <1>1, TableFrame
<1> DEFINE s == collector.sequence
           row == queue_events[s]
           asset == AssetOf(row.device_id, row.critical_code)
           new == NewIncident(asset, row.critical_code)
<1>4. /\ s \in DOMAIN queue_events /\ row.status = "persisted"
      /\ row \in RowType /\ row.critical_code \in Codes
  BY <1>1 DEF GoroutinesInv, TypeOK, StoreTypeOK, RowType
<1>5. fate[s] = "none" /\ s \in Sequences
  BY <1>4 DEF RowsInv, ActiveStatus, TypeOK, StoreTypeOK
<1>6. new \in IncidentType /\ new.normal_delivered = FALSE
  BY <1>4 DEF NewIncident, IncidentType, RowType, AssetOf
<1>7. \/ incidents' = incidents
      \/ /\ s \notin DOMAIN incidents
         /\ incidents' = Put(incidents, s, new)
  BY DEF OpenFallbackIncident
<1> HIDE DEF s, row, asset, new
<1>8. StoreTypeOK'
  BY <1>1, <1>2, <1>5, <1>6, <1>7 DEF TypeOK, StoreTypeOK, Put
<1>9. IncidentDelivery'
  BY <1>1, <1>5, <1>6, <1>7 DEF IncidentDelivery, Put
<1>10. ProcessTypeOK'
  BY <1>1, <1>2 DEF TypeOK, ProcessTypeOK
<1>11. HistoryTypeOK'
  BY <1>1, <1>2 DEF TypeOK, HistoryTypeOK
<1>12. GoroutinesInv'
  BY <1>1, <1>4 DEF GoroutinesInv, TypeOK, ProcessTypeOK, s, row
<1>13. TodoInv' /\ PublishedInv' /\ ReplayInv' /\ ReplayModeCoversBacklog'
  BY <1>1, <1>2, <1>3
     DEF TodoInv, PublishedInv, ReplayInv, ReplayModeCoversBacklog, MarkedBacklog
<1> QED
  BY <1>3, <1>8, <1>9, <1>10, <1>11, <1>12, <1>13 DEF TypeOK

\* A failed collector call only drops what the collector had in hand.
LEMMA CollectorFailsInv ==
  ASSUME IndInv, CollectorFails
  PROVE  IndInv'
<1> USE DEF IndInv
<1>1. /\ UNCHANGED <<queue_events, incidents, replay_mode_active, abandoned_count, process, uploader,
                     batch, zombies, origin, upstream, fate, attempted, unrecorded>>
      /\ collector' = CollectorIdle
  BY DEF CollectorFails, durable, history
<1>2. Sequences' = Sequences /\ DeviceHeads' = DeviceHeads
  BY <1>1, HistoryFrame
<1>3. RowsInv' /\ BudgetExact' /\ Active' = Active
  BY <1>1, TableFrame
<1>4. StoreTypeOK' /\ ReplayModeCoversBacklog' /\ IncidentDelivery'
  BY <1>1, StoreFrame
<1>5. TypeOK'
  BY <1>1, <1>2, <1>4 DEF TypeOK, ProcessTypeOK, HistoryTypeOK, CollectorIdle
<1>6. GoroutinesInv'
  BY <1>1 DEF GoroutinesInv, CollectorIdle
<1>7. TodoInv' /\ PublishedInv' /\ ReplayInv'
  BY <1>1, <1>2, <1>3 DEF TodoInv, PublishedInv, ReplayInv
<1> QED
  BY <1>3, <1>4, <1>5, <1>6, <1>7

\* Resolving an incident never touches its delivery mark.
LEMMA ResolveFallbackIncidentInv ==
  ASSUME IndInv, NEW a, NEW c, ResolveFallbackIncident(a, c)
  PROVE  IndInv'
<1> USE DEF IndInv
<1>1. UNCHANGED <<queue_events, replay_mode_active, abandoned_count, process, collector, uploader,
                  batch, zombies, origin, upstream, fate, attempted, unrecorded>>
  BY DEF ResolveFallbackIncident, history
<1>2. Sequences' = Sequences /\ DeviceHeads' = DeviceHeads
  BY <1>1, HistoryFrame
<1>3. RowsInv' /\ BudgetExact' /\ Active' = Active
  BY <1>1, TableFrame
<1>4. LastSequence \in Nat
  BY CounterIsLength, ConfigAssumption DEF LastSequence, Sequences, TypeOK, HistoryTypeOK
<1>5. /\ DOMAIN incidents' = DOMAIN incidents
      /\ incidents' \in [DOMAIN incidents -> IncidentType]
      /\ \A i \in DOMAIN incidents :
           incidents'[i].normal_delivered = incidents[i].normal_delivered
  BY <1>4 DEF ResolveFallbackIncident, TypeOK, StoreTypeOK, IncidentType
<1>6. TypeOK'
  BY <1>1, <1>2, <1>5 DEF TypeOK, StoreTypeOK, ProcessTypeOK, HistoryTypeOK
<1>7. IncidentDelivery'
  BY <1>1, <1>5 DEF IncidentDelivery
<1>8. GoroutinesInv' /\ TodoInv' /\ PublishedInv' /\ ReplayInv' /\ ReplayModeCoversBacklog'
  BY <1>1, <1>2, <1>3
     DEF GoroutinesInv, TodoInv, PublishedInv, ReplayInv, ReplayModeCoversBacklog, MarkedBacklog
<1> QED
  BY <1>3, <1>6, <1>7, <1>8

\* A new batch holds heads of devices, with the columns as they are in the table.
LEMMA SendBatchInv ==
  ASSUME IndInv, SendBatch
  PROVE  IndInv'
<1> USE DEF IndInv
<1>1. /\ UNCHANGED <<queue_events, incidents, replay_mode_active, abandoned_count, process, collector,
                     zombies, origin, upstream, fate, unrecorded>>
      /\ process = "running" /\ uploader.pc = "idle"
      /\ uploader' = [pc |-> "sent", todo |-> Ready, accepted |-> {}, rejected |-> {}]
      /\ batch' = [s \in Ready |-> [rejection_count |-> queue_events[s].rejection_count,
                                    replay |-> queue_events[s].replay_required]]
      /\ attempted' = attempted \cup Ready
  BY DEF SendBatch, durable
<1>2. Sequences' = Sequences /\ DeviceHeads' = DeviceHeads
  BY <1>1, HistoryFrame
<1>3. RowsInv' /\ BudgetExact' /\ Active' = Active
  BY <1>1, TableFrame
<1>4. StoreTypeOK' /\ ReplayModeCoversBacklog' /\ IncidentDelivery'
  BY <1>1, StoreFrame
<1>5. \A s \in Ready : /\ s \in DOMAIN queue_events /\ s \in Sequences
                       /\ queue_events[s].status = "pending_upload"
                       /\ queue_events[s] \in RowType
  BY DEF Ready, Eligible, TypeOK, StoreTypeOK
<1>6. Ready \subseteq DeviceHeads
  <2> SUFFICES ASSUME NEW s \in Ready, NEW t \in Sequences, t < s, origin[t] = origin[s],
                      fate[t] = "none"
               PROVE  FALSE
    BY <1>5 DEF DeviceHeads
  <2>1. t \in Active /\ queue_events[t].device_id = queue_events[s].device_id
    BY <1>5 DEF RowsInv, Active
  <2> QED  BY <2>1 DEF Ready, Eligible
<1>7. ProcessTypeOK'
  BY <1>1, <1>2, <1>5 DEF TypeOK, ProcessTypeOK, RowType
<1>8. HistoryTypeOK'
  BY <1>1, <1>2, <1>5 DEF TypeOK, HistoryTypeOK
<1>9. GoroutinesInv'
  BY <1>1 DEF GoroutinesInv
<1>10. TodoInv'
  BY <1>1, <1>2, <1>5, <1>6 DEF TodoInv
<1>11. PublishedInv'
  BY <1>1, <1>2 DEF PublishedInv
<1>12. ReplayInv'
  BY <1>1, <1>3 DEF ReplayInv, GoroutinesInv, UploaderIdle
<1> QED
  BY <1>3, <1>4, <1>7, <1>8, <1>9, <1>10, <1>11, <1>12 DEF TypeOK

\* The four ways a request ends publish a part of the batch, or let a part of it be
\* published later.
LEMMA RequestEndsInv ==
  ASSUME IndInv, process = "running", uploader.pc = "sent",
         UNCHANGED <<queue_events, incidents, replay_mode_active, abandoned_count, process, collector,
                     batch, origin, fate, attempted, unrecorded>>,
         uploader' \in [pc : {"answered", "failed"}, todo : {uploader.todo},
                        accepted : SUBSET Sequences, rejected : SUBSET Sequences],
         upstream \subseteq upstream', upstream' \subseteq upstream \cup uploader.todo,
         zombies' \subseteq zombies \cup uploader.todo,
         uploader'.accepted \subseteq upstream'
  PROVE  IndInv'
<1> USE DEF IndInv
<1>1. Sequences' = Sequences /\ DeviceHeads' = DeviceHeads
  BY HistoryFrame
<1>2. RowsInv' /\ BudgetExact' /\ Active' = Active
  BY TableFrame
<1>3. StoreTypeOK' /\ ReplayModeCoversBacklog' /\ IncidentDelivery'
  BY StoreFrame
<1>4. uploader.todo \subseteq DeviceHeads /\ DeviceHeads \subseteq Sequences
  BY DEF TodoInv, DeviceHeads
<1>5. uploader'.todo = uploader.todo /\ uploader'.pc # "idle"
  OBVIOUS
<1>6. ProcessTypeOK'
  BY <1>1 DEF TypeOK, ProcessTypeOK
<1>7. HistoryTypeOK'
  BY <1>1, <1>4 DEF TypeOK, HistoryTypeOK
<1>8. GoroutinesInv'
  BY <1>5 DEF GoroutinesInv
<1>9. TodoInv' /\ ReplayInv'
  BY <1>1, <1>2, <1>5 DEF TodoInv, ReplayInv
<1>10. PublishedInv'
  BY <1>1, <1>4 DEF PublishedInv
<1> QED
  BY <1>2, <1>3, <1>6, <1>7, <1>8, <1>9, <1>10 DEF TypeOK

\* Every outcome of a request, and a late publication, keeps the invariant.
LEMMA NetworkInv ==
  ASSUME IndInv, Network
  PROVE  IndInv'
<1> USE DEF IndInv
<1>1. /\ uploader.todo \subseteq Sequences /\ uploader.accepted \subseteq upstream
      /\ uploader.accepted \subseteq Sequences /\ uploader.rejected \subseteq Sequences
      /\ uploader = [pc |-> uploader.pc, todo |-> uploader.todo,
                     accepted |-> uploader.accepted, rejected |-> uploader.rejected]
  BY DEF TypeOK, ProcessTypeOK, PublishedInv
<1>2. CASE \E p \in SUBSET uploader.todo : \E a \in SUBSET p : IngestAnswers(p, a)
  <2> PICK p \in SUBSET uploader.todo : \E a \in SUBSET p : IngestAnswers(p, a)
    BY <1>2
  <2> PICK a \in SUBSET p : IngestAnswers(p, a)
    OBVIOUS
  <2>1. /\ process = "running" /\ uploader.pc = "sent"
        /\ upstream' = upstream \cup p
        /\ uploader' = [pc |-> "answered", todo |-> uploader.todo, accepted |-> a,
                        rejected |-> uploader.todo \ a]
        /\ UNCHANGED <<queue_events, incidents, replay_mode_active, abandoned_count, process,
                       collector, batch, zombies, origin, fate, attempted, unrecorded>>
    BY <1>1 DEF IngestAnswers, durable
  <2> QED  BY <1>1, <2>1, RequestEndsInv
<1>3. CASE IngestRefusesRequest
  <2>1. /\ process = "running" /\ uploader.pc = "sent"
        /\ uploader' = [pc |-> "answered", todo |-> uploader.todo,
                        accepted |-> uploader.accepted, rejected |-> uploader.rejected]
        /\ UNCHANGED <<queue_events, incidents, replay_mode_active, abandoned_count, process,
                       collector, batch, zombies, origin, upstream, fate, attempted, unrecorded>>
    BY <1>1, <1>3 DEF IngestRefusesRequest, durable, history
  <2> QED  BY <1>1, <2>1, RequestEndsInv
<1>4. CASE \E p \in SUBSET uploader.todo : UploadFails(p)
  <2> PICK p \in SUBSET uploader.todo : UploadFails(p)
    BY <1>4
  <2>1. /\ process = "running" /\ uploader.pc = "sent"
        /\ upstream' = upstream \cup p
        /\ uploader' = [pc |-> "failed", todo |-> uploader.todo,
                        accepted |-> uploader.accepted, rejected |-> uploader.rejected]
        /\ UNCHANGED <<queue_events, incidents, replay_mode_active, abandoned_count, process,
                       collector, batch, zombies, origin, fate, attempted, unrecorded>>
    BY <1>1 DEF UploadFails, durable
  <2> QED  BY <1>1, <2>1, RequestEndsInv
<1>5. CASE UploadTimesOut
  <2>1. /\ process = "running" /\ uploader.pc = "sent"
        /\ zombies' = zombies \cup uploader.todo
        /\ uploader' = [pc |-> "failed", todo |-> uploader.todo,
                        accepted |-> uploader.accepted, rejected |-> uploader.rejected]
        /\ UNCHANGED <<queue_events, incidents, replay_mode_active, abandoned_count, process,
                       collector, batch, origin, upstream, fate, attempted, unrecorded>>
    BY <1>1, <1>5 DEF UploadTimesOut, durable, history
  <2> QED  BY <1>1, <2>1, RequestEndsInv
<1>6. CASE \E s \in zombies : LatePublish(s)
  <2> PICK s \in zombies : LatePublish(s)
    BY <1>6
  <2>1. /\ upstream' = upstream \cup {s} /\ zombies' = zombies \ {s}
        /\ UNCHANGED <<queue_events, incidents, replay_mode_active, abandoned_count, process,
                       collector, uploader, batch, origin, fate, attempted, unrecorded>>
    BY DEF LatePublish, durable
  <2>2. Sequences' = Sequences /\ DeviceHeads' = DeviceHeads
    BY <2>1, HistoryFrame
  <2>3. RowsInv' /\ BudgetExact' /\ Active' = Active
    BY <2>1, TableFrame
  <2>4. StoreTypeOK' /\ ReplayModeCoversBacklog' /\ IncidentDelivery'
    BY <2>1, StoreFrame
  <2>5. HistoryTypeOK' /\ ProcessTypeOK'
    BY <2>1, <2>2 DEF TypeOK, HistoryTypeOK, ProcessTypeOK
  <2>6. GoroutinesInv' /\ TodoInv' /\ PublishedInv' /\ ReplayInv'
    BY <2>1, <2>2, <2>3 DEF GoroutinesInv, TodoInv, PublishedInv, ReplayInv
  <2> QED  BY <2>3, <2>4, <2>5, <2>6 DEF TypeOK
<1> QED
  BY <1>2, <1>3, <1>4, <1>5, <1>6 DEF Network

-----------------------------------------------------------------------------
(* The outcomes of a batch.  SettleInv is the common part of an acknowledgement and an
   abandonment, MarkFailedInv of a rejection and a retry. *)

\* Taking the current record off the batch keeps the uploader well-typed.
LEMMA AdvanceType ==
  ASSUME IndInv, NEW s, Advance(s), UNCHANGED <<batch, process, collector>>,
         Sequences' = Sequences
  PROVE  /\ ProcessTypeOK'
         /\ uploader'.todo = uploader.todo \ {s} /\ uploader'.pc = uploader.pc
         /\ uploader'.accepted = uploader.accepted
  BY DEF IndInv, TypeOK, ProcessTypeOK, Advance

\* Settling a record only frees the records behind it.
LEMMA SettleHeads ==
  ASSUME IndInv, UNCHANGED origin, NEW s, NEW how, how # "none",
         fate' = [fate EXCEPT ![s] = how]
  PROVE  Sequences' = Sequences /\ DeviceHeads \subseteq DeviceHeads'
  BY DEF IndInv, TypeOK, HistoryTypeOK, Sequences, DeviceHeads

\* A record of the batch becomes terminal: everything that depends on the row follows.
LEMMA SettleInv ==
  ASSUME IndInv, NEW s \in uploader.todo, NEW how \in {"acked", "abandoned"}, NEW row \in RowType,
         uploader.pc = "answered", process = "running", Advance(s),
         row.status \in TerminalStatus, row.device_id = queue_events[s].device_id,
         row.status = "abandoned" => row.rejection_count = MaxRetries,
         row.status # "abandoned" => row.rejection_count < MaxRetries,
         how = "acked" => s \in upstream,
         queue_events' = [queue_events EXCEPT ![s] = row],
         fate' = [fate EXCEPT ![s] = how],
         UNCHANGED <<batch, process, collector, zombies, origin, upstream, attempted, unrecorded>>
  PROVE  /\ HistoryTypeOK' /\ ProcessTypeOK' /\ GoroutinesInv' /\ RowsInv' /\ TodoInv'
         /\ PublishedInv' /\ ReplayInv' /\ BudgetExact'
         /\ DOMAIN queue_events' = DOMAIN queue_events /\ Sequences' = Sequences
         /\ queue_events' \in [DOMAIN queue_events -> RowType]
         /\ MarkedBacklog(queue_events') => MarkedBacklog(queue_events)
<1> USE DEF IndInv
<1>1. Sequences' = Sequences /\ DeviceHeads \subseteq DeviceHeads'
  BY SettleHeads
<1>2. /\ ProcessTypeOK'
      /\ uploader'.todo = uploader.todo \ {s} /\ uploader'.pc = uploader.pc
      /\ uploader'.accepted = uploader.accepted
  BY <1>1, AdvanceType
<1>3. /\ s \in DOMAIN queue_events /\ s \in Sequences
      /\ queue_events[s].status = "pending_upload"
      /\ queue_events \in [DOMAIN queue_events -> RowType]
  BY DEF TodoInv, TypeOK, StoreTypeOK
<1>4. /\ queue_events' \in [DOMAIN queue_events -> RowType]
      /\ DOMAIN queue_events' = DOMAIN queue_events
      /\ queue_events'[s] = row
      /\ \A t \in DOMAIN queue_events : t # s => queue_events'[t] = queue_events[t]
  BY <1>3
<1>5. /\ fate' \in [Sequences -> {"none", "acked", "abandoned"}] /\ fate'[s] = how
      /\ \A t \in Sequences : t # s => fate'[t] = fate[t]
  BY <1>3 DEF TypeOK, HistoryTypeOK
<1>6. row.status \notin ActiveStatus
  BY DEF ActiveStatus, TerminalStatus
<1>7. HistoryTypeOK'
  BY <1>1, <1>5 DEF TypeOK, HistoryTypeOK
<1>8. GoroutinesInv'
  BY <1>2, <1>3, <1>4 DEF GoroutinesInv
<1>9. RowsInv'
  <2>1. \A t \in DOMAIN queue_events : t \in Sequences
    BY DEF TypeOK, StoreTypeOK
  <2>2. \A t \in DOMAIN queue_events : t # s =>
          /\ queue_events'[t].device_id = origin'[t]
          /\ queue_events'[t].status \in ActiveStatus <=> fate'[t] = "none"
    BY <1>4, <1>5, <2>1 DEF RowsInv
  <2>3. queue_events'[s].device_id = origin'[s] /\ fate'[s] # "none"
    BY <1>3, <1>4, <1>5 DEF RowsInv
  <2>4. \A t \in Sequences' : fate'[t] = "none" => t \in DOMAIN queue_events'
    BY <1>1, <1>4, <1>5 DEF RowsInv
  <2> QED  BY <1>4, <1>6, <2>2, <2>3, <2>4 DEF RowsInv
<1>10. TodoInv'
  BY <1>1, <1>2, <1>4 DEF TodoInv
<1>11. PublishedInv'
  BY <1>1, <1>2, <1>5 DEF PublishedInv
<1>12. ReplayInv'
  BY <1>2, <1>4, <1>6 DEF ReplayInv, Active
<1>13. BudgetExact'
  BY <1>3, <1>4 DEF BudgetExact
<1>14. MarkedBacklog(queue_events') => MarkedBacklog(queue_events)
  BY <1>4, <1>6 DEF MarkedBacklog
<1> QED
  BY <1>1, <1>2, <1>4, <1>7, <1>8, <1>9, <1>10, <1>11, <1>12, <1>13, <1>14

\* An acknowledged record was accepted, hence published; its row and incident follow.
LEMMA CompleteUploadInv ==
  ASSUME IndInv, NEW s \in uploader.todo, CompleteUpload(s)
  PROVE  IndInv'
<1> USE DEF IndInv
<1> DEFINE row == [queue_events[s] EXCEPT !.status = "acknowledged", !.waiting = FALSE]
<1>1. /\ s \in DOMAIN queue_events /\ s \in Sequences
      /\ queue_events[s].status = "pending_upload" /\ queue_events[s] \in RowType
      /\ queue_events[s].rejection_count < MaxRetries
      /\ queue_events \in [DOMAIN queue_events -> RowType]
  BY DEF TodoInv, TypeOK, StoreTypeOK, BudgetExact
<1>2. /\ row \in RowType /\ row.status = "acknowledged"
      /\ row.device_id = queue_events[s].device_id
      /\ row.rejection_count = queue_events[s].rejection_count
  BY <1>1 DEF RowType, TerminalStatus
<1>3. queue_events' = [queue_events EXCEPT ![s] = row]
  BY <1>1 DEF CompleteUpload
<1>4. /\ process = "running" /\ uploader.pc = "answered" /\ s \in uploader.accepted /\ Advance(s)
      /\ incidents' = Delivered(s)
      /\ replay_mode_active' = MarkedBacklog(queue_events')
      /\ fate' = [fate EXCEPT ![s] = "acked"]
      /\ UNCHANGED <<batch, abandoned_count, process, collector, zombies, origin, upstream, attempted,
                     unrecorded>>
  BY <1>1 DEF CompleteUpload
<1>5. s \in upstream
  BY <1>4 DEF PublishedInv
<1> HIDE DEF row
<1>6. /\ HistoryTypeOK' /\ ProcessTypeOK' /\ GoroutinesInv' /\ RowsInv' /\ TodoInv'
      /\ PublishedInv' /\ ReplayInv' /\ BudgetExact'
      /\ DOMAIN queue_events' = DOMAIN queue_events /\ Sequences' = Sequences
      /\ queue_events' \in [DOMAIN queue_events -> RowType]
  <2>1. row.status \in TerminalStatus
    BY <1>2 DEF TerminalStatus
  <2> QED  BY <1>1, <1>2, <1>3, <1>4, <1>5, <2>1, SettleInv
<1>7. /\ DOMAIN incidents' = DOMAIN incidents
      /\ incidents' \in [DOMAIN incidents -> IncidentType]
      /\ \A i \in DOMAIN incidents : i # s => incidents'[i] = incidents[i]
      /\ s \in DOMAIN incidents => incidents'[s].normal_delivered = TRUE
  BY <1>4 DEF Delivered, TypeOK, StoreTypeOK, IncidentType
<1>8. ReplayModeCoversBacklog' /\ replay_mode_active' \in BOOLEAN
  BY <1>4 DEF ReplayModeCoversBacklog, MarkedBacklog
<1>9. StoreTypeOK'
  BY <1>4, <1>6, <1>7, <1>8 DEF TypeOK, StoreTypeOK
<1>10. IncidentDelivery'
  BY <1>1, <1>4, <1>7 DEF IncidentDelivery, TypeOK, HistoryTypeOK, StoreTypeOK
<1> QED
  BY <1>6, <1>8, <1>9, <1>10 DEF TypeOK

\* A step that changes rows but no fate, device or activity keeps RowsInv.
LEMMA RowUpdate ==
  ASSUME IndInv, UNCHANGED <<origin, fate>>, DOMAIN queue_events' = DOMAIN queue_events,
         \A t \in DOMAIN queue_events :
           /\ queue_events'[t].device_id = queue_events[t].device_id
           /\ queue_events'[t].status \in ActiveStatus <=> queue_events[t].status \in ActiveStatus
  PROVE  RowsInv' /\ Active' = Active
  BY DEF IndInv, RowsInv, Active, Sequences

\* A failed record goes back to the queue, and the whole active backlog is marked.
LEMMA MarkFailedInv ==
  ASSUME IndInv, NEW s \in uploader.todo, NEW rejections \in {0, 1}, MarkFailed(s, rejections),
         uploader.pc \in {"answered", "retrying"}, process = "running", Advance(s),
         queue_events[s].rejection_count + rejections < MaxRetries,
         UNCHANGED <<batch, incidents, abandoned_count, process, collector, zombies, origin, upstream,
                     fate, attempted, unrecorded>>
  PROVE  IndInv'
<1> USE DEF IndInv
<1>1. Sequences' = Sequences /\ DeviceHeads' = DeviceHeads
  BY HistoryFrame
<1>2. /\ ProcessTypeOK'
      /\ uploader'.todo = uploader.todo \ {s} /\ uploader'.pc = uploader.pc
      /\ uploader'.accepted = uploader.accepted
  BY <1>1, AdvanceType
<1>3. /\ s \in DOMAIN queue_events /\ queue_events[s].status = "pending_upload"
      /\ \A t \in DOMAIN queue_events : queue_events[t] \in RowType
      /\ s \in Active
  BY DEF TodoInv, TypeOK, StoreTypeOK, Active, ActiveStatus
<1>4. /\ DOMAIN queue_events' = DOMAIN queue_events
      /\ queue_events'[s] = [queue_events[s] EXCEPT !.replay_required = TRUE,
           !.status = "pending_upload", !.waiting = TRUE, !.rejection_count = @ + rejections]
      /\ \A t \in DOMAIN queue_events : t # s =>
           queue_events'[t] = IF t \in Active
                                THEN [queue_events[t] EXCEPT !.replay_required = TRUE]
                                ELSE queue_events[t]
      /\ replay_mode_active' = TRUE
  BY <1>3 DEF MarkFailed, RowType
<1>5. \A t \in DOMAIN queue_events :
        /\ queue_events'[t] \in RowType
        /\ queue_events'[t].device_id = queue_events[t].device_id
        /\ queue_events'[t].critical_code = queue_events[t].critical_code
        /\ queue_events'[t].status = queue_events[t].status
        /\ t # s => queue_events'[t].rejection_count = queue_events[t].rejection_count
        /\ t \in Active => queue_events'[t].replay_required
  <2> SUFFICES ASSUME NEW t \in DOMAIN queue_events
               PROVE  /\ queue_events'[t] \in RowType
                      /\ queue_events'[t].device_id = queue_events[t].device_id
                      /\ queue_events'[t].critical_code = queue_events[t].critical_code
                      /\ queue_events'[t].status = queue_events[t].status
                      /\ t # s =>
                           queue_events'[t].rejection_count = queue_events[t].rejection_count
                      /\ t \in Active => queue_events'[t].replay_required
    OBVIOUS
  <2>1. CASE t # s
    <3>1. CASE t \in Active
      <4>1. queue_events'[t] = [queue_events[t] EXCEPT !.replay_required = TRUE]
        BY <1>4, <2>1, <3>1
      <4> QED  BY <1>3, <2>1, <4>1 DEF RowType
    <3>2. CASE t \notin Active
      BY <1>3, <1>4, <2>1, <3>2
    <3> QED  BY <3>1, <3>2
  <2>2. CASE t = s
    <3>1. queue_events[s].rejection_count + rejections \in Nat
      BY <1>3 DEF RowType
    <3> QED  BY <1>3, <1>4, <2>2, <3>1 DEF RowType
  <2> QED  BY <2>1, <2>2
<1>6. queue_events'[s].rejection_count = queue_events[s].rejection_count + rejections
  BY <1>3, <1>4 DEF RowType
<1>7. RowsInv' /\ Active' = Active
  BY <1>4, <1>5, RowUpdate
<1>8. HistoryTypeOK'
  BY <1>1 DEF TypeOK, HistoryTypeOK
<1>9. StoreTypeOK'
  <2>1. queue_events' \in [DOMAIN queue_events' -> RowType]
    BY <1>4, <1>5 DEF MarkFailed
  <2> QED  BY <1>1, <1>4, <2>1 DEF TypeOK, StoreTypeOK
<1>10. GoroutinesInv'
  BY <1>2, <1>4, <1>5 DEF GoroutinesInv
<1>11. TodoInv'
  BY <1>1, <1>2, <1>4, <1>5 DEF TodoInv
<1>12. PublishedInv'
  BY <1>1, <1>2 DEF PublishedInv
<1>13. ReplayInv' /\ ReplayModeCoversBacklog'
  BY <1>4, <1>5, <1>7 DEF ReplayInv, ReplayModeCoversBacklog, Active
<1>14. BudgetExact'
  <2>1. queue_events'[s].status # "abandoned" /\ queue_events'[s].rejection_count < MaxRetries
    BY <1>3, <1>5, <1>6
  <2> QED  BY ZenonT(40), <1>4, <1>5, <2>1 DEF BudgetExact
<1>15. IncidentDelivery'
  BY DEF IncidentDelivery
<1> QED
  BY <1>2, <1>7, <1>8, <1>9, <1>10, <1>11, <1>12, <1>13, <1>14, <1>15 DEF TypeOK

\* A rejection either spends one unit of the budget or abandons the record.
LEMMA RejectRecordInv ==
  ASSUME IndInv, NEW s \in uploader.todo, RejectRecord(s)
  PROVE  IndInv'
<1> USE DEF IndInv
<1> DEFINE row == [queue_events[s] EXCEPT !.status = "abandoned", !.waiting = FALSE,
                                          !.rejection_count = @ + 1]
<1>1. /\ s \in DOMAIN queue_events /\ s \in Sequences
      /\ queue_events[s].status = "pending_upload" /\ queue_events[s] \in RowType
      /\ queue_events[s].rejection_count \in Nat
      /\ queue_events[s].rejection_count < MaxRetries
      /\ queue_events[s].rejection_count = batch[s].rejection_count
      /\ queue_events \in [DOMAIN queue_events -> RowType]
  BY DEF TodoInv, TypeOK, StoreTypeOK, BudgetExact, RowType
<1>2. /\ process = "running" /\ uploader.pc = "answered" /\ Advance(s)
      /\ UNCHANGED <<batch, incidents, process, collector, zombies, origin, upstream, attempted,
                     unrecorded>>
  BY DEF RejectRecord
<1>3. CASE Exhausted(batch[s].rejection_count)
  <2>1. /\ queue_events' = [queue_events EXCEPT ![s] = row]
        /\ abandoned_count' = abandoned_count + 1
        /\ fate' = [fate EXCEPT ![s] = "abandoned"]
        /\ UNCHANGED replay_mode_active
    BY <1>1, <1>3 DEF RejectRecord, Abandon
  <2>2. /\ row \in RowType /\ row.status = "abandoned"
        /\ row.device_id = queue_events[s].device_id
        /\ row.rejection_count = queue_events[s].rejection_count + 1
    <3>1. queue_events[s].rejection_count + 1 \in Nat
      BY <1>1
    <3> QED  BY <1>1, <3>1 DEF RowType, TerminalStatus
  <2>3. row.rejection_count = MaxRetries
    BY <1>1, <1>3, <2>2, ConfigAssumption DEF Exhausted
  <2> HIDE DEF row
  <2>4. /\ HistoryTypeOK' /\ ProcessTypeOK' /\ GoroutinesInv' /\ RowsInv' /\ TodoInv'
        /\ PublishedInv' /\ ReplayInv' /\ BudgetExact'
        /\ DOMAIN queue_events' = DOMAIN queue_events /\ Sequences' = Sequences
        /\ queue_events' \in [DOMAIN queue_events -> RowType]
        /\ MarkedBacklog(queue_events') => MarkedBacklog(queue_events)
    <3>1. row.status \in TerminalStatus
      BY <2>2 DEF TerminalStatus
    <3> QED  BY <1>1, <1>2, <2>1, <2>2, <2>3, <3>1, SettleInv
  <2>5. ReplayModeCoversBacklog'
    BY <2>1, <2>4 DEF ReplayModeCoversBacklog, MarkedBacklog
  <2>6. StoreTypeOK'
    BY <1>2, <2>1, <2>4 DEF TypeOK, StoreTypeOK
  <2>7. IncidentDelivery'
    <3>1. fate[s] = "none"
      BY <1>1 DEF RowsInv, ActiveStatus
    <3> QED
      BY <1>1, <1>2, <2>1, <3>1 DEF IncidentDelivery, TypeOK, HistoryTypeOK, StoreTypeOK
  <2> QED  BY <2>4, <2>5, <2>6, <2>7 DEF TypeOK
<1>4. CASE ~Exhausted(batch[s].rejection_count)
  <2>1. MarkFailed(s, 1) /\ UNCHANGED <<abandoned_count, fate>>
    BY <1>1, <1>4 DEF RejectRecord
  <2>2. queue_events[s].rejection_count + 1 < MaxRetries
    BY <1>1, <1>4, ConfigAssumption DEF Exhausted
  <2> QED  BY <1>2, <2>1, <2>2, MarkFailedInv
<1> QED
  BY <1>3, <1>4

\* A failed request sends the record back without spending its budget.
LEMMA RetryRecordInv ==
  ASSUME IndInv, NEW s \in uploader.todo, RetryRecord(s)
  PROVE  IndInv'
<1> USE DEF IndInv
<1>1. /\ s \in DOMAIN queue_events /\ queue_events[s].status = "pending_upload"
      /\ queue_events[s].rejection_count \in Nat
      /\ queue_events[s].rejection_count < MaxRetries
  BY DEF TodoInv, TypeOK, StoreTypeOK, BudgetExact, RowType
<1>2. /\ process = "running" /\ uploader.pc = "retrying" /\ Advance(s) /\ MarkFailed(s, 0)
      /\ UNCHANGED <<batch, incidents, abandoned_count, process, collector, zombies, origin, upstream,
                     fate, attempted, unrecorded>>
  BY <1>1 DEF RetryRecord, history
<1>3. queue_events[s].rejection_count + 0 < MaxRetries
  BY <1>1
<1> QED
  BY <1>2, <1>3, MarkFailedInv

\* A record whose outcome was not written is remembered as unrecorded.
LEMMA StoreWriteFailsInv ==
  ASSUME IndInv, NEW s \in uploader.todo, StoreWriteFails(s)
  PROVE  IndInv'
<1> USE DEF IndInv
<1>1. /\ UNCHANGED <<queue_events, incidents, replay_mode_active, abandoned_count, process, collector,
                     batch, zombies, origin, upstream, fate, attempted>>
      /\ uploader.pc \in {"answered", "retrying"} /\ process = "running"
      /\ Advance(s) /\ unrecorded' = unrecorded \cup {s}
  BY DEF StoreWriteFails, durable
<1>2. Sequences' = Sequences /\ DeviceHeads' = DeviceHeads
  BY <1>1, HistoryFrame
<1>3. RowsInv' /\ BudgetExact' /\ Active' = Active
  BY <1>1, TableFrame
<1>4. StoreTypeOK' /\ ReplayModeCoversBacklog' /\ IncidentDelivery'
  BY <1>1, StoreFrame
<1>5. /\ ProcessTypeOK'
      /\ uploader'.todo = uploader.todo \ {s} /\ uploader'.pc = uploader.pc
      /\ uploader'.accepted = uploader.accepted
  BY <1>1, <1>2, AdvanceType
<1>6. HistoryTypeOK'
  BY <1>1, <1>2 DEF TypeOK, HistoryTypeOK, ProcessTypeOK
<1>7. GoroutinesInv' /\ TodoInv' /\ PublishedInv' /\ ReplayInv'
  BY <1>1, <1>2, <1>3, <1>5 DEF GoroutinesInv, TodoInv, PublishedInv, ReplayInv
<1> QED
  BY <1>3, <1>4, <1>5, <1>6, <1>7 DEF TypeOK

-----------------------------------------------------------------------------
(* The other steps of the uploader, of the collector, of purge and of the process *)

\* A failed contact may only switch replay mode on.
LEMMA RecordUploadContactFailureInv ==
  ASSUME IndInv, NEW w \in BOOLEAN, RecordUploadContactFailure(w)
  PROVE  IndInv'
<1> USE DEF IndInv
<1>1. /\ UNCHANGED <<queue_events, incidents, abandoned_count, process, collector, batch, zombies,
                     origin, upstream, fate, attempted, unrecorded>>
      /\ uploader' = [uploader EXCEPT !.pc = "retrying"]
      /\ replay_mode_active' = (replay_mode_active \/ w) /\ process = "running"
  BY DEF RecordUploadContactFailure, history
<1>2. Sequences' = Sequences /\ DeviceHeads' = DeviceHeads
  BY <1>1, HistoryFrame
<1>3. RowsInv' /\ BudgetExact' /\ Active' = Active
  BY <1>1, TableFrame
<1>4. /\ uploader'.todo = uploader.todo /\ uploader'.accepted = uploader.accepted
      /\ uploader'.pc = "retrying"
      /\ ProcessTypeOK'
  BY <1>1, <1>2 DEF TypeOK, ProcessTypeOK
<1>5. StoreTypeOK'
  BY <1>1, <1>2 DEF TypeOK, StoreTypeOK
<1>6. HistoryTypeOK'
  BY <1>1, <1>2 DEF TypeOK, HistoryTypeOK
<1>7. ReplayModeCoversBacklog' /\ IncidentDelivery'
  BY <1>1 DEF ReplayModeCoversBacklog, MarkedBacklog, IncidentDelivery
<1>8. GoroutinesInv' /\ TodoInv' /\ PublishedInv' /\ ReplayInv'
  BY <1>1, <1>2, <1>3, <1>4 DEF GoroutinesInv, TodoInv, PublishedInv, ReplayInv
<1> QED
  BY <1>3, <1>4, <1>5, <1>6, <1>7, <1>8 DEF TypeOK

\* The uploader puts down an empty batch.
LEMMA BatchEndsInv ==
  ASSUME IndInv, process = "running", uploader.todo = {},
         uploader' = UploaderIdle, batch' = << >>,
         UNCHANGED <<queue_events, incidents, abandoned_count, process, collector, zombies, origin,
                     upstream, fate, attempted, unrecorded>>,
         replay_mode_active' \in {replay_mode_active, MarkedBacklog(queue_events)}
  PROVE  IndInv'
<1> USE DEF IndInv
<1>1. Sequences' = Sequences /\ DeviceHeads' = DeviceHeads
  BY HistoryFrame
<1>2. RowsInv' /\ BudgetExact' /\ Active' = Active
  BY TableFrame
<1>3. ProcessTypeOK'
  BY <1>1 DEF TypeOK, ProcessTypeOK, UploaderIdle
<1>4. StoreTypeOK'
  <2>1. replay_mode_active' \in BOOLEAN
    BY DEF TypeOK, StoreTypeOK, MarkedBacklog
  <2> QED  BY <1>1, <2>1 DEF TypeOK, StoreTypeOK
<1>5. HistoryTypeOK'
  BY <1>1 DEF TypeOK, HistoryTypeOK
<1>6. ReplayModeCoversBacklog' /\ IncidentDelivery'
  BY DEF ReplayModeCoversBacklog, MarkedBacklog, IncidentDelivery
<1>7. GoroutinesInv' /\ TodoInv' /\ PublishedInv' /\ ReplayInv'
  BY <1>1, <1>2 DEF GoroutinesInv, TodoInv, PublishedInv, ReplayInv, UploaderIdle
<1> QED
  BY <1>2, <1>3, <1>4, <1>5, <1>6, <1>7 DEF TypeOK

\* The end of uploadBatch recomputes the replay mode, or fails to and keeps it.
LEMMA UploadEndsInv ==
  ASSUME IndInv, UploadGivesUp \/ \E w \in BOOLEAN : RecordUploadContactSuccess(w)
  PROVE  IndInv'
<1>1. CASE UploadGivesUp
  BY <1>1, BatchEndsInv DEF UploadGivesUp, durable, history
<1>2. CASE \E w \in BOOLEAN : RecordUploadContactSuccess(w)
  BY <1>2, BatchEndsInv DEF RecordUploadContactSuccess, history
<1> QED
  BY <1>1, <1>2

\* The collector hands its row over to the uploader.
LEMMA MarkPendingUploadInv ==
  ASSUME IndInv, MarkPendingUpload
  PROVE  IndInv'
<1> USE DEF IndInv
<1> DEFINE s == collector.sequence
<1>1. /\ UNCHANGED <<incidents, replay_mode_active, abandoned_count, process, uploader, batch,
                     zombies, origin, upstream, fate, attempted, unrecorded>>
      /\ collector' = CollectorIdle /\ collector.next = "mark"
  BY DEF MarkPendingUpload, history
<1>2. Sequences' = Sequences /\ DeviceHeads' = DeviceHeads
  BY <1>1, HistoryFrame
<1>3. /\ s \in DOMAIN queue_events /\ queue_events[s].status = "persisted"
      /\ queue_events \in [DOMAIN queue_events -> RowType]
  BY <1>1 DEF GoroutinesInv, TypeOK, StoreTypeOK
<1>4. queue_events' = [queue_events EXCEPT
        ![s] = [queue_events[s] EXCEPT !.status = "pending_upload", !.waiting = FALSE]]
  BY <1>3 DEF MarkPendingUpload
<1> HIDE DEF s
<1>5. /\ DOMAIN queue_events' = DOMAIN queue_events
      /\ \A t \in DOMAIN queue_events : t # s => queue_events'[t] = queue_events[t]
      /\ queue_events'[s] = [queue_events[s] EXCEPT !.status = "pending_upload", !.waiting = FALSE]
  BY <1>3, <1>4
<1>6. /\ queue_events'[s] \in RowType /\ queue_events'[s].status = "pending_upload"
      /\ queue_events'[s].device_id = queue_events[s].device_id
      /\ queue_events'[s].rejection_count = queue_events[s].rejection_count
      /\ queue_events'[s].replay_required = queue_events[s].replay_required
  BY ZenonT(40), <1>3, <1>5 DEF RowType, ActiveStatus
<1>7. RowsInv' /\ Active' = Active
  BY <1>1, <1>3, <1>5, <1>6, RowUpdate DEF ActiveStatus
<1>8. StoreTypeOK'
  BY <1>1, <1>2, <1>3, <1>4, <1>6 DEF TypeOK, StoreTypeOK
<1>9. HistoryTypeOK' /\ ProcessTypeOK'
  BY <1>1, <1>2 DEF TypeOK, HistoryTypeOK, ProcessTypeOK, CollectorIdle
<1>10. GoroutinesInv' /\ PublishedInv'
  BY <1>1, <1>2 DEF GoroutinesInv, PublishedInv, CollectorIdle
<1>11. TodoInv' /\ IncidentDelivery'
  BY <1>1, <1>2, <1>3, <1>5 DEF TodoInv, IncidentDelivery
<1>12. ReplayInv' /\ BudgetExact'
  <2>1. ReplayInv'
    <3>1. \A t \in DOMAIN queue_events :
            queue_events'[t].replay_required = queue_events[t].replay_required
      BY <1>5, <1>6
    <3>2. Active \subseteq DOMAIN queue_events
      BY DEF Active
    <3> QED  BY <1>1, <1>7, <3>1, <3>2 DEF ReplayInv
  <2>2. BudgetExact'
    <3>1. queue_events[s].rejection_count < MaxRetries
      BY <1>3 DEF BudgetExact
    <3>2. queue_events'[s].status # "abandoned" /\ queue_events'[s].rejection_count < MaxRetries
      BY <1>6, <3>1
    <3> QED  BY <1>5, <3>2 DEF BudgetExact
  <2> QED  BY <2>1, <2>2
<1>13. ReplayModeCoversBacklog'
  BY <1>1, <1>3, <1>5, <1>6 DEF ReplayModeCoversBacklog, MarkedBacklog, ActiveStatus
<1> QED
  BY <1>7, <1>8, <1>9, <1>10, <1>11, <1>12, <1>13 DEF TypeOK

\* The passing of a retry time changes no other column.
LEMMA BackoffElapsesInv ==
  ASSUME IndInv, NEW s \in DOMAIN queue_events, BackoffElapses(s)
  PROVE  IndInv'
<1> USE DEF IndInv
<1>1. UNCHANGED <<incidents, replay_mode_active, abandoned_count, process, collector, uploader, batch,
                  zombies, origin, upstream, fate, attempted, unrecorded>>
  BY DEF BackoffElapses, history
<1>2. Sequences' = Sequences /\ DeviceHeads' = DeviceHeads
  BY <1>1, HistoryFrame
<1>3. queue_events \in [DOMAIN queue_events -> RowType]
  BY DEF TypeOK, StoreTypeOK
<1>4. /\ DOMAIN queue_events' = DOMAIN queue_events
      /\ queue_events' \in [DOMAIN queue_events -> RowType]
      /\ \A t \in DOMAIN queue_events :
           /\ queue_events'[t].device_id = queue_events[t].device_id
           /\ queue_events'[t].critical_code = queue_events[t].critical_code
           /\ queue_events'[t].status = queue_events[t].status
           /\ queue_events'[t].rejection_count = queue_events[t].rejection_count
           /\ queue_events'[t].replay_required = queue_events[t].replay_required
  BY <1>3 DEF BackoffElapses, RowType
<1>5. RowsInv' /\ Active' = Active
  BY <1>1, <1>4, RowUpdate
<1>6. TypeOK'
  BY <1>1, <1>2, <1>4 DEF TypeOK, StoreTypeOK, ProcessTypeOK, HistoryTypeOK
<1>7. GoroutinesInv' /\ PublishedInv' /\ TodoInv' /\ IncidentDelivery'
  BY <1>1, <1>2, <1>4 DEF GoroutinesInv, PublishedInv, TodoInv, IncidentDelivery
<1>8. ReplayInv'
  BY <1>1, <1>4, <1>5 DEF ReplayInv, Active
<1>9. BudgetExact'
  BY <1>4 DEF BudgetExact
<1>10. ReplayModeCoversBacklog'
  BY <1>1, <1>4 DEF ReplayModeCoversBacklog, MarkedBacklog
<1> QED
  BY <1>5, <1>6, <1>7, <1>8, <1>9, <1>10

\* Purge removes terminal rows only, which nothing refers to any more.
LEMMA PurgeInv ==
  ASSUME IndInv, NEW old \in SUBSET DOMAIN queue_events, Purge(old)
  PROVE  IndInv'
<1> USE DEF IndInv
<1> DEFINE gone == {s \in old : queue_events[s].status \in TerminalStatus}
<1>1. UNCHANGED <<incidents, replay_mode_active, abandoned_count, process, collector, uploader, batch,
                  zombies, origin, upstream, fate, attempted, unrecorded>>
  BY DEF Purge, history
<1>2. Sequences' = Sequences /\ DeviceHeads' = DeviceHeads
  BY <1>1, HistoryFrame
<1>3. queue_events \in [DOMAIN queue_events -> RowType] /\ DOMAIN queue_events \subseteq Sequences
  BY DEF TypeOK, StoreTypeOK
<1>4. /\ DOMAIN queue_events' = DOMAIN queue_events \ gone
      /\ queue_events' \in [DOMAIN queue_events' -> RowType]
      /\ \A t \in DOMAIN queue_events' : queue_events'[t] = queue_events[t]
  BY <1>3 DEF Purge, Restrict
<1>5. \A t \in gone : queue_events[t].status \notin ActiveStatus
  BY DEF ActiveStatus, TerminalStatus
<1> HIDE DEF gone
<1>6. \A t \in DOMAIN queue_events : queue_events[t].status \in ActiveStatus => t \in DOMAIN queue_events'
  BY <1>4, <1>5
<1>7. RowsInv' /\ Active' = Active
  <2>1. Active' = Active
    BY <1>4, <1>6 DEF Active
  <2>2. \A t \in Sequences' : fate'[t] = "none" => t \in DOMAIN queue_events'
    BY <1>1, <1>2, <1>6 DEF RowsInv
  <2> QED  BY <1>1, <1>2, <1>4, <2>1, <2>2 DEF RowsInv
<1>8. TypeOK'
  BY <1>1, <1>2, <1>3, <1>4 DEF TypeOK, StoreTypeOK, ProcessTypeOK, HistoryTypeOK
<1>9. GoroutinesInv' /\ TodoInv'
  BY <1>1, <1>2, <1>4, <1>6 DEF GoroutinesInv, TodoInv, ActiveStatus
<1>10. PublishedInv' /\ IncidentDelivery'
  BY <1>1, <1>2 DEF PublishedInv, IncidentDelivery
<1>11. ReplayInv'
  BY <1>1, <1>4, <1>7 DEF ReplayInv, Active
<1>12. BudgetExact'
  BY <1>4 DEF BudgetExact
<1>13. ReplayModeCoversBacklog'
  BY <1>1, <1>4 DEF ReplayModeCoversBacklog, MarkedBacklog
<1> QED
  BY <1>7, <1>8, <1>9, <1>10, <1>11, <1>12, <1>13

\* A crash empties what the goroutines held and changes no table.
LEMMA CrashInv ==
  ASSUME IndInv, Crash
  PROVE  IndInv'
<1> USE DEF IndInv
<1>1. /\ UNCHANGED <<queue_events, incidents, replay_mode_active, abandoned_count, origin, upstream,
                     fate, attempted, unrecorded>>
      /\ process' = "down" /\ collector' = CollectorIdle /\ uploader' = UploaderIdle
      /\ batch' = << >> /\ zombies' \subseteq zombies \cup uploader.todo
  BY DEF Crash, durable, history
<1>2. Sequences' = Sequences /\ DeviceHeads' = DeviceHeads
  BY <1>1, HistoryFrame
<1>3. RowsInv' /\ BudgetExact' /\ Active' = Active
  BY <1>1, TableFrame
<1>4. StoreTypeOK' /\ ReplayModeCoversBacklog' /\ IncidentDelivery'
  BY <1>1, StoreFrame
<1>5. ProcessTypeOK'
  BY <1>1, <1>2 DEF ProcessTypeOK, UploaderIdle, CollectorIdle
<1>6. uploader.todo \subseteq DeviceHeads /\ DeviceHeads \subseteq Sequences
  BY DEF TodoInv, DeviceHeads
<1>7. HistoryTypeOK'
  BY <1>1, <1>2, <1>6 DEF TypeOK, HistoryTypeOK
<1>8. GoroutinesInv' /\ TodoInv' /\ ReplayInv'
  BY <1>1 DEF GoroutinesInv, TodoInv, ReplayInv, UploaderIdle, CollectorIdle
<1>9. PublishedInv'
  BY <1>1, <1>2, <1>6 DEF PublishedInv, UploaderIdle
<1> QED
  BY <1>3, <1>4, <1>5, <1>7, <1>8, <1>9 DEF TypeOK

\* Recovery makes every active row a pending, replayed one.
LEMMA recoverInterruptedInv ==
  ASSUME IndInv, recoverInterrupted
  PROVE  IndInv'
<1> USE DEF IndInv
<1>1. /\ UNCHANGED <<incidents, abandoned_count, collector, uploader, batch, zombies, origin, upstream,
                     fate, attempted, unrecorded>>
      /\ process = "down" /\ process' = "opening"
      /\ replay_mode_active' = MarkedBacklog(queue_events')
  BY DEF recoverInterrupted, history
<1>2. Sequences' = Sequences /\ DeviceHeads' = DeviceHeads
  BY <1>1, HistoryFrame
<1>3. \A t \in DOMAIN queue_events : queue_events[t] \in RowType
  BY DEF TypeOK, StoreTypeOK
<1>4. /\ queue_events' = [t \in DOMAIN queue_events |->
           IF t \in Active THEN Recovered(queue_events[t]) ELSE queue_events[t]]
      /\ DOMAIN queue_events' = DOMAIN queue_events
  BY DEF recoverInterrupted
<1>5. \A t \in DOMAIN queue_events :
        /\ queue_events'[t] \in RowType
        /\ queue_events'[t].device_id = queue_events[t].device_id
        /\ queue_events'[t].rejection_count = queue_events[t].rejection_count
        /\ t \in Active => /\ queue_events'[t].replay_required
                           /\ queue_events'[t].status = "pending_upload"
        /\ t \notin Active => queue_events'[t] = queue_events[t]
  <2> SUFFICES ASSUME NEW t \in DOMAIN queue_events
               PROVE  /\ queue_events'[t] \in RowType
                      /\ queue_events'[t].device_id = queue_events[t].device_id
                      /\ queue_events'[t].rejection_count = queue_events[t].rejection_count
                      /\ t \in Active => /\ queue_events'[t].replay_required
                                         /\ queue_events'[t].status = "pending_upload"
                      /\ t \notin Active => queue_events'[t] = queue_events[t]
    OBVIOUS
  <2>1. CASE t \in Active
    <3>1. queue_events'[t] =
            [queue_events[t] EXCEPT !.status = "pending_upload", !.replay_required = TRUE]
      BY <1>4, <2>1 DEF Recovered
    <3> QED  BY <1>3, <2>1, <3>1 DEF RowType, ActiveStatus
  <2>2. CASE t \notin Active
    BY <1>3, <1>4, <2>2
  <2> QED  BY <2>1, <2>2
<1>6. RowsInv' /\ Active' = Active
  BY <1>1, <1>4, <1>5, RowUpdate DEF Active, ActiveStatus
<1>7. StoreTypeOK'
  <2>1. queue_events' \in [DOMAIN queue_events' -> RowType]
    BY <1>4, <1>5
  <2>2. replay_mode_active' \in BOOLEAN
    BY <1>1 DEF MarkedBacklog
  <2> QED  BY <1>1, <1>2, <1>4, <2>1, <2>2 DEF TypeOK, StoreTypeOK
<1>8. HistoryTypeOK' /\ ProcessTypeOK'
  BY <1>1, <1>2 DEF TypeOK, HistoryTypeOK, ProcessTypeOK
<1>9. uploader' = UploaderIdle /\ collector' = CollectorIdle
  BY <1>1 DEF GoroutinesInv
<1>10. GoroutinesInv' /\ TodoInv'
  BY <1>9 DEF GoroutinesInv, TodoInv, UploaderIdle, CollectorIdle
<1>11. PublishedInv' /\ IncidentDelivery'
  BY <1>1, <1>2 DEF PublishedInv, IncidentDelivery
<1>12. ReplayInv'
  BY <1>4, <1>5, <1>6 DEF ReplayInv, Active
<1>13. BudgetExact'
  BY <1>4, <1>5 DEF BudgetExact, Active, ActiveStatus
<1>14. ReplayModeCoversBacklog'
  BY <1>1 DEF ReplayModeCoversBacklog, MarkedBacklog
<1> QED
  BY <1>6, <1>7, <1>8, <1>10, <1>11, <1>12, <1>13, <1>14 DEF TypeOK

\* What recovery does once it is settled which rows are suppressed.
RecoversWith(suppressed) ==
  /\ queue_events' = [s \in DOMAIN queue_events |->
       IF s \in suppressed THEN [queue_events[s] EXCEPT !.critical_code = NoCode]
                           ELSE queue_events[s]]
  /\ incidents' = [s \in DOMAIN incidents \cup Reopened(suppressed) |->
       IF s \in DOMAIN incidents THEN incidents[s]
       ELSE NewIncident(AssetOf(queue_events[s].device_id, queue_events[s].critical_code),
                        queue_events[s].critical_code)]

LEMMA RecoversWithSome ==
  recoverFallbackIncidents => \E suppressed \in Suppressions : RecoversWith(suppressed)
BY DEF recoverFallbackIncidents, RecoversWith

\* Recovered incidents belong to active rows, so they start undelivered.
LEMMA recoverFallbackIncidentsInv ==
  ASSUME IndInv, recoverFallbackIncidents
  PROVE  IndInv'
<1> USE DEF IndInv
<1>1. /\ UNCHANGED <<replay_mode_active, abandoned_count, collector, uploader, batch, zombies, origin,
                     upstream, fate, attempted, unrecorded>>
      /\ process = "opening" /\ process' = "running"
  BY DEF recoverFallbackIncidents, history
<1>2. Sequences' = Sequences /\ DeviceHeads' = DeviceHeads
  BY <1>1, HistoryFrame
<1>3. \A t \in DOMAIN queue_events : queue_events[t] \in RowType /\ t \in Sequences
  BY DEF TypeOK, StoreTypeOK
<1>r. PICK suppressed \in Suppressions : RecoversWith(suppressed)
  BY RecoversWithSome
<1> DEFINE reopened == Reopened(suppressed)
<1>4. /\ queue_events' = [t \in DOMAIN queue_events |->
           IF t \in suppressed THEN [queue_events[t] EXCEPT !.critical_code = NoCode]
                               ELSE queue_events[t]]
      /\ DOMAIN queue_events' = DOMAIN queue_events
  BY <1>r DEF RecoversWith
<1>5. \A t \in DOMAIN queue_events :
        /\ queue_events'[t] \in RowType
        /\ queue_events'[t].device_id = queue_events[t].device_id
        /\ queue_events'[t].status = queue_events[t].status
        /\ queue_events'[t].rejection_count = queue_events[t].rejection_count
        /\ queue_events'[t].replay_required = queue_events[t].replay_required
  <2> SUFFICES ASSUME NEW t \in DOMAIN queue_events
               PROVE  /\ queue_events'[t] \in RowType
                      /\ queue_events'[t].device_id = queue_events[t].device_id
                      /\ queue_events'[t].status = queue_events[t].status
                      /\ queue_events'[t].rejection_count = queue_events[t].rejection_count
                      /\ queue_events'[t].replay_required = queue_events[t].replay_required
    OBVIOUS
  <2>1. CASE t \in suppressed
    <3>1. queue_events'[t] = [queue_events[t] EXCEPT !.critical_code = NoCode]
      BY <1>4, <2>1
    <3> QED  BY <1>3, <3>1 DEF RowType
  <2>2. CASE t \notin suppressed
    BY <1>3, <1>4, <2>2
  <2> QED  BY <2>1, <2>2
<1>6. \A s \in reopened : /\ s \in DOMAIN queue_events /\ s \in Sequences
                          /\ s \notin DOMAIN incidents /\ fate[s] = "none"
                          /\ queue_events[s].critical_code # NoCode
  BY <1>3 DEF Reopened, Active, RowsInv
<1>7. /\ DOMAIN incidents' = DOMAIN incidents \cup reopened
      /\ incidents' \in [DOMAIN incidents' -> IncidentType]
      /\ \A i \in DOMAIN incidents : incidents'[i] = incidents[i]
      /\ \A i \in reopened : incidents'[i].normal_delivered = FALSE
  <2> DEFINE new(s) == NewIncident(AssetOf(queue_events[s].device_id, queue_events[s].critical_code),
                                   queue_events[s].critical_code)
  <2>1. \A s \in reopened : new(s) \in IncidentType /\ new(s).normal_delivered = FALSE
    BY <1>3, <1>6 DEF NewIncident, IncidentType, RowType, AssetOf
  <2>2. incidents' = [s \in DOMAIN incidents \cup reopened |->
                        IF s \in DOMAIN incidents THEN incidents[s] ELSE new(s)]
    BY <1>r DEF RecoversWith
  <2> HIDE DEF new
  <2>3. incidents \in [DOMAIN incidents -> IncidentType]
    BY DEF TypeOK, StoreTypeOK
  <2> QED  BY <1>6, <2>1, <2>2, <2>3
<1> HIDE DEF reopened
<1>8. RowsInv' /\ Active' = Active
  BY <1>1, <1>4, <1>5, RowUpdate
<1>9. StoreTypeOK'
  <2>1. queue_events' \in [DOMAIN queue_events' -> RowType]
    BY <1>4, <1>5
  <2> QED  BY <1>1, <1>2, <1>4, <1>6, <1>7, <2>1 DEF TypeOK, StoreTypeOK
<1>10. HistoryTypeOK' /\ ProcessTypeOK'
  BY <1>1, <1>2 DEF TypeOK, HistoryTypeOK, ProcessTypeOK
<1>11. uploader' = UploaderIdle /\ collector' = CollectorIdle
  BY <1>1 DEF GoroutinesInv
<1>12. GoroutinesInv' /\ TodoInv'
  BY <1>1, <1>11 DEF GoroutinesInv, TodoInv, UploaderIdle, CollectorIdle
<1>13. PublishedInv'
  BY <1>1, <1>2 DEF PublishedInv
<1>14. IncidentDelivery'
  BY <1>1, <1>6, <1>7 DEF IncidentDelivery
<1>15. ReplayInv'
  BY <1>1, <1>4, <1>5, <1>8 DEF ReplayInv, Active
<1>16. BudgetExact'
  BY <1>4, <1>5 DEF BudgetExact
<1>17. ReplayModeCoversBacklog'
  BY <1>1, <1>4, <1>5 DEF ReplayModeCoversBacklog, MarkedBacklog
<1> QED
  BY <1>8, <1>9, <1>10, <1>12, <1>13, <1>14, <1>15, <1>16, <1>17 DEF TypeOK

-----------------------------------------------------------------------------
(* The invariant and its consequences *)

\* The empty database satisfies the invariant.
LEMMA InitInv ==
  ASSUME Init
  PROVE  IndInv
<1> USE DEF Init
<1>1. HistoryTypeOK
  <2>1. << >> \in [1..0 -> Devices] /\ 0 \in 0..MaxSequence /\ DOMAIN origin = {}
    BY ConfigAssumption
  <2> QED  BY <2>1 DEF HistoryTypeOK, Sequences
<1>2. DOMAIN queue_events = {} /\ DOMAIN incidents = {} /\ DOMAIN batch = {} /\ Sequences = {}
  BY DEF Sequences
<1>3. StoreTypeOK
  <2>1. queue_events \in [DOMAIN queue_events -> RowType]
    BY <1>2
  <2>2. incidents \in [DOMAIN incidents -> IncidentType]
    BY <1>2
  <2> QED  BY <1>2, <2>1, <2>2 DEF StoreTypeOK
<1>4. ProcessTypeOK
  BY <1>2 DEF ProcessTypeOK, CollectorIdle, UploaderIdle
<1>5. GoroutinesInv /\ RowsInv /\ TodoInv /\ PublishedInv
  BY <1>2 DEF GoroutinesInv, RowsInv, TodoInv, PublishedInv, CollectorIdle, UploaderIdle
<1>6. ReplayInv /\ ReplayModeCoversBacklog /\ BudgetExact /\ IncidentDelivery
  BY <1>2 DEF ReplayInv, ReplayModeCoversBacklog, MarkedBacklog, BudgetExact, IncidentDelivery
<1> QED
  BY <1>1, <1>3, <1>4, <1>5, <1>6 DEF IndInv, TypeOK

\* A stuttering step keeps the invariant.
LEMMA StutterInv ==
  ASSUME IndInv, UNCHANGED vars
  PROVE  IndInv'
<1>1. UNCHANGED <<queue_events, incidents, replay_mode_active, abandoned_count, process, collector,
                  uploader, batch, zombies, origin, upstream, fate, attempted, unrecorded>>
  BY DEF vars, durable, history
<1>2. Sequences' = Sequences /\ DeviceHeads' = DeviceHeads
  BY <1>1, HistoryFrame
<1>3. RowsInv' /\ BudgetExact' /\ Active' = Active
  BY <1>1, TableFrame
<1>4. StoreTypeOK' /\ ReplayModeCoversBacklog' /\ IncidentDelivery'
  BY <1>1, StoreFrame
<1>5. HistoryTypeOK' /\ ProcessTypeOK'
  BY <1>1, <1>2 DEF IndInv, TypeOK, HistoryTypeOK, ProcessTypeOK
<1>6. GoroutinesInv' /\ TodoInv' /\ PublishedInv' /\ ReplayInv'
  BY <1>1, <1>2, <1>3 DEF IndInv, GoroutinesInv, TodoInv, PublishedInv, ReplayInv
<1> QED
  BY <1>3, <1>4, <1>5, <1>6 DEF IndInv, TypeOK

\* Every step keeps the invariant.
LEMMA NextInv ==
  ASSUME IndInv, [Next]_vars
  PROVE  IndInv'
<1>1. CASE Collector
  BY <1>1, PersistInv, OpenFallbackIncidentInv, MarkPendingUploadInv, CollectorFailsInv,
     ResolveFallbackIncidentInv DEF Collector
<1>2. CASE Uploader
  BY <1>2, SendBatchInv, CompleteUploadInv, RejectRecordInv, RetryRecordInv, StoreWriteFailsInv,
     RecordUploadContactFailureInv, UploadEndsInv DEF Uploader
<1>3. CASE Network
  BY <1>3, NetworkInv
<1>4. CASE \E s \in DOMAIN queue_events : BackoffElapses(s)
  BY <1>4, BackoffElapsesInv
<1>5. CASE \E old \in SUBSET DOMAIN queue_events : Purge(old)
  BY <1>5, PurgeInv
<1>6. CASE Crash
  BY <1>6, CrashInv
<1>7. CASE recoverInterrupted
  BY <1>7, recoverInterruptedInv
<1>8. CASE recoverFallbackIncidents
  BY <1>8, recoverFallbackIncidentsInv
<1>9. CASE UNCHANGED vars
  BY <1>9, StutterInv
<1> QED
  BY <1>1, <1>2, <1>3, <1>4, <1>5, <1>6, <1>7, <1>8, <1>9 DEF Next

\* IndInv holds in every reachable state.
THEOREM Invariance == Spec => []IndInv
<1>1. Init => IndInv
  BY InitInv
<1>2. IndInv /\ [Next]_vars => IndInv'
  BY NextInv
<1> QED
  BY <1>1, <1>2, PTL DEF Spec

\* What a step may do to the history: admit one event, publish heads of devices, or settle
\* one unsettled record.
LEMMA StepKinds ==
  ASSUME IndInv, [Next]_vars
  PROVE  \/ \E d \in Devices, c \in Codes \cup {NoCode}, b \in EventSizes : Persist(d, c, b)
         \/ /\ UNCHANGED <<origin, fate, abandoned_count>>
            /\ \E p \in SUBSET DeviceHeads : upstream' = upstream \cup p
         \/ \E s \in Sequences :
              /\ fate[s] = "none" /\ s \in upstream
              /\ fate' = [fate EXCEPT ![s] = "acked"]
              /\ UNCHANGED <<origin, upstream, abandoned_count>>
         \/ \E s \in Sequences :
              /\ fate[s] = "none"
              /\ fate' = [fate EXCEPT ![s] = "abandoned"]
              /\ abandoned_count' = abandoned_count + 1
              /\ UNCHANGED <<origin, upstream>>
<1> USE DEF IndInv
<1> DEFINE Quiet == UNCHANGED <<origin, fate, abandoned_count, upstream>>
<1>1. /\ uploader.todo \subseteq DeviceHeads /\ zombies \subseteq DeviceHeads
      /\ \A s \in uploader.todo : /\ s \in Sequences /\ fate[s] = "none" /\ s \in DOMAIN queue_events
                                  /\ queue_events[s].status = "pending_upload"
  BY DEF TodoInv, PublishedInv, RowsInv, ActiveStatus, TypeOK, StoreTypeOK
<1>2. ASSUME Quiet
      PROVE  /\ UNCHANGED <<origin, fate, abandoned_count>>
             /\ \E p \in SUBSET DeviceHeads : upstream' = upstream \cup p
  <2>1. {} \in SUBSET DeviceHeads /\ upstream' = upstream \cup {}
    BY <1>2
  <2> QED  BY <1>2, <2>1
<1>3. CASE Collector
  <2>1. CASE \E d \in Devices, c \in Codes \cup {NoCode}, b \in EventSizes : Persist(d, c, b)
    BY <2>1
  <2>2. CASE \/ OpenFallbackIncident \/ MarkPendingUpload \/ CollectorFails
             \/ \E a \in Devices \cup {"site"}, c \in Codes : ResolveFallbackIncident(a, c)
    <3>1. Quiet
      BY <2>2 DEF OpenFallbackIncident, MarkPendingUpload, CollectorFails, ResolveFallbackIncident,
                  history, durable
    <3> QED  BY <1>2, <3>1
  <2> QED  BY <1>3, <2>1, <2>2 DEF Collector
<1>4. CASE Uploader
  <2>1. CASE \/ SendBatch \/ UploadGivesUp
             \/ \E s \in uploader.todo : RetryRecord(s) \/ StoreWriteFails(s)
             \/ \E w \in BOOLEAN : RecordUploadContactFailure(w) \/ RecordUploadContactSuccess(w)
    <3>1. Quiet
      BY <2>1 DEF SendBatch, UploadGivesUp, RetryRecord, StoreWriteFails, RecordUploadContactFailure,
                  RecordUploadContactSuccess, history, durable
    <3> QED  BY <1>2, <3>1
  <2>2. ASSUME NEW s \in uploader.todo, CompleteUpload(s)
        PROVE  /\ fate[s] = "none" /\ s \in upstream /\ s \in Sequences
               /\ fate' = [fate EXCEPT ![s] = "acked"]
               /\ UNCHANGED <<origin, upstream, abandoned_count>>
    BY <1>1, <2>2 DEF CompleteUpload, PublishedInv
  <2>3. ASSUME NEW s \in uploader.todo, RejectRecord(s)
        PROVE  \/ /\ fate[s] = "none" /\ s \in Sequences
                  /\ fate' = [fate EXCEPT ![s] = "abandoned"]
                  /\ abandoned_count' = abandoned_count + 1
                  /\ UNCHANGED <<origin, upstream>>
               \/ Quiet
    BY <1>1, <2>3 DEF RejectRecord, Abandon
  <2> HIDE DEF Quiet
  <2> QED  BY <1>2, <1>4, <2>1, <2>2, <2>3 DEF Uploader
<1>5. CASE Network
  <2>1. CASE \E p \in SUBSET uploader.todo : \E a \in SUBSET p : IngestAnswers(p, a)
    <3> PICK p \in SUBSET uploader.todo : \E a \in SUBSET p : IngestAnswers(p, a)
      BY <2>1
    <3>1. UNCHANGED <<origin, fate, abandoned_count>> /\ upstream' = upstream \cup p
      BY DEF IngestAnswers, durable
    <3> QED  BY <1>1, <3>1
  <2>2. CASE \E p \in SUBSET uploader.todo : UploadFails(p)
    <3> PICK p \in SUBSET uploader.todo : UploadFails(p)
      BY <2>2
    <3>1. UNCHANGED <<origin, fate, abandoned_count>> /\ upstream' = upstream \cup p
      BY DEF UploadFails, durable
    <3> QED  BY <1>1, <3>1
  <2>3. CASE IngestRefusesRequest \/ UploadTimesOut
    <3>1. Quiet
      BY <2>3 DEF IngestRefusesRequest, UploadTimesOut, history, durable
    <3> QED  BY <1>2, <3>1
  <2>4. CASE \E s \in zombies : LatePublish(s)
    <3> PICK s \in zombies : LatePublish(s)
      BY <2>4
    <3>1. UNCHANGED <<origin, fate, abandoned_count>> /\ upstream' = upstream \cup {s}
      BY DEF LatePublish, durable
    <3>2. {s} \in SUBSET DeviceHeads
      BY <1>1
    <3> QED  BY <3>1, <3>2
  <2> QED  BY <1>5, <2>1, <2>2, <2>3, <2>4 DEF Network
<1>6. CASE \/ \E s \in DOMAIN queue_events : BackoffElapses(s)
           \/ \E old \in SUBSET DOMAIN queue_events : Purge(old)
           \/ Crash \/ recoverInterrupted \/ recoverFallbackIncidents \/ UNCHANGED vars
  <2>1. Quiet
    BY <1>6 DEF BackoffElapses, Purge, Crash, recoverInterrupted, recoverFallbackIncidents, vars,
                history, durable
  <2> QED  BY <1>2, <2>1
<1> QED
  BY <1>3, <1>4, <1>5, <1>6 DEF Next

\* Persist in terms of the length n of the history.
LEMMA PersistStep ==
  ASSUME IndInv, NEW d \in Devices, NEW c, NEW b, Persist(d, c, b)
  PROVE  \E n \in 0..MaxSequence :
           /\ Sequences = 1..n /\ n < MaxSequence
           /\ origin' = [s \in 1..(n + 1) |-> IF s = n + 1 THEN d ELSE origin[s]]
           /\ fate' = [s \in 1..(n + 1) |-> IF s = n + 1 THEN "none" ELSE fate[s]]
           /\ UNCHANGED <<upstream, abandoned_count>>
<1> USE DEF IndInv
<1>1. PICK n \in 0..MaxSequence : origin \in [1..n -> Devices]
  BY DEF TypeOK, HistoryTypeOK
<1>2. LastSequence = n /\ Sequences = 1..n
  BY <1>1, CounterIsLength, ConfigAssumption DEF LastSequence, Sequences
<1>3. n < MaxSequence
  BY <1>1, <1>2, ConfigAssumption DEF Persist
<1>4. DOMAIN fate = 1..n /\ DOMAIN origin = 1..n
  BY <1>1, <1>2 DEF TypeOK, HistoryTypeOK
<1>5. (1..n) \cup {n + 1} = 1..(n + 1)
  BY <1>1, ConfigAssumption
<1>6. /\ origin' = Put(origin, n + 1, d) /\ fate' = Put(fate, n + 1, "none")
      /\ UNCHANGED <<upstream, abandoned_count>>
  BY <1>2 DEF Persist
<1> QED
  BY <1>1, <1>2, <1>3, <1>4, <1>5, <1>6 DEF Put

\* The tables and the goroutines' variables keep their types, for any number of devices,
\* events and failures.
THEOREM TypeCorrectness == Spec => []TypeOK
  BY Invariance, PTL DEF IndInv

\* As long as one queued record is marked for replay the agent is in replay mode.
THEOREM ReplayModeTheorem == Spec => []ReplayModeCoversBacklog
  BY Invariance, PTL DEF IndInv

\* A record is abandoned on exactly its MaxRetries-th rejection.
THEOREM BudgetTheorem == Spec => []BudgetExact
  BY Invariance, PTL DEF IndInv

\* An incident is marked delivered exactly when its record was acknowledged.
THEOREM IncidentDeliveryTheorem == Spec => []IncidentDelivery
  BY Invariance, PTL DEF IndInv

\* Upstream receives each device's records in order, late and repeated requests included.
THEOREM OrderTheorem == Spec => []PerDeviceOrder
<1>1. IndInv => PerDeviceOrder
  <2> SUFFICES ASSUME IndInv, NEW t \in upstream, NEW s \in Sequences, s < t, origin[s] = origin[t]
               PROVE  s \in upstream \/ fate[s] = "abandoned"
    BY DEF PerDeviceOrder
  <2>1. fate[s] # "none"
    BY DEF IndInv, PublishedInv, DeviceHeads
  <2>2. fate[s] \in {"none", "acked", "abandoned"}
    BY DEF IndInv, TypeOK, HistoryTypeOK
  <2> QED  BY <2>1, <2>2 DEF IndInv, PublishedInv
<1> QED
  BY <1>1, Invariance, PTL

\* The records given up, as a set: what abandoned_count counts.
Abandoned == {s \in Sequences : fate[s] = "abandoned"}

\* Nothing vanishes: every record not acknowledged or counted as abandoned is still queued.
THEOREM NothingVanishesTheorem == Spec => []NothingVanishes
<1> DEFINE Count == abandoned_count = Cardinality(Abandoned)
<1>1. Init => Count
  <2>1. Init => Abandoned = {}
    BY DEF Init, Abandoned, Sequences
  <2> QED  BY <2>1, FS_EmptySet DEF Init
<1>2. IndInv /\ Count /\ [Next]_vars => Count'
  <2> SUFFICES ASSUME IndInv, Count, [Next]_vars
               PROVE  Count'
    OBVIOUS
  <2>1. IsFiniteSet(Abandoned)
    <3>1. PICK n \in 0..MaxSequence : Sequences = 1..n
      BY DEF IndInv, TypeOK, HistoryTypeOK, Sequences
    <3>2. IsFiniteSet(1..n)
      BY <3>1, FS_Interval, ConfigAssumption
    <3> QED  BY <3>1, <3>2, FS_Subset DEF Abandoned
  <2>2. fate \in [Sequences -> {"none", "acked", "abandoned"}]
    BY DEF IndInv, TypeOK, HistoryTypeOK
  <2>3. CASE \E d \in Devices, c \in Codes \cup {NoCode}, b \in EventSizes : Persist(d, c, b)
    <3>1. PICK d \in Devices, c \in Codes \cup {NoCode}, b \in EventSizes : Persist(d, c, b)
      BY <2>3
    <3>2. PICK n \in 0..MaxSequence :
            /\ Sequences = 1..n /\ n < MaxSequence
            /\ origin' = [s \in 1..(n + 1) |-> IF s = n + 1 THEN d ELSE origin[s]]
            /\ fate' = [s \in 1..(n + 1) |-> IF s = n + 1 THEN "none" ELSE fate[s]]
            /\ UNCHANGED <<upstream, abandoned_count>>
      BY <3>1, PersistStep
    <3>3. Sequences' = 1..(n + 1)
      BY <3>2 DEF Sequences
    <3>4. Abandoned' = Abandoned
      BY <3>2, <3>3, ConfigAssumption DEF Abandoned
    <3> QED  BY <3>2, <3>4
  <2>4. CASE UNCHANGED <<origin, fate, abandoned_count>>
    BY <2>4 DEF Abandoned, Sequences
  <2>5. ASSUME NEW s \in Sequences, fate[s] = "none", fate' = [fate EXCEPT ![s] = "acked"],
               UNCHANGED <<origin, abandoned_count>>
        PROVE  Count'
    <3>1. Abandoned' = Abandoned
      BY <2>2, <2>5 DEF Abandoned, Sequences
    <3> QED  BY <2>5, <3>1
  <2>6. ASSUME NEW s \in Sequences, fate[s] = "none", fate' = [fate EXCEPT ![s] = "abandoned"],
               abandoned_count' = abandoned_count + 1, UNCHANGED origin
        PROVE  Count'
    <3>1. Abandoned' = Abandoned \cup {s} /\ s \notin Abandoned
      BY <2>2, <2>6 DEF Abandoned, Sequences
    <3>2. Cardinality(Abandoned \cup {s}) = Cardinality(Abandoned) + 1
      BY <2>1, <3>1, FS_AddElement
    <3> QED  BY <2>6, <3>1, <3>2
  <2> HIDE DEF Count
  <2> QED  BY <2>3, <2>4, <2>5, <2>6, StepKinds
<1>3. IndInv /\ Count => NothingVanishes
  BY DEF NothingVanishes, IndInv, RowsInv, PublishedInv, Active, Abandoned
<1> QED
  BY <1>1, <1>2, <1>3, Invariance, PTL DEF Spec

\* A settled record keeps its fate and never becomes active again.
THEOREM SettledTheorem == Spec => SettledForever
<1> DEFINE Settled == \A s \in Sequences :
             fate[s] # "none" => fate'[s] = fate[s] /\ s \notin Active'
<1>1. IndInv /\ IndInv' /\ [Next]_vars => [Settled]_vars
  <2> SUFFICES ASSUME IndInv, IndInv', [Next]_vars, NEW s \in Sequences, fate[s] # "none"
               PROVE  fate'[s] = fate[s] /\ s \notin Active'
    OBVIOUS
  <2>1. fate \in [Sequences -> {"none", "acked", "abandoned"}]
    BY DEF IndInv, TypeOK, HistoryTypeOK
  <2>2. fate'[s] = fate[s]
    <3>1. CASE \E d \in Devices, c \in Codes \cup {NoCode}, b \in EventSizes : Persist(d, c, b)
      <4>1. PICK d \in Devices, c \in Codes \cup {NoCode}, b \in EventSizes : Persist(d, c, b)
        BY <3>1
      <4>2. PICK n \in 0..MaxSequence :
              /\ Sequences = 1..n
              /\ fate' = [t \in 1..(n + 1) |-> IF t = n + 1 THEN "none" ELSE fate[t]]
        BY <4>1, PersistStep
      <4> QED  BY <4>2, ConfigAssumption
    <3>2. CASE UNCHANGED fate
      BY <3>2
    <3>3. ASSUME NEW t \in Sequences, fate[t] = "none",
                 \/ fate' = [fate EXCEPT ![t] = "acked"]
                 \/ fate' = [fate EXCEPT ![t] = "abandoned"]
          PROVE  fate'[s] = fate[s]
      BY <2>1, <3>3
    <3> QED  BY <3>1, <3>2, <3>3, StepKinds
  <2>3. s \notin Active'
    BY <2>2 DEF IndInv, RowsInv, Active
  <2> QED  BY <2>2, <2>3
<1> QED
  BY <1>1, Invariance, PTL DEF Spec, SettledForever

\* Only SendBatch takes the uploader from "idle" to "sent".
LEMMA OnlySendBatchSends ==
  ASSUME IndInv, [Next]_vars, uploader.pc = "idle", uploader'.pc = "sent"
  PROVE  SendBatch
<1>1. uploader.todo = {} /\ uploader = UploaderIdle
  BY DEF IndInv, GoroutinesInv, UploaderIdle
<1>2. UNCHANGED uploader => FALSE
  OBVIOUS
<1>3. ~Collector
  BY <1>2 DEF Collector, Persist, OpenFallbackIncident, MarkPendingUpload, CollectorFails,
             ResolveFallbackIncident
<1>4. Uploader => SendBatch
  BY <1>1 DEF Uploader, UploadGivesUp, RecordUploadContactFailure, RecordUploadContactSuccess,
             UploaderIdle
<1>5. ~Network
  BY <1>2 DEF Network, IngestAnswers, IngestRefusesRequest, UploadFails, UploadTimesOut, LatePublish
<1>6. ~Crash
  BY DEF Crash, UploaderIdle
<1>7. /\ ~ \E s \in DOMAIN queue_events : BackoffElapses(s)
      /\ ~ \E old \in SUBSET DOMAIN queue_events : Purge(old)
  BY <1>2 DEF BackoffElapses, Purge
<1>8. ~recoverInterrupted /\ ~recoverFallbackIncidents /\ ~UNCHANGED vars
  BY <1>2 DEF recoverInterrupted, recoverFallbackIncidents, vars
<1> QED
  BY <1>3, <1>4, <1>5, <1>6, <1>7, <1>8 DEF Next

\* A record is sent a second time only with the replay flag, unless the store failed to
\* write the outcome of the first request.
THEOREM ResentTheorem == Spec => ResentAsReplay
<1> DEFINE Flagged == \A s \in DOMAIN batch' :
             uploader.pc = "idle" /\ uploader'.pc = "sent" /\ s \in attempted \ unrecorded =>
               batch'[s].replay
<1>1. IndInv /\ [Next]_vars => [Flagged]_vars
  <2> SUFFICES ASSUME IndInv, [Next]_vars, NEW s \in DOMAIN batch', uploader.pc = "idle",
                      uploader'.pc = "sent", s \in attempted \ unrecorded
               PROVE  batch'[s].replay
    OBVIOUS
  <2>1. SendBatch
    BY OnlySendBatchSends
  <2>2. s \in Ready /\ batch'[s].replay = queue_events[s].replay_required
    BY <2>1 DEF SendBatch
  <2>3. s \in Active
    BY <2>2 DEF Ready, Eligible, Active, ActiveStatus
  <2>4. process = "running" /\ uploader.todo = {}
    BY <2>1 DEF SendBatch, IndInv, GoroutinesInv, UploaderIdle
  <2> QED  BY <2>2, <2>3, <2>4 DEF IndInv, ReplayInv
<1> QED
  BY <1>1, Invariance, PTL DEF Spec, ResentAsReplay

\* The durable queue implements StoreForward.
THEOREM RefinementTheorem == Spec => ImplementsStoreForward
<1>1. Init => Delivery!Init
  BY DEF Init, Delivery!Init
<1>2. IndInv /\ [Next]_vars => [Delivery!Next]_Delivery!vars
  <2> SUFFICES ASSUME IndInv, [Next]_vars
               PROVE  Delivery!Next \/ UNCHANGED <<origin, upstream, fate>>
    BY DEF Delivery!vars
  <2>1. Sequences = Delivery!Assigned
    BY DEF Sequences, Delivery!Assigned
  <2>2. CASE \E d \in Devices, c \in Codes \cup {NoCode}, b \in EventSizes : Persist(d, c, b)
    <3>1. PICK d \in Devices, c \in Codes \cup {NoCode}, b \in EventSizes : Persist(d, c, b)
      BY <2>2
    <3>2. Delivery!Admit(d)
      BY <2>1, <3>1, PersistStep DEF Delivery!Admit
    <3> QED  BY <3>2 DEF Delivery!Next
  <2>3. ASSUME UNCHANGED <<origin, fate>>, NEW p \in SUBSET DeviceHeads, upstream' = upstream \cup p
        PROVE  Delivery!Next
    <3>1. p \in SUBSET Sequences
      BY DEF DeviceHeads
    <3>2. \A t \in p : Delivery!InTurn(t)
      <4> SUFFICES ASSUME NEW t \in p, NEW s \in Sequences, s < t, origin[s] = origin[t]
                   PROVE  s \in upstream \/ fate[s] = "abandoned"
        BY <2>1 DEF Delivery!InTurn
      <4>1. fate[s] # "none"
        BY DEF DeviceHeads
      <4>2. fate[s] \in {"none", "acked", "abandoned"}
        BY DEF IndInv, TypeOK, HistoryTypeOK
      <4> QED  BY <4>1, <4>2 DEF IndInv, PublishedInv
    <3>3. Delivery!Publish(p)
      BY <2>3, <3>2 DEF Delivery!Publish
    <3> QED  BY <2>1, <3>1, <3>3 DEF Delivery!Next
  <2>4. ASSUME NEW s \in Sequences, fate[s] = "none", s \in upstream,
               fate' = [fate EXCEPT ![s] = "acked"], UNCHANGED <<origin, upstream>>
        PROVE  Delivery!Next
    <3>1. Delivery!Settle(s, "acked")
      BY <2>4 DEF Delivery!Settle
    <3> QED  BY <2>1, <3>1 DEF Delivery!Next
  <2>5. ASSUME NEW s \in Sequences, fate[s] = "none",
               fate' = [fate EXCEPT ![s] = "abandoned"], UNCHANGED <<origin, upstream>>
        PROVE  Delivery!Next
    <3>1. Delivery!Settle(s, "abandoned")
      BY <2>5 DEF Delivery!Settle
    <3> QED  BY <2>1, <3>1 DEF Delivery!Next
  <2> QED  BY <2>2, <2>3, <2>4, <2>5, StepKinds
<1> QED
  BY <1>1, <1>2, Invariance, PTL DEF Spec, ImplementsStoreForward, Delivery!Spec

-----------------------------------------------------------------------------
(* What a step does to the rows of the queue and of the incidents *)

\* No row is added; the rows that stay tell of the same event, and none becomes active again.
RowsKept ==
  \A s \in DOMAIN queue_events' :
    /\ s \in DOMAIN queue_events
    /\ queue_events'[s].device_id = queue_events[s].device_id
    /\ queue_events'[s].critical = queue_events[s].critical
    /\ queue_events'[s].payload_bytes = queue_events[s].payload_bytes
    /\ queue_events'[s].status \in ActiveStatus => queue_events[s].status \in ActiveStatus

\* Besides, a row changes its status only while the process runs, and once it is marked.
StatusKept ==
  \A s \in DOMAIN queue_events' :
    /\ queue_events'[s].critical_code = queue_events[s].critical_code
    /\ queue_events'[s].status = queue_events[s].status
       \/ /\ process = "running"
          /\ queue_events[s].status # "persisted" /\ queue_events'[s].status # "persisted"

IncidentsKept ==
  /\ DOMAIN incidents' = DOMAIN incidents
  /\ \A i \in DOMAIN incidents : /\ incidents'[i].code = incidents[i].code
                                 /\ incidents'[i].asset_id = incidents[i].asset_id

Quiet ==
  /\ RowsKept /\ StatusKept /\ IncidentsKept
  /\ collector' \in {collector, CollectorIdle}
  /\ process' \in {process, "down"}

LEMMA QuietTables ==
  ASSUME UNCHANGED <<queue_events, incidents>>, collector' \in {collector, CollectorIdle},
         process' \in {process, "down"}
  PROVE  Quiet
BY DEF Quiet, RowsKept, StatusKept, IncidentsKept

LEMMA MarkFailedQuiet ==
  ASSUME IndInv, NEW s \in uploader.todo, NEW rejections \in {0, 1}, MarkFailed(s, rejections),
         process = "running", UNCHANGED <<incidents, collector, process>>
  PROVE  Quiet
<1>1. /\ s \in DOMAIN queue_events /\ queue_events[s].status = "pending_upload"
      /\ \A t \in DOMAIN queue_events : queue_events[t] \in RowType
      /\ s \in Active
  BY DEF IndInv, TodoInv, TypeOK, StoreTypeOK, Active, ActiveStatus
<1> DEFINE marked(t) == IF t \in Active THEN [queue_events[t] EXCEPT !.replay_required = TRUE]
                                        ELSE queue_events[t]
<1>2. \A t \in DOMAIN queue_events :
        /\ marked(t) \in RowType
        /\ marked(t).device_id = queue_events[t].device_id
        /\ marked(t).critical_code = queue_events[t].critical_code
        /\ marked(t).critical = queue_events[t].critical
        /\ marked(t).payload_bytes = queue_events[t].payload_bytes
        /\ marked(t).status = queue_events[t].status
  BY <1>1 DEF RowType
<1> DEFINE failed(t) == [marked(t) EXCEPT !.status = "pending_upload", !.waiting = TRUE,
                                          !.rejection_count = @ + rejections]
<1>3. /\ DOMAIN queue_events' = DOMAIN queue_events
      /\ \A t \in DOMAIN queue_events : queue_events'[t] = IF t = s THEN failed(t) ELSE marked(t)
  <2>1. queue_events' = [t \in DOMAIN queue_events |-> IF t = s THEN failed(t) ELSE marked(t)]
    BY Zenon DEF MarkFailed
  <2> HIDE DEF failed, marked
  <2> QED  BY <2>1
<1> HIDE DEF marked
<1>4. \A t \in DOMAIN queue_events :
        /\ failed(t).device_id = queue_events[t].device_id
        /\ failed(t).critical_code = queue_events[t].critical_code
        /\ failed(t).critical = queue_events[t].critical
        /\ failed(t).payload_bytes = queue_events[t].payload_bytes
        /\ failed(t).status = "pending_upload"
  <2> TAKE t \in DOMAIN queue_events
  <2> DEFINE c1 == [marked(t) EXCEPT !.status = "pending_upload"]
             c2 == [c1 EXCEPT !.waiting = TRUE]
             c3 == [c2 EXCEPT !.rejection_count = @ + rejections]
  <2>1. failed(t) = c3
    OBVIOUS
  <2> HIDE DEF failed
  <2>2. /\ c1.device_id = queue_events[t].device_id /\ c1.status = "pending_upload"
        /\ c1.critical_code = queue_events[t].critical_code
        /\ c1.critical = queue_events[t].critical
        /\ c1.payload_bytes = queue_events[t].payload_bytes /\ c1 \in RowType
    BY <1>2 DEF RowType, ActiveStatus
  <2> HIDE DEF c1
  <2>3. /\ c2.device_id = c1.device_id /\ c2.status = c1.status
        /\ c2.critical_code = c1.critical_code /\ c2.critical = c1.critical
        /\ c2.payload_bytes = c1.payload_bytes /\ c2 \in RowType
    BY <2>2 DEF RowType
  <2> HIDE DEF c2
  <2>4. /\ c3.device_id = c2.device_id /\ c3.status = c2.status
        /\ c3.critical_code = c2.critical_code /\ c3.critical = c2.critical
        /\ c3.payload_bytes = c2.payload_bytes
    BY <2>3 DEF RowType
  <2> QED  BY <2>1, <2>2, <2>3, <2>4
<1> HIDE DEF failed
<1>5. \A t \in DOMAIN queue_events :
        /\ queue_events'[t].device_id = queue_events[t].device_id
        /\ queue_events'[t].critical_code = queue_events[t].critical_code
        /\ queue_events'[t].critical = queue_events[t].critical
        /\ queue_events'[t].payload_bytes = queue_events[t].payload_bytes
        /\ queue_events'[t].status = queue_events[t].status
  BY <1>1, <1>2, <1>3, <1>4
<1> QED  BY <1>3, <1>5 DEF Quiet, RowsKept, StatusKept, IncidentsKept

\* The steps that change neither a condition nor what is known of it.
LEMMA QuietSteps ==
  ASSUME IndInv, [Next]_vars
  PROVE  \/ \E d \in Devices, c \in Codes \cup {NoCode}, b \in EventSizes : Persist(d, c, b)
         \/ OpenFallbackIncident \/ MarkPendingUpload
         \/ recoverInterrupted \/ recoverFallbackIncidents
         \/ Quiet
<1> USE DEF IndInv
<1>1. /\ \A s \in uploader.todo : s \in DOMAIN queue_events /\ queue_events[s].status = "pending_upload"
      /\ \A s \in DOMAIN queue_events : queue_events[s] \in RowType
  BY DEF TodoInv, TypeOK, StoreTypeOK
<1>2. CASE CollectorFails
  BY <1>2, QuietTables DEF CollectorFails, durable
<1>3. ASSUME NEW a, NEW c, ResolveFallbackIncident(a, c)
      PROVE  Quiet
  <2>1. \A i \in DOMAIN incidents : incidents[i] \in IncidentType
    BY DEF TypeOK, StoreTypeOK
  <2>2. IncidentsKept
    BY <1>3, <2>1 DEF ResolveFallbackIncident, IncidentsKept, IncidentType
  <2> QED  BY <1>3, <2>2 DEF ResolveFallbackIncident, Quiet, RowsKept, StatusKept
<1>4. CASE \/ SendBatch \/ UploadGivesUp
           \/ \E s \in uploader.todo : StoreWriteFails(s)
           \/ \E w \in BOOLEAN : RecordUploadContactFailure(w) \/ RecordUploadContactSuccess(w)
  BY <1>4, QuietTables DEF SendBatch, UploadGivesUp, StoreWriteFails, RecordUploadContactFailure,
       RecordUploadContactSuccess, durable
<1>5. ASSUME NEW s \in uploader.todo, CompleteUpload(s)
      PROVE  Quiet
  <2>1. /\ queue_events' = [queue_events EXCEPT ![s].status = "acknowledged", ![s].waiting = FALSE]
        /\ incidents' = Delivered(s) /\ process = "running"
        /\ UNCHANGED <<process, collector>>
    BY <1>1, <1>5 DEF CompleteUpload
  <2>2. IncidentsKept
    <3>1. \A i \in DOMAIN incidents : incidents[i] \in IncidentType
      BY DEF TypeOK, StoreTypeOK
    <3> QED  BY <2>1, <3>1 DEF Delivered, IncidentsKept, IncidentType
  <2>3. RowsKept /\ StatusKept
    <3>1. \A t \in DOMAIN queue_events : t # s => queue_events'[t] = queue_events[t]
      BY <2>1
    <3>2. /\ queue_events'[s].device_id = queue_events[s].device_id
          /\ queue_events'[s].critical_code = queue_events[s].critical_code
          /\ queue_events'[s].critical = queue_events[s].critical
          /\ queue_events'[s].payload_bytes = queue_events[s].payload_bytes
          /\ queue_events'[s].status = "acknowledged"
      BY <1>1, <2>1 DEF RowType
    <3>3. DOMAIN queue_events' = DOMAIN queue_events
      BY <2>1
    <3> QED  BY <1>1, <2>1, <3>1, <3>2, <3>3 DEF RowsKept, StatusKept, ActiveStatus
  <2> QED  BY <2>1, <2>2, <2>3 DEF Quiet
<1>6. ASSUME NEW s \in uploader.todo, RejectRecord(s)
      PROVE  Quiet
  <2>1. process = "running" /\ UNCHANGED <<incidents, process, collector>>
    BY <1>6 DEF RejectRecord
  <2>2. CASE Abandon(s)
    <3>1. queue_events' = [queue_events EXCEPT ![s].status = "abandoned", ![s].waiting = FALSE,
                                               ![s].rejection_count = @ + 1]
      BY <2>2 DEF Abandon
    <3>2. \A t \in DOMAIN queue_events : t # s => queue_events'[t] = queue_events[t]
      BY <3>1
    <3>3. /\ queue_events'[s].device_id = queue_events[s].device_id
          /\ queue_events'[s].critical_code = queue_events[s].critical_code
          /\ queue_events'[s].critical = queue_events[s].critical
          /\ queue_events'[s].payload_bytes = queue_events[s].payload_bytes
          /\ queue_events'[s].status = "abandoned"
      BY <1>1, <3>1 DEF RowType
    <3>4. DOMAIN queue_events' = DOMAIN queue_events
      BY <3>1
    <3>5. RowsKept /\ StatusKept
      BY <1>1, <2>1, <3>2, <3>3, <3>4 DEF RowsKept, StatusKept, ActiveStatus
    <3> QED  BY <2>1, <3>5 DEF Quiet, IncidentsKept
  <2>3. CASE MarkFailed(s, 1)
    BY <2>1, <2>3, MarkFailedQuiet
  <2>4. Abandon(s) \/ MarkFailed(s, 1)
    BY <1>1, <1>6 DEF RejectRecord
  <2> QED  BY <2>2, <2>3, <2>4
<1>7. ASSUME NEW s \in uploader.todo, RetryRecord(s)
      PROVE  Quiet
  <2>1. MarkFailed(s, 0) /\ process = "running" /\ UNCHANGED <<incidents, process, collector>>
    BY <1>1, <1>7 DEF RetryRecord
  <2> QED  BY <2>1, MarkFailedQuiet
<1>8. CASE Network
  <2>1. UNCHANGED <<queue_events, incidents, process, collector>>
    <3>1. ASSUME NEW q, NEW a, IngestAnswers(q, a) \/ UploadFails(q)
          PROVE  UNCHANGED <<queue_events, incidents, process, collector>>
      BY <3>1 DEF IngestAnswers, UploadFails, durable
    <3>2. CASE IngestRefusesRequest \/ UploadTimesOut \/ \E s \in zombies : LatePublish(s)
      BY <3>2 DEF IngestRefusesRequest, UploadTimesOut, LatePublish, durable
    <3> QED  BY <1>8, <3>1, <3>2 DEF Network
  <2> QED  BY <2>1, QuietTables
<1>9. ASSUME NEW s \in DOMAIN queue_events, BackoffElapses(s)
      PROVE  Quiet
  <2>1. queue_events' = [queue_events EXCEPT ![s].waiting = FALSE]
    BY <1>9 DEF BackoffElapses
  <2>2. \A t \in DOMAIN queue_events : t # s => queue_events'[t] = queue_events[t]
    BY <2>1
  <2>3. /\ queue_events'[s].device_id = queue_events[s].device_id
        /\ queue_events'[s].critical_code = queue_events[s].critical_code
        /\ queue_events'[s].critical = queue_events[s].critical
        /\ queue_events'[s].payload_bytes = queue_events[s].payload_bytes
        /\ queue_events'[s].status = queue_events[s].status
    BY <1>1, <2>1 DEF RowType
  <2>4. DOMAIN queue_events' = DOMAIN queue_events
    BY <2>1
  <2>5. RowsKept /\ StatusKept
    BY <2>2, <2>3, <2>4 DEF RowsKept, StatusKept
  <2> QED  BY <1>9, <2>5 DEF BackoffElapses, Quiet, IncidentsKept
<1>10. ASSUME NEW old \in SUBSET DOMAIN queue_events, Purge(old)
       PROVE  Quiet
  BY <1>10 DEF Purge, Restrict, Quiet, RowsKept, StatusKept, IncidentsKept
<1>11. CASE Crash
  BY <1>11, QuietTables DEF Crash, durable
<1>12. CASE UNCHANGED vars
  BY <1>12, QuietTables DEF vars, durable
<1> QED
  BY <1>2, <1>3, <1>4, <1>5, <1>6, <1>7, <1>8, <1>9, <1>10, <1>11, <1>12
     DEF Next, Collector, Uploader

LEMMA MarkPendingUploadRows ==
  ASSUME IndInv, MarkPendingUpload
  PROVE  /\ RowsKept /\ DOMAIN queue_events' = DOMAIN queue_events
         /\ \A s \in DOMAIN queue_events :
              /\ queue_events'[s].critical_code = queue_events[s].critical_code
              /\ s # collector.sequence => queue_events'[s] = queue_events[s]
         /\ queue_events'[collector.sequence].status = "pending_upload"
<1> DEFINE s == collector.sequence
<1>1. /\ \A t \in DOMAIN queue_events : queue_events[t] \in RowType
      /\ s \in DOMAIN queue_events /\ queue_events[s].status = "persisted"
  BY DEF MarkPendingUpload, IndInv, GoroutinesInv, TypeOK, StoreTypeOK
<1>2. queue_events' = [queue_events EXCEPT ![s].status = "pending_upload", ![s].waiting = FALSE]
  BY <1>1 DEF MarkPendingUpload
<1>3. \A t \in DOMAIN queue_events : t # s => queue_events'[t] = queue_events[t]
  BY <1>2
<1>4. /\ queue_events'[s].device_id = queue_events[s].device_id
      /\ queue_events'[s].critical_code = queue_events[s].critical_code
      /\ queue_events'[s].critical = queue_events[s].critical
      /\ queue_events'[s].payload_bytes = queue_events[s].payload_bytes
      /\ queue_events'[s].status = "pending_upload"
  BY <1>1, <1>2 DEF RowType
<1>5. DOMAIN queue_events' = DOMAIN queue_events
  BY <1>2
<1> HIDE DEF s
<1>6. RowsKept /\ \A t \in DOMAIN queue_events :
                    queue_events'[t].critical_code = queue_events[t].critical_code
  BY <1>1, <1>3, <1>4, <1>5 DEF RowsKept, ActiveStatus
<1> QED  BY <1>3, <1>4, <1>5, <1>6 DEF s

LEMMA recoverInterruptedRows ==
  ASSUME IndInv, recoverInterrupted
  PROVE  /\ RowsKept /\ DOMAIN queue_events' = DOMAIN queue_events
         /\ \A s \in DOMAIN queue_events :
              /\ queue_events'[s].critical_code = queue_events[s].critical_code
              /\ queue_events'[s].status \in TerminalStatus =>
                   queue_events[s].status \in TerminalStatus
<1>1. \A s \in DOMAIN queue_events : queue_events[s] \in RowType
  BY DEF IndInv, TypeOK, StoreTypeOK
<1>2. /\ DOMAIN queue_events' = DOMAIN queue_events
      /\ \A s \in DOMAIN queue_events :
           queue_events'[s] = IF s \in Active THEN Recovered(queue_events[s]) ELSE queue_events[s]
  BY DEF recoverInterrupted
<1>3. \A s \in DOMAIN queue_events :
        /\ Recovered(queue_events[s]).device_id = queue_events[s].device_id
        /\ Recovered(queue_events[s]).critical_code = queue_events[s].critical_code
        /\ Recovered(queue_events[s]).critical = queue_events[s].critical
        /\ Recovered(queue_events[s]).payload_bytes = queue_events[s].payload_bytes
        /\ Recovered(queue_events[s]).status = "pending_upload"
  BY <1>1 DEF Recovered, RowType
<1>4. \A s \in Active : s \in DOMAIN queue_events /\ queue_events[s].status \in ActiveStatus
  BY DEF Active
<1> QED  BY <1>2, <1>3, <1>4 DEF RowsKept, TerminalStatus

LEMMA recoverFallbackIncidentsRows ==
  ASSUME IndInv, NEW suppressed, RecoversWith(suppressed)
  PROVE  /\ RowsKept /\ DOMAIN queue_events' = DOMAIN queue_events
         /\ \A s \in DOMAIN queue_events :
              /\ queue_events'[s].status = queue_events[s].status
              /\ queue_events'[s].critical_code =
                   IF s \in suppressed THEN NoCode ELSE queue_events[s].critical_code
<1>1. \A s \in DOMAIN queue_events : queue_events[s] \in RowType
  BY DEF IndInv, TypeOK, StoreTypeOK
<1>2. /\ DOMAIN queue_events' = DOMAIN queue_events
      /\ \A s \in DOMAIN queue_events :
           queue_events'[s] = IF s \in suppressed
                                THEN [queue_events[s] EXCEPT !.critical_code = NoCode]
                                ELSE queue_events[s]
  BY DEF RecoversWith
<1>3. \A s \in DOMAIN queue_events :
        LET row == [queue_events[s] EXCEPT !.critical_code = NoCode] IN
        /\ row.device_id = queue_events[s].device_id /\ row.critical_code = NoCode
        /\ row.critical = queue_events[s].critical /\ row.status = queue_events[s].status
        /\ row.payload_bytes = queue_events[s].payload_bytes
  BY <1>1 DEF RowType
<1> QED  BY <1>2, <1>3 DEF RowsKept

-----------------------------------------------------------------------------
(* Sums over sets of rows.  What a recursive function computes is proved by taking a least set  *)
(* for which the claim fails: finite sets are well-founded under inclusion.                     *)

\* What Bytes adds up, of any table.
Sum(q, S) == MapThenSumSet(LAMBDA s : q[s].payload_bytes, S)

Chosen(S) == CHOOSE x \in S : TRUE

\* f is the function by which the parts of S are added up.
IsSum(f, q, S) ==
  f = [T \in SUBSET S |-> IF T = {} THEN 0 ELSE q[Chosen(T)].payload_bytes + f[T \ {Chosen(T)}]]

\* A nonempty family of parts of a finite set has a least member.
LEMMA LeastSubset ==
  \A S, B : IsFiniteSet(S) /\ B \subseteq SUBSET S /\ B # {}
    => \E T \in B : \A U \in B : ~(U \subseteq T /\ U # T)
<1> SUFFICES ASSUME NEW S, NEW B, IsFiniteSet(S), B \subseteq SUBSET S, B # {}
             PROVE  \E T \in B : \A U \in B : ~(U \subseteq T /\ U # T)
  OBVIOUS
<1>1. IsWellFoundedOn(StrictSubsetOrdering(S), SUBSET S)
  BY FS_StrictSubsetOrderingWellFounded, FS_FiniteSubsetsOfFinite
<1>2. \E T \in B : \A U \in B : <<U, T>> \notin StrictSubsetOrdering(S)
  BY <1>1, WFMin
<1> QED BY <1>2 DEF StrictSubsetOrdering

LEMMA SumDef == ASSUME NEW q, NEW S PROVE Sum(q, S) = (CHOOSE f : IsSum(f, q, S))[S]
BY DEF Sum, MapThenSumSet, MapThenFoldSet, IsSum, Chosen

LEMMA ChosenIn == ASSUME NEW S, S # {} PROVE Chosen(S) \in S
BY DEF Chosen

\* Two of them agree where both are defined.
LEMMA SumUnique ==
  \A q, S, T, f, g : IsFiniteSet(S) /\ IsSum(f, q, S) /\ IsSum(g, q, T)
    => \A U \in SUBSET (S \cap T) : f[U] = g[U]
<1> SUFFICES ASSUME NEW q, NEW S, NEW T, NEW f, NEW g, IsFiniteSet(S),
                    IsSum(f, q, S), IsSum(g, q, T), NEW U \in SUBSET (S \cap T)
             PROVE  f[U] = g[U]
  OBVIOUS
<1> DEFINE B == {W \in SUBSET (S \cap T) : f[W] # g[W]}
<1>1. SUFFICES ASSUME B # {} PROVE FALSE
  OBVIOUS
<1>2. PICK W \in B : \A V \in B : ~(V \subseteq W /\ V # W)
  <2>1. B \subseteq SUBSET S OBVIOUS
  <2> HIDE DEF B
  <2> QED BY <1>1, <2>1, LeastSubset
<1>3. W \in SUBSET S /\ W \in SUBSET T
  OBVIOUS
<1>4. /\ f[W] = IF W = {} THEN 0 ELSE q[Chosen(W)].payload_bytes + f[W \ {Chosen(W)}]
      /\ g[W] = IF W = {} THEN 0 ELSE q[Chosen(W)].payload_bytes + g[W \ {Chosen(W)}]
  BY <1>3 DEF IsSum
<1>5. W # {} /\ Chosen(W) \in W
  BY <1>4, ChosenIn
<1>6. f[W \ {Chosen(W)}] = g[W \ {Chosen(W)}]
  BY <1>2, <1>5
<1> QED BY <1>4, <1>5, <1>6

\* There is one: each set below the least one without has its own, and these make one more.
LEMMA SumExists ==
  ASSUME NEW q, NEW S, IsFiniteSet(S)
  PROVE  \E f : IsSum(f, q, S)
<1> DEFINE B == {T \in SUBSET S : ~ \E f : IsSum(f, q, T)}
<1>1. SUFFICES ASSUME B # {} PROVE FALSE
  OBVIOUS
<1>2. PICK T \in B : \A V \in B : ~(V \subseteq T /\ V # T)
  <2>1. B \subseteq SUBSET S OBVIOUS
  <2> HIDE DEF B
  <2> QED BY <1>1, <2>1, LeastSubset
<1> DEFINE value(U) == IF U = {} THEN 0
                       ELSE q[Chosen(U)].payload_bytes + Sum(q, U \ {Chosen(U)})
           f == [U \in SUBSET T |-> value(U)]
<1>3. \A V : V \subseteq T /\ V # T => IsSum(CHOOSE g : IsSum(g, q, V), q, V)
  BY <1>2
<1>4. \A V : V \subseteq T => IsFiniteSet(V)
  BY FS_Subset
<1>5. ASSUME NEW V, V \subseteq T, V # T
      PROVE  Sum(q, V) = value(V)
  <2> DEFINE g == CHOOSE h : IsSum(h, q, V)
  <2>1. IsSum(g, q, V) /\ Sum(q, V) = g[V]
    BY <1>3, <1>5, SumDef
  <2>2. CASE V = {}
    BY <2>1, <2>2 DEF IsSum
  <2>3. CASE V # {}
    <3> DEFINE W == V \ {Chosen(V)}
               k == CHOOSE h : IsSum(h, q, W)
    <3>1. W \subseteq T /\ W # T /\ W \in SUBSET V
      BY <1>5
    <3>2. IsSum(k, q, W) /\ Sum(q, W) = k[W]
      BY <1>3, <3>1, SumDef
    <3>3. W \in SUBSET (W \cap V)
      OBVIOUS
    <3>4. IsFiniteSet(W)
      BY <1>4, <3>1
    <3> HIDE DEF W, k, g
    <3>5. g[W] = k[W]
      BY <2>1, <3>2, <3>3, <3>4, SumUnique
    <3>6. g[V] = q[Chosen(V)].payload_bytes + g[V \ {Chosen(V)}]
      BY <2>1, <2>3 DEF IsSum
    <3> QED BY <2>1, <2>3, <3>2, <3>5, <3>6 DEF W
  <2> QED BY <2>2, <2>3
<1>6. IsSum(f, q, T)
  <2>1. ASSUME NEW U \in SUBSET T
        PROVE value(U) = IF U = {} THEN 0
                         ELSE q[Chosen(U)].payload_bytes + f[U \ {Chosen(U)}]
    <3>1. CASE U = {} BY <3>1
    <3>2. CASE U # {}
      <4> DEFINE W == U \ {Chosen(U)}
      <4>1. W \in SUBSET T /\ W # T
        BY <3>2, ChosenIn
      <4>2. f[W] = value(W) /\ Sum(q, W) = value(W)
        BY <4>1, <1>5
      <4> HIDE DEF f
      <4> QED BY <3>2, <4>2
    <3> QED BY <3>1, <3>2
  <2> HIDE DEF value
  <2>2. f = [U \in SUBSET T |-> IF U = {} THEN 0
                                ELSE q[Chosen(U)].payload_bytes + f[U \ {Chosen(U)}]]
    BY <2>1
  <2> HIDE DEF f
  <2> QED BY <2>2 DEF IsSum
<1> QED BY <1>2, <1>6

\* So a sum is what its definition says.
LEMMA SumStep ==
  ASSUME NEW q, NEW S, IsFiniteSet(S)
  PROVE  Sum(q, S) = IF S = {} THEN 0
                     ELSE q[Chosen(S)].payload_bytes + Sum(q, S \ {Chosen(S)})
<1> DEFINE f == CHOOSE h : IsSum(h, q, S)
           W == S \ {Chosen(S)}
           g == CHOOSE h : IsSum(h, q, W)
<1>1. IsSum(f, q, S) /\ Sum(q, S) = f[S]
  BY SumExists, SumDef
<1>2. IsFiniteSet(W) /\ W \in SUBSET (W \cap S)
  BY FS_Subset
<1>3. IsSum(g, q, W) /\ Sum(q, W) = g[W]
  BY <1>2, SumExists, SumDef
<1> HIDE DEF f, g, W
<1>4. g[W] = f[W]
  BY <1>1, <1>2, <1>3, SumUnique
<1>5. f[S] = IF S = {} THEN 0 ELSE q[Chosen(S)].payload_bytes + f[S \ {Chosen(S)}]
  BY <1>1 DEF IsSum
<1> QED BY <1>1, <1>3, <1>4, <1>5 DEF W

\* S is finite and its rows have sizes.
Sized(q, S) == IsFiniteSet(S) /\ \A s \in S : q[s].payload_bytes \in Nat

LEMMA SumNat ==
  \A q, S : Sized(q, S) => Sum(q, S) \in Nat
<1> SUFFICES ASSUME NEW q, NEW S, Sized(q, S) PROVE Sum(q, S) \in Nat
  OBVIOUS
<1> DEFINE B == {T \in SUBSET S : Sum(q, T) \notin Nat}
<1>1. SUFFICES ASSUME B # {} PROVE FALSE
  BY DEF Sized
<1>2. PICK T \in B : \A V \in B : ~(V \subseteq T /\ V # T)
  <2>1. B \subseteq SUBSET S /\ IsFiniteSet(S) BY DEF Sized
  <2> HIDE DEF B
  <2> QED BY <1>1, <2>1, LeastSubset
<1>3. IsFiniteSet(T) /\ T \subseteq S
  BY FS_Subset DEF Sized
<1>4. Sum(q, T) = IF T = {} THEN 0 ELSE q[Chosen(T)].payload_bytes + Sum(q, T \ {Chosen(T)})
  BY <1>3, SumStep
<1>5. T # {} /\ Chosen(T) \in T
  BY <1>4, ChosenIn
<1>6. Sum(q, T \ {Chosen(T)}) \in Nat
  BY <1>2, <1>5
<1>7. q[Chosen(T)].payload_bytes \in Nat
  BY <1>3, <1>5 DEF Sized
<1> QED BY <1>4, <1>5, <1>6, <1>7

\* The order of addition does not matter.
LEMMA SumTakes ==
  \A q, S : Sized(q, S) =>
    \A x \in S : Sum(q, S) = q[x].payload_bytes + Sum(q, S \ {x})
<1> SUFFICES ASSUME NEW q, NEW S, Sized(q, S)
             PROVE \A x \in S : Sum(q, S) = q[x].payload_bytes + Sum(q, S \ {x})
  OBVIOUS
<1> DEFINE B == {T \in SUBSET S : \E x \in T : Sum(q, T) # q[x].payload_bytes + Sum(q, T \ {x})}
<1>1. SUFFICES ASSUME B # {} PROVE FALSE
  OBVIOUS
<1>2. PICK T \in B : \A V \in B : ~(V \subseteq T /\ V # T)
  <2>1. B \subseteq SUBSET S /\ IsFiniteSet(S) BY DEF Sized
  <2> HIDE DEF B
  <2> QED BY <1>1, <2>1, LeastSubset
<1>3. \A V : V \subseteq T => Sized(q, V)
  BY FS_Subset DEF Sized
<1>4. PICK x \in T : Sum(q, T) # q[x].payload_bytes + Sum(q, T \ {x})
  OBVIOUS
<1>5. \A V : V \subseteq T /\ V # T =>
        \A y \in V : Sum(q, V) = q[y].payload_bytes + Sum(q, V \ {y})
  BY <1>2
<1> DEFINE c == Chosen(T)
<1>6. c \in T /\ Sum(q, T) = q[c].payload_bytes + Sum(q, T \ {c})
  <2>1. IsFiniteSet(T) BY <1>3 DEF Sized
  <2> QED BY <1>4, <2>1, ChosenIn, SumStep
<1> HIDE DEF c, B
<1>7. x # c
  BY <1>4, <1>6
<1> DEFINE rest == T \ {c, x}
<1>8. Sum(q, T \ {c}) = q[x].payload_bytes + Sum(q, rest)
  <2>1. (T \ {c}) \ {x} = rest OBVIOUS
  <2>2. x \in T \ {c} /\ T \ {c} \subseteq T /\ T \ {c} # T BY <1>6, <1>7
  <2> QED BY <1>5, <2>1, <2>2
<1>9. Sum(q, T \ {x}) = q[c].payload_bytes + Sum(q, rest)
  <2>1. (T \ {x}) \ {c} = rest OBVIOUS
  <2>2. c \in T \ {x} /\ T \ {x} \subseteq T /\ T \ {x} # T BY <1>6, <1>7
  <2> QED BY <1>5, <2>1, <2>2
<1>10. q[x].payload_bytes \in Nat /\ q[c].payload_bytes \in Nat /\ Sum(q, rest) \in Nat
  BY <1>3, <1>6, SumNat DEF Sized
<1> HIDE DEF rest
<1> QED BY <1>4, <1>6, <1>8, <1>9, <1>10

\* A part takes no more than the whole.
LEMMA SumMonotone ==
  \A q, S, T : Sized(q, T) /\ S \subseteq T => Sum(q, S) <= Sum(q, T)
<1> SUFFICES ASSUME NEW q, NEW S, NEW T, Sized(q, T), S \subseteq T
             PROVE  Sum(q, S) <= Sum(q, T)
  OBVIOUS
<1> DEFINE B == {U \in SUBSET T : S \subseteq U /\ ~(Sum(q, S) <= Sum(q, U))}
<1>1. SUFFICES ASSUME B # {} PROVE FALSE
  OBVIOUS
<1>2. PICK U \in B : \A V \in B : ~(V \subseteq U /\ V # U)
  <2>1. B \subseteq SUBSET T /\ IsFiniteSet(T) BY DEF Sized
  <2> HIDE DEF B
  <2> QED BY <1>1, <2>1, LeastSubset
<1>3. \A V : V \subseteq U => Sized(q, V) /\ Sum(q, V) \in Nat
  BY FS_Subset, SumNat DEF Sized
<1>4. S # U
  BY <1>3
<1>5. PICK x \in U : x \notin S
  BY <1>4
<1>6. Sum(q, S) <= Sum(q, U \ {x})
  BY <1>2, <1>5
<1>7. Sum(q, U) = q[x].payload_bytes + Sum(q, U \ {x})
  BY <1>3, SumTakes
<1>8. /\ Sum(q, S) \in Nat /\ Sum(q, U \ {x}) \in Nat /\ q[x].payload_bytes \in Nat
      /\ ~(Sum(q, S) <= Sum(q, U))
  BY <1>3 DEF Sized
<1> QED BY <1>6, <1>7, <1>8

\* The sum depends on the sizes only.
LEMMA SumAgrees ==
  \A q, r, S : /\ IsFiniteSet(S)
               /\ \A s \in S : q[s].payload_bytes = r[s].payload_bytes
    => Sum(q, S) = Sum(r, S)
<1> SUFFICES ASSUME NEW q, NEW r, NEW S, IsFiniteSet(S),
                    \A s \in S : q[s].payload_bytes = r[s].payload_bytes
             PROVE  Sum(q, S) = Sum(r, S)
  OBVIOUS
<1> DEFINE B == {T \in SUBSET S : Sum(q, T) # Sum(r, T)}
<1>1. SUFFICES ASSUME B # {} PROVE FALSE
  OBVIOUS
<1>2. PICK T \in B : \A V \in B : ~(V \subseteq T /\ V # T)
  <2>1. B \subseteq SUBSET S OBVIOUS
  <2> HIDE DEF B
  <2> QED BY <1>1, <2>1, LeastSubset
<1>3. IsFiniteSet(T) /\ T \subseteq S
  BY FS_Subset
<1>4. /\ Sum(q, T) = IF T = {} THEN 0 ELSE q[Chosen(T)].payload_bytes + Sum(q, T \ {Chosen(T)})
      /\ Sum(r, T) = IF T = {} THEN 0 ELSE r[Chosen(T)].payload_bytes + Sum(r, T \ {Chosen(T)})
  BY <1>3, SumStep
<1>5. T # {} /\ Chosen(T) \in T
  BY <1>4, ChosenIn
<1>6. Sum(q, T \ {Chosen(T)}) = Sum(r, T \ {Chosen(T)})
  BY <1>2, <1>5
<1>7. q[Chosen(T)].payload_bytes = r[Chosen(T)].payload_bytes
  BY <1>3, <1>5
<1> QED BY <1>4, <1>5, <1>6, <1>7

-----------------------------------------------------------------------------
(* The payload budget and the critical reserve *)

\* The rows of a table that count against the payload budget, and those of normal events.
ActiveIn(q) == {s \in DOMAIN q : q[s].status \in ActiveStatus}
NormalIn(q) == {s \in ActiveIn(q) : ~q[s].critical}

BudgetKept(q) ==
  /\ Sum(q, ActiveIn(q)) <= payloadCapacity
  /\ Sum(q, NormalIn(q)) <= normalAdmissionLimit

LEMMA ReserveIsBudget ==
  /\ CriticalReserveKept <=> BudgetKept(queue_events)
  /\ CriticalReserveKept' <=> BudgetKept(queue_events')
<1>1. CriticalReserveKept <=> BudgetKept(queue_events)
  BY DEF CriticalReserveKept, BudgetKept, Bytes, Sum, Active, ActiveIn, NormalIn
<1>2. CriticalReserveKept' <=> BudgetKept(queue_events')
  BY DEF CriticalReserveKept, BudgetKept, Bytes, Sum, Active, ActiveIn, NormalIn,
         MapThenSumSet, MapThenFoldSet
<1> QED  BY <1>1, <1>2

LEMMA RowsAreSized ==
  ASSUME IndInv
  PROVE  /\ Sized(queue_events, ActiveIn(queue_events))
         /\ Sized(queue_events, NormalIn(queue_events))
         /\ IsFiniteSet(DOMAIN queue_events)
<1>1. PICK n \in 0..MaxSequence : Sequences = 1..n
  BY DEF IndInv, TypeOK, HistoryTypeOK, Sequences
<1>2. IsFiniteSet(1..n)
  BY <1>1, FS_Interval, ConfigAssumption
<1>3. /\ DOMAIN queue_events \subseteq 1..n
      /\ ActiveIn(queue_events) \subseteq 1..n /\ NormalIn(queue_events) \subseteq 1..n
  BY <1>1 DEF IndInv, TypeOK, StoreTypeOK, ActiveIn, NormalIn
<1>4. \A s \in ActiveIn(queue_events) : queue_events[s].payload_bytes \in Nat
  BY ConfigAssumption DEF IndInv, TypeOK, StoreTypeOK, RowType, ActiveIn
<1>5. /\ IsFiniteSet(ActiveIn(queue_events)) /\ IsFiniteSet(NormalIn(queue_events))
      /\ IsFiniteSet(DOMAIN queue_events)
  BY <1>2, <1>3, FS_Subset
<1>6. NormalIn(queue_events) \subseteq ActiveIn(queue_events)
  BY DEF NormalIn
<1> QED  BY <1>4, <1>5, <1>6 DEF Sized

LEMMA LimitsAreIntegers ==
  payloadCapacity \in Nat /\ normalAdmissionLimit \in Nat
BY ConfigAssumption DEF payloadCapacity, normalAdmissionLimit

\* Rows that leave, or keep their size and their kind, take no more of the budget.
LEMMA ReserveFrame ==
  ASSUME IndInv, RowsKept, CriticalReserveKept
  PROVE  CriticalReserveKept'
<1> DEFINE q == queue_events
           r == queue_events'
<1>1. Sized(q, ActiveIn(q)) /\ Sized(q, NormalIn(q)) /\ BudgetKept(q)
  BY RowsAreSized, ReserveIsBudget
<1>2. /\ \A s \in DOMAIN r : /\ s \in DOMAIN q /\ r[s].critical = q[s].critical
                             /\ r[s].payload_bytes = q[s].payload_bytes
                             /\ r[s].status \in ActiveStatus => q[s].status \in ActiveStatus
  BY DEF RowsKept
<1>3. SUFFICES BudgetKept(r)
  BY ReserveIsBudget
<1> HIDE DEF q, r
<1>4. /\ ActiveIn(r) \subseteq ActiveIn(q) /\ NormalIn(r) \subseteq NormalIn(q)
      /\ ActiveIn(r) \subseteq DOMAIN r /\ NormalIn(r) \subseteq DOMAIN r
  BY <1>2 DEF ActiveIn, NormalIn
<1>5. IsFiniteSet(ActiveIn(r)) /\ IsFiniteSet(NormalIn(r))
  BY <1>1, <1>4, FS_Subset DEF Sized
<1>6. /\ Sized(q, ActiveIn(r)) /\ Sized(q, NormalIn(r))
  BY <1>1, <1>4, <1>5 DEF Sized
<1>7. /\ Sum(r, ActiveIn(r)) = Sum(q, ActiveIn(r))
      /\ Sum(r, NormalIn(r)) = Sum(q, NormalIn(r))
  BY <1>2, <1>4, <1>5, SumAgrees
<1>8. /\ Sum(q, ActiveIn(r)) <= Sum(q, ActiveIn(q))
      /\ Sum(q, NormalIn(r)) <= Sum(q, NormalIn(q))
  BY <1>1, <1>4, SumMonotone
<1>9. /\ Sum(q, ActiveIn(q)) \in Nat /\ Sum(q, NormalIn(q)) \in Nat
      /\ Sum(q, ActiveIn(r)) \in Nat /\ Sum(q, NormalIn(r)) \in Nat
  BY <1>1, <1>6, SumNat
<1> QED
  BY <1>1, <1>7, <1>8, <1>9, LimitsAreIntegers DEF BudgetKept

\* What Persist admits fits: a normal event beside all that is queued, a critical one within
\* the whole budget.
LEMMA PersistReserve ==
  ASSUME IndInv, CriticalReserveKept, NEW d \in Devices, NEW c \in Codes \cup {NoCode},
         NEW b \in EventSizes, Persist(d, c, b)
  PROVE  CriticalReserveKept'
<1> DEFINE q == queue_events
           r == queue_events'
           s == LastSequence + 1
           critical == c # NoCode
<1>1. Sized(q, ActiveIn(q)) /\ Sized(q, NormalIn(q)) /\ BudgetKept(q)
  BY RowsAreSized, ReserveIsBudget
<1>2. s \notin DOMAIN q
  <2>1. PICK n \in 0..MaxSequence : origin \in [1..n -> Devices]
    BY DEF IndInv, TypeOK, HistoryTypeOK
  <2>2. LastSequence = n
    BY <2>1, CounterIsLength, ConfigAssumption DEF LastSequence, Sequences
  <2> QED  BY <2>1, <2>2, ConfigAssumption DEF IndInv, TypeOK, StoreTypeOK, Sequences
<1>3. /\ b <= payloadCapacity - Sum(q, ActiveIn(q))
      /\ critical \/ b <= normalAdmissionLimit - Sum(q, ActiveIn(q))
  BY DEF Persist, Admits, Bytes, Sum, Active, ActiveIn
<1>4. /\ DOMAIN r = DOMAIN q \cup {s}
      /\ \A t \in DOMAIN q : r[t] = q[t]
      /\ r[s].status = "persisted" /\ r[s].critical = critical /\ r[s].payload_bytes = b
  BY <1>2 DEF Persist, Put
<1>5. b \in Nat
  BY ConfigAssumption
<1>6. SUFFICES BudgetKept(r)
  BY ReserveIsBudget
<1> HIDE DEF q, r, s, critical
<1>7. /\ ActiveIn(r) = ActiveIn(q) \cup {s}
      /\ NormalIn(r) = NormalIn(q) \cup (IF critical THEN {} ELSE {s})
      /\ s \notin ActiveIn(q) /\ s \notin NormalIn(q)
      /\ ActiveIn(q) \subseteq DOMAIN q /\ NormalIn(q) \subseteq ActiveIn(q)
  BY <1>2, <1>4 DEF ActiveIn, NormalIn, ActiveStatus
<1>8. /\ Sum(r, ActiveIn(q)) = Sum(q, ActiveIn(q))
      /\ Sum(r, NormalIn(q)) = Sum(q, NormalIn(q))
  BY <1>1, <1>4, <1>7, SumAgrees DEF Sized
<1>9. \A S : S \in {ActiveIn(q), NormalIn(q)} => Sized(r, S \cup {s})
  BY <1>1, <1>4, <1>5, <1>7, FS_AddElement DEF Sized
<1>10. /\ Sum(r, ActiveIn(q) \cup {s}) = b + Sum(q, ActiveIn(q))
       /\ Sum(r, NormalIn(q) \cup {s}) = b + Sum(q, NormalIn(q))
  <2>1. \A S : S \in {ActiveIn(q), NormalIn(q)} => (S \cup {s}) \ {s} = S
    BY <1>7
  <2> QED  BY <1>4, <1>8, <1>9, <2>1, SumTakes
<1>11. Sum(q, NormalIn(q)) <= Sum(q, ActiveIn(q))
  BY <1>1, <1>7, SumMonotone
<1>12. Sum(q, ActiveIn(q)) \in Nat /\ Sum(q, NormalIn(q)) \in Nat
  BY <1>1, SumNat
<1>13. Sum(r, ActiveIn(r)) <= payloadCapacity
  BY <1>3, <1>5, <1>7, <1>10, <1>12, LimitsAreIntegers
<1>14. Sum(r, NormalIn(r)) <= normalAdmissionLimit
  <2>1. CASE critical
    <3>1. NormalIn(r) = NormalIn(q)
      BY <1>7, <2>1
    <3> QED  BY <1>1, <1>8, <3>1 DEF BudgetKept
  <2>2. CASE ~critical
    <3>1. NormalIn(r) = NormalIn(q) \cup {s}
      BY <1>7, <2>2
    <3> QED  BY <1>3, <1>5, <1>10, <1>11, <1>12, <2>2, <3>1, LimitsAreIntegers
  <2> QED  BY <2>1, <2>2
<1> QED  BY <1>13, <1>14 DEF BudgetKept

\* The queue stays within its payload budget and normal events out of the critical reserve,
\* for every configuration validateConfig accepts and however many rows are queued.
THEOREM ReserveTheorem == Spec => []CriticalReserveKept
<1>1. Init => CriticalReserveKept
  <2> SUFFICES ASSUME Init PROVE BudgetKept(queue_events)
    BY ReserveIsBudget
  <2>1. ActiveIn(queue_events) = {} /\ NormalIn(queue_events) = {}
    BY DEF Init, ActiveIn, NormalIn
  <2>2. Sum(queue_events, {}) = 0
    BY SumStep, FS_EmptySet
  <2> QED  BY <2>1, <2>2, LimitsAreIntegers DEF BudgetKept
<1>2. IndInv /\ CriticalReserveKept /\ [Next]_vars => CriticalReserveKept'
  <2> SUFFICES ASSUME IndInv, CriticalReserveKept, [Next]_vars PROVE CriticalReserveKept'
    OBVIOUS
  <2>1. ASSUME NEW d \in Devices, NEW c \in Codes \cup {NoCode}, NEW b \in EventSizes,
               Persist(d, c, b)
        PROVE  CriticalReserveKept'
    BY <2>1, PersistReserve
  <2>2. CASE OpenFallbackIncident
    <3>1. RowsKept
      BY <2>2 DEF OpenFallbackIncident, RowsKept
    <3> QED  BY <3>1, ReserveFrame
  <2>3. CASE MarkPendingUpload \/ recoverInterrupted \/ recoverFallbackIncidents \/ Quiet
    <3>1. RowsKept
      BY <2>3, MarkPendingUploadRows, recoverInterruptedRows, RecoversWithSome,
         recoverFallbackIncidentsRows
         DEF Quiet
    <3> QED  BY <3>1, ReserveFrame
  <2> QED  BY <2>1, <2>2, <2>3, QuietSteps
<1> QED  BY <1>1, <1>2, Invariance, PTL DEF Spec

-----------------------------------------------------------------------------
(* Conditions and the incidents that stand for them *)

LEMMA LeastNatural ==
  \A S : S \subseteq Nat /\ S # {} => \E m \in S : \A x \in S : m <= x
<1> SUFFICES ASSUME NEW S, S \subseteq Nat, S # {} PROVE \E m \in S : \A x \in S : m <= x
  OBVIOUS
<1> DEFINE R == OpToRel(<, Nat)
<1>1. IsWellFoundedOn(R, Nat)
  BY NatLessThanWellFounded
<1>2. \A x, m \in Nat : x < m => <<x, m>> \in R
  BY DEF OpToRel
<1> HIDE DEF R
<1>3. PICK m \in S : \A x \in S : <<x, m>> \notin R
  BY <1>1, WFMin
<1>4. \A x \in S : x \in Nat /\ m \in Nat /\ ~(x < m)
  BY <1>2, <1>3
<1>5. \A x \in S : m <= x
  BY <1>4
<1> QED  BY <1>5

\* An incident that stays on file keeps standing for the rows it stood for.
LEMMA OnFileKept ==
  ASSUME \A i \in DOMAIN incidents : /\ i \in DOMAIN incidents'
                                     /\ incidents'[i].code = incidents[i].code
                                     /\ incidents'[i].asset_id = incidents[i].asset_id
  PROVE  \A s \in DOMAIN queue_events, t \in DOMAIN queue_events' :
           /\ queue_events'[t].device_id = queue_events[s].device_id
           /\ queue_events'[t].critical_code = queue_events[s].critical_code
           /\ OnFile(queue_events[s])
           => OnFile(queue_events[t])'
BY DEF OnFile

LEMMA QuietConditions ==
  ASSUME IndInv', ConditionInv, Quiet
  PROVE  ConditionInv'
<1> USE DEF Quiet
<1>1. \A s \in DOMAIN queue_events' :
        /\ s \in DOMAIN queue_events
        /\ queue_events'[s].device_id = queue_events[s].device_id
        /\ queue_events'[s].critical_code = queue_events[s].critical_code
        /\ OnFile(queue_events[s]) => OnFile(queue_events[s])'
  <2>1. \A s \in DOMAIN queue_events' :
          /\ s \in DOMAIN queue_events
          /\ queue_events'[s].device_id = queue_events[s].device_id
          /\ queue_events'[s].critical_code = queue_events[s].critical_code
    BY DEF RowsKept, StatusKept
  <2> QED  BY <2>1, OnFileKept DEF IncidentsKept
<1>2. \A s \in DOMAIN queue_events' \cap DOMAIN incidents' :
        queue_events'[s].critical_code # NoCode =>
          /\ incidents'[s].code = queue_events'[s].critical_code
          /\ incidents'[s].asset_id = AssetOf(queue_events'[s].device_id, queue_events'[s].critical_code)
  BY <1>1 DEF ConditionInv, IncidentsKept
<1>3. ASSUME NEW s \in DOMAIN queue_events', queue_events'[s].critical_code # NoCode,
             queue_events'[s].status \in TerminalStatus
      PROVE  OnFile(queue_events[s])'
  <2>1. \/ queue_events[s].status \in TerminalStatus
        \/ process = "running" /\ queue_events[s].status # "persisted"
    BY <1>3 DEF StatusKept
  <2> QED  BY <1>1, <1>3, <2>1 DEF ConditionInv, CriticalRowsHaveIncident
<1>4. ASSUME collector'.next = "mark", queue_events'[collector'.sequence].critical_code # NoCode
      PROVE  OnFile(queue_events[collector.sequence])'
  <2>1. collector' = collector
    BY <1>4 DEF CollectorIdle
  <2>2. collector'.sequence \in DOMAIN queue_events'
    BY <1>4 DEF IndInv, GoroutinesInv
  <2> QED  BY <1>1, <1>4, <2>1, <2>2 DEF ConditionInv
<1>5. ASSUME process' = "running", NEW s \in DOMAIN queue_events',
             queue_events'[s].critical_code # NoCode, queue_events'[s].status # "persisted"
      PROVE  OnFile(queue_events[s])'
  <2>1. process = "running" /\ queue_events[s].status # "persisted"
    BY <1>5 DEF StatusKept
  <2> QED  BY <1>1, <1>5, <2>1 DEF ConditionInv, CriticalRowsHaveIncident
<1> QED
  BY <1>2, <1>3, <1>4, <1>5 DEF ConditionInv, CriticalRowsHaveIncident

LEMMA PersistConditions ==
  ASSUME IndInv, ConditionInv, NEW d \in Devices, NEW c \in Codes \cup {NoCode},
         NEW b \in EventSizes, Persist(d, c, b)
  PROVE  ConditionInv'
<1> DEFINE s == LastSequence + 1
<1>1. s \notin Sequences
  <2>1. PICK n \in 0..MaxSequence : origin \in [1..n -> Devices]
    BY DEF IndInv, TypeOK, HistoryTypeOK
  <2> QED  BY <2>1, CounterIsLength, ConfigAssumption DEF LastSequence, Sequences
<1>2. s \notin DOMAIN queue_events /\ s \notin DOMAIN incidents
  BY <1>1 DEF IndInv, TypeOK, StoreTypeOK
<1>3. /\ DOMAIN queue_events' = DOMAIN queue_events \cup {s}
      /\ \A t \in DOMAIN queue_events : queue_events'[t] = queue_events[t]
      /\ queue_events'[s].status = "persisted" /\ queue_events'[s].critical_code = c
      /\ collector'.next = "mark" => c = NoCode
      /\ collector'.sequence = s
      /\ incidents' = incidents /\ process' = process
  BY <1>2 DEF Persist, Put
<1> HIDE DEF s
<1>4. \A t \in DOMAIN queue_events : OnFile(queue_events[t]) => OnFile(queue_events[t])'
  BY <1>3 DEF OnFile
<1> QED
  BY <1>2, <1>3, <1>4 DEF ConditionInv, CriticalRowsHaveIncident, TerminalStatus

LEMMA OpenFallbackIncidentConditions ==
  ASSUME IndInv, ConditionInv, OpenFallbackIncident
  PROVE  ConditionInv'
<1> DEFINE s == collector.sequence
           row == queue_events[s]
           asset == AssetOf(row.device_id, row.critical_code)
<1>1. /\ s \in DOMAIN queue_events /\ row.critical_code # NoCode
      /\ collector \in [next : {"idle", "open", "mark"}, sequence : {0} \cup Sequences]
  BY DEF OpenFallbackIncident, IndInv, GoroutinesInv, TypeOK, ProcessTypeOK
<1>2. /\ queue_events' = queue_events /\ process' = process /\ collector'.sequence = s
      /\ incidents' = IF s \in DOMAIN incidents \/ Unresolved(asset, row.critical_code) # {}
                        THEN incidents
                        ELSE Put(incidents, s, NewIncident(asset, row.critical_code))
  BY <1>1 DEF OpenFallbackIncident
<1>3. OnFile(row) \/ /\ DOMAIN incidents' = DOMAIN incidents \cup {s} /\ s \notin DOMAIN incidents
                     /\ incidents'[s].code = row.critical_code /\ incidents'[s].asset_id = asset
  <2>1. CASE s \in DOMAIN incidents
    BY <1>1, <2>1 DEF ConditionInv, OnFile
  <2>2. CASE Unresolved(asset, row.critical_code) # {}
    BY <2>2 DEF Unresolved, OnFile
  <2>3. CASE s \notin DOMAIN incidents /\ Unresolved(asset, row.critical_code) = {}
    BY <1>2, <2>3 DEF Put, NewIncident
  <2> QED  BY <2>1, <2>2, <2>3
<1>4. /\ DOMAIN incidents' \subseteq DOMAIN incidents \cup {s}
      /\ \A i \in DOMAIN incidents : i \in DOMAIN incidents' /\ incidents'[i] = incidents[i]
  BY <1>2 DEF Put
<1>5. \A t \in DOMAIN queue_events : OnFile(queue_events[t]) => OnFile(queue_events[t])'
  BY <1>2, <1>4 DEF OnFile
<1>6. OnFile(row)'
  <2>1. CASE OnFile(row)
    BY <1>1, <1>2, <1>5, <2>1
  <2>2. CASE incidents'[s].code = row.critical_code /\ incidents'[s].asset_id = asset
             /\ s \in DOMAIN incidents'
    BY <1>2, <2>2 DEF OnFile
  <2> QED  BY <1>3, <2>1, <2>2
<1>7. \A t \in DOMAIN queue_events \cap DOMAIN incidents' :
        queue_events[t].critical_code # NoCode =>
          /\ incidents'[t].code = queue_events[t].critical_code
          /\ incidents'[t].asset_id = AssetOf(queue_events[t].device_id, queue_events[t].critical_code)
  <2>1. \/ s \in DOMAIN incidents
        \/ incidents'[s].code = row.critical_code /\ incidents'[s].asset_id = asset
        \/ s \notin DOMAIN incidents'
    BY <1>2 DEF Put, NewIncident
  <2>2. \A t \in DOMAIN queue_events \cap DOMAIN incidents :
          queue_events[t].critical_code # NoCode =>
            /\ incidents[t].code = queue_events[t].critical_code
            /\ incidents[t].asset_id = AssetOf(queue_events[t].device_id, queue_events[t].critical_code)
    BY DEF ConditionInv
  <2> QED  BY <1>4, <2>1, <2>2
<1> HIDE DEF s
<1> QED
  BY <1>2, <1>5, <1>6, <1>7 DEF ConditionInv, CriticalRowsHaveIncident, s

LEMMA MarkPendingUploadConditions ==
  ASSUME IndInv, ConditionInv, MarkPendingUpload
  PROVE  ConditionInv'
<1> DEFINE s == collector.sequence
<1>1. /\ s \in DOMAIN queue_events /\ queue_events[s].status = "persisted"
      /\ incidents' = incidents /\ process' = process /\ collector'.next = "idle"
      /\ collector.next = "mark"
  BY DEF MarkPendingUpload, IndInv, GoroutinesInv, CollectorIdle
<1>2. /\ DOMAIN queue_events' = DOMAIN queue_events
      /\ \A t \in DOMAIN queue_events : /\ t # s => queue_events'[t] = queue_events[t]
                                        /\ queue_events'[t].device_id = queue_events[t].device_id
                                        /\ queue_events'[t].critical_code = queue_events[t].critical_code
      /\ queue_events'[s].status = "pending_upload"
  BY MarkPendingUploadRows DEF RowsKept
<1>3. \A t \in DOMAIN queue_events : OnFile(queue_events[t]) => OnFile(queue_events[t])'
  BY <1>1, <1>2 DEF OnFile
<1>4. queue_events[s].critical_code # NoCode => OnFile(queue_events[s])
  BY <1>1 DEF ConditionInv
<1> HIDE DEF s
<1> QED
  BY <1>1, <1>2, <1>3, <1>4 DEF ConditionInv, CriticalRowsHaveIncident, TerminalStatus

LEMMA recoverInterruptedConditions ==
  ASSUME IndInv, ConditionInv, recoverInterrupted
  PROVE  ConditionInv'
<1>1. /\ incidents' = incidents /\ process' = "opening" /\ collector' = collector
      /\ collector.next = "idle"
  BY DEF recoverInterrupted, IndInv, GoroutinesInv, CollectorIdle
<1>2. /\ DOMAIN queue_events' = DOMAIN queue_events
      /\ \A t \in DOMAIN queue_events :
           /\ queue_events'[t].device_id = queue_events[t].device_id
           /\ queue_events'[t].critical_code = queue_events[t].critical_code
           /\ queue_events'[t].status \in TerminalStatus => queue_events[t].status \in TerminalStatus
  BY recoverInterruptedRows DEF RowsKept
<1>3. \A t \in DOMAIN queue_events : OnFile(queue_events[t]) => OnFile(queue_events[t])'
  BY <1>1, <1>2 DEF OnFile
<1> QED
  BY <1>1, <1>2, <1>3 DEF ConditionInv, CriticalRowsHaveIncident

\* Of the active rows that share a condition nothing stands for, the first gets an incident.
LEMMA recoverFallbackIncidentsConditions ==
  ASSUME IndInv, ConditionInv, recoverFallbackIncidents
  PROVE  ConditionInv'
<1> DEFINE key(t) == <<AssetOf(queue_events[t].device_id, queue_events[t].critical_code),
                       queue_events[t].critical_code>>
<1>r. PICK suppressed \in Suppressions : RecoversWith(suppressed)
  BY RecoversWithSome
<1> DEFINE missing == {t \in Active \ (suppressed \cup DOMAIN incidents) :
                         /\ queue_events[t].critical_code # NoCode
                         /\ Unresolved(key(t)[1], key(t)[2]) = {}}
<1>1. /\ collector' = collector /\ collector.next = "idle"
      /\ DOMAIN incidents' = DOMAIN incidents \cup Reopened(suppressed)
      /\ \A i \in DOMAIN incidents : incidents'[i] = incidents[i]
      /\ \A i \in Reopened(suppressed) \ DOMAIN incidents :
           incidents'[i].asset_id = key(i)[1] /\ incidents'[i].code = key(i)[2]
  <2> DEFINE new(s) == NewIncident(AssetOf(queue_events[s].device_id, queue_events[s].critical_code),
                                   queue_events[s].critical_code)
  <2>1. collector' = collector /\ collector.next = "idle"
    BY DEF recoverFallbackIncidents, IndInv, GoroutinesInv, CollectorIdle
  <2>2. incidents' = [s \in DOMAIN incidents \cup Reopened(suppressed) |->
                        IF s \in DOMAIN incidents THEN incidents[s] ELSE new(s)]
    BY <1>r DEF RecoversWith
  <2>3. \A s \in Reopened(suppressed) : new(s).asset_id = key(s)[1] /\ new(s).code = key(s)[2]
    BY DEF NewIncident
  <2> HIDE DEF new, key
  <2> QED  BY <2>1, <2>2, <2>3
<1>2. /\ DOMAIN queue_events' = DOMAIN queue_events
      /\ \A t \in DOMAIN queue_events :
           /\ queue_events'[t].device_id = queue_events[t].device_id
           /\ queue_events'[t].status = queue_events[t].status
           /\ queue_events'[t].critical_code =
                IF t \in suppressed THEN NoCode ELSE queue_events[t].critical_code
  BY <1>r, recoverFallbackIncidentsRows DEF RowsKept
<1>3. \A t \in DOMAIN queue_events \ suppressed :
        OnFile(queue_events[t]) => OnFile(queue_events[t])'
  BY <1>1, <1>2 DEF OnFile
<1>4. /\ Reopened(suppressed) = {t \in missing : \A u \in missing : key(u) = key(t) => t <= u}
      /\ missing \subseteq DOMAIN queue_events
      /\ missing \cap suppressed = {}
  BY DEF Reopened, Active
<1>5. DOMAIN queue_events \subseteq Nat
  <2>1. PICK n \in 0..MaxSequence : Sequences = 1..n
    BY DEF IndInv, TypeOK, HistoryTypeOK, Sequences
  <2> QED  BY <2>1, ConfigAssumption DEF IndInv, TypeOK, StoreTypeOK
<1>6. ASSUME NEW t \in missing
      PROVE  OnFile(queue_events[t])'
  <2> DEFINE same == {u \in missing : key(u) = key(t)}
  <2>1. same \subseteq Nat /\ t \in same
    BY <1>4, <1>5
  <2>2. PICK u \in same : \A v \in same : u <= v
    <3> HIDE DEF same
    <3> QED  BY <2>1, LeastNatural
  <2>3. u \in Reopened(suppressed) /\ u \notin DOMAIN incidents /\ key(u) = key(t)
    BY <1>4, <2>2
  <2>4. u \in DOMAIN incidents' /\ incidents'[u].asset_id = key(t)[1] /\ incidents'[u].code = key(t)[2]
    BY <1>1, <2>3
  <2>5. /\ queue_events'[t].device_id = queue_events[t].device_id
        /\ queue_events'[t].critical_code = queue_events[t].critical_code
    BY <1>2, <1>4
  <2> HIDE DEF missing, same
  <2> QED  BY <2>4, <2>5 DEF OnFile
<1> HIDE DEF missing
<1>7. ASSUME NEW t \in DOMAIN queue_events', queue_events'[t].critical_code # NoCode,
             queue_events'[t].status # "persisted"
      PROVE  OnFile(queue_events[t])'
  <2>1. t \in DOMAIN queue_events \ suppressed /\ queue_events[t].critical_code # NoCode
    BY <1>2, <1>7
  <2>2. CASE t \in DOMAIN incidents
    BY <1>3, <2>1, <2>2 DEF ConditionInv, OnFile
  <2>3. CASE Unresolved(key(t)[1], key(t)[2]) # {}
    BY <1>3, <2>1, <2>3 DEF Unresolved, OnFile
  <2>4. CASE queue_events[t].status \in TerminalStatus
    BY <1>3, <2>1, <2>4 DEF ConditionInv
  <2>5. queue_events[t].status \in TerminalStatus \/ t \in Active
    BY <2>1 DEF IndInv, TypeOK, StoreTypeOK, RowType, Active
  <2> QED  BY <1>6, <2>1, <2>2, <2>3, <2>4, <2>5 DEF missing
<1>8. \A t \in DOMAIN queue_events' \cap DOMAIN incidents' :
        queue_events'[t].critical_code # NoCode =>
          /\ incidents'[t].code = queue_events'[t].critical_code
          /\ incidents'[t].asset_id = AssetOf(queue_events'[t].device_id, queue_events'[t].critical_code)
  <2>1. \A t \in DOMAIN queue_events \cap DOMAIN incidents :
          queue_events[t].critical_code # NoCode =>
            incidents[t].code = key(t)[2] /\ incidents[t].asset_id = key(t)[1]
    BY DEF ConditionInv
  <2> QED  BY <1>1, <1>2, <2>1
<1> QED
  BY <1>1, <1>7, <1>8 DEF ConditionInv, CriticalRowsHaveIncident, TerminalStatus

\* No critical row leaves "persisted" before an incident of its condition is on file, for any
\* number of devices, codes and crashes between Persist and OpenFallbackIncident.
THEOREM CriticalRowsTheorem == Spec => []CriticalRowsHaveIncident
<1>1. Init => ConditionInv
  BY DEF Init, ConditionInv, CriticalRowsHaveIncident, CollectorIdle
<1>2. IndInv /\ IndInv' /\ ConditionInv /\ [Next]_vars => ConditionInv'
  BY QuietSteps, QuietConditions, PersistConditions, OpenFallbackIncidentConditions,
     MarkPendingUploadConditions, recoverInterruptedConditions,
     recoverFallbackIncidentsConditions
<1>3. ConditionInv => CriticalRowsHaveIncident
  BY DEF ConditionInv
<1> QED  BY <1>1, <1>2, <1>3, Invariance, PTL DEF Spec
=============================================================================
