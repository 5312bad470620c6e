---------------------------- MODULE OutboxProofs ----------------------------
(* The outbox publishers, for any events, publishers, batch size, lease and delays. *)
EXTENDS Outbox, TLAPS

\* A publisher within its lease holds rows that are leased to it and still to be published.
LeaseInv ==
  \A p \in Publishers : \A e \in Holding(p) :
    publishers[p].claim_age < Lease =>
      /\ e \in DOMAIN rows
      /\ rows[e].claim_id = p /\ ~rows[e].published
      /\ rows[e].claimed_age <= publishers[p].claim_age

\* A publisher is about to mark only what it has published.
CurrentLanded ==
  \A p \in Publishers : publishers[p].current # NoEvent => publishers[p].current \in landed

IndInv == TypeOK /\ NothingLost /\ CurrentLanded /\ LeaseInv

\* A claim takes no row from a publisher that is within its lease, nor does a mark.
LEMMA OthersKeepTheirs ==
  ASSUME IndInv, NEW p \in Publishers, NEW q \in Publishers, p # q, NEW e \in Holding(q),
         publishers[q].claim_age < Lease
  PROVE  /\ Claimed(p)[e] = rows[e]
         /\ \A f : HoldsLease(p, f) => Marked(f)[e] = rows[e]
<1>1. e \in DOMAIN rows /\ rows[e].claim_id = q /\ rows[e].claimed_age < Lease
  BY OutboxAssumption DEF IndInv, LeaseInv, TypeOK, Row, Publisher
<1>2. ~Claimable(e)
  BY <1>1, OutboxAssumption DEF Claimable, IndInv, TypeOK, Row
<1>3. e \notin Batch
  BY <1>2 DEF Batch, Oldest
<1>4. \A f : HoldsLease(p, f) => f # e
  BY <1>1 DEF HoldsLease
<1>5. rows \in [DOMAIN rows -> Row]
  BY DEF IndInv, TypeOK
<1> QED
  BY <1>1, <1>3, <1>4, <1>5 DEF Claimed, Marked

\* What a claim and a mark leave in the table.
LEMMA RowUpdates ==
  ASSUME NEW r \in Row
  PROVE  /\ \A p \in Publishers : [r EXCEPT !.claim_id = p, !.claimed_age = 0] \in Row
         /\ [r EXCEPT !.published = TRUE, !.published_age = 0] \in Row
<1>1. \A p \in Publishers : [r EXCEPT !.claim_id = p] \in Row
  BY DEF Row
<1>2. [r EXCEPT !.published = TRUE] \in Row
  BY DEF Row
<1>3. \A s \in Row : [s EXCEPT !.claimed_age = 0] \in Row /\ [s EXCEPT !.published_age = 0] \in Row
  BY OutboxAssumption DEF Row
<1> QED
  BY <1>1, <1>2, <1>3, Zenon

LEMMA ClaimedRows ==
  ASSUME TypeOK, NEW p \in Publishers
  PROVE  /\ DOMAIN Claimed(p) = DOMAIN rows /\ Claimed(p) \in [DOMAIN rows -> Row]
         /\ \A e \in DOMAIN rows : Claimed(p)[e].published = rows[e].published
         /\ Batch \subseteq DOMAIN rows
         /\ \A e \in Batch : /\ Claimed(p)[e].claim_id = p /\ ~Claimed(p)[e].published
                             /\ Claimed(p)[e].claimed_age = 0
<1>1. Batch \subseteq DOMAIN rows /\ \A e \in Batch : ~rows[e].published
  BY DEF Batch, Oldest, Claimable
<1>2. \A e \in DOMAIN rows : rows[e] \in Row
  BY DEF TypeOK
<1>3. \A r \in Row : [r EXCEPT !.claim_id = p, !.claimed_age = 0] \in Row
  BY RowUpdates, Zenon
<1>4. Claimed(p) \in [DOMAIN rows -> Row]
  BY <1>2, <1>3 DEF Claimed
<1>5. \A e \in DOMAIN rows : Claimed(p)[e].published = rows[e].published
  BY <1>2 DEF Claimed, Row
<1>6. \A e \in Batch : Claimed(p)[e].claim_id = p /\ Claimed(p)[e].claimed_age = 0
  BY <1>1, <1>2 DEF Claimed, Row
<1> QED
  BY <1>1, <1>4, <1>5, <1>6

LEMMA MarkedRows ==
  ASSUME TypeOK, NEW e \in DOMAIN rows
  PROVE  /\ DOMAIN Marked(e) = DOMAIN rows /\ Marked(e) \in [DOMAIN rows -> Row]
         /\ Marked(e)[e].published
         /\ \A f \in DOMAIN rows : f # e => Marked(e)[f] = rows[f]
<1>1. rows \in [DOMAIN rows -> Row]
  BY DEF TypeOK
<1>2. \A r \in Row : [r EXCEPT !.published = TRUE, !.published_age = 0] \in Row
  BY RowUpdates, Zenon
<1>3. Marked(e)[e] = [rows[e] EXCEPT !.published = TRUE, !.published_age = 0]
  BY <1>1 DEF Marked, Row
<1>4. /\ Marked(e) = [f \in DOMAIN rows |-> Marked(e)[f]]
      /\ \A f \in DOMAIN rows : f # e => Marked(e)[f] = rows[f]
  BY <1>1 DEF Marked
<1>5. rows[e] \in Row
  BY <1>1
<1>6. Marked(e)[e] \in Row
  BY <1>2, <1>3, <1>5
<1>7. Marked(e)[e].published
  BY <1>3, <1>5 DEF Row
<1>8. \A f \in DOMAIN rows : Marked(e)[f] \in Row
  BY <1>1, <1>4, <1>6
<1> QED
  BY <1>4, <1>7, <1>8

\* A step of p that leaves it with nothing it did not hold, its claim no younger, and every row
\* a publisher within its lease holds unchanged, preserves LeaseInv.
LEMMA LeaseStep ==
  ASSUME IndInv, NEW p \in Publishers,
         publishers' \in [Publishers -> Publisher],
         \A q \in Publishers \ {p} : publishers'[q] = publishers[q],
         Holding(p)' \subseteq Holding(p),
         publishers'[p].claim_age = publishers[p].claim_age \/ Holding(p)' = {},
         \A q \in Publishers : \A e \in Holding(q) :
           publishers[q].claim_age < Lease /\ e \in Holding(q)' =>
             e \in DOMAIN rows' /\ rows'[e] = rows[e]
  PROVE  LeaseInv'
<1> SUFFICES ASSUME NEW q \in Publishers, NEW e \in Holding(q)', publishers'[q].claim_age < Lease
             PROVE  /\ e \in DOMAIN rows'
                    /\ rows'[e].claim_id = q /\ ~rows'[e].published
                    /\ rows'[e].claimed_age <= publishers'[q].claim_age
  BY DEF LeaseInv
<1>1. e \in Holding(q) /\ publishers'[q].claim_age = publishers[q].claim_age
  <2>1. CASE q = p
    BY <2>1
  <2>2. CASE q # p
    BY <2>2 DEF Holding
  <2> QED
    BY <2>1, <2>2
<1> QED
  BY <1>1 DEF IndInv, LeaseInv

\* A publisher at pc with the events it holds.
Holds(r, pc, todo, current, age) ==
  r \in Publisher /\ r.pc = pc /\ r.todo = todo /\ r.current = current /\ r.claim_age = age

LEMMA PublishingType ==
  ASSUME TypeOK, NEW p \in Publishers, NEW S \in SUBSET Events, NEW e \in Events \cup {NoEvent},
         NEW failed \in BOOLEAN, NEW published \in BOOLEAN
  PROVE  Holds(Publishing(p, S, e, failed, published), "working", S, e, publishers[p].claim_age)
<1>1. publishers[p].claim_age \in 0..Lease /\ publishers[p].failures \in Nat
  BY DEF TypeOK, Publisher
<1> QED
  BY <1>1 DEF Publishing, Publisher, Holds

LEMMA BetweenType ==
  ASSUME NEW pc \in {"ready", "sleeping", "down"}, NEW sleep \in Int, NEW failures \in Nat
  PROVE  Holds(Between(pc, sleep, failures), pc, {}, NoEvent, 0)
  BY OutboxAssumption DEF Between, Publisher, Holds

LEMMA InitInv == Init => IndInv
<1> SUFFICES ASSUME Init PROVE IndInv
  OBVIOUS
<1>1. Holds(Between("ready", 0, 0), "ready", {}, NoEvent, 0)
  BY BetweenType
<1>2. TypeOK
  BY <1>1, OutboxAssumption DEF Init, TypeOK, Holds
<1>3. NothingLost /\ CurrentLanded /\ LeaseInv
  BY <1>1 DEF Init, NothingLost, CurrentLanded, LeaseInv, Holding, Holds
<1> QED
  BY <1>2, <1>3 DEF IndInv

\* A publisher that is left with nothing.
Emptied(p) ==
  /\ publishers' \in [Publishers -> Publisher]
  /\ \A q \in Publishers \ {p} : publishers'[q] = publishers[q]
  /\ publishers'[p].todo = {} /\ publishers'[p].current = NoEvent

LEMMA BetweenEmpties ==
  ASSUME TypeOK, NEW p \in Publishers,
         NEW pc \in {"ready", "sleeping", "down"}, NEW sleep \in Int, NEW failures \in Nat,
         publishers' = [publishers EXCEPT ![p] = Between(pc, sleep, failures)]
  PROVE  Emptied(p)
<1>1. publishers \in [Publishers -> Publisher]
  BY DEF TypeOK
<1>2. publishers'[p] = Between(pc, sleep, failures)
  BY <1>1
<1> QED
  BY <1>1, <1>2, BetweenType DEF Emptied, Holds

LEMMA BackoffEmpties ==
  ASSUME TypeOK, NEW p \in Publishers, Backoff(p)
  PROVE  Emptied(p)
<1> DEFINE delay == Least(2^publishers[p].failures, MaxFailureDelay)
           failures == IF delay = MaxFailureDelay THEN publishers[p].failures
                                                  ELSE publishers[p].failures + 1
<1>1. publishers[p].failures \in Nat
  BY DEF TypeOK, Publisher
<1>2. delay \in Int /\ failures \in Nat
  BY <1>1, OutboxAssumption DEF Least
<1>3. publishers' = [publishers EXCEPT ![p] = Between("sleeping", delay, failures)]
  BY DEF Backoff
<1> HIDE DEF delay, failures
<1> QED
  BY <1>2, <1>3, BetweenEmpties

\* A step that empties p and rewrites no row that another holds within its lease.
LEMMA EmptiedStep ==
  ASSUME IndInv, NEW p \in Publishers, Emptied(p),
         DOMAIN rows' \subseteq Events, rows' \in [DOMAIN rows' -> Row],
         landed \subseteq landed', landed' \subseteq Encodable,
         pruned' \subseteq landed', faults' \in 0..MaxFaults,
         \A e \in DOMAIN rows' : rows'[e].published => e \in landed',
         \A q \in Publishers \ {p} : \A e \in Holding(q) :
           publishers[q].claim_age < Lease => e \in DOMAIN rows' /\ rows'[e] = rows[e]
  PROVE  IndInv'
<1>1. TypeOK'
  <2>1. \A q \in Publishers :
          /\ publishers'[q].pc # "working" =>
               publishers'[q].todo = {} /\ publishers'[q].current = NoEvent
          /\ publishers'[q].current \notin publishers'[q].todo
    BY DEF Emptied, IndInv, TypeOK
  <2> QED
    BY <2>1, OutboxAssumption DEF Emptied, IndInv, TypeOK
<1>2. NothingLost'
  BY DEF NothingLost
<1>3. CurrentLanded'
  BY DEF Emptied, IndInv, CurrentLanded
<1>4. Holding(p)' = {} /\ \A q \in Publishers \ {p} : Holding(q)' = Holding(q)
  BY DEF Emptied, Holding
<1>5. LeaseInv'
  BY <1>4, LeaseStep DEF Emptied
<1> QED
  BY <1>1, <1>2, <1>3, <1>5 DEF IndInv

LEMMA ClaimStep ==
  ASSUME IndInv, NEW p \in Publishers, claim_unpublished(p)
  PROVE  IndInv'
<1>1. /\ TypeOK /\ publishers[p] \in Publisher /\ publishers \in [Publishers -> Publisher]
      /\ publishers[p].todo = {} /\ publishers[p].current = NoEvent
  BY DEF IndInv, TypeOK, claim_unpublished
<1>2. rows' = Claimed(p) /\ UNCHANGED <<landed, pruned, faults>>
  BY DEF claim_unpublished
<1>3. /\ publishers' \in [Publishers -> Publisher]
      /\ \A q \in Publishers \ {p} : publishers'[q] = publishers[q]
      /\ publishers'[p].todo = Batch /\ publishers'[p].current = NoEvent
      /\ publishers'[p].pc # "working" => Batch = {}
  <2>1. CASE Batch = {}
    <3>1. publishers' = [publishers EXCEPT ![p] =
                           Between("sleeping", IdleDelay, publishers[p].failures)]
      BY <2>1 DEF claim_unpublished
    <3>2. publishers[p].failures \in Nat /\ IdleDelay \in Int
      BY <1>1, OutboxAssumption DEF Publisher
    <3>3. Emptied(p)
      BY <1>1, <3>1, <3>2, BetweenEmpties
    <3> QED
      BY <2>1, <3>3 DEF Emptied
  <2>2. CASE Batch # {}
    <3> DEFINE next == Publishing(p, Batch, NoEvent, FALSE, FALSE)
    <3>1. publishers' = [publishers EXCEPT ![p] = next]
      BY <2>2 DEF claim_unpublished
    <3>2. Batch \in SUBSET Events
      BY <1>1, ClaimedRows DEF TypeOK
    <3>3. Holds(next, "working", Batch, NoEvent, publishers[p].claim_age)
      BY <1>1, <3>2, PublishingType
    <3> HIDE DEF next
    <3> QED
      BY <1>1, <3>1, <3>3 DEF Holds
  <2> QED
    BY <2>1, <2>2
<1>4. TypeOK'
  <2>1. NoEvent \notin Batch
    BY <1>1, ClaimedRows, OutboxAssumption DEF TypeOK, NoEvent
  <2> QED
    BY <1>1, <1>2, <1>3, <2>1, ClaimedRows DEF TypeOK
<1>5. NothingLost'
  BY <1>1, <1>2, ClaimedRows DEF IndInv, NothingLost
<1>6. CurrentLanded'
  BY <1>2, <1>3 DEF IndInv, CurrentLanded
<1>7. LeaseInv'
  <2> SUFFICES ASSUME NEW q \in Publishers, NEW e \in Holding(q)', publishers'[q].claim_age < Lease
               PROVE  /\ e \in DOMAIN rows'
                      /\ rows'[e].claim_id = q /\ ~rows'[e].published
                      /\ rows'[e].claimed_age <= publishers'[q].claim_age
    BY DEF LeaseInv
  <2>1. CASE q = p
    <3>1. e \in Batch /\ publishers'[p].claim_age \in 0..Lease
      BY <1>3, <2>1 DEF Holding, Publisher
    <3> QED
      BY <1>1, <1>2, <2>1, <3>1, ClaimedRows, OutboxAssumption
  <2>2. CASE q # p
    <3>1. e \in Holding(q) /\ publishers'[q] = publishers[q]
      BY <1>3, <2>2 DEF Holding
    <3>2. rows'[e] = rows[e] /\ DOMAIN rows' = DOMAIN rows
      BY <1>1, <1>2, <2>2, <3>1, OthersKeepTheirs, ClaimedRows
    <3> QED
      BY <3>1, <3>2 DEF IndInv, LeaseInv
  <2> QED
    BY <2>1, <2>2
<1> QED
  BY <1>4, <1>5, <1>6, <1>7 DEF IndInv

\* A step inside a pass of p, the rows untouched or one of them marked.
LEMMA PassStep ==
  ASSUME IndInv, NEW p \in Publishers, NEW next \in Publisher,
         publishers' = [publishers EXCEPT ![p] = next],
         publishers[p].pc = "working",
         Holds(next, "working", next.todo, next.current, publishers[p].claim_age),
         next.current \notin next.todo,
         next.current # NoEvent => next.current \in landed',
         next.todo \cup ({next.current} \ {NoEvent}) \subseteq Holding(p),
         landed \subseteq landed', landed' \subseteq Encodable, UNCHANGED pruned,
         faults' \in 0..MaxFaults,
         \/ rows' = rows
         \/ /\ HoldsLease(p, publishers[p].current) /\ rows' = Marked(publishers[p].current)
            /\ publishers[p].current # NoEvent
            /\ publishers[p].current \notin next.todo \cup ({next.current} \ {NoEvent})
  PROVE  IndInv'
<1>1. TypeOK /\ publishers \in [Publishers -> Publisher] /\ rows \in [DOMAIN rows -> Row]
  BY DEF IndInv, TypeOK
<1>2. /\ publishers' \in [Publishers -> Publisher] /\ publishers'[p] = next
      /\ \A q \in Publishers \ {p} : publishers'[q] = publishers[q]
  BY <1>1
<1>3. DOMAIN rows' = DOMAIN rows /\ rows' \in [DOMAIN rows -> Row]
  BY <1>1, MarkedRows DEF HoldsLease
<1>4. TypeOK'
  <2>1. \A q \in Publishers :
          /\ publishers'[q].pc # "working" =>
               publishers'[q].todo = {} /\ publishers'[q].current = NoEvent
          /\ publishers'[q].current \notin publishers'[q].todo
    BY <1>1, <1>2 DEF TypeOK, Holds
  <2> QED
    BY <1>1, <1>2, <1>3, <2>1, OutboxAssumption DEF TypeOK, IndInv
<1>5. NothingLost'
  <2> SUFFICES ASSUME NEW e \in DOMAIN rows, rows'[e].published PROVE e \in landed'
    BY <1>3 DEF IndInv, NothingLost
  <2>1. CASE rows' = rows
    BY <2>1 DEF IndInv, NothingLost
  <2>2. CASE e = publishers[p].current /\ publishers[p].current # NoEvent
    BY <2>2 DEF IndInv, CurrentLanded
  <2>3. CASE /\ HoldsLease(p, publishers[p].current) /\ rows' = Marked(publishers[p].current)
             /\ e # publishers[p].current
    BY <1>1, <2>3, MarkedRows DEF IndInv, NothingLost, HoldsLease
  <2> QED
    BY <2>1, <2>2, <2>3
<1>6. CurrentLanded'
  BY <1>2 DEF IndInv, CurrentLanded
<1>7. Holding(p)' = next.todo \cup ({next.current} \ {NoEvent})
  BY <1>2 DEF Holding
<1>8. LeaseInv'
  <2>1. ASSUME NEW q \in Publishers, NEW e \in Holding(q), publishers[q].claim_age < Lease,
               e \in Holding(q)'
        PROVE  e \in DOMAIN rows' /\ rows'[e] = rows[e]
    <3>1. e \in DOMAIN rows
      BY <2>1 DEF IndInv, LeaseInv
    <3>2. CASE rows' = rows
      BY <3>1, <3>2
    <3>3. CASE HoldsLease(p, publishers[p].current) /\ rows' = Marked(publishers[p].current)
               /\ publishers[p].current \notin next.todo \cup ({next.current} \ {NoEvent})
      <4>1. CASE q = p
        BY <1>1, <1>7, <2>1, <3>1, <3>3, <4>1, MarkedRows DEF HoldsLease
      <4>2. CASE q # p
        BY <2>1, <3>1, <3>3, <4>2, <1>3, OthersKeepTheirs
      <4> QED
        BY <4>1, <4>2
    <3> QED
      BY <3>2, <3>3
  <2>2. Holding(p)' \subseteq Holding(p) /\ publishers'[p].claim_age = publishers[p].claim_age
    BY <1>2, <1>7 DEF Holds
  <2> QED
    BY <1>2, <2>1, <2>2, LeaseStep
<1> QED
  BY <1>4, <1>5, <1>6, <1>8 DEF IndInv

LEMMA publishStep ==
  ASSUME IndInv, NEW p \in Publishers, NEW e \in Events, publish(p, e)
  PROVE  IndInv'
<1> DEFINE S == publishers[p].todo \ {e}
           next == Publishing(p, S, e, publishers[p].failed, publishers[p].published)
<1>1. /\ TypeOK /\ S \in SUBSET Events /\ publishers[p].failed \in BOOLEAN
      /\ publishers[p].published \in BOOLEAN
  BY DEF IndInv, TypeOK, Publisher
<1>2. Holds(next, "working", S, e, publishers[p].claim_age)
  BY <1>1, PublishingType
<1>3. publishers' = [publishers EXCEPT ![p] = next]
  BY DEF publish
<1>4. /\ landed \subseteq landed' /\ landed' \subseteq Encodable /\ faults' \in 0..MaxFaults
      /\ e \in landed' /\ UNCHANGED <<rows, pruned>> /\ publishers[p].pc = "working"
      /\ e \in publishers[p].todo
  BY DEF publish, IndInv, TypeOK
<1> HIDE DEF next
<1> QED
  BY <1>2, <1>3, <1>4, PassStep DEF Holds, Holding

LEMMA PublishFailsStep ==
  ASSUME IndInv, NEW p \in Publishers, NEW e \in Events, PublishFails(p, e)
  PROVE  IndInv'
<1> DEFINE S == publishers[p].todo \ {e}
           next == Publishing(p, S, NoEvent, TRUE, publishers[p].published)
<1>1. TypeOK /\ S \in SUBSET Events /\ publishers[p].published \in BOOLEAN
  BY DEF IndInv, TypeOK, Publisher
<1>2. Holds(next, "working", S, NoEvent, publishers[p].claim_age)
  BY <1>1, PublishingType
<1>3. publishers' = [publishers EXCEPT ![p] = next]
  BY DEF PublishFails, PassOver
<1>4. landed \subseteq landed' /\ landed' \subseteq Encodable /\ faults' \in 0..MaxFaults
  BY OutboxAssumption DEF PublishFails, Fault, IndInv, TypeOK
<1>5. UNCHANGED <<rows, pruned>> /\ publishers[p].pc = "working"
  BY DEF PublishFails
<1>6. NoEvent \notin S
  BY <1>1, OutboxAssumption DEF NoEvent
<1> HIDE DEF next
<1> QED
  BY <1>2, <1>3, <1>4, <1>5, <1>6, PassStep DEF Holds, Holding

\* The mark, taken or not, by a step that forgets the current event.
LEMMA MarkStep ==
  ASSUME IndInv, NEW p \in Publishers, NEW failed \in BOOLEAN, NEW published \in BOOLEAN,
         publishers[p].pc = "working", publishers[p].current # NoEvent,
         \/ rows' = rows
         \/ HoldsLease(p, publishers[p].current) /\ rows' = Marked(publishers[p].current),
         publishers' = [publishers EXCEPT ![p] =
           Publishing(p, publishers[p].todo, NoEvent, failed, published)],
         UNCHANGED <<landed, pruned>>, faults' \in 0..MaxFaults
  PROVE  IndInv'
<1> DEFINE next == Publishing(p, publishers[p].todo, NoEvent, failed, published)
<1>1. /\ TypeOK /\ publishers[p].todo \in SUBSET Events /\ landed \subseteq Encodable
      /\ publishers[p].current \notin publishers[p].todo
  BY DEF IndInv, TypeOK, Publisher
<1>2. Holds(next, "working", publishers[p].todo, NoEvent, publishers[p].claim_age)
  BY <1>1, PublishingType
<1>3. NoEvent \notin publishers[p].todo
  BY <1>1, OutboxAssumption DEF NoEvent
<1>4. publishers' = [publishers EXCEPT ![p] = next]
  OBVIOUS
<1> HIDE DEF next
<1> QED
  BY <1>1, <1>2, <1>3, <1>4, PassStep DEF Holds, Holding

\* What a dropped pass leaves behind.
LEMMA UnheardLeaves ==
  ASSUME IndInv, NEW p \in Publishers, NEW left \in Unheard(p)
  PROVE  /\ DOMAIN left.rows = DOMAIN rows /\ left.rows \in [DOMAIN rows -> Row]
         /\ landed \subseteq left.landed /\ left.landed \subseteq Encodable
         /\ \A e \in DOMAIN rows : left.rows[e].published => e \in left.landed
         /\ \A q \in Publishers \ {p} : \A e \in Holding(q) :
              publishers[q].claim_age < Lease => left.rows[e] = rows[e]
<1>1. /\ TypeOK /\ rows \in [DOMAIN rows -> Row] /\ landed \subseteq Encodable
      /\ \A e \in DOMAIN rows : rows[e].published => e \in landed
  BY DEF IndInv, TypeOK, NothingLost
<1>2. CASE left = [rows |-> rows, landed |-> landed]
  BY <1>1, <1>2
<1>3. CASE left = [rows |-> Claimed(p), landed |-> landed]
  BY <1>1, <1>3, ClaimedRows, OthersKeepTheirs
<1>4. CASE HoldsLease(p, publishers[p].current)
             /\ left = [rows |-> Marked(publishers[p].current), landed |-> landed]
  <2> DEFINE e == publishers[p].current
  <2>1. e \in DOMAIN rows /\ e # NoEvent
    BY <1>1, <1>4, OutboxAssumption DEF HoldsLease, TypeOK, NoEvent
  <2>2. e \in landed
    BY <2>1 DEF IndInv, CurrentLanded
  <2> HIDE DEF e
  <2>3. /\ DOMAIN Marked(e) = DOMAIN rows /\ Marked(e) \in [DOMAIN rows -> Row]
        /\ \A f \in DOMAIN rows : f # e => Marked(e)[f] = rows[f]
    BY <1>1, <2>1, MarkedRows
  <2>4. \A f \in DOMAIN rows : Marked(e)[f].published => f \in landed
    BY <1>1, <2>2, <2>3
  <2>5. \A q \in Publishers \ {p} : \A f \in Holding(q) :
          publishers[q].claim_age < Lease => Marked(e)[f] = rows[f]
    BY <1>4, OthersKeepTheirs DEF e
  <2>6. left.rows = Marked(e) /\ left.landed = landed
    BY <1>4 DEF e
  <2> QED
    BY <1>1, <2>3, <2>4, <2>5, <2>6
<1>5. ASSUME NEW f \in Encodable, left = [rows |-> rows, landed |-> landed \cup {f}]
      PROVE  /\ DOMAIN left.rows = DOMAIN rows /\ left.rows \in [DOMAIN rows -> Row]
             /\ landed \subseteq left.landed /\ left.landed \subseteq Encodable
             /\ \A e \in DOMAIN rows : left.rows[e].published => e \in left.landed
             /\ \A q \in Publishers \ {p} : \A e \in Holding(q) :
                  publishers[q].claim_age < Lease => left.rows[e] = rows[e]
  BY <1>1, <1>5
<1>6. \/ left = [rows |-> rows, landed |-> landed]
      \/ left = [rows |-> Claimed(p), landed |-> landed]
      \/ /\ HoldsLease(p, publishers[p].current)
         /\ left = [rows |-> Marked(publishers[p].current), landed |-> landed]
      \/ \E f \in Encodable : left = [rows |-> rows, landed |-> landed \cup {f}]
  BY DEF Unheard
<1> QED
  BY <1>2, <1>3, <1>4, <1>5, <1>6

\* Rows a publisher holds within its lease are not pruned: they are not published.
LEMMA PruneStep ==
  ASSUME IndInv, NEW p \in Publishers, prune_published(p)
  PROVE  IndInv'
<1>1. PICK left \in Unheard(p) : \E gone \in SUBSET {e \in DOMAIN left.rows : Prunable(left.rows[e])} :
        /\ rows' = [e \in DOMAIN left.rows \ gone |-> left.rows[e]]
        /\ landed' = left.landed /\ pruned' = pruned \cup gone
  BY DEF prune_published
<1>2. PICK gone \in SUBSET {e \in DOMAIN left.rows : Prunable(left.rows[e])} :
        /\ rows' = [e \in DOMAIN left.rows \ gone |-> left.rows[e]]
        /\ landed' = left.landed /\ pruned' = pruned \cup gone
  BY <1>1
<1>3. /\ DOMAIN left.rows = DOMAIN rows /\ left.rows \in [DOMAIN rows -> Row]
      /\ landed \subseteq left.landed /\ left.landed \subseteq Encodable
      /\ \A e \in DOMAIN rows : left.rows[e].published => e \in left.landed
      /\ \A q \in Publishers \ {p} : \A e \in Holding(q) :
           publishers[q].claim_age < Lease => left.rows[e] = rows[e]
  BY UnheardLeaves
<1>4. /\ TypeOK /\ DOMAIN rows \subseteq Events /\ pruned \subseteq landed
      /\ publishers[p].failures \in Nat /\ 0 \in Int
  BY DEF IndInv, TypeOK, NothingLost, Publisher
<1>5. Emptied(p)
  BY <1>4, BetweenEmpties DEF prune_published
<1>6. faults' \in 0..MaxFaults
  BY <1>4, OutboxAssumption DEF prune_published, Fault, TypeOK
<1>7. /\ DOMAIN rows' \subseteq Events /\ rows' \in [DOMAIN rows' -> Row]
      /\ \A e \in DOMAIN rows' : rows'[e].published => e \in landed'
  BY <1>2, <1>3, <1>4
<1>8. pruned' \subseteq landed'
  <2>1. gone \subseteq landed'
    BY <1>2, <1>3 DEF Prunable
  <2> QED
    BY <1>2, <1>3, <1>4, <2>1
<1>9. ASSUME NEW q \in Publishers \ {p}, NEW e \in Holding(q), publishers[q].claim_age < Lease
      PROVE  e \in DOMAIN rows' /\ rows'[e] = rows[e]
  <2>1. e \in DOMAIN rows /\ ~rows[e].published /\ left.rows[e] = rows[e]
    BY <1>3, <1>9 DEF IndInv, LeaseInv
  <2>2. e \notin gone
    BY <2>1 DEF Prunable
  <2> QED
    BY <1>2, <1>3, <2>1, <2>2
<1>10. landed \subseteq landed' /\ landed' \subseteq Encodable
  BY <1>2, <1>3
<1> QED
  BY <1>5, <1>6, <1>7, <1>8, <1>9, <1>10, EmptiedStep

LEMMA GoesDownStep ==
  ASSUME IndInv, NEW p \in Publishers, GoesDown(p)
  PROVE  IndInv'
<1>1. PICK left \in Unheard(p) : rows' = left.rows /\ landed' = left.landed
  BY DEF GoesDown
<1>2. /\ DOMAIN left.rows = DOMAIN rows /\ left.rows \in [DOMAIN rows -> Row]
      /\ landed \subseteq left.landed /\ left.landed \subseteq Encodable
      /\ \A e \in DOMAIN rows : left.rows[e].published => e \in left.landed
      /\ \A q \in Publishers \ {p} : \A e \in Holding(q) :
           publishers[q].claim_age < Lease => left.rows[e] = rows[e]
  BY UnheardLeaves
<1>3. TypeOK /\ DOMAIN rows \subseteq Events /\ pruned' = pruned /\ pruned \subseteq landed
  BY DEF IndInv, TypeOK, NothingLost, GoesDown
<1>4. Emptied(p)
  <2>1. publishers' = [publishers EXCEPT ![p] = Between("down", 0, 0)]
    BY DEF GoesDown
  <2>2. "down" \in {"ready", "sleeping", "down"} /\ 0 \in Int /\ 0 \in Nat
    OBVIOUS
  <2> QED
    BY <1>3, <2>1, <2>2, BetweenEmpties
<1>5. faults' \in 0..MaxFaults
  BY <1>3, OutboxAssumption DEF GoesDown, Fault, TypeOK
<1>6. \A q \in Publishers \ {p} : \A e \in Holding(q) :
        publishers[q].claim_age < Lease => e \in DOMAIN rows' /\ rows'[e] = rows[e]
  BY <1>1, <1>2 DEF IndInv, LeaseInv
<1>7. /\ DOMAIN rows' \subseteq Events /\ rows' \in [DOMAIN rows' -> Row]
      /\ landed \subseteq landed' /\ landed' \subseteq Encodable /\ pruned' \subseteq landed'
      /\ \A e \in DOMAIN rows' : rows'[e].published => e \in landed'
  BY <1>1, <1>2, <1>3
<1> QED
  BY <1>4, <1>5, <1>6, <1>7, EmptiedStep

\* The steps that end a pass, or fail to begin one, and leave the rows alone but for a claim.
LEMMA PassEndsStep ==
  ASSUME IndInv, NEW p \in Publishers, ClaimFails(p) \/ FinishPass(p) \/ ComesUp(p)
  PROVE  IndInv'
<1>1. /\ TypeOK /\ rows \in [DOMAIN rows -> Row] /\ DOMAIN rows \subseteq Events
      /\ landed \subseteq Encodable /\ pruned \subseteq landed /\ 0 \in Int /\ 0 \in Nat
      /\ \A e \in DOMAIN rows : rows[e].published => e \in landed
      /\ publishers[p].failures \in Nat /\ publishers[p].published \in BOOLEAN
  BY DEF IndInv, TypeOK, NothingLost, Publisher
<1>2. UNCHANGED <<landed, pruned>> /\ faults' \in 0..MaxFaults
  BY <1>1, OutboxAssumption DEF ClaimFails, FinishPass, ComesUp, Fault, TypeOK
<1>3. Emptied(p)
  <2>1. CASE Backoff(p)
    BY <1>1, <2>1, BackoffEmpties
  <2>2. CASE publishers' = [publishers EXCEPT ![p] =
               Between("ready", 0, IF publishers[p].published THEN 0 ELSE publishers[p].failures)]
    BY <1>1, <2>2, BetweenEmpties
  <2>3. CASE publishers' = [publishers EXCEPT ![p] = Between("ready", 0, 0)]
    BY <1>1, <2>3, BetweenEmpties
  <2> QED
    BY <2>1, <2>2, <2>3 DEF ClaimFails, FinishPass, ComesUp
<1>4. rows' = rows \/ rows' = Claimed(p)
  BY DEF ClaimFails, FinishPass, ComesUp
<1>5. /\ DOMAIN rows' = DOMAIN rows /\ rows' \in [DOMAIN rows -> Row]
      /\ \A e \in DOMAIN rows : rows'[e].published = rows[e].published
  BY <1>1, <1>4, ClaimedRows
<1>6. \A q \in Publishers \ {p} : \A e \in Holding(q) :
        publishers[q].claim_age < Lease => e \in DOMAIN rows' /\ rows'[e] = rows[e]
  BY <1>4, <1>5, OthersKeepTheirs DEF IndInv, LeaseInv
<1> QED
  BY <1>1, <1>2, <1>3, <1>5, <1>6, EmptiedStep

LEMMA RecordStep ==
  ASSUME IndInv, NEW e \in Events, Record(e)
  PROVE  IndInv'
<1>1. rows \in [DOMAIN rows -> Row] /\ e \notin DOMAIN rows
  BY DEF IndInv, TypeOK, Record
<1>2. NewRow \in Row /\ ~NewRow.published
  BY OutboxAssumption DEF NewRow, Row
<1>3. /\ DOMAIN rows' = DOMAIN rows \cup {e} /\ rows'[e] = NewRow
      /\ \A f \in DOMAIN rows : rows'[f] = rows[f]
      /\ rows' \in [DOMAIN rows' -> Row]
  BY <1>1, <1>2 DEF Record
<1>4. UNCHANGED <<publishers, landed, pruned, faults>>
  BY DEF Record
<1>5. TypeOK'
  BY <1>3, <1>4 DEF IndInv, TypeOK
<1>6. NothingLost' /\ CurrentLanded'
  BY <1>2, <1>3, <1>4 DEF IndInv, NothingLost, CurrentLanded
<1>7. LeaseInv'
  BY <1>3, <1>4 DEF IndInv, LeaseInv, Holding
<1> QED
  BY <1>5, <1>6, <1>7 DEF IndInv

LEMMA TickStep ==
  ASSUME IndInv, Tick
  PROVE  IndInv'
<1>1. TypeOK /\ rows \in [DOMAIN rows -> Row] /\ publishers \in [Publishers -> Publisher]
  BY DEF IndInv, TypeOK
<1>2. ASSUME NEW e \in DOMAIN rows
      PROVE  /\ rows'[e] \in Row /\ rows'[e].published = rows[e].published
             /\ rows'[e].claim_id = rows[e].claim_id
             /\ rows'[e].claimed_age = Least(rows[e].claimed_age + 1, Lease)
  <2> DEFINE age == Least(rows[e].claimed_age + 1, Lease)
             gone == IF rows[e].published THEN Least(rows[e].published_age + 1, Retention) ELSE 0
  <2>1. rows[e] \in Row
    BY <1>1
  <2>2. age \in 0..Lease /\ gone \in 0..Retention
    BY <2>1, OutboxAssumption DEF Least, Row
  <2>3. rows'[e] = [[rows[e] EXCEPT !.claimed_age = age] EXCEPT !.published_age = gone]
    BY DEF Tick
  <2> HIDE DEF age, gone
  <2>4. \A r \in Row : /\ [r EXCEPT !.claimed_age = age] \in Row
                       /\ [r EXCEPT !.claimed_age = age].published = r.published
                       /\ [r EXCEPT !.claimed_age = age].claim_id = r.claim_id
                       /\ [r EXCEPT !.claimed_age = age].claimed_age = age
    BY <2>2 DEF Row
  <2>5. \A r \in Row : /\ [r EXCEPT !.published_age = gone] \in Row
                       /\ [r EXCEPT !.published_age = gone].published = r.published
                       /\ [r EXCEPT !.published_age = gone].claim_id = r.claim_id
                       /\ [r EXCEPT !.published_age = gone].claimed_age = r.claimed_age
    BY <2>2 DEF Row
  <2> DEFINE mid == [rows[e] EXCEPT !.claimed_age = age]
  <2>6. /\ mid \in Row /\ mid.published = rows[e].published
        /\ mid.claim_id = rows[e].claim_id /\ mid.claimed_age = age
    BY <2>1, <2>4
  <2>7. rows'[e] = [mid EXCEPT !.published_age = gone]
    BY <2>3
  <2> HIDE DEF mid
  <2>8. /\ rows'[e] \in Row /\ rows'[e].published = rows[e].published
        /\ rows'[e].claim_id = rows[e].claim_id /\ rows'[e].claimed_age = age
    BY <2>5, <2>6, <2>7, Zenon
  <2> QED
    BY <2>8 DEF age
<1>3. DOMAIN rows' = DOMAIN rows /\ rows' \in [DOMAIN rows -> Row]
  BY <1>1, <1>2 DEF Tick
<1>4. ASSUME NEW p \in Publishers
      PROVE  /\ publishers'[p] \in Publisher
             /\ publishers'[p].todo = publishers[p].todo
             /\ publishers'[p].current = publishers[p].current
             /\ publishers'[p].pc = "working" <=> publishers[p].pc = "working"
             /\ publishers[p].pc = "working" =>
                  publishers'[p].claim_age = Least(publishers[p].claim_age + 1, Lease)
  <2>1. publishers[p] \in Publisher /\ publishers[p].pc \in {"working", "sleeping", "down"}
    BY <1>1 DEF Tick, Publisher
  <2>2. CASE publishers[p].pc = "sleeping"
    <3> DEFINE left == publishers[p].sleep - 1
               next == Between(IF left = 0 THEN "ready" ELSE "sleeping", left,
                               publishers[p].failures)
    <3>1. left \in Int /\ publishers[p].failures \in Nat
      BY <2>1 DEF Publisher
    <3>2. publishers'[p] = next
      BY <2>2 DEF Tick
    <3>3. Holds(next, IF left = 0 THEN "ready" ELSE "sleeping", {}, NoEvent, 0)
      BY <3>1, BetweenType
    <3>4. publishers[p].todo = {} /\ publishers[p].current = NoEvent
      BY <1>1, <2>2 DEF TypeOK
    <3> HIDE DEF next
    <3> QED
      BY <2>2, <3>2, <3>3, <3>4 DEF Holds
  <2>3. CASE publishers[p].pc = "working"
    <3> DEFINE age == Least(publishers[p].claim_age + 1, Lease)
    <3>1. age \in 0..Lease
      BY <2>1, OutboxAssumption DEF Least, Publisher
    <3>2. publishers'[p] = [publishers[p] EXCEPT !.claim_age = age]
      BY <2>3 DEF Tick
    <3> HIDE DEF age
    <3>3. /\ publishers'[p] \in Publisher /\ publishers'[p].todo = publishers[p].todo
          /\ publishers'[p].current = publishers[p].current /\ publishers'[p].pc = "working"
          /\ publishers'[p].claim_age = age
      BY <2>1, <2>3, <3>1, <3>2 DEF Publisher
    <3> QED
      BY <2>3, <3>3 DEF age
  <2>4. CASE publishers[p].pc = "down"
    <3>1. publishers'[p] = publishers[p]
      BY <2>4 DEF Tick
    <3> QED
      BY <2>1, <2>4, <3>1
  <2> QED
    BY <2>1, <2>2, <2>3, <2>4
<1>5. publishers' \in [Publishers -> Publisher]
  BY <1>4 DEF Tick
<1>6. faults' \in 0..MaxFaults /\ UNCHANGED <<landed, pruned>>
  <2>1. UNCHANGED <<landed, pruned>> /\ (Fault \/ UNCHANGED faults)
    BY Zenon DEF Tick
  <2> QED
    BY <1>1, <2>1, OutboxAssumption DEF Fault, TypeOK
<1>7. TypeOK'
  BY <1>1, <1>3, <1>4, <1>5, <1>6 DEF TypeOK
<1>8. NothingLost' /\ CurrentLanded'
  BY <1>2, <1>3, <1>4, <1>6 DEF IndInv, NothingLost, CurrentLanded
<1>9. LeaseInv'
  <2> SUFFICES ASSUME NEW p \in Publishers, NEW e \in Holding(p)', publishers'[p].claim_age < Lease
               PROVE  /\ e \in DOMAIN rows'
                      /\ rows'[e].claim_id = p /\ ~rows'[e].published
                      /\ rows'[e].claimed_age <= publishers'[p].claim_age
    BY DEF LeaseInv
  <2>1. e \in Holding(p) /\ publishers[p].pc = "working"
    BY <1>1, <1>4 DEF Holding, TypeOK
  <2>2. publishers[p].claim_age \in 0..Lease
    BY <1>1 DEF Publisher
  <2>3. publishers'[p].claim_age = publishers[p].claim_age + 1 /\ publishers[p].claim_age < Lease
    BY <1>4, <2>1, <2>2, OutboxAssumption DEF Least
  <2>4. /\ e \in DOMAIN rows /\ rows[e].claim_id = p /\ ~rows[e].published
        /\ rows[e].claimed_age <= publishers[p].claim_age
    BY <2>1, <2>3 DEF IndInv, LeaseInv
  <2>5. rows[e].claimed_age \in 0..Lease
    BY <1>1, <2>4 DEF Row
  <2> QED
    BY <1>2, <1>3, <2>2, <2>3, <2>4, <2>5, OutboxAssumption DEF Least
<1> QED
  BY <1>7, <1>8, <1>9 DEF IndInv

LEMMA NextInv == IndInv /\ [Next]_vars => IndInv'
<1> SUFFICES ASSUME IndInv, [Next]_vars PROVE IndInv'
  OBVIOUS
<1>1. ASSUME NEW p \in Publishers, Pass(p) PROVE IndInv'
  <2>1. CASE claim_unpublished(p)
    BY <2>1, ClaimStep
  <2>2. ASSUME NEW e \in Events, publish(p, e) PROVE IndInv'
    BY <2>2, publishStep
  <2>3. ASSUME NEW e \in Events, PublishFails(p, e) PROVE IndInv'
    BY <2>3, PublishFailsStep
  <2>4. CASE mark_published(p)
    <3>1. /\ publishers[p].failed \in BOOLEAN
          /\ (publishers[p].published \/ HoldsLease(p, publishers[p].current)) \in BOOLEAN
      BY DEF IndInv, TypeOK, Publisher
    <3>2. faults' \in 0..MaxFaults
      BY <2>4 DEF IndInv, TypeOK, mark_published
    <3> QED
      BY <2>4, <3>1, <3>2, MarkStep DEF mark_published
  <2>5. CASE FinishPass(p) \/ ComesUp(p)
    BY <2>5, PassEndsStep
  <2> QED
    BY <1>1, <2>1, <2>2, <2>3, <2>4, <2>5 DEF Pass
<1>2. ASSUME NEW p \in Publishers, Disturbance(p) PROVE IndInv'
  <2>1. CASE ClaimFails(p)
    BY <2>1, PassEndsStep
  <2>2. CASE MarkFails(p)
    <3>1. publishers[p].published \in BOOLEAN /\ TRUE \in BOOLEAN
      BY DEF IndInv, TypeOK, Publisher
    <3>2. faults' \in 0..MaxFaults
      BY <2>2, OutboxAssumption DEF IndInv, TypeOK, MarkFails, Fault
    <3> QED
      BY <2>2, <3>1, <3>2, MarkStep DEF MarkFails
  <2>3. CASE prune_published(p)
    BY <2>3, PruneStep
  <2>4. CASE GoesDown(p)
    BY <2>4, GoesDownStep
  <2> QED
    BY <1>2, <2>1, <2>2, <2>3, <2>4 DEF Disturbance
<1>3. ASSUME NEW e \in Events, Record(e) PROVE IndInv'
  BY <1>3, RecordStep
<1>4. CASE Tick
  BY <1>4, TickStep
<1>5. CASE UNCHANGED vars
  BY <1>5 DEF vars, IndInv, TypeOK, NothingLost, CurrentLanded, LeaseInv, Holding
<1> QED
  BY <1>1, <1>2, <1>3, <1>4, <1>5 DEF Next

LEMMA Invariance == Spec => []IndInv
  BY InitInv, NextInv, PTL DEF Spec

\* The outbox rows and the publishers keep their types, and a publisher between two passes holds
\* no event.
THEOREM TypeCorrectness == Spec => []TypeOK
<1>1. IndInv => TypeOK
  BY DEF IndInv
<1> QED
  BY <1>1, Invariance, PTL

\* An event marked published, or pruned as published, is on its topic: no order of failed
\* publishes, lost answers, dropped passes, expired leases and restarts gives one up.
THEOREM NothingLostTheorem == Spec => []NothingLost
<1>1. IndInv => NothingLost
  BY DEF IndInv
<1> QED
  BY <1>1, Invariance, PTL

\* Two publishers are at work on one event only if one of them has outlived its lease.
THEOREM LeaseTheorem == Spec => []LeaseExcludes
<1>1. IndInv => LeaseExcludes
  <2> SUFFICES ASSUME IndInv, NEW p \in Publishers, NEW q \in Publishers, p # q,
                      NEW e \in Holding(p) \cap Holding(q),
                      ~(publishers[p].claim_age >= Lease \/ publishers[q].claim_age >= Lease)
               PROVE  FALSE
    BY DEF LeaseExcludes
  <2>1. publishers[p].claim_age \in 0..Lease /\ publishers[q].claim_age \in 0..Lease
    BY DEF IndInv, TypeOK, Publisher
  <2>2. rows[e].claim_id = p /\ rows[e].claim_id = q
    BY <2>1, OutboxAssumption DEF IndInv, LeaseInv
  <2> QED
    BY <2>2
<1> QED
  BY <1>1, Invariance, PTL
=============================================================================
