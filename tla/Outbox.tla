------------------------------- MODULE Outbox -------------------------------
(***************************************************************************)
(* The engine's outbox publisher (actions/publish_outbox.rs, the            *)
(* publish-outbox loop of main.rs) on the rows of command_event_outbox      *)
(* (adapters/postgres/outbox_repo.rs), any number of instances of it.       *)
(*                                                                          *)
(* Every pass leases a batch of the oldest unpublished rows, publishes them *)
(* one by one and marks each under its lease.  A step is one statement or   *)
(* one publish.  What a step reports as failed may have happened.  Time is  *)
(* kept as ages and remaining delays in whole ticks, so that the system may *)
(* run forever; a publisher that is due acts before time goes on, a pass    *)
(* takes its time.                                                          *)
(***************************************************************************)
EXTENDS Integers, FiniteSets

CONSTANTS
  Events,         \* rows, by recorded_at and event_id: their order is that of numbers
  Encodable,      \* those with a known type and a payload that decodes
  Publishers,
  BatchSize, Lease, IdleDelay, MaxFailureDelay, Retention,
  MaxFaults       \* bound: how many statements and publishes fail, passes are cut short or outlive
                  \* their lease, and publishers go down

None == "none"      \* no claim_id
NoEvent == -1

ASSUME OutboxAssumption ==
  /\ Events \subseteq Nat /\ IsFiniteSet(Events) /\ Encodable \subseteq Events
  /\ None \notin Publishers
  /\ BatchSize \in Nat \ {0} /\ Lease \in Nat \ {0} /\ IdleDelay \in Nat \ {0}
  /\ MaxFailureDelay \in Nat \ {0} /\ Retention \in Nat /\ MaxFaults \in Nat

VARIABLES
  rows,        \* command_event_outbox: event -> see Row
  publishers,  \* publisher -> see Publisher
  landed,      \* events on their Kafka topic, at least once
  pruned,      \* history: events whose row was removed
  faults

vars == <<rows, publishers, landed, pruned, faults>>

\* A new row; claimed_age and published_age stop counting once they decide nothing more.
NewRow == [claim_id |-> None, claimed_age |-> Lease, published |-> FALSE, published_age |-> 0]

\* A publisher between two passes.
Between(pc, sleep, failures) ==
  [pc |-> pc, todo |-> {}, current |-> NoEvent, claim_age |-> 0, failures |-> failures,
   sleep |-> sleep, failed |-> FALSE, published |-> FALSE]

\* A publisher in a pass, whose claim and failures stay what they are.
Publishing(p, todo, current, failed, published) ==
  [pc |-> "working", todo |-> todo, current |-> current, claim_age |-> publishers[p].claim_age,
   failures |-> publishers[p].failures, sleep |-> 0, failed |-> failed, published |-> published]

Least(a, b) == IF a < b THEN a ELSE b

-----------------------------------------------------------------------------
(* One pass: publish_once *)

MutClaimable(e) == ~rows[e].published
MutClaimableOnce(e) == ~rows[e].published /\ rows[e].claim_id = None
Claimable(e) == ~rows[e].published /\ rows[e].claimed_age >= Lease

\* ORDER BY recorded_at, event_id LIMIT BatchSize
Oldest(S) == {e \in S : Cardinality({f \in S : f < e}) < BatchSize}

Fault == faults < MaxFaults /\ faults' = faults + 1

\* failure_backoff; failures beyond the longest delay are not counted.
Backoff(p) ==
  LET delay == Least(2^publishers[p].failures, MaxFailureDelay) IN
  publishers' = [publishers EXCEPT ![p] = Between("sleeping", delay,
    IF delay = MaxFailureDelay THEN publishers[p].failures ELSE publishers[p].failures + 1)]

Batch == Oldest({e \in DOMAIN rows : Claimable(e)})

Claimed(p) == [e \in DOMAIN rows |->
  IF e \in Batch THEN [rows[e] EXCEPT !.claim_id = p, !.claimed_age = 0] ELSE rows[e]]

claim_unpublished(p) ==
  /\ publishers[p].pc = "ready"
  /\ rows' = Claimed(p)
  /\ publishers' = [publishers EXCEPT ![p] = IF Batch = {}
       THEN Between("sleeping", IdleDelay, publishers[p].failures)
       ELSE Publishing(p, Batch, NoEvent, FALSE, FALSE)]
  /\ UNCHANGED <<landed, pruned, faults>>

\* The statement failed, or its answer is lost.
ClaimFails(p) ==
  /\ publishers[p].pc = "ready"
  /\ Fault /\ Backoff(p)
  /\ rows' \in {rows, Claimed(p)}
  /\ UNCHANGED <<landed, pruned>>

\* The next event of the batch.  The rows come back in no particular order.
publish(p, e) ==
  /\ publishers[p].pc = "working" /\ publishers[p].current = NoEvent /\ e \in publishers[p].todo
  /\ e \in Encodable
  /\ landed' = landed \cup {e}
  /\ publishers' = [publishers EXCEPT ![p] =
       Publishing(p, publishers[p].todo \ {e}, e, publishers[p].failed, publishers[p].published)]
  /\ UNCHANGED <<rows, pruned, faults>>

MutPassOver(p, e) ==
  publishers' = [publishers EXCEPT ![p] =
    Publishing(p, publishers[p].todo \ {e}, e, TRUE, publishers[p].published)]

\* continue after an error: the pass goes on and fails in the end.
PassOver(p, e) ==
  publishers' = [publishers EXCEPT ![p] =
    Publishing(p, publishers[p].todo \ {e}, NoEvent, TRUE, publishers[p].published)]

\* An event that cannot be encoded fails every time; any other may have landed all the same.
PublishFails(p, e) ==
  /\ publishers[p].pc = "working" /\ publishers[p].current = NoEvent /\ e \in publishers[p].todo
  /\ IF e \in Encodable THEN Fault /\ landed' \in {landed, landed \cup {e}}
                        ELSE UNCHANGED <<faults, landed>>
  /\ PassOver(p, e)
  /\ UNCHANGED <<rows, pruned>>

\* The fence of MARK_PUBLISHED_SQL
HoldsLease(p, e) ==
  /\ e \in DOMAIN rows
  /\ rows[e].claim_id = p /\ rows[e].claimed_age < Lease /\ ~rows[e].published

Marked(e) == [rows EXCEPT ![e].published = TRUE, ![e].published_age = 0]

mark_published(p) ==
  LET e == publishers[p].current IN
  /\ publishers[p].pc = "working" /\ e # NoEvent
  /\ IF HoldsLease(p, e) THEN rows' = Marked(e) ELSE UNCHANGED rows
  /\ publishers' = [publishers EXCEPT ![p] =
       Publishing(p, publishers[p].todo, NoEvent, publishers[p].failed,
                  publishers[p].published \/ HoldsLease(p, e))]     \* else ClaimLost
  /\ UNCHANGED <<landed, pruned, faults>>

MarkFails(p) ==
  LET e == publishers[p].current IN
  /\ publishers[p].pc = "working" /\ e # NoEvent
  /\ Fault
  /\ rows' \in IF HoldsLease(p, e) THEN {rows, Marked(e)} ELSE {rows}
  /\ publishers' = [publishers EXCEPT ![p] =
       Publishing(p, publishers[p].todo, NoEvent, TRUE, publishers[p].published)]
  /\ UNCHANGED <<landed, pruned>>

\* The end of the pass in the loop of main.rs; the delay after a full batch is under a tick.
FinishPass(p) ==
  /\ publishers[p].pc = "working" /\ publishers[p].todo = {} /\ publishers[p].current = NoEvent
  /\ IF publishers[p].failed THEN Backoff(p)
     ELSE publishers' = [publishers EXCEPT ![p] =
            Between("ready", 0, IF publishers[p].published THEN 0 ELSE publishers[p].failures)]
  /\ UNCHANGED <<rows, landed, pruned, faults>>

-----------------------------------------------------------------------------
(* Around the passes *)

\* What may have become of the statement or the publish a pass was waiting for when the pass is
\* dropped.
Unheard(p) ==
  LET e == publishers[p].current IN
  {[rows |-> rows, landed |-> landed]}
    \cup (IF publishers[p].pc = "ready" THEN {[rows |-> Claimed(p), landed |-> landed]} ELSE {})
    \cup (IF HoldsLease(p, e) THEN {[rows |-> Marked(e), landed |-> landed]} ELSE {})
    \cup {[rows |-> rows, landed |-> landed \cup {f}] :
            f \in IF e = NoEvent THEN publishers[p].todo \cap Encodable ELSE {}}

Prunable(row) == row.published /\ row.published_age >= Retention

\* The cleanup's turn comes: the pass under way is dropped, and what has been published long
\* enough is removed, PRUNE_BATCH_SIZE rows at most.
prune_published(p) ==
  /\ publishers[p].pc \in {"ready", "working"} /\ Fault
  /\ publishers' = [publishers EXCEPT ![p] = Between("ready", 0, publishers[p].failures)]
  /\ \E left \in Unheard(p) : \E gone \in SUBSET {e \in DOMAIN left.rows : Prunable(left.rows[e])} :
       /\ rows' = [e \in DOMAIN left.rows \ gone |-> left.rows[e]]
       /\ landed' = left.landed
       /\ pruned' = pruned \cup gone

GoesDown(p) ==
  /\ publishers[p].pc # "down" /\ Fault
  /\ publishers' = [publishers EXCEPT ![p] = Between("down", 0, 0)]
  /\ \E left \in Unheard(p) : rows' = left.rows /\ landed' = left.landed
  /\ UNCHANGED pruned

ComesUp(p) ==
  /\ publishers[p].pc = "down"
  /\ publishers' = [publishers EXCEPT ![p] = Between("ready", 0, 0)]
  /\ UNCHANGED <<rows, landed, pruned, faults>>

\* A transaction of the API or the engine commits with its event; not in the order they began.
Record(e) ==
  /\ e \notin DOMAIN rows \cup pruned
  /\ rows' = [f \in DOMAIN rows \cup {e} |-> IF f = e THEN NewRow ELSE rows[f]]
  /\ UNCHANGED <<publishers, landed, pruned, faults>>

OutlivesLease(p) == publishers[p].pc = "working" /\ publishers[p].claim_age = Lease - 1

Tick ==
  /\ \A p \in Publishers : publishers[p].pc # "ready"
  /\ IF \E p \in Publishers : OutlivesLease(p) THEN Fault ELSE UNCHANGED faults
  /\ rows' = [e \in DOMAIN rows |-> [rows[e] EXCEPT
       !.claimed_age = Least(@ + 1, Lease),
       !.published_age = IF rows[e].published THEN Least(@ + 1, Retention) ELSE 0]]
  /\ publishers' = [p \in Publishers |->
       CASE publishers[p].pc = "sleeping" ->
              LET left == publishers[p].sleep - 1 IN
              Between(IF left = 0 THEN "ready" ELSE "sleeping", left, publishers[p].failures)
         [] publishers[p].pc = "working" ->
              [publishers[p] EXCEPT !.claim_age = Least(@ + 1, Lease)]
         [] publishers[p].pc = "down" -> publishers[p]]
  /\ UNCHANGED <<landed, pruned>>

Init ==
  /\ rows = [e \in {} |-> NewRow]
  /\ publishers = [p \in Publishers |-> Between("ready", 0, 0)]
  /\ landed = {} /\ pruned = {} /\ faults = 0

Pass(p) ==
  \/ claim_unpublished(p)
  \/ \E e \in Events : publish(p, e)
  \/ \E e \in Events : PublishFails(p, e)
  \/ mark_published(p)
  \/ FinishPass(p)
  \/ ComesUp(p)

Disturbance(p) == ClaimFails(p) \/ MarkFails(p) \/ prune_published(p) \/ GoesDown(p)

Next ==
  \/ \E p \in Publishers : Pass(p) \/ Disturbance(p)
  \/ \E e \in Events : Record(e)
  \/ Tick

Spec == Init /\ [][Next]_vars

\* Publishers keep running, and time goes on.
FairSpec == Spec /\ WF_vars(Tick) /\ \A p \in Publishers : WF_vars(Pass(p))

-----------------------------------------------------------------------------
(* Properties *)

Row == [claim_id : Publishers \cup {None}, claimed_age : 0..Lease, published : BOOLEAN,
        published_age : 0..Retention]

Publisher ==
  [pc : {"ready", "working", "sleeping", "down"}, todo : SUBSET Events,
   current : Events \cup {NoEvent}, claim_age : 0..Lease, failures : Nat, sleep : Int,
   failed : BOOLEAN, published : BOOLEAN]

\* Type invariant: a publisher holds events only while it works, none both published and to be
\* published, ages stay within their bounds.
TypeOK ==
  /\ DOMAIN rows \subseteq Events /\ rows \in [DOMAIN rows -> Row]
  /\ publishers \in [Publishers -> Publisher]
  /\ \A p \in Publishers :
       /\ publishers[p].pc # "working" =>
            publishers[p].todo = {} /\ publishers[p].current = NoEvent
       /\ publishers[p].current \notin publishers[p].todo
  /\ landed \subseteq Encodable /\ pruned \subseteq Events /\ faults \in 0..MaxFaults

\* No event is given up: what is marked published, or has been removed as published, is on its
\* topic: through failed and half-done publishes, lost answers, expired leases, passes cut short.
NothingLost ==
  /\ \A e \in DOMAIN rows : rows[e].published => e \in landed
  /\ pruned \subseteq landed

Holding(p) ==
  publishers[p].todo \cup IF publishers[p].current = NoEvent THEN {} ELSE {publishers[p].current}

\* Two publishers are at work on the same event only if one of them has outlived its lease.
LeaseExcludes ==
  \A p, q \in Publishers : p # q /\ Holding(p) \cap Holding(q) # {} =>
    publishers[p].claim_age >= Lease \/ publishers[q].claim_age >= Lease

\* Every event that can be encoded gets published, although passes fail and are cut short and
\* leases expire under them, and although others can never be published.
AtLeastOnce == \A e \in Encodable : e \in DOMAIN rows ~> e \in landed
=============================================================================
