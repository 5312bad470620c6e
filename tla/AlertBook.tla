------------------------------ MODULE AlertBook ------------------------------
(***************************************************************************)
(* What the engine and the API promise of alerts together, without lookups,  *)
(* transactions, locks, offsets or retries.  A reading counts once, and has  *)
(* its effect on the alerts in that same step; a condition has one open      *)
(* alert at most; an alert opens and is resolved once, and is announced when *)
(* it does; a critical event is filed under one alert of its condition, the  *)
(* same for its text as for its reading.  Nothing is reopened, unfiled or    *)
(* filed again elsewhere.                                                    *)
(***************************************************************************)
EXTENDS Integers, Sequences

CONSTANTS
  Readings,   \* [event, outcome, condition]
  Texts       \* [event, condition]

VARIABLES
  alerts,     \* [condition, source, status], in the order they were opened
  announced,  \* alert -> what subscribers were told
  filed,      \* critical event -> [alert, replayed]: its alert, and whether its reading came
  counts      \* event -> how often its reading counts

vars == <<alerts, announced, filed, counts>>

Alerts == DOMAIN alerts
OpenAlerts(k) == {a \in Alerts : alerts[a].condition = k /\ alerts[a].status = "open"}

Open(e, k) ==
  /\ OpenAlerts(k) = {} /\ \A a \in Alerts : alerts[a].source # e
  /\ alerts' = Append(alerts, [condition |-> k, source |-> e, status |-> "open"])
  /\ announced' = Append(announced, <<"alert.opened">>)

Resolve(a) ==
  /\ alerts[a].status = "open" /\ announced[a] = <<"alert.opened">>
  /\ alerts' = [alerts EXCEPT ![a].status = "resolved"]
  /\ announced' = [announced EXCEPT ![a] = <<"alert.opened", "alert.resolved">>]

\* The alert of event e: a new one, or one of the condition.
Raise(e, k, a) ==
  \/ a = Len(alerts) + 1 /\ Open(e, k)
  \/ a \in Alerts /\ alerts[a].condition = k /\ UNCHANGED <<alerts, announced>>

File(e, a, replayed) ==
  /\ e \in DOMAIN filed => filed[e].alert = a
  /\ filed' = [x \in DOMAIN filed \cup {e} |->
                 IF x = e THEN [alert |-> a, replayed |-> replayed] ELSE filed[x]]

\* What a reading does to the alerts.  A recovery may find no open alert when it looks.
Effect(r) ==
  \/ /\ r.outcome = "critical"
     /\ \E a \in 1..(Len(alerts) + 1) : Raise(r.event, r.condition, a) /\ File(r.event, a, TRUE)
  \/ /\ r.outcome = "open"
     /\ \E a \in 1..(Len(alerts) + 1) : Raise(r.event, r.condition, a)
     /\ UNCHANGED filed
  \/ /\ r.outcome = "resolve"
     /\ \E a \in OpenAlerts(r.condition) : Resolve(a)
     /\ UNCHANGED filed
  \/ r.outcome \in {"resolve", "unchanged"} /\ UNCHANGED <<alerts, announced, filed>>

Count(r) ==
  /\ counts[r.event] = 0
  /\ counts' = [counts EXCEPT ![r.event] = 1]
  /\ Effect(r)

ReceiveText(s) ==
  /\ s.event \notin DOMAIN filed
  /\ \E a \in 1..(Len(alerts) + 1) : Raise(s.event, s.condition, a) /\ File(s.event, a, FALSE)
  /\ UNCHANGED counts

\* An operator's resolution
ResolveAlert(a) == Resolve(a) /\ UNCHANGED <<filed, counts>>

Init ==
  /\ alerts = << >> /\ announced = << >> /\ filed = << >>
  /\ counts = [e \in {r.event : r \in Readings} \cup {s.event : s \in Texts} |-> 0]

Next ==
  \/ \E r \in Readings : Count(r)
  \/ \E s \in Texts : ReceiveText(s)
  \/ \E a \in Alerts : ResolveAlert(a)

Spec == Init /\ [][Next]_vars
=============================================================================
