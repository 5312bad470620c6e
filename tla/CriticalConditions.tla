------------------------- MODULE CriticalConditions -------------------------
(***************************************************************************)
(* How the edge agent's collector turns critical readings into incidents:   *)
(* debounce of each condition, the incident opened once it has lasted, its   *)
(* resolution by a healthy reading, and what of this survives a restart.     *)
(*                                                                          *)
(* A condition is a pair (asset, code).  An active_since time is kept as the *)
(* time passed since then, which stops counting at Debounce: the code        *)
(* compares it with nothing else.  Of fallback_incidents this module keeps   *)
(* which conditions have a row and which an unresolved one; SmsFallback has  *)
(* the rest.                                                                *)
(***************************************************************************)
EXTENDS Integers, Functions

CONSTANTS
  Conditions,  \* (asset, code) pairs that may become critical
  Unwritable,  \* those no text can name: Format refuses the device id or the length, every time
  Debounce     \* FallbackDebounce

ASSUME DebounceAssumption == Debounce \in Nat /\ Unwritable \subseteq Conditions

VARIABLES
  debounce_conditions,  \* durable: condition -> time since active_since
  unresolved,           \* durable: conditions with an unresolved row in fallback_incidents
  filed,                \* durable: conditions with a row, resolved or not; no row is ever deleted
  stranded,             \* durable: conditions with a critical row that has no incident of its own
  running,              \* the process is up and the collector has restored its state
  conditions,           \* volatile: Collector.conditions
  collector,            \* volatile: the condition in hand and the call that comes next
  activeFor             \* history: how long the current episode has lasted, NotActive if none

durable == <<debounce_conditions, unresolved, filed, stranded>>
vars == <<durable, running, conditions, collector, activeFor>>

NotActive == -1
Put(f, k, v) == [x \in DOMAIN f \cup {k} |-> IF x = k THEN v ELSE f[x]]
Older(age) == IF age = NotActive \/ age = Debounce THEN age ELSE age + 1

CollectorIdle == [next |-> "idle"]

-----------------------------------------------------------------------------
(* One reading at a time.  A reading with several codes is taken as one reading per code:
   criticalEvents and resolveRecovered treat the codes one after the other. *)

\* openOnce: start or continue the debounce; once it has lasted `debounce` (nothing for a
\* hard fault or a battery) and no incident is open the reading becomes a critical event.
\* If SaveDebounceCondition fails the reading changes nothing.
ReadActive(c, debounce) ==
  LET state == IF c \in DOMAIN conditions THEN conditions[c] ELSE [age |-> 0, opened |-> FALSE] IN
  /\ running /\ collector = CollectorIdle
  /\ debounce_conditions' = IF c \in DOMAIN conditions \cup DOMAIN debounce_conditions
       THEN debounce_conditions ELSE Put(debounce_conditions, c, 0)
  /\ conditions' = Put(conditions, c, state)
  /\ collector' = IF state.opened \/ state.age < debounce
       THEN CollectorIdle ELSE [next |-> "open", cond |-> c]
  /\ activeFor' = IF activeFor[c] = NotActive THEN [activeFor EXCEPT ![c] = 0] ELSE activeFor
  /\ UNCHANGED <<unresolved, filed, stranded, running>>

\* Persist, then Format and INSERT OR IGNORE: the unique index on unresolved conditions leaves
\* the row without an incident of its own while an earlier one is unresolved.
OpenFallbackIncident(c) ==
  /\ running /\ collector = [next |-> "open", cond |-> c]
  /\ c \notin Unwritable
  /\ unresolved' = unresolved \cup {c} /\ filed' = filed \cup {c}
  /\ stranded' = IF c \in unresolved THEN stranded \cup {c} ELSE stranded
  /\ collector' = [next |-> "mark", cond |-> c]
  /\ UNCHANGED <<debounce_conditions, running, conditions, activeFor>>

\* Persist succeeds and OpenFallbackIncident does not, because Format refuses the event or the
\* write fails: the row stays behind until Open.
OpenFails(c) ==
  /\ running /\ collector = [next |-> "open", cond |-> c]
  /\ stranded' = stranded \cup {c}
  /\ collector' = CollectorIdle
  /\ UNCHANGED <<debounce_conditions, unresolved, filed, running, conditions, activeFor>>

MutmarkOpenedEarly(c) ==
  /\ running /\ collector \in {[next |-> "open", cond |-> c], [next |-> "mark", cond |-> c]}
  /\ conditions' = [conditions EXCEPT ![c].opened = TRUE]
  /\ collector' = CollectorIdle
  /\ UNCHANGED <<durable, running, activeFor>>

\* persist returned no error.
markOpened(c) ==
  /\ running /\ collector = [next |-> "mark", cond |-> c]
  /\ conditions' = [conditions EXCEPT ![c].opened = TRUE]
  /\ collector' = CollectorIdle
  /\ UNCHANGED <<durable, running, activeFor>>

\* Persist is refused, or MarkPendingUpload or ResolveFallbackIncident fails: the error is
\* reported and the condition's next reading tries again.
CollectorFails ==
  /\ running /\ collector # CollectorIdle
  /\ collector' = CollectorIdle
  /\ UNCHANGED <<durable, running, conditions, activeFor>>

MutReadHealthy(c) ==
  /\ running /\ collector = CollectorIdle
  /\ conditions' = Restrict(conditions, DOMAIN conditions \ {c})
  /\ collector' = [next |-> "resolve", cond |-> c]
  /\ activeFor' = [activeFor EXCEPT ![c] = NotActive]
  /\ UNCHANGED <<durable, running>>

\* resolve: the condition is forgotten, on disk if it was tracked and then in memory.  If
\* DeleteDebounceCondition fails nothing changes.
ReadHealthy(c) ==
  /\ running /\ collector = CollectorIdle
  /\ debounce_conditions' = IF c \in DOMAIN conditions
       THEN Restrict(debounce_conditions, DOMAIN debounce_conditions \ {c}) ELSE debounce_conditions
  /\ conditions' = Restrict(conditions, DOMAIN conditions \ {c})
  /\ collector' = [next |-> "resolve", cond |-> c]
  /\ activeFor' = [activeFor EXCEPT ![c] = NotActive]
  /\ UNCHANGED <<unresolved, filed, stranded, running>>

\* ... and its incident is resolved.
ResolveFallbackIncident(c) ==
  /\ running /\ collector = [next |-> "resolve", cond |-> c]
  /\ unresolved' = unresolved \ {c}
  /\ collector' = CollectorIdle
  /\ UNCHANGED <<debounce_conditions, filed, stranded, running, conditions, activeFor>>

-----------------------------------------------------------------------------
(* Time, crash and restart *)

Tick ==
  /\ debounce_conditions' = [c \in DOMAIN debounce_conditions |-> Older(debounce_conditions[c])]
  /\ conditions' = [c \in DOMAIN conditions |-> [conditions[c] EXCEPT !.age = Older(@)]]
  /\ activeFor' = [c \in Conditions |-> Older(activeFor[c])]
  /\ UNCHANGED <<unresolved, filed, stranded, running, collector>>

Crash ==
  /\ running
  /\ running' = FALSE
  /\ conditions' = << >> /\ collector' = CollectorIdle
  /\ UNCHANGED <<durable, activeFor>>

MutRestoreDebounceState(open) ==
  [c \in DOMAIN debounce_conditions |-> [age |-> 0, opened |-> c \in open]]

\* LoadDebounceConditions, and the map the collector makes of it.
RestoreDebounceState(open) ==
  [c \in DOMAIN debounce_conditions |-> [age |-> debounce_conditions[c], opened |-> c \in open]]

\* The conditions recoverFallbackIncidents may open an incident for.  A stranded row of a
\* condition that never had one is sure to get it.  Beside an older incident it may be suppressed
\* or uploaded by now: resolved_at_ms is the gateway's time and event_at_ms the device's, so
\* either may be the later.
Reopenings == {S \in SUBSET stranded : stranded \ filed \subseteq S}

\* Open, then the restore at the start of CollectOnce.  Recovery does not ask Format.  Of several
\* rows of a condition one gets the incident and the others stay without.
Restart ==
  /\ ~running
  /\ running' = TRUE
  /\ \E reopened \in Reopenings :
       /\ unresolved' = unresolved \cup reopened
       /\ filed' = filed \cup reopened
       /\ conditions' = RestoreDebounceState(unresolved \cup reopened)
  /\ stranded' \in SUBSET stranded
  /\ UNCHANGED <<debounce_conditions, collector, activeFor>>

-----------------------------------------------------------------------------
(* Specification *)

Init ==
  /\ debounce_conditions = << >> /\ unresolved = {} /\ filed = {} /\ stranded = {}
  /\ running = TRUE /\ conditions = << >> /\ collector = CollectorIdle
  /\ activeFor = [c \in Conditions |-> NotActive]

Next ==
  \/ \E c \in Conditions, d \in {0, Debounce} : ReadActive(c, d)
  \/ \E c \in Conditions : ReadHealthy(c)
  \/ \E c \in Conditions : OpenFallbackIncident(c)
  \/ \E c \in Conditions : OpenFails(c)
  \/ \E c \in Conditions : markOpened(c)
  \/ \E c \in Conditions : ResolveFallbackIncident(c)
  \/ CollectorFails
  \/ Tick \/ Crash \/ Restart

Spec == Init /\ [][Next]_vars

\* Tracked for the whole debounce and not reported: the next active reading is critical.
Due(c) == c \in DOMAIN conditions /\ ~conditions[c].opened /\ conditions[c].age = Debounce

\* Every condition is read again and again (with whatever result), time passes, the agent is
\* restarted when it goes down, calls under way end, and the store does not refuse an incident
\* that Format accepts every time.
Fairness ==
  /\ WF_vars(Tick) /\ WF_vars(Restart)
  /\ \A c \in Conditions :
       /\ SF_vars(Due(c) /\ (ReadActive(c, Debounce) \/ ReadHealthy(c)))
       /\ SF_vars(OpenFallbackIncident(c))
       /\ WF_vars(\/ OpenFallbackIncident(c) \/ OpenFails(c)
                  \/ markOpened(c) \/ ResolveFallbackIncident(c))

FairSpec == Spec /\ Fairness

-----------------------------------------------------------------------------
(* Properties *)

\* Type invariant: ages up to the debounce, one call in hand, volatile state only while up.
TypeOK ==
  /\ DOMAIN debounce_conditions \subseteq Conditions
  /\ debounce_conditions \in [DOMAIN debounce_conditions -> 0..Debounce]
  /\ unresolved \subseteq filed /\ filed \subseteq Conditions /\ stranded \subseteq Conditions
  /\ running \in BOOLEAN
  /\ DOMAIN conditions \subseteq Conditions
  /\ conditions \in [DOMAIN conditions -> [age : 0..Debounce, opened : BOOLEAN]]
  /\ collector \in {CollectorIdle} \cup [next : {"open", "mark", "resolve"}, cond : Conditions]
  /\ activeFor \in [Conditions -> {NotActive} \cup 0..Debounce]
  /\ ~running => conditions = << >> /\ collector = CollectorIdle

\* A condition the collector takes for reported has an unresolved incident: no failed write,
\* crash or restart silences a condition that nobody was told of.
OpenedHasIncident ==
  \A c \in DOMAIN conditions : conditions[c].opened => c \in unresolved

\* The debounce counts from the first active reading since the condition was last healthy, on
\* disk and in memory, through any number of restarts.
DebounceSurvives ==
  \A c \in Conditions :
    /\ c \in DOMAIN debounce_conditions <=> activeFor[c] # NotActive
    /\ c \in DOMAIN debounce_conditions => debounce_conditions[c] = activeFor[c]
    /\ running => (c \in DOMAIN conditions <=> c \in DOMAIN debounce_conditions)
    /\ c \in DOMAIN conditions => conditions[c].age = activeFor[c]

\* What the collector has in hand: a tracked condition, with its incident once it is written.
CollectorInv ==
  collector.next \in {"open", "mark"} =>
    /\ collector.cond \in DOMAIN conditions
    /\ collector.next = "mark" => collector.cond \in unresolved

\* A condition being resolved is no longer tracked.
ResolveInv == collector.next = "resolve" => collector.cond \notin DOMAIN conditions

\* The inductive invariant behind the theorems of CriticalConditionsProofs.
IndInv == TypeOK /\ OpenedHasIncident /\ DebounceSurvives /\ CollectorInv /\ ResolveInv

\* An active condition is reported or becomes healthy, even if the agent keeps crashing
\* before the debounce is over.  One that no text can name is not promised this: Format
\* refuses its incident on every reading, and only a restart opens it.
ActiveIsReported ==
  \A c \in Conditions \ Unwritable :
    activeFor[c] # NotActive ~> c \in unresolved \/ activeFor[c] = NotActive
=============================================================================
