---------------------- MODULE CriticalConditionsProofs ----------------------
(* The collector's debounce and incident bookkeeping, for any conditions and debounce. *)
EXTENDS CriticalConditions, TLAPS

\* Ageing keeps an age an age.
LEMMA OlderType ==
  ASSUME NEW age \in {NotActive} \cup 0..Debounce
  PROVE  /\ Older(age) \in {NotActive} \cup 0..Debounce
         /\ Older(age) = NotActive <=> age = NotActive
         /\ age \in 0..Debounce => Older(age) \in 0..Debounce
  BY DebounceAssumption DEF Older, NotActive

\* The empty tables satisfy the invariant.
LEMMA InitInv == Init => IndInv
<1> SUFFICES ASSUME Init PROVE IndInv
  OBVIOUS
<1>1. DOMAIN debounce_conditions = {} /\ DOMAIN conditions = {}
  BY DEF Init
<1>2. TypeOK
  BY <1>1 DEF Init, TypeOK, CollectorIdle, NotActive
<1> QED
  BY <1>1, <1>2 DEF Init, IndInv, OpenedHasIncident, DebounceSurvives, CollectorInv, ResolveInv,
                    CollectorIdle, NotActive

\* An active reading starts the debounce on disk, in memory and in the history together.
LEMMA ReadActiveInv ==
  ASSUME IndInv, NEW c \in Conditions, NEW d \in {0, Debounce}, ReadActive(c, d)
  PROVE  IndInv'
<1> DEFINE state == IF c \in DOMAIN conditions THEN conditions[c]
                                               ELSE [age |-> 0, opened |-> FALSE]
<1>1. /\ running /\ collector = CollectorIdle
      /\ conditions' = Put(conditions, c, state)
      /\ UNCHANGED <<unresolved, filed, stranded, running>>
  BY DEF ReadActive
<1>2. state \in [age : 0..Debounce, opened : BOOLEAN]
  BY DebounceAssumption DEF IndInv, TypeOK
<1>3. c \in DOMAIN conditions <=> c \in DOMAIN debounce_conditions
  BY <1>1 DEF IndInv, DebounceSurvives
<1>4. /\ DOMAIN conditions' = DOMAIN conditions \cup {c}
      /\ \A x \in DOMAIN conditions \cup {c} :
           conditions'[x] = IF x = c THEN state ELSE conditions[x]
  BY <1>1 DEF Put
<1>5. /\ DOMAIN debounce_conditions' = DOMAIN debounce_conditions \cup {c}
      /\ \A x \in DOMAIN debounce_conditions \cup {c} :
           debounce_conditions'[x] = IF x \in DOMAIN debounce_conditions
                                       THEN debounce_conditions[x] ELSE 0
      /\ debounce_conditions' = [x \in DOMAIN debounce_conditions' |-> debounce_conditions'[x]]
  BY <1>3 DEF ReadActive, Put, IndInv, TypeOK
<1>6. /\ activeFor' = [x \in Conditions |->
           IF x = c /\ activeFor[x] = NotActive THEN 0 ELSE activeFor[x]]
  BY DEF ReadActive, IndInv, TypeOK
<1>7. collector' \in {CollectorIdle, [next |-> "open", cond |-> c]}
  BY DEF ReadActive
<1>8. TypeOK'
  <2>1. conditions' \in [DOMAIN conditions' -> [age : 0..Debounce, opened : BOOLEAN]]
    BY <1>1, <1>2, <1>4 DEF IndInv, TypeOK, Put
  <2>2. debounce_conditions' \in [DOMAIN debounce_conditions' -> 0..Debounce]
    BY <1>5, DebounceAssumption DEF IndInv, TypeOK
  <2>3. activeFor' \in [Conditions -> {NotActive} \cup 0..Debounce]
    BY <1>6, DebounceAssumption DEF IndInv, TypeOK
  <2> QED
    BY <1>1, <1>4, <1>5, <1>7, <2>1, <2>2, <2>3 DEF IndInv, TypeOK
<1>9. OpenedHasIncident'
  BY <1>1, <1>4 DEF IndInv, OpenedHasIncident
<1>10. DebounceSurvives'
  BY <1>1, <1>3, <1>4, <1>5, <1>6 DEF IndInv, DebounceSurvives, NotActive
<1>11. CollectorInv' /\ ResolveInv'
  BY <1>4, <1>7 DEF CollectorInv, ResolveInv, CollectorIdle
<1> QED
  BY <1>8, <1>9, <1>10, <1>11 DEF IndInv

\* A healthy reading ends the debounce on disk, in memory and in the history together.
LEMMA ReadHealthyInv ==
  ASSUME IndInv, NEW c \in Conditions, ReadHealthy(c)
  PROVE  IndInv'
<1>1. /\ running /\ collector = CollectorIdle
      /\ UNCHANGED <<unresolved, filed, stranded, running>>
      /\ collector' = [next |-> "resolve", cond |-> c]
      /\ activeFor' = [activeFor EXCEPT ![c] = NotActive]
  BY DEF ReadHealthy
<1>2. c \in DOMAIN conditions <=> c \in DOMAIN debounce_conditions
  BY <1>1 DEF IndInv, DebounceSurvives
<1>3. /\ DOMAIN conditions' = DOMAIN conditions \ {c}
      /\ conditions' = [x \in DOMAIN conditions \ {c} |-> conditions[x]]
  BY DEF ReadHealthy, Restrict
<1>4. /\ DOMAIN debounce_conditions' = DOMAIN debounce_conditions \ {c}
      /\ debounce_conditions' = [x \in DOMAIN debounce_conditions \ {c} |-> debounce_conditions[x]]
  BY <1>2 DEF ReadHealthy, Restrict, IndInv, TypeOK
<1>5. TypeOK'
  BY <1>1, <1>3, <1>4 DEF IndInv, TypeOK
<1>6. OpenedHasIncident' /\ CollectorInv' /\ ResolveInv'
  BY <1>1, <1>3 DEF IndInv, OpenedHasIncident, CollectorInv, ResolveInv
<1>7. DebounceSurvives'
  BY <1>1, <1>3, <1>4 DEF IndInv, TypeOK, DebounceSurvives, NotActive
<1> QED
  BY <1>5, <1>6, <1>7 DEF IndInv

\* The calls on a condition in hand, and their failures.
LEMMA CollectorInvStep ==
  ASSUME IndInv, NEW c \in Conditions,
         \/ OpenFallbackIncident(c) \/ OpenFails(c) \/ markOpened(c)
         \/ ResolveFallbackIncident(c) \/ CollectorFails
  PROVE  IndInv'
<1>1. CASE OpenFallbackIncident(c)
  BY <1>1 DEF OpenFallbackIncident, IndInv, TypeOK, OpenedHasIncident, DebounceSurvives,
              CollectorInv, ResolveInv, CollectorIdle
<1>2. CASE OpenFails(c)
  BY <1>2 DEF OpenFails, IndInv, TypeOK, OpenedHasIncident, DebounceSurvives,
              CollectorInv, ResolveInv, CollectorIdle
<1>3. CASE markOpened(c)
  <2>1. /\ collector = [next |-> "mark", cond |-> c] /\ collector' = CollectorIdle
        /\ UNCHANGED <<durable, running, activeFor>>
        /\ conditions' = [conditions EXCEPT ![c].opened = TRUE]
    BY <1>3 DEF markOpened
  <2>2. c \in DOMAIN conditions /\ c \in unresolved
    BY <2>1 DEF IndInv, CollectorInv
  <2>3. /\ DOMAIN conditions' = DOMAIN conditions
        /\ \A x \in DOMAIN conditions : conditions'[x].age = conditions[x].age
        /\ \A x \in DOMAIN conditions : x # c => conditions'[x] = conditions[x]
    BY <2>1, <2>2 DEF IndInv, TypeOK
  <2>4. TypeOK'
    <3>1. running
      BY <1>3 DEF markOpened
    <3>2. conditions' \in [DOMAIN conditions' -> [age : 0..Debounce, opened : BOOLEAN]]
      BY ZenonT(40), <2>1, <2>2, <2>3 DEF IndInv, TypeOK
    <3> QED
      BY <2>1, <2>3, <3>1, <3>2 DEF IndInv, TypeOK, durable
  <2>5. OpenedHasIncident'
    BY <2>1, <2>2, <2>3 DEF IndInv, OpenedHasIncident, durable
  <2>6. DebounceSurvives'
    BY <2>1, <2>3 DEF IndInv, DebounceSurvives, durable
  <2> QED
    BY <2>1, <2>4, <2>5, <2>6 DEF IndInv, CollectorInv, ResolveInv, CollectorIdle
<1>4. CASE ResolveFallbackIncident(c)
  BY <1>4 DEF ResolveFallbackIncident, IndInv, TypeOK, OpenedHasIncident, DebounceSurvives,
              CollectorInv, ResolveInv, CollectorIdle
<1>5. CASE CollectorFails
  BY <1>5 DEF CollectorFails, durable, IndInv, TypeOK, OpenedHasIncident, DebounceSurvives,
              CollectorInv, ResolveInv, CollectorIdle
<1> QED
  BY <1>1, <1>2, <1>3, <1>4, <1>5

\* All ages grow together.
LEMMA TickInv ==
  ASSUME IndInv, Tick
  PROVE  IndInv'
<1>1. /\ UNCHANGED <<unresolved, filed, stranded, running, collector>>
      /\ debounce_conditions' = [c \in DOMAIN debounce_conditions |-> Older(debounce_conditions[c])]
      /\ conditions' = [c \in DOMAIN conditions |->
           [conditions[c] EXCEPT !.age = Older(conditions[c].age)]]
      /\ activeFor' = [c \in Conditions |-> Older(activeFor[c])]
  BY DEF Tick
<1>2. /\ DOMAIN debounce_conditions' = DOMAIN debounce_conditions
      /\ DOMAIN conditions' = DOMAIN conditions
  BY <1>1
<1>3. /\ \A c \in DOMAIN debounce_conditions : debounce_conditions[c] \in 0..Debounce
      /\ \A c \in DOMAIN conditions : conditions[c] \in [age : 0..Debounce, opened : BOOLEAN]
      /\ \A c \in Conditions : activeFor[c] \in {NotActive} \cup 0..Debounce
  BY DEF IndInv, TypeOK
<1>4. debounce_conditions' \in [DOMAIN debounce_conditions' -> 0..Debounce]
  BY <1>1, <1>3, OlderType
<1>5. /\ conditions' \in [DOMAIN conditions' -> [age : 0..Debounce, opened : BOOLEAN]]
      /\ \A c \in DOMAIN conditions : /\ conditions'[c].opened = conditions[c].opened
                                      /\ conditions'[c].age = Older(conditions[c].age)
  BY <1>1, <1>3, OlderType
<1>6. /\ activeFor' \in [Conditions -> {NotActive} \cup 0..Debounce]
      /\ \A c \in Conditions : activeFor'[c] = NotActive <=> activeFor[c] = NotActive
  BY <1>1, <1>3, OlderType
<1>7. TypeOK'
  <2>1. ~running => conditions' = << >>
    <3> SUFFICES ASSUME ~running PROVE conditions' = << >>
      OBVIOUS
    <3>1. conditions = << >>
      BY DEF IndInv, TypeOK
    <3> QED
      BY <1>1, <3>1
  <2> QED
    BY <1>1, <1>2, <1>4, <1>5, <1>6, <2>1 DEF IndInv, TypeOK
<1>8. OpenedHasIncident' /\ CollectorInv' /\ ResolveInv'
  BY <1>1, <1>2, <1>5 DEF IndInv, OpenedHasIncident, CollectorInv, ResolveInv
<1>9. DebounceSurvives'
  BY <1>1, <1>2, <1>5, <1>6 DEF IndInv, TypeOK, DebounceSurvives
<1> QED
  BY <1>7, <1>8, <1>9 DEF IndInv

\* The restored map has the durable ages, and is opened where an incident is on file.
LEMMA ProcessInv ==
  ASSUME IndInv, Crash \/ Restart
  PROVE  IndInv'
<1>1. CASE Crash
  <2>1. DOMAIN conditions' = {}
    BY <1>1 DEF Crash
  <2>2. TypeOK'
    <3>1. conditions' \in [DOMAIN conditions' -> [age : 0..Debounce, opened : BOOLEAN]]
      BY <1>1, <2>1 DEF Crash
    <3>2. /\ running' = FALSE /\ conditions' = << >> /\ collector' = CollectorIdle
          /\ UNCHANGED <<debounce_conditions, unresolved, filed, stranded, activeFor>>
      BY <1>1 DEF Crash, durable
    <3> QED
      BY <2>1, <3>1, <3>2 DEF IndInv, TypeOK
  <2> QED
    BY <1>1, <2>1, <2>2 DEF Crash, durable, IndInv, OpenedHasIncident, DebounceSurvives,
                            CollectorInv, ResolveInv, CollectorIdle
<1>2. CASE Restart
  <2>r. PICK reopened \in SUBSET stranded :
          /\ unresolved' = unresolved \cup reopened
          /\ filed' = filed \cup reopened
          /\ conditions' = RestoreDebounceState(unresolved \cup reopened)
    BY <1>2 DEF Restart, Reopenings
  <2>1. /\ ~running /\ running' = TRUE /\ stranded' \in SUBSET stranded
        /\ conditions' = [c \in DOMAIN debounce_conditions |->
             [age |-> debounce_conditions[c], opened |-> c \in unresolved']]
        /\ UNCHANGED <<debounce_conditions, collector, activeFor>>
    BY <1>2, <2>r DEF Restart, RestoreDebounceState
  <2>2. collector = CollectorIdle
    BY <2>1 DEF IndInv, TypeOK
  <2>3. \A c \in DOMAIN debounce_conditions : debounce_conditions[c] \in 0..Debounce
    BY DEF IndInv, TypeOK
  <2>4. conditions' \in [DOMAIN debounce_conditions -> [age : 0..Debounce, opened : BOOLEAN]]
    BY <2>1, <2>3
  <2>5. TypeOK'
    <3>1. /\ unresolved' \subseteq filed' /\ filed' \subseteq Conditions
          /\ stranded' \subseteq Conditions
      BY <2>r, <2>1 DEF IndInv, TypeOK
    <3>2. /\ DOMAIN conditions' \subseteq Conditions
          /\ conditions' \in [DOMAIN conditions' -> [age : 0..Debounce, opened : BOOLEAN]]
      BY <2>1, <2>4 DEF IndInv, TypeOK
    <3>3. running' = TRUE /\ UNCHANGED <<debounce_conditions, collector, activeFor>>
      BY <2>1
    <3> QED
      BY <3>1, <3>2, <3>3 DEF IndInv, TypeOK
  <2>6. OpenedHasIncident'
    BY <2>1 DEF OpenedHasIncident
  <2>7. DebounceSurvives'
    BY <2>1 DEF IndInv, DebounceSurvives
  <2>8. CollectorInv' /\ ResolveInv'
    BY <2>1, <2>2 DEF CollectorInv, ResolveInv, CollectorIdle
  <2> QED
    BY <2>5, <2>6, <2>7, <2>8 DEF IndInv
<1> QED
  BY <1>1, <1>2

\* IndInv holds in every reachable state.
THEOREM Invariance == Spec => []IndInv
<1>1. IndInv /\ [Next]_vars => IndInv'
  <2> SUFFICES ASSUME IndInv, [Next]_vars PROVE IndInv'
    OBVIOUS
  <2>1. CASE UNCHANGED vars
    BY <2>1 DEF vars, durable, IndInv, TypeOK, OpenedHasIncident, DebounceSurvives, CollectorInv,
                ResolveInv
  <2>2. ASSUME NEW c \in Conditions, NEW d \in {0, Debounce}, ReadActive(c, d) PROVE IndInv'
    BY <2>2, ReadActiveInv
  <2>3. ASSUME NEW c \in Conditions, ReadHealthy(c) PROVE IndInv'
    BY <2>3, ReadHealthyInv
  <2>4. ASSUME NEW c \in Conditions,
               \/ OpenFallbackIncident(c) \/ OpenFails(c) \/ markOpened(c)
               \/ ResolveFallbackIncident(c)
        PROVE  IndInv'
    BY <2>4, CollectorInvStep
  <2>5. CASE CollectorFails
    <3>1. PICK c \in Conditions : collector.cond = c
      BY <2>5 DEF CollectorFails, IndInv, TypeOK
    <3> QED
      BY <2>5, CollectorInvStep
  <2>6. CASE Tick
    BY <2>6, TickInv
  <2>7. CASE Crash \/ Restart
    BY <2>7, ProcessInv
  <2> QED
    BY <2>1, <2>2, <2>3, <2>4, <2>5, <2>6, <2>7 DEF Next
<1> QED
  BY InitInv, <1>1, PTL DEF Spec

\* A condition the collector takes for reported has an unresolved incident on file, for any
\* number of conditions and any failures.
THEOREM OpenedHasIncidentTheorem == Spec => []OpenedHasIncident
  BY Invariance, PTL DEF IndInv

\* The debounce of a condition counts from the first active reading of its episode, whatever
\* restarts come between.
THEOREM DebounceTheorem == Spec => []DebounceSurvives
  BY Invariance, PTL DEF IndInv

\* The collector's tables and state keep their types.
THEOREM TypeCorrectness == Spec => []TypeOK
  BY Invariance, PTL DEF IndInv
=============================================================================
