------------------------- MODULE CustomerPartsProofs --------------------------
(***************************************************************************)
(* Theorems about what runs in the API process beside customer missions:   *)
(* the monitoring of production, the customer registries, the memory of    *)
(* conversations and the mission director, for any values of their         *)
(* constants.                                                              *)
(***************************************************************************)
EXTENDS CustomerParts, CustomerProofs, SequenceTheorems

(* The monitoring of production                                            *)

MonitorState == [status : {"READY", "RUNNING", "CHECKING", "HEALTHY", "UNHEALTHY", "RECOVERED", "STOPPED"},
                 failures : Nat, active : SUBSET Incidents]
Round == [at : {"idle", "looping", "probing", "resolving", "opened", "repairing", "saving", "stopping"},
          loop : BOOLEAN, copy : MonitorState, about : Incidents \cup {NoIncident},
          left : SUBSET Incidents]

MonitorTypes ==
  /\ incident \in [Incidents -> Monitor!Statuses]
  /\ monitor \in MonitorState
  /\ watch \in [Cycles -> Round]
  /\ orphaned \subseteq Incidents /\ overlapped \in BOOLEAN /\ revived \in BOOLEAN

\* What a cycle is about was opened, and is named in its copy while it is worked on
RoundInv(e, statuses) ==
  /\ e.about # NoIncident => statuses[e.about] # "none"
  /\ e.at \in {"opened", "repairing"} => e.about \in e.copy.active /\ e.copy.status = "UNHEALTHY"
  /\ e.at = "saving" /\ e.copy.status = "HEALTHY" => e.copy.active = {}

\* The incidents that are left are named in the file, in the copy of the one cycle
\* that will write it, or were orphaned
Named(left, e, saved, orphans) ==
  /\ e.at \in {"looping", "probing", "stopping"} => e.copy.active = saved.active
  /\ e.at = "resolving" => left \subseteq e.left \cup orphans
  /\ e.at \in {"opened", "repairing", "saving"} => left \subseteq e.copy.active \cup orphans
  /\ e.at \in {"idle", "looping", "probing", "stopping"} => left \subseteq saved.active \cup orphans
  /\ left \subseteq saved.active \cup orphans \cup {e.about}

MonitorInv ==
  /\ MonitorTypes
  /\ \A c \in Cycles : RoundInv(watch[c], incident)
  /\ ~revived => \A i, j \in Monitor!Unresolved : i = j
  /\ monitor.status = "HEALTHY" => monitor.active = {}
  /\ overlapped \/
       /\ \A c, d \in Cycles : watch[c].at # "idle" /\ watch[d].at # "idle" => c = d
       /\ \A c \in Cycles : watch[c].at # "idle" => Named(Monitor!Unresolved, watch[c], monitor, orphaned)
       /\ (\A c \in Cycles : watch[c].at = "idle") => Monitor!Unresolved \subseteq monitor.active \cup orphaned

LEMMA RoundTypes == Monitor!NoCycle \in Round /\ Monitor!Fresh \in MonitorState
<1>1. Monitor!Fresh \in MonitorState
  BY DEF Monitor!Fresh, MonitorState
<1> QED  BY <1>1 DEF Monitor!NoCycle, Round

\* What a step that takes cycle c to e has to show
Kept(c, e) ==
  /\ e \in Round /\ watch' = [watch EXCEPT ![c] = e]
  /\ incident' \in [Incidents -> Monitor!Statuses] /\ monitor' \in MonitorState
  /\ orphaned' \subseteq Incidents /\ overlapped' \in BOOLEAN /\ revived' \in BOOLEAN
  /\ \A i \in Incidents : incident[i] # "none" => incident'[i] # "none"
  /\ RoundInv(e, incident')
  /\ revived' \/ \A i, j \in Monitor!Unresolved' : i = j
  /\ monitor'.status = "HEALTHY" => monitor'.active = {}

LEMMA RoundKeeps ==
  ASSUME MonitorInv, NEW c \in Cycles, NEW e, Kept(c, e),
         overlapped' \/
            /\ ~overlapped
            /\ \A d \in Cycles \ {c} : watch[d].at = "idle"
            /\ e.at # "idle" => Named(Monitor!Unresolved', e, monitor', orphaned')
            /\ e.at = "idle" => Monitor!Unresolved' \subseteq monitor'.active \cup orphaned'
  PROVE  MonitorInv'
<1>1. /\ watch' \in [Cycles -> Round] /\ watch'[c] = e
      /\ \A d \in Cycles \ {c} : watch'[d] = watch[d]
  BY DEF MonitorInv, MonitorTypes, Kept
<1>2. MonitorTypes'
  BY <1>1 DEF MonitorInv, MonitorTypes, Kept
<1>3. \A d \in Cycles : RoundInv(watch'[d], incident')
  <2>1. ASSUME NEW d \in Cycles, d # c
        PROVE  RoundInv(watch'[d], incident')
    <3>1. watch[d] \in Round /\ RoundInv(watch[d], incident) /\ watch'[d] = watch[d]
      BY <1>1, <2>1 DEF MonitorInv, MonitorTypes
    <3> QED  BY <3>1 DEF RoundInv, Round, Kept
  <2> QED  BY <1>1, <2>1 DEF Kept
<1>4. (revived' \/ \A i, j \in Monitor!Unresolved' : i = j) /\ (monitor'.status = "HEALTHY" => monitor'.active = {})
  BY DEF Kept
<1>5. CASE overlapped'
  BY <1>2, <1>3, <1>4, <1>5 DEF MonitorInv
<1>6. CASE ~overlapped'
  <2>1. \A d \in Cycles : watch'[d].at # "idle" => d = c
    BY <1>1, <1>6
  <2>2. \A d \in Cycles : watch'[d].at # "idle" => Named(Monitor!Unresolved', watch'[d], monitor', orphaned')
    BY <1>1, <1>6, <2>1
  <2>3. (\A d \in Cycles : watch'[d].at = "idle") => Monitor!Unresolved' \subseteq monitor'.active \cup orphaned'
    BY <1>1, <1>6
  <2> QED  BY <1>2, <1>3, <1>4, <2>1, <2>2, <2>3 DEF MonitorInv
<1> QED  BY <1>5, <1>6

\* Where a cycle is that takes a step
LEMMA RoundFacts ==
  ASSUME MonitorInv, NEW c \in Cycles
  PROVE  /\ watch[c] \in Round /\ RoundInv(watch[c], incident)
         /\ watch[c].copy \in MonitorState /\ watch[c].copy.active \subseteq Incidents
         /\ \A i \in Incidents : i # NoIncident /\ Monitor!Known(i) <=> incident[i] \notin {"none", "forgotten"}
         /\ watch[c].at # "idle" =>
              overlapped \/ /\ ~overlapped
                            /\ \A d \in Cycles \ {c} : watch[d].at = "idle"
                            /\ Named(Monitor!Unresolved, watch[c], monitor, orphaned)
<1>1. watch[c] \in Round /\ RoundInv(watch[c], incident) /\ overlapped \in BOOLEAN
  BY DEF MonitorInv, MonitorTypes
<1>2. watch[c].copy \in MonitorState /\ watch[c].copy.active \subseteq Incidents
  BY <1>1 DEF Round, MonitorState
<1>3. \A i \in Incidents : i # NoIncident /\ Monitor!Known(i) <=> incident[i] \notin {"none", "forgotten"}
  BY PartsAssumption DEF Monitor!Known
<1>4. watch[c].at # "idle" =>
        overlapped \/ /\ \A d \in Cycles \ {c} : watch[d].at = "idle"
                      /\ Named(Monitor!Unresolved, watch[c], monitor, orphaned)
  BY DEF MonitorInv
<1> QED  BY <1>1, <1>2, <1>3, <1>4

\* What a cycle or a loop that begins from the file has: the incidents that are left
\* are named as they were in the file, or none is and they are orphaned
LEMMA ReadFacts ==
  ASSUME MonitorInv, NEW state, Monitor!Read(state)
  PROVE  /\ state \in MonitorState /\ orphaned' \subseteq Incidents
         /\ Monitor!Unresolved \subseteq monitor.active \cup orphaned
              => Monitor!Unresolved \subseteq state.active \cup orphaned'
<1>1. CASE state = monitor /\ UNCHANGED orphaned
  BY <1>1 DEF MonitorInv, MonitorTypes
<1>2. CASE state = Monitor!Fresh /\ orphaned' = Monitor!Unresolved
  BY <1>2, RoundTypes DEF Monitor!Unresolved
<1> QED  BY <1>1, <1>2 DEF Monitor!Read

LEMMA LoopStartsKeeps ==
  ASSUME MonitorInv, NEW c \in Cycles, Monitor!LoopStarts(c)
  PROVE  MonitorInv'
<1> DEFINE e == [Monitor!NoCycle EXCEPT !.at = "looping", !.loop = TRUE, !.copy = monitor']
<1>1. /\ UNCHANGED <<incident, revived>> /\ watch' = [watch EXCEPT ![c] = e]
      /\ watch[c].at = "idle"
  BY DEF Monitor!LoopStarts, Monitor!Busy
<1>r. PICK state \in {monitor, Monitor!Fresh} :
        Monitor!Read(state) /\ monitor' = [state EXCEPT !.status = "RUNNING"]
  BY DEF Monitor!LoopStarts
<1>2. monitor' \in MonitorState /\ monitor'.active = state.active /\ monitor'.status = "RUNNING"
  BY <1>r, ReadFacts DEF MonitorState
<1>3. e \in Round /\ e.at = "looping" /\ e.copy = monitor' /\ e.about = NoIncident
  BY <1>2, RoundTypes DEF Round, Monitor!NoCycle
<1> HIDE DEF e
<1>4. overlapped' \in BOOLEAN /\ (overlapped' \/ (~overlapped /\ \A d \in Cycles : watch[d].at = "idle"))
  BY DEF Monitor!LoopStarts, Monitor!Busy, MonitorInv, MonitorTypes
<1>5. RoundInv(e, incident')
  BY <1>3 DEF RoundInv
<1>6. Monitor!Unresolved' = Monitor!Unresolved
  BY <1>1 DEF Monitor!Unresolved
<1>7. Kept(c, e)
  BY <1>1, <1>r, <1>2, <1>3, <1>4, <1>5, <1>6, ReadFacts DEF Kept, MonitorInv, MonitorTypes
<1>8. overlapped' \/ /\ ~overlapped /\ \A d \in Cycles : watch[d].at = "idle"
                     /\ Monitor!Unresolved' \subseteq monitor'.active \cup orphaned'
  <2>1. overlapped' \/ /\ ~overlapped /\ \A d \in Cycles : watch[d].at = "idle"
                       /\ Monitor!Unresolved \subseteq monitor.active \cup orphaned
    BY <1>4 DEF MonitorInv
  <2> QED  BY <2>1, <1>r, <1>2, <1>6, ReadFacts
<1> QED  BY <1>2, <1>3, <1>7, <1>8, RoundKeeps DEF Named

LEMMA BeginKeeps ==
  ASSUME MonitorInv, NEW c \in Cycles, Monitor!Begin(c)
  PROVE  MonitorInv'
<1>0. watch[c] \in Round /\ watch[c].copy \in MonitorState /\ RoundInv(watch[c], incident)
  BY RoundFacts
<1>1. PICK state \in {monitor, Monitor!Fresh, watch[c].copy} :
        /\ \/ watch[c].at = "idle" /\ Monitor!Read(state)
           \/ watch[c].at = "looping" /\ state = watch[c].copy /\ UNCHANGED orphaned
        /\ monitor' = [state EXCEPT !.status = "CHECKING"]
  BY DEF Monitor!Begin, Monitor!Busy, Monitor!Is
<1>2. state \in MonitorState /\ orphaned' \subseteq Incidents
  BY <1>0, <1>1, ReadFacts DEF MonitorInv, MonitorTypes
<1>3. monitor' \in MonitorState /\ monitor'.status = "CHECKING" /\ monitor'.active = state.active
  BY <1>1, <1>2 DEF MonitorState
<1> DEFINE copy == monitor'
           e == [watch[c] EXCEPT !.at = "probing", !.copy = copy]
<1>4. watch' = [watch EXCEPT ![c] = e] /\ UNCHANGED <<incident, revived>>
  BY DEF Monitor!Begin, MonitorInv, MonitorTypes
<1> HIDE DEF copy
<1>5. e \in Round /\ e.at = "probing" /\ e.copy = copy /\ e.about = watch[c].about
  BY <1>0, <1>3 DEF Round, copy
<1> HIDE DEF e
<1>6. overlapped' \in BOOLEAN /\ (overlapped' \/ (~overlapped /\ \A d \in Cycles \ {c} : watch[d].at = "idle"))
  BY DEF Monitor!Begin, Monitor!Busy, MonitorInv, MonitorTypes
<1>7. RoundInv(e, incident')
  BY <1>0, <1>4, <1>5 DEF RoundInv
<1>8. Monitor!Unresolved' = Monitor!Unresolved
  BY <1>4 DEF Monitor!Unresolved
<1>9. Kept(c, e)
  BY <1>2, <1>3, <1>4, <1>5, <1>6, <1>7, <1>8 DEF Kept, MonitorInv, MonitorTypes
<1>10. ASSUME ~overlapped'
       PROVE  Monitor!Unresolved \subseteq state.active \cup orphaned'
  <2>1. ~overlapped /\ \A d \in Cycles \ {c} : watch[d].at = "idle"
    BY <1>6, <1>10
  <2>2. CASE watch[c].at = "idle"
    <3>1. Monitor!Unresolved \subseteq monitor.active \cup orphaned
      BY <2>1, <2>2 DEF MonitorInv
    <3> QED  BY <1>1, <2>2, <3>1, ReadFacts
  <2>3. CASE watch[c].at = "looping"
    BY <1>1, <2>1, <2>3, RoundFacts DEF Named
  <2> QED  BY <1>1, <2>2, <2>3
<1>11. overlapped' \/ Named(Monitor!Unresolved', e, monitor', orphaned')
  BY <1>3, <1>5, <1>8, <1>10 DEF Named, copy
<1> QED  BY <1>5, <1>6, <1>9, <1>11, RoundKeeps

\* A step of a cycle under way that resolves, repairs or counts, and leaves the file
LEMMA InsideKeeps ==
  ASSUME MonitorInv, NEW c \in Cycles, NEW e \in Round, watch' = [watch EXCEPT ![c] = e],
         watch[c].at \notin {"idle", "looping", "stopping"}, e.at \in {"resolving", "opened", "repairing", "saving"},
         UNCHANGED <<monitor, overlapped>>,
         incident' \in [Incidents -> Monitor!Statuses], orphaned' \subseteq Incidents, revived' \in BOOLEAN,
         \A i \in Incidents : incident[i] # "none" => incident'[i] # "none",
         RoundInv(e, incident'),
         revived' \/ \A i, j \in Monitor!Unresolved' : i = j,
         ~overlapped => Named(Monitor!Unresolved', e, monitor, orphaned')
  PROVE  MonitorInv'
<1>1. Kept(c, e)
  BY DEF Kept, MonitorInv, MonitorTypes
<1> QED  BY <1>1, RoundFacts, RoundKeeps DEF Round

LEMMA HealthyKeeps ==
  ASSUME MonitorInv, NEW c \in Cycles, Monitor!Healthy(c)
  PROVE  MonitorInv'
<1> DEFINE copy == [watch[c].copy EXCEPT !.failures = 0, !.status = "HEALTHY"]
           e == [watch[c] EXCEPT !.at = "resolving", !.left = watch[c].copy.active, !.copy = copy]
<1>0. watch[c] \in Round /\ watch[c].copy \in MonitorState /\ watch[c].at = "probing" /\ RoundInv(watch[c], incident)
  BY RoundFacts DEF Monitor!Healthy, Monitor!Is
<1>1. copy \in MonitorState /\ copy.active = watch[c].copy.active
  BY <1>0 DEF MonitorState
<1>2. watch' = [watch EXCEPT ![c] = e] /\ UNCHANGED <<incident, monitor, overlapped, orphaned, revived>>
  <2> DEFINE step == [watch[c] EXCEPT !.at = "resolving", !.left = watch[c].copy.active,
                                      !.copy.failures = 0, !.copy.status = "HEALTHY"]
  <2>1. watch' = [watch EXCEPT ![c] = step] /\ UNCHANGED <<incident, monitor, overlapped, orphaned, revived>>
    BY DEF Monitor!Healthy, MonitorInv, MonitorTypes
  <2>2. step = e
    BY <1>0 DEF Round, MonitorState
  <2> QED  BY <2>1, <2>2
<1> HIDE DEF copy
<1>3. e \in Round /\ e.at = "resolving" /\ e.left = watch[c].copy.active /\ e.about = watch[c].about
  BY <1>0, <1>1 DEF Round, MonitorState
<1> HIDE DEF e
<1>4. RoundInv(e, incident') /\ Monitor!Unresolved' = Monitor!Unresolved
  BY <1>0, <1>2, <1>3 DEF RoundInv, Monitor!Unresolved
<1>5. ~overlapped => Named(Monitor!Unresolved, e, monitor, orphaned')
  <2>1. ~overlapped => Named(Monitor!Unresolved, watch[c], monitor, orphaned)
    BY <1>0, RoundFacts
  <2> QED  BY <1>0, <1>2, <1>3, <2>1 DEF Named
<1>6. revived' \/ \A i, j \in Monitor!Unresolved' : i = j
  BY <1>2, <1>4 DEF MonitorInv
<1>7. incident' \in [Incidents -> Monitor!Statuses] /\ orphaned' \subseteq Incidents /\ revived' \in BOOLEAN
      /\ \A i \in Incidents : incident[i] # "none" => incident'[i] # "none"
  BY <1>2 DEF MonitorInv, MonitorTypes
<1> QED  BY <1>0, <1>2, <1>3, <1>4, <1>5, <1>6, <1>7, InsideKeeps

\* What a status that is given to an incident changes
LEMMA MarkedFacts ==
  ASSUME MonitorInv, NEW i \in Incidents, NEW status \in {"RECOVERING", "ESCALATED", "RESOLVED"},
         incident' = Monitor!Marked(i, status)
  PROVE  /\ incident' \in [Incidents -> Monitor!Statuses]
         /\ \A j \in Incidents : incident[j] # "none" => incident'[j] # "none"
         /\ status = "RESOLVED" => Monitor!Unresolved' = Monitor!Unresolved \ {i}
         /\ incident[i] # "RESOLVED" => Monitor!Unresolved' \subseteq Monitor!Unresolved
         /\ Monitor!Unresolved' \subseteq Monitor!Unresolved \cup {i}
<1>1. incident \in [Incidents -> Monitor!Statuses] /\ i # NoIncident
  BY PartsAssumption DEF MonitorInv, MonitorTypes
<1>2. CASE incident[i] \notin {"none", "forgotten"}
  <2>1. incident' = [incident EXCEPT ![i] = status]
    BY <1>1, <1>2 DEF Monitor!Marked, Monitor!Known
  <2>2. incident' \in [Incidents -> Monitor!Statuses] /\ incident'[i] = status
        /\ \A j \in Incidents \ {i} : incident'[j] = incident[j]
    BY <1>1, <2>1 DEF Monitor!Statuses
  <2> QED  BY <1>1, <1>2, <2>2 DEF Monitor!Unresolved, Monitor!Statuses
<1>3. CASE incident[i] \in {"none", "forgotten"}
  <2>1. incident' = incident
    BY <1>1, <1>3 DEF Monitor!Marked, Monitor!Known
  <2> QED  BY <1>1, <1>3, <2>1 DEF Monitor!Unresolved
<1> QED  BY <1>2, <1>3

LEMMA ResolveNextKeeps ==
  ASSUME MonitorInv, NEW c \in Cycles, Monitor!ResolveNext(c)
  PROVE  MonitorInv'
<1>0. watch[c] \in Round /\ watch[c].copy \in MonitorState /\ watch[c].at = "resolving" /\ RoundInv(watch[c], incident)
  BY RoundFacts DEF Monitor!ResolveNext, Monitor!Is
<1>1. PICK i \in watch[c].left :
        /\ incident' = Monitor!Marked(i, "RESOLVED")
        /\ watch' = [watch EXCEPT ![c].left = @ \ {i}]
  BY DEF Monitor!ResolveNext
<1> DEFINE e == [watch[c] EXCEPT !.left = watch[c].left \ {i}]
<1>2. i \in Incidents /\ watch' = [watch EXCEPT ![c] = e] /\ UNCHANGED <<monitor, overlapped, orphaned, revived>>
  BY <1>0, <1>1 DEF Monitor!ResolveNext, MonitorInv, MonitorTypes, Round
<1>3. e \in Round /\ e.at = "resolving" /\ e.left = watch[c].left \ {i} /\ e.about = watch[c].about
  BY <1>0 DEF Round
<1> HIDE DEF e
<1>4. /\ incident' \in [Incidents -> Monitor!Statuses]
      /\ \A j \in Incidents : incident[j] # "none" => incident'[j] # "none"
      /\ Monitor!Unresolved' = Monitor!Unresolved \ {i}
  BY <1>1, <1>2, MarkedFacts
<1>5. RoundInv(e, incident')
  BY <1>0, <1>3, <1>4 DEF RoundInv, Round
<1>6. ~overlapped => Named(Monitor!Unresolved', e, monitor, orphaned')
  <2>1. ~overlapped => Named(Monitor!Unresolved, watch[c], monitor, orphaned)
    BY <1>0, RoundFacts
  <2> QED  BY <1>0, <1>2, <1>3, <1>4, <2>1 DEF Named
<1>7. revived' \/ \A k, j \in Monitor!Unresolved' : k = j
  BY <1>2, <1>4 DEF MonitorInv
<1>8. orphaned' \subseteq Incidents /\ revived' \in BOOLEAN
  BY <1>2 DEF MonitorInv, MonitorTypes
<1> QED  BY <1>0, <1>2, <1>3, <1>4, <1>5, <1>6, <1>7, <1>8, InsideKeeps

LEMMA AllResolvedKeeps ==
  ASSUME MonitorInv, NEW c \in Cycles, Monitor!AllResolved(c)
  PROVE  MonitorInv'
<1> DEFINE copy == [watch[c].copy EXCEPT !.active = {}]
           e == [watch[c] EXCEPT !.at = "saving", !.copy = copy]
<1>0. watch[c] \in Round /\ watch[c].copy \in MonitorState /\ watch[c].at = "resolving" /\ watch[c].left = {}
      /\ RoundInv(watch[c], incident)
  BY RoundFacts DEF Monitor!AllResolved, Monitor!Is
<1>1. copy \in MonitorState /\ copy.active = {}
  BY <1>0 DEF MonitorState
<1>2. watch' = [watch EXCEPT ![c] = e] /\ UNCHANGED <<incident, monitor, overlapped, orphaned, revived>>
  BY <1>0 DEF Monitor!AllResolved, MonitorInv, MonitorTypes, Round, MonitorState
<1> HIDE DEF copy
<1>3. e \in Round /\ e.at = "saving" /\ e.copy = copy /\ e.about = watch[c].about
  BY <1>0, <1>1 DEF Round
<1> HIDE DEF e
<1>4. RoundInv(e, incident') /\ Monitor!Unresolved' = Monitor!Unresolved
  BY <1>0, <1>1, <1>2, <1>3 DEF RoundInv, Monitor!Unresolved
<1>5. ~overlapped => Named(Monitor!Unresolved, e, monitor, orphaned')
  <2>1. ~overlapped => Named(Monitor!Unresolved, watch[c], monitor, orphaned)
    BY <1>0, RoundFacts
  <2> QED  BY <1>0, <1>1, <1>2, <1>3, <2>1 DEF Named
<1>6. revived' \/ \A i, j \in Monitor!Unresolved' : i = j
  BY <1>2, <1>4 DEF MonitorInv
<1>7. incident' \in [Incidents -> Monitor!Statuses] /\ orphaned' \subseteq Incidents /\ revived' \in BOOLEAN
      /\ \A i \in Incidents : incident[i] # "none" => incident'[i] # "none"
  BY <1>2 DEF MonitorInv, MonitorTypes
<1> QED  BY <1>0, <1>2, <1>3, <1>4, <1>5, <1>6, <1>7, InsideKeeps

\* An incident that is found or opened is the only one that is left
LEMMA OpenedFacts ==
  ASSUME MonitorInv, NEW i \in Incidents, Monitor!Opened(i)
  PROVE  /\ incident' \in [Incidents -> Monitor!Statuses] /\ incident'[i] # "none"
         /\ \A j \in Incidents : incident[j] # "none" => incident'[j] # "none"
         /\ Monitor!Unresolved' = Monitor!Unresolved \cup {i}
         /\ i \in Monitor!Unresolved \/ Monitor!Unresolved = {}
<1>1. incident \in [Incidents -> Monitor!Statuses]
  BY DEF MonitorInv, MonitorTypes
<1>2. CASE i \in Monitor!Unresolved /\ UNCHANGED incident
  BY <1>1, <1>2 DEF Monitor!Unresolved
<1>3. CASE Monitor!Unresolved = {} /\ incident' = [incident EXCEPT ![i] = "OPEN"]
  BY <1>1, <1>3 DEF Monitor!Unresolved, Monitor!Statuses
<1> QED  BY <1>2, <1>3 DEF Monitor!Opened, Monitor!Found

LEMMA UnhealthyKeeps ==
  ASSUME MonitorInv, NEW c \in Cycles, Monitor!Unhealthy(c)
  PROVE  MonitorInv'
<1>0. watch[c] \in Round /\ watch[c].copy \in MonitorState /\ watch[c].at = "probing" /\ RoundInv(watch[c], incident)
  BY RoundFacts DEF Monitor!Unhealthy, Monitor!Is
<1>1. PICK i \in Incidents :
        /\ Monitor!Opened(i)
        /\ orphaned' = orphaned \ {i}
        /\ watch' = [watch EXCEPT ![c].at = "opened", ![c].about = i,
                       ![c].copy.failures = @ + 1, ![c].copy.status = "UNHEALTHY",
                       ![c].copy.active = @ \cup {i}]
  BY DEF Monitor!Unhealthy
<1> DEFINE copy == [watch[c].copy EXCEPT !.failures = watch[c].copy.failures + 1,
                                          !.status = "UNHEALTHY", !.active = watch[c].copy.active \cup {i}]
           e == [watch[c] EXCEPT !.at = "opened", !.about = i, !.copy = copy]
           step == [watch[c] EXCEPT !.at = "opened", !.about = i, !.copy.failures = watch[c].copy.failures + 1,
                                    !.copy.status = "UNHEALTHY", !.copy.active = watch[c].copy.active \cup {i}]
<1>2. copy \in MonitorState /\ copy.active = watch[c].copy.active \cup {i} /\ copy.status = "UNHEALTHY"
  <2>1. i \in Incidents
    BY <1>1
  <2>2. watch[c].copy.failures + 1 \in Nat /\ watch[c].copy.active \cup {i} \subseteq Incidents
    BY <1>0, <2>1 DEF MonitorState
  <2>3. copy.active = watch[c].copy.active \cup {i} /\ copy.status = "UNHEALTHY"
    BY <1>0 DEF MonitorState
  <2>4. copy \in MonitorState
    BY <1>0, <2>2 DEF MonitorState
  <2> QED  BY <2>3, <2>4
<1>3. watch' = [watch EXCEPT ![c] = step] /\ UNCHANGED <<monitor, overlapped, revived>>
  <2>1. watch \in [Cycles -> Round] /\ UNCHANGED <<monitor, overlapped, revived>>
    BY DEF Monitor!Unhealthy, MonitorInv, MonitorTypes
  <2>2. watch' = [watch EXCEPT ![c] = step]
    BY <1>0, <1>1, <2>1 DEF Round, MonitorState
  <2> QED  BY <2>1, <2>2
<1>4. step = e
  BY <1>0 DEF Round, MonitorState
<1> HIDE DEF copy, step
<1>5. e \in Round /\ e.at = "opened" /\ e.copy = copy /\ e.about = i
  BY <1>0, <1>2 DEF Round
<1> HIDE DEF e
<1>6. /\ incident' \in [Incidents -> Monitor!Statuses] /\ incident'[i] # "none"
      /\ \A j \in Incidents : incident[j] # "none" => incident'[j] # "none"
      /\ Monitor!Unresolved' = Monitor!Unresolved \cup {i}
      /\ i \in Monitor!Unresolved \/ Monitor!Unresolved = {}
  BY <1>1, OpenedFacts
<1>7. RoundInv(e, incident')
  BY <1>2, <1>5, <1>6 DEF RoundInv
<1>8. ~overlapped => Named(Monitor!Unresolved', e, monitor, orphaned')
  <2>1. ~overlapped => Named(Monitor!Unresolved, watch[c], monitor, orphaned)
    BY <1>0, RoundFacts
  <2> QED  BY <1>0, <1>1, <1>2, <1>5, <1>6, <2>1 DEF Named
<1>9. revived' \/ \A k, j \in Monitor!Unresolved' : k = j
  BY <1>3, <1>6 DEF MonitorInv
<1>10. orphaned' \subseteq Incidents /\ revived' \in BOOLEAN
  BY <1>1, <1>3 DEF MonitorInv, MonitorTypes
<1> QED  BY <1>0, <1>3, <1>4, <1>5, <1>6, <1>7, <1>8, <1>9, <1>10, InsideKeeps

LEMMA TolerateKeeps ==
  ASSUME MonitorInv, NEW c \in Cycles, Monitor!Tolerate(c)
  PROVE  MonitorInv'
<1> DEFINE e == [watch[c] EXCEPT !.at = "saving"]
<1>0. watch[c] \in Round /\ watch[c].at = "opened" /\ RoundInv(watch[c], incident)
  BY RoundFacts DEF Monitor!Tolerate, Monitor!Is
<1>1. watch' = [watch EXCEPT ![c] = e] /\ UNCHANGED <<incident, monitor, overlapped, orphaned, revived>>
  BY DEF Monitor!Tolerate, Monitor!Goes, MonitorInv, MonitorTypes
<1>2. e \in Round /\ e.at = "saving" /\ e.copy = watch[c].copy /\ e.about = watch[c].about
  BY <1>0 DEF Round
<1> HIDE DEF e
<1>3. RoundInv(e, incident') /\ Monitor!Unresolved' = Monitor!Unresolved
  BY <1>0, <1>1, <1>2 DEF RoundInv, Monitor!Unresolved
<1>4. ~overlapped => Named(Monitor!Unresolved, e, monitor, orphaned')
  <2>1. ~overlapped => Named(Monitor!Unresolved, watch[c], monitor, orphaned)
    BY <1>0, RoundFacts
  <2> QED  BY <1>0, <1>1, <1>2, <2>1 DEF Named
<1>5. revived' \/ \A i, j \in Monitor!Unresolved' : i = j
  BY <1>1, <1>3 DEF MonitorInv
<1>6. incident' \in [Incidents -> Monitor!Statuses] /\ orphaned' \subseteq Incidents /\ revived' \in BOOLEAN
      /\ \A i \in Incidents : incident[i] # "none" => incident'[i] # "none"
  BY <1>1 DEF MonitorInv, MonitorTypes
<1> QED  BY <1>0, <1>1, <1>2, <1>3, <1>4, <1>5, <1>6, InsideKeeps

\* A repair that begins or ends with the incident not resolved
LEMMA MarkKeeps ==
  ASSUME MonitorInv, NEW c \in Cycles, NEW status \in {"RECOVERING", "ESCALATED"}, NEW place \in {"repairing", "saving"},
         watch[c].at \in {"opened", "repairing"}, Monitor!Marks(c, status), Monitor!Goes(c, place),
         UNCHANGED <<monitor, overlapped, orphaned>>
  PROVE  MonitorInv'
<1> DEFINE e == [watch[c] EXCEPT !.at = place]
           i == watch[c].about
<1>0. watch[c] \in Round /\ RoundInv(watch[c], incident) /\ watch[c].copy.active \subseteq Incidents
  BY RoundFacts
<1>1. watch' = [watch EXCEPT ![c] = e]
  BY DEF Monitor!Goes, MonitorInv, MonitorTypes
<1>2. e \in Round /\ e.at = place /\ e.copy = watch[c].copy /\ e.about = i
  BY <1>0 DEF Round
<1> HIDE DEF e
<1>3. i \in Incidents /\ i \in watch[c].copy.active /\ incident' = Monitor!Marked(i, status)
      /\ revived' = (revived \/ incident[i] = "RESOLVED")
  BY <1>0 DEF RoundInv, Monitor!Marks
<1> HIDE DEF i
<1>4. /\ incident' \in [Incidents -> Monitor!Statuses]
      /\ \A j \in Incidents : incident[j] # "none" => incident'[j] # "none"
      /\ incident[i] # "RESOLVED" => Monitor!Unresolved' \subseteq Monitor!Unresolved
      /\ Monitor!Unresolved' \subseteq Monitor!Unresolved \cup {i}
  BY <1>3, MarkedFacts
<1>5. RoundInv(e, incident')
  BY <1>0, <1>2, <1>4 DEF RoundInv, Round, i
<1>6. ~overlapped => Named(Monitor!Unresolved', e, monitor, orphaned')
  <2>1. ~overlapped => Named(Monitor!Unresolved, watch[c], monitor, orphaned)
    BY RoundFacts
  <2>2. watch[c].about = i
    BY DEF i
  <2> QED  BY <1>2, <1>3, <1>4, <2>1, <2>2 DEF Named
<1>7. revived' \in BOOLEAN /\ (revived' \/ \A k, j \in Monitor!Unresolved' : k = j)
  BY <1>3, <1>4 DEF MonitorInv, MonitorTypes
<1>8. orphaned' \subseteq Incidents
  BY DEF MonitorInv, MonitorTypes
<1> QED  BY <1>1, <1>2, <1>4, <1>5, <1>6, <1>7, <1>8, InsideKeeps

LEMMA RecoveredKeeps ==
  ASSUME MonitorInv, NEW c \in Cycles, Monitor!Recovered(c)
  PROVE  MonitorInv'
<1> DEFINE i == watch[c].about
           copy == [watch[c].copy EXCEPT !.status = "RECOVERED", !.active = @ \ {i}]
           e == [watch[c] EXCEPT !.at = "saving", !.copy = copy]
           step == [watch[c] EXCEPT !.at = "saving", !.copy.status = "RECOVERED", !.copy.active = @ \ {i}]
<1>0. watch[c] \in Round /\ watch[c].copy \in MonitorState /\ watch[c].at = "repairing" /\ RoundInv(watch[c], incident)
      /\ watch[c].copy.active \subseteq Incidents
  BY RoundFacts DEF Monitor!Recovered, Monitor!Is
<1>1. copy \in MonitorState /\ copy.active = watch[c].copy.active \ {i} /\ copy.status = "RECOVERED"
  BY <1>0 DEF MonitorState
<1>2. watch' = [watch EXCEPT ![c] = step] /\ UNCHANGED <<monitor, overlapped, orphaned>>
  BY DEF Monitor!Recovered, MonitorInv, MonitorTypes
<1>3. step = e
  BY <1>0 DEF Round, MonitorState
<1> HIDE DEF copy, step
<1>4. e \in Round /\ e.at = "saving" /\ e.copy = copy /\ e.about = i
  BY <1>0, <1>1 DEF Round
<1> HIDE DEF e
<1>5. i \in Incidents /\ i \in watch[c].copy.active /\ incident' = Monitor!Marked(i, "RESOLVED")
      /\ revived' = (revived \/ FALSE)
  BY <1>0 DEF RoundInv, Monitor!Recovered, Monitor!Marks
<1> HIDE DEF i
<1>6. /\ incident' \in [Incidents -> Monitor!Statuses]
      /\ \A j \in Incidents : incident[j] # "none" => incident'[j] # "none"
      /\ Monitor!Unresolved' = Monitor!Unresolved \ {i}
  BY <1>5, MarkedFacts
<1>7. watch[c].about = i
  BY DEF i
<1>8. RoundInv(e, incident')
  BY <1>0, <1>1, <1>4, <1>6, <1>7 DEF RoundInv
<1>9. ~overlapped => Named(Monitor!Unresolved', e, monitor, orphaned')
  <2>1. ~overlapped => Named(Monitor!Unresolved, watch[c], monitor, orphaned)
    BY <1>0, RoundFacts
  <2> QED  BY <1>0, <1>1, <1>2, <1>4, <1>6, <1>7, <2>1 DEF Named
<1>10. revived' \in BOOLEAN /\ (revived' \/ \A k, j \in Monitor!Unresolved' : k = j)
  BY <1>5, <1>6 DEF MonitorInv, MonitorTypes
<1>11. orphaned' \subseteq Incidents
  BY <1>2 DEF MonitorInv, MonitorTypes
<1> QED  BY <1>0, <1>2, <1>3, <1>4, <1>6, <1>8, <1>9, <1>10, <1>11, InsideKeeps

LEMMA SaveKeeps ==
  ASSUME MonitorInv, NEW c \in Cycles, Monitor!Save(c)
  PROVE  MonitorInv'
<1> DEFINE e == IF watch[c].loop THEN [watch[c] EXCEPT !.at = "stopping"] ELSE Monitor!NoCycle
<1>0. watch[c] \in Round /\ watch[c].copy \in MonitorState /\ watch[c].at = "saving" /\ RoundInv(watch[c], incident)
  BY RoundFacts DEF Monitor!Save, Monitor!Is
<1>1. watch' = [watch EXCEPT ![c] = e] /\ monitor' = watch[c].copy /\ UNCHANGED <<incident, overlapped, orphaned, revived>>
  BY DEF Monitor!Save, MonitorInv, MonitorTypes
<1>2. /\ e \in Round /\ e.at \in {"stopping", "idle"}
      /\ e.at = "stopping" => e.copy = watch[c].copy
      /\ e.about = NoIncident \/ e.about = watch[c].about
  <2>1. CASE watch[c].loop
    BY <1>0, <2>1 DEF Round
  <2>2. CASE ~watch[c].loop
    BY <2>2, RoundTypes DEF Monitor!NoCycle
  <2> QED  BY <2>1, <2>2
<1> HIDE DEF e
<1>3. RoundInv(e, incident') /\ Monitor!Unresolved' = Monitor!Unresolved
  BY <1>0, <1>1, <1>2 DEF RoundInv, Monitor!Unresolved
<1>4. monitor'.status = "HEALTHY" => monitor'.active = {}
  BY <1>0, <1>1 DEF RoundInv
<1>5. Kept(c, e)
  BY <1>0, <1>1, <1>2, <1>3, <1>4 DEF Kept, MonitorInv, MonitorTypes
<1>6. overlapped \/ /\ ~overlapped /\ \A d \in Cycles \ {c} : watch[d].at = "idle"
                    /\ Named(Monitor!Unresolved, watch[c], monitor, orphaned)
  BY <1>0, RoundFacts
<1>7. overlapped \/ Monitor!Unresolved \subseteq monitor'.active \cup orphaned'
  BY <1>0, <1>1, <1>6 DEF Named
<1>8. overlapped \/ (e.at # "idle" => Named(Monitor!Unresolved', e, monitor', orphaned'))
  BY <1>1, <1>2, <1>3, <1>7 DEF Named
<1> QED  BY <1>1, <1>3, <1>5, <1>6, <1>7, <1>8, RoundKeeps

LEMMA LoopStopsKeeps ==
  ASSUME MonitorInv, NEW c \in Cycles, Monitor!LoopStops(c)
  PROVE  MonitorInv'
<1>0. watch[c] \in Round /\ watch[c].copy \in MonitorState /\ watch[c].at = "stopping"
  BY RoundFacts DEF Monitor!LoopStops, Monitor!Is
<1>1. watch' = [watch EXCEPT ![c] = Monitor!NoCycle] /\ monitor' = [watch[c].copy EXCEPT !.status = "STOPPED"]
      /\ UNCHANGED <<incident, overlapped, orphaned, revived>>
  BY DEF Monitor!LoopStops
<1>2. monitor' \in MonitorState /\ monitor'.active = watch[c].copy.active /\ monitor'.status = "STOPPED"
  BY <1>0, <1>1 DEF MonitorState
<1>3. Monitor!NoCycle.at = "idle" /\ RoundInv(Monitor!NoCycle, incident') /\ Monitor!Unresolved' = Monitor!Unresolved
  BY <1>1 DEF Monitor!NoCycle, RoundInv, Monitor!Unresolved
<1>4. Kept(c, Monitor!NoCycle)
  BY <1>1, <1>2, <1>3, RoundTypes DEF Kept, MonitorInv, MonitorTypes
<1>5. overlapped \/ /\ ~overlapped /\ \A d \in Cycles \ {c} : watch[d].at = "idle"
                    /\ Monitor!Unresolved \subseteq monitor'.active \cup orphaned
  BY <1>0, <1>2, RoundFacts DEF Named
<1> QED  BY <1>1, <1>3, <1>4, <1>5, RoundKeeps

LEMMA ThrowsKeeps ==
  ASSUME MonitorInv, NEW c \in Cycles, Monitor!Throws(c)
  PROVE  MonitorInv'
<1>0. watch[c] \in Round /\ watch[c].at # "idle"
  BY RoundFacts DEF Monitor!Throws, Monitor!Busy
<1>1. watch' = [watch EXCEPT ![c] = Monitor!NoCycle] /\ UNCHANGED <<incident, monitor, overlapped, revived>>
      /\ orphaned' = orphaned \cup {i \in Monitor!Unresolved \ monitor.active : watch[c].about = i}
  BY DEF Monitor!Throws, Monitor!Orphans
<1>2. Monitor!NoCycle.at = "idle" /\ RoundInv(Monitor!NoCycle, incident') /\ Monitor!Unresolved' = Monitor!Unresolved
      /\ Monitor!Unresolved \subseteq Incidents
  BY <1>1 DEF Monitor!NoCycle, RoundInv, Monitor!Unresolved
<1>3. orphaned' \subseteq Incidents
  BY <1>1, <1>2 DEF MonitorInv, MonitorTypes
<1>4. Kept(c, Monitor!NoCycle)
  BY <1>1, <1>2, <1>3, RoundTypes DEF Kept, MonitorInv, MonitorTypes
<1>5. overlapped \/ /\ ~overlapped /\ \A d \in Cycles \ {c} : watch[d].at = "idle"
                    /\ Monitor!Unresolved \subseteq monitor.active \cup orphaned \cup {watch[c].about}
  BY <1>0, RoundFacts DEF Named
<1>6. overlapped \/ Monitor!Unresolved' \subseteq monitor'.active \cup orphaned'
  BY <1>1, <1>2, <1>5
<1> QED  BY <1>1, <1>2, <1>4, <1>5, <1>6, RoundKeeps

LEMMA MonitorRestartKeeps ==
  ASSUME MonitorInv, Monitor!Restart
  PROVE  MonitorInv'
<1>1. /\ incident' = [i \in Incidents |-> IF incident[i] = "none" THEN "none" ELSE "forgotten"]
      /\ watch' = [c \in Cycles |-> Monitor!NoCycle]
      /\ orphaned' = {} /\ UNCHANGED <<monitor, overlapped, revived>>
  BY DEF Monitor!Restart
<1>2. Monitor!Unresolved' = {} /\ incident' \in [Incidents -> Monitor!Statuses]
  BY <1>1 DEF Monitor!Unresolved, Monitor!Statuses
<1>3. \A c \in Cycles : watch'[c] = Monitor!NoCycle /\ watch'[c].at = "idle" /\ watch'[c].about = NoIncident
                        /\ RoundInv(watch'[c], incident')
  BY <1>1 DEF Monitor!NoCycle, RoundInv
<1>4. MonitorTypes'
  BY <1>1, <1>2, RoundTypes DEF MonitorTypes, MonitorInv
<1> QED  BY <1>1, <1>2, <1>3, <1>4 DEF MonitorInv

LEMMA MonitorInitially ==
  ASSUME Monitor!Init
  PROVE  MonitorInv
<1>1. /\ incident = [i \in Incidents |-> "none"] /\ monitor = Monitor!Fresh
      /\ watch = [c \in Cycles |-> Monitor!NoCycle]
      /\ overlapped = FALSE /\ orphaned = {} /\ revived = FALSE
  BY DEF Monitor!Init
<1>2. Monitor!Unresolved = {} /\ incident \in [Incidents -> Monitor!Statuses]
  BY <1>1 DEF Monitor!Unresolved, Monitor!Statuses
<1>3. \A c \in Cycles : watch[c].at = "idle" /\ RoundInv(watch[c], incident)
  BY <1>1 DEF Monitor!NoCycle, RoundInv
<1>4. MonitorTypes
  BY <1>1, <1>2, RoundTypes DEF MonitorTypes
<1>5. monitor.status = "READY"
  BY <1>1 DEF Monitor!Fresh
<1> QED  BY <1>2, <1>3, <1>4, <1>5 DEF MonitorInv

LEMMA MonitorKeeps ==
  ASSUME MonitorInv, [Monitor!Next]_(Monitor!vars)
  PROVE  MonitorInv'
<1>1. ASSUME NEW c \in Cycles,
             \/ Monitor!LoopStarts(c) \/ Monitor!Begin(c) \/ Monitor!Healthy(c) \/ Monitor!ResolveNext(c)
             \/ Monitor!AllResolved(c) \/ Monitor!Unhealthy(c)
      PROVE  MonitorInv'
  BY <1>1, LoopStartsKeeps, BeginKeeps, HealthyKeeps, ResolveNextKeeps, AllResolvedKeeps, UnhealthyKeeps
<1>2. ASSUME NEW c \in Cycles, Monitor!Tolerate(c)
      PROVE  MonitorInv'
  BY <1>2, TolerateKeeps
<1>3. ASSUME NEW c \in Cycles, Monitor!StartRecovery(c)
      PROVE  MonitorInv'
  BY <1>3, MarkKeeps DEF Monitor!StartRecovery, Monitor!Is
<1>4. ASSUME NEW c \in Cycles, Monitor!NotRecovered(c)
      PROVE  MonitorInv'
  BY <1>4, MarkKeeps DEF Monitor!NotRecovered, Monitor!Is
<1>5. ASSUME NEW c \in Cycles,
             \/ Monitor!Recovered(c) \/ Monitor!Save(c) \/ Monitor!LoopStops(c) \/ Monitor!Throws(c)
      PROVE  MonitorInv'
  BY <1>5, RecoveredKeeps, SaveKeeps, LoopStopsKeeps, ThrowsKeeps
<1>6. CASE UNCHANGED Monitor!vars
  BY <1>6 DEF MonitorInv, MonitorTypes, RoundInv, Named, Monitor!vars, Monitor!Unresolved
<1> QED  BY <1>1, <1>2, <1>3, <1>4, <1>5, <1>6, MonitorRestartKeeps DEF Monitor!Next

\* One outage has one incident, also when cycles overlap or cannot read the state
\* file, unless one recovered an incident that another had resolved
\* (production-monitoring-engine.js:73-129), and what a healthy service left open is
\* what the file did not name, because a cycle threw before it saved or a read failed:
\* for any number of cycles, incidents and restarts.
THEOREM OneIncident == Monitor!Spec => []OutageHasOneIncident
<1>1. MonitorInv => OutageHasOneIncident
  BY DEF MonitorInv, OutageHasOneIncident, Monitor!OutageHasOneIncident, Monitor!Busy
<1> QED  BY <1>1, MonitorInitially, MonitorKeeps, PTL DEF Monitor!Spec

-----------------------------------------------------------------------------
(* The registries                                                          *)

Places == {"idle", "provisioning", "saving", "done", "refused", "lost"}
Entry == [by : Accounts!Requests, rows : SUBSET Creations]

AccountTypes ==
  /\ kind \in [Creations -> Accounts!Kinds]
  /\ memory \in [Creations -> Accounts!Rows] /\ file \in [Creations -> Accounts!Rows]
  /\ writes \in [Accounts!Kinds -> Seq(Entry)]
  /\ request \in [Accounts!Requests -> [at : Places, row : Creations \cup {None}]]
  /\ external \subseteq Changes

\* A row that is there, and, for a change, was revoked or has a repository
Holding(row, k, r, repositories) ==
  /\ row.exists
  /\ r \in Changes => \/ k = "keys" /\ row.revoked
                     \/ row.repository \in repositories

\* What an earlier form of a row holds, a later one holds too
Grows(old, new, before, after) ==
  \A x \in Creations :
    old[x].exists =>
      /\ new[x].exists
      /\ old[x].revoked => new[x].revoked
      /\ old[x].repository \in before => new[x].repository \in after

\* What has to be in the file when the request is answered
Acknowledges(r) == r \in Creations => kind[r] \in {"users", "keys"}

\* What a request has done to memory, and to the file once it is answered
AccountInv(r, q, rows, stored, repositories) ==
  /\ q.at \in {"provisioning", "saving", "done"} => q.row \in Creations
  /\ r \in Creations =>
       /\ q.at # "provisioning"
       /\ q.at \in {"saving", "done"} => q.row = r
       /\ q.at = "idle" => ~rows[r].exists
  /\ q.at = "provisioning" => kind[q.row] = "projects" /\ rows[q.row].exists
  /\ q.at \in {"saving", "done"} /\ Acknowledges(r) =>
       Holding(rows[q.row], kind[q.row], r, repositories)
  /\ q.at = "done" /\ Acknowledges(r) =>
       Holding(stored[q.row], kind[q.row], r, repositories)

\* What a store owes: rows of its kind that are in memory, the row of a request that
\* waits among them; and the store of projects loses no row that is in the file
OwedInv(k, owed, q, rows, stored) ==
  \A i \in DOMAIN owed :
    /\ owed[i].rows \subseteq {x \in Creations : kind[x] = k /\ rows[x].exists}
    /\ q[owed[i].by].at \notin {"idle", "provisioning"}
    /\ q[owed[i].by].at = "saving" => kind[q[owed[i].by].row] = k /\ q[owed[i].by].row \in owed[i].rows
    /\ k = "projects" =>
         /\ \A x \in Creations : kind[x] = k /\ stored[x].exists => x \in owed[i].rows
         /\ \A j \in DOMAIN owed : i <= j => owed[i].rows \subseteq owed[j].rows

AccountsInv ==
  /\ AccountTypes
  /\ Grows(file, memory, external, external)
  /\ \A x \in Creations : memory[x].repository \in external \cup {None}
                          /\ file[x].repository \in external \cup {None}
  /\ \A r \in Accounts!Requests : AccountInv(r, request[r], memory, file, external)
  /\ \A k \in Accounts!Kinds : OwedInv(k, writes[k], request, memory, file)

LEMMA HoldingGrows ==
  ASSUME NEW old, NEW new, NEW before, NEW after, Grows(old, new, before, after),
         NEW x \in Creations, NEW k, NEW r, Holding(old[x], k, r, before)
  PROVE  Holding(new[x], k, r, after)
BY DEF Grows, Holding

\* What a request that is not stepped has done stays done
LEMMA AccountStays ==
  ASSUME NEW r \in Accounts!Requests, NEW q \in [at : Places, row : Creations \cup {None}],
         NEW rows, NEW stored, NEW repositories, NEW rows2, NEW stored2, NEW repositories2,
         AccountInv(r, q, rows, stored, repositories), UNCHANGED kind,
         Grows(rows, rows2, repositories, repositories2), Grows(stored, stored2, repositories, repositories2),
         r \in Creations /\ q.at = "idle" => ~rows2[r].exists
  PROVE  AccountInv(r, q, rows2, stored2, repositories2)
<1>1. q.at = "provisioning" => kind[q.row] = "projects" /\ rows2[q.row].exists
  BY DEF AccountInv, Grows
<1>2. q.at \in {"saving", "done"} /\ Acknowledges(r) =>
        Holding(rows2[q.row], kind[q.row], r, repositories2)
  BY HoldingGrows DEF AccountInv
<1>3. q.at = "done" /\ Acknowledges(r) =>
        Holding(stored2[q.row], kind[q.row], r, repositories2)
  BY HoldingGrows DEF AccountInv
<1> QED  BY <1>1, <1>2, <1>3 DEF AccountInv

\* A request that changes nothing but where it is
LEMMA RequestMoves ==
  ASSUME AccountsInv, NEW r \in Accounts!Requests, NEW q \in [at : Places, row : Creations \cup {None}],
         request[r].at \in {"idle", "provisioning"}, request' = [request EXCEPT ![r] = q],
         UNCHANGED <<kind, memory, file, writes, external>>,
         AccountInv(r, q, memory, file, external)
  PROVE  AccountsInv'
<1>1. /\ request' \in [Accounts!Requests -> [at : Places, row : Creations \cup {None}]]
      /\ request'[r] = q /\ \A o \in Accounts!Requests \ {r} : request'[o] = request[o]
  BY DEF AccountsInv, AccountTypes
<1>2. AccountTypes'
  BY <1>1 DEF AccountsInv, AccountTypes
<1>3. \A o \in Accounts!Requests : AccountInv(o, request'[o], memory, file, external)
  BY <1>1 DEF AccountsInv
<1>4. ASSUME NEW k \in Accounts!Kinds
      PROVE  OwedInv(k, writes[k], request', memory, file)
  <2>1. OwedInv(k, writes[k], request, memory, file) /\ writes[k] \in Seq(Entry)
    BY DEF AccountsInv, AccountTypes
  <2>2. \A i \in DOMAIN writes[k] : writes[k][i] \in Entry
    BY <2>1
  <2>3. \A i \in DOMAIN writes[k] : writes[k][i].by \in Accounts!Requests /\ writes[k][i].by # r
    BY <2>1, <2>2 DEF OwedInv, Entry
  <2> QED  BY <1>1, <2>1, <2>3 DEF OwedInv
<1>5. \A o \in Accounts!Requests : AccountInv(o, request[o], memory, file, external)'
  BY <1>3 DEF AccountInv, Acknowledges
<1>6. \A k \in Accounts!Kinds : OwedInv(k, writes[k], request, memory, file)'
  BY <1>4 DEF OwedInv
<1> QED  BY <1>2, <1>5, <1>6 DEF AccountsInv, Grows

\* A request that changes a row in memory, and has its store asked for a write
LEMMA RequestChanges ==
  ASSUME AccountsInv, NEW r \in Accounts!Requests, NEW x \in Creations, NEW place \in {"saving", "done"},
         request[r].at \in {"idle", "provisioning"}, request' = Accounts!At(r, place, x),
         memory' \in [Creations -> Accounts!Rows], Grows(memory, memory', external, external),
         \A y \in Creations : memory'[y].repository \in external \cup {None},
         \A y \in Creations : memory'[y].exists => memory[y].exists \/ y = r,
         memory'[x].exists,
         \/ Accounts!Save(kind[x], r)
         \/ place = "done" /\ UNCHANGED writes,
         UNCHANGED <<kind, file, external>>,
         AccountInv(r, [at |-> place, row |-> x], memory', file, external)
  PROVE  AccountsInv'
<1> DEFINE q == [at |-> place, row |-> x]
<1>1. /\ request' \in [Accounts!Requests -> [at : Places, row : Creations \cup {None}]]
      /\ request'[r] = q /\ \A o \in Accounts!Requests \ {r} : request'[o] = request[o]
  BY DEF AccountsInv, AccountTypes, Accounts!At, Places
<1>2. kind[x] \in Accounts!Kinds /\ writes \in [Accounts!Kinds -> Seq(Entry)]
  BY DEF AccountsInv, AccountTypes
<1> DEFINE known == {y \in Creations : kind[y] = kind[x] /\ memory'[y].exists}
           entry == [by |-> r, rows |-> known]
<1>3. writes' = [writes EXCEPT ![kind[x]] = Append(@, entry)] \/ (place = "done" /\ writes' = writes)
  BY DEF Accounts!Save, Accounts!Known
<1>4. entry \in Entry /\ entry.by = r /\ entry.rows = known
  BY DEF Entry
<1> HIDE DEF entry
<1>5. writes' \in [Accounts!Kinds -> Seq(Entry)]
  <2>1. Append(writes[kind[x]], entry) \in Seq(Entry)
    BY <1>2, <1>4
  <2> QED  BY <1>2, <1>3, <2>1
<1>6. \A o \in Accounts!Requests : AccountInv(o, request'[o], memory', file, external)
  <2>1. ASSUME NEW o \in Accounts!Requests, o # r
        PROVE  AccountInv(o, request'[o], memory', file, external)
    <3>1. /\ request'[o] = request[o] /\ request[o] \in [at : Places, row : Creations \cup {None}]
          /\ AccountInv(o, request[o], memory, file, external)
      BY <1>1, <2>1 DEF AccountsInv, AccountTypes
    <3>2. o \in Creations /\ request[o].at = "idle" => ~memory'[o].exists
      BY <2>1, <3>1 DEF AccountInv
    <3>3. Grows(file, file, external, external)
      BY DEF Grows
    <3> QED  BY <3>1, <3>2, <3>3, AccountStays
  <2> QED  BY <1>1, <2>1
<1>7. ASSUME NEW k \in Accounts!Kinds
      PROVE  OwedInv(k, writes'[k], request', memory', file)
  <2>1. OwedInv(k, writes[k], request, memory, file) /\ writes[k] \in Seq(Entry)
    BY <1>2 DEF AccountsInv
  <2>2. \A i \in DOMAIN writes[k] : writes[k][i] \in Entry
    BY <2>1
  <2>3. \A i \in DOMAIN writes[k] :
          /\ writes[k][i].by \in Accounts!Requests /\ writes[k][i].by # r
          /\ request'[writes[k][i].by] = request[writes[k][i].by]
    BY <1>1, <2>1, <2>2 DEF OwedInv, Entry
  <2>4. \A i \in DOMAIN writes[k] : writes[k][i].rows \subseteq {y \in Creations : kind[y] = k /\ memory'[y].exists}
    BY <2>1 DEF OwedInv, Grows
  <2>5. OwedInv(k, writes[k], request', memory', file)
    BY <2>1, <2>3, <2>4 DEF OwedInv
  <2>6. CASE writes'[k] = writes[k]
    BY <2>5, <2>6
  <2>7. CASE writes'[k] # writes[k]
    <3>1. k = kind[x] /\ writes'[k] = Append(writes[k], entry)
      BY <1>2, <1>3, <2>7
    <3> DEFINE n == Len(writes[k]) + 1
    <3>2. /\ n \in Nat /\ DOMAIN writes'[k] = 1 .. n /\ DOMAIN writes[k] = 1 .. (n - 1)
          /\ writes'[k][n] = entry /\ \A i \in 1 .. (n - 1) : writes'[k][i] = writes[k][i]
      BY <2>1, <3>1
    <3>3. \A i \in DOMAIN writes'[k] : i = n \/ (i \in DOMAIN writes[k] /\ writes'[k][i] = writes[k][i])
      BY <3>2
    <3>4. \A i \in DOMAIN writes[k] : writes[k][i].rows \subseteq entry.rows
      BY <1>4, <2>4, <3>1
    <3>5. \A y \in Creations : kind[y] = k /\ file[y].exists => y \in entry.rows
      BY <1>4, <3>1 DEF AccountsInv, Grows
    <3> HIDE DEF n
    <3>6. ASSUME NEW i \in DOMAIN writes'[k]
          PROVE  /\ writes'[k][i].rows \subseteq {y \in Creations : kind[y] = k /\ memory'[y].exists}
                 /\ request'[writes'[k][i].by].at \notin {"idle", "provisioning"}
                 /\ request'[writes'[k][i].by].at = "saving" =>
                      kind[request'[writes'[k][i].by].row] = k /\ request'[writes'[k][i].by].row \in writes'[k][i].rows
      <4>1. CASE i = n
        <5>1. writes'[k][i] = entry
          BY <3>2, <4>1
        <5>2. request'[r].at = place /\ request'[r].row = x
          BY <1>1
        <5>3. known = {y \in Creations : kind[y] = k /\ memory'[y].exists} /\ x \in known /\ kind[x] = k
          BY <3>1
        <5> HIDE DEF known
        <5> QED  BY <1>4, <5>1, <5>2, <5>3
      <4>2. CASE i # n
        BY <2>5, <3>3, <4>2 DEF OwedInv
      <4> QED  BY <4>1, <4>2
    <3>7. ASSUME NEW i \in DOMAIN writes'[k], k = "projects"
          PROVE  /\ \A y \in Creations : kind[y] = k /\ file[y].exists => y \in writes'[k][i].rows
                 /\ \A j \in DOMAIN writes'[k] : i <= j => writes'[k][i].rows \subseteq writes'[k][j].rows
      <4>1. CASE i = n
        <5>1. \A j \in DOMAIN writes'[k] : i <= j => j = n
          BY <3>2, <4>1
        <5> QED  BY <3>2, <3>5, <4>1, <5>1
      <4>2. CASE i # n
        BY <2>5, <3>2, <3>3, <3>4, <3>7, <4>2 DEF OwedInv
      <4> QED  BY <4>1, <4>2
    <3> QED  BY <3>6, <3>7 DEF OwedInv
  <2> QED  BY <2>6, <2>7
<1>8. Grows(file, memory', external, external)
  BY DEF AccountsInv, Grows
<1>9. \A o \in Accounts!Requests : AccountInv(o, request[o], memory, file, external)'
  BY <1>6 DEF AccountInv, Acknowledges
<1>10. \A k \in Accounts!Kinds : OwedInv(k, writes[k], request, memory, file)'
  BY <1>7 DEF OwedInv
<1>11. AccountTypes'
  BY <1>1, <1>5 DEF AccountsInv, AccountTypes
<1> QED  BY <1>8, <1>9, <1>10, <1>11 DEF AccountsInv, Grows

LEMMA RowFacts ==
  /\ Accounts!NewRow \in Accounts!Rows /\ Accounts!NoRow \in Accounts!Rows
  /\ Accounts!NewRow.exists = TRUE /\ Accounts!NewRow.repository = None
  /\ Accounts!NoRow.exists = FALSE /\ Accounts!NoRow.repository = None
BY DEF Accounts!NewRow, Accounts!NoRow, Accounts!Rows

LEMMA CreateKeeps ==
  ASSUME AccountsInv, NEW r \in Creations, Accounts!Create(r)
  PROVE  AccountsInv'
<1>1. /\ request[r].at = "idle" /\ r \in Accounts!Requests /\ r \notin Changes
      /\ memory' = [memory EXCEPT ![r] = Accounts!NewRow]
      /\ UNCHANGED <<kind, file, external>>
  BY PartsAssumption DEF Accounts!Create, Accounts!Is, Accounts!Requests
<1>2. memory \in [Creations -> Accounts!Rows] /\ AccountInv(r, request[r], memory, file, external)
      /\ kind[r] \in Accounts!Kinds
  BY <1>1 DEF AccountsInv, AccountTypes
<1>3. ~memory[r].exists
  BY <1>1, <1>2 DEF AccountInv
<1>4. /\ memory' \in [Creations -> Accounts!Rows] /\ memory'[r] = Accounts!NewRow
      /\ \A y \in Creations \ {r} : memory'[y] = memory[y]
  BY <1>1, <1>2, RowFacts
<1>5. Grows(memory, memory', external, external)
  BY <1>3, <1>4 DEF Grows
<1>6. \A y \in Creations : memory'[y].repository \in external \cup {None}
                           /\ (memory'[y].exists => memory[y].exists \/ y = r)
  BY <1>4, RowFacts DEF AccountsInv
<1> DEFINE place == IF Accounts!Awaits(kind[r]) THEN "saving" ELSE "done"
<1>7. place \in {"saving", "done"} /\ request' = Accounts!At(r, place, r)
      /\ (Accounts!Save(kind[r], r) \/ (place = "done" /\ UNCHANGED writes))
  BY DEF Accounts!Create, Accounts!Awaits
<1>8. AccountInv(r, [at |-> place, row |-> r], memory', file, external)
  <2>1. place = "done" => ~Acknowledges(r)
    BY DEF Accounts!Awaits, Acknowledges
  <2>2. Holding(memory'[r], kind[r], r, external)
    BY <1>1, <1>4, RowFacts DEF Holding
  <2> HIDE DEF place
  <2> QED  BY <1>7, <2>1, <2>2 DEF AccountInv
<1> HIDE DEF place
<1>9. memory'[r].exists
  BY <1>4, RowFacts
<1> QED  BY <1>1, <1>4, <1>5, <1>6, <1>7, <1>8, <1>9, RequestChanges

\* A change that is refused, or that GitHub has yet to answer
LEMMA ChangeMoves ==
  ASSUME AccountsInv, NEW r \in Changes, NEW place \in {"refused", "provisioning"}, NEW row \in Creations \cup {None},
         request[r].at \in {"idle", "provisioning"}, request' = Accounts!At(r, place, row),
         place = "provisioning" => row \in Creations /\ kind[row] = "projects" /\ memory[row].exists,
         UNCHANGED <<kind, memory, file, writes, external>>
  PROVE  AccountsInv'
<1>1. r \in Accounts!Requests /\ r \notin Creations
  BY PartsAssumption DEF Accounts!Requests
<1>2. AccountInv(r, [at |-> place, row |-> row], memory, file, external)
  BY <1>1 DEF AccountInv
<1>3. [at |-> place, row |-> row] \in [at : Places, row : Creations \cup {None}]
  BY DEF Places
<1> QED  BY <1>1, <1>2, <1>3, RequestMoves DEF Accounts!At

LEMMA RevokeKeeps ==
  ASSUME AccountsInv, NEW r \in Changes, NEW key \in Creations, Accounts!Revoke(r, key)
  PROVE  AccountsInv'
<1>1. request[r].at = "idle" /\ r \in Accounts!Requests /\ r \notin Creations /\ kind[key] = "keys"
      /\ memory \in [Creations -> Accounts!Rows] /\ memory[key] \in Accounts!Rows
      /\ UNCHANGED <<kind, file, external>>
  BY PartsAssumption DEF Accounts!Revoke, Accounts!Is, Accounts!Requests, AccountsInv, AccountTypes
<1>2. CASE memory[key].exists
  <2> DEFINE row == [memory[key] EXCEPT !.revoked = TRUE]
  <2>1. memory' = [memory EXCEPT ![key] = row] /\ Accounts!Save("keys", r) /\ request' = Accounts!At(r, "saving", key)
    BY <1>1, <1>2 DEF Accounts!Revoke
  <2>2. row \in Accounts!Rows /\ row.exists /\ row.revoked /\ row.repository = memory[key].repository
    BY <1>1, <1>2 DEF Accounts!Rows
  <2> HIDE DEF row
  <2>3. /\ memory' \in [Creations -> Accounts!Rows] /\ memory'[key] = row
        /\ \A y \in Creations \ {key} : memory'[y] = memory[y]
    BY <1>1, <2>1, <2>2
  <2>4. Grows(memory, memory', external, external)
    BY <2>2, <2>3 DEF Grows
  <2>5. \A y \in Creations : memory'[y].repository \in external \cup {None}
                             /\ (memory'[y].exists => memory[y].exists \/ y = r)
    BY <1>2, <2>2, <2>3 DEF AccountsInv
  <2>6. AccountInv(r, [at |-> "saving", row |-> key], memory', file, external)
    BY <1>1, <2>2, <2>3 DEF AccountInv, Holding
  <2> QED  BY <1>1, <2>1, <2>2, <2>3, <2>4, <2>5, <2>6, RequestChanges
<1>3. CASE ~memory[key].exists
  BY <1>1, <1>3, ChangeMoves DEF Accounts!Revoke
<1> QED  BY <1>2, <1>3

LEMMA AttachKeeps ==
  ASSUME AccountsInv, NEW r \in Changes, Accounts!Attach(r)
  PROVE  AccountsInv'
<1> DEFINE x == request[r].row
           row == [memory[x] EXCEPT !.repository = r]
<1>1. request[r].at = "provisioning" /\ r \in Accounts!Requests /\ r \notin Creations /\ r \in external
      /\ UNCHANGED <<kind, file, external>> /\ AccountInv(r, request[r], memory, file, external)
  BY PartsAssumption DEF Accounts!Attach, Accounts!Is, Accounts!Requests, AccountsInv
<1>2. x \in Creations /\ kind[x] = "projects" /\ memory[x].exists
      /\ memory \in [Creations -> Accounts!Rows] /\ memory[x] \in Accounts!Rows
  BY <1>1 DEF AccountInv, AccountsInv, AccountTypes
<1>3. memory' = [memory EXCEPT ![x] = row] /\ Accounts!Save(kind[x], r) /\ request' = Accounts!At(r, "saving", x)
  BY <1>2 DEF Accounts!Attach
<1> HIDE DEF x
<1>4. row \in Accounts!Rows /\ row.exists /\ row.revoked = memory[x].revoked /\ row.repository = r
  BY <1>2 DEF Accounts!Rows
<1> HIDE DEF row
<1>5. /\ memory' \in [Creations -> Accounts!Rows] /\ memory'[x] = row
      /\ \A y \in Creations \ {x} : memory'[y] = memory[y]
  BY <1>2, <1>3, <1>4
<1>6. Grows(memory, memory', external, external)
  BY <1>1, <1>4, <1>5 DEF Grows
<1>7. \A y \in Creations : memory'[y].repository \in external \cup {None}
                           /\ (memory'[y].exists => memory[y].exists \/ y = r)
  BY <1>1, <1>2, <1>4, <1>5 DEF AccountsInv
<1>8. AccountInv(r, [at |-> "saving", row |-> x], memory', file, external)
  BY <1>1, <1>2, <1>4, <1>5 DEF AccountInv, Holding
<1> QED  BY <1>1, <1>2, <1>3, <1>4, <1>5, <1>6, <1>7, <1>8, RequestChanges

LEMMA ProvisionedKeeps ==
  ASSUME AccountsInv, NEW r \in Changes, Accounts!Provisioned(r)
  PROVE  AccountsInv'
<1>1. external' = external \cup {r} /\ UNCHANGED <<kind, memory, file, writes, request>>
      /\ external' \subseteq Changes /\ None \notin external'
  BY PartsAssumption DEF Accounts!Provisioned, AccountsInv, AccountTypes
<1>2. /\ Grows(memory, memory, external, external') /\ Grows(file, file, external, external')
      /\ Grows(file, memory, external', external')
  BY <1>1 DEF AccountsInv, Grows
<1>3. \A o \in Accounts!Requests : AccountInv(o, request[o], memory, file, external')
  <2> TAKE o \in Accounts!Requests
  <2>1. AccountInv(o, request[o], memory, file, external) /\ request[o] \in [at : Places, row : Creations \cup {None}]
    BY DEF AccountsInv, AccountTypes
  <2>2. o \in Creations /\ request[o].at = "idle" => ~memory[o].exists
    BY <2>1 DEF AccountInv
  <2> QED  BY <1>1, <1>2, <2>1, <2>2, AccountStays
<1>4. \A o \in Accounts!Requests : AccountInv(o, request[o], memory, file, external)'
  BY <1>1, <1>3 DEF AccountInv, Acknowledges
<1>5. \A k \in Accounts!Kinds : OwedInv(k, writes[k], request, memory, file)'
  BY <1>1 DEF OwedInv, AccountsInv
<1> QED  BY <1>1, <1>2, <1>4, <1>5 DEF AccountsInv, AccountTypes, Grows

LEMMA TailFacts ==
  ASSUME NEW S, NEW s \in Seq(S), s # <<>>
  PROVE  /\ Tail(s) \in Seq(S) /\ Head(s) = s[1] /\ 1 \in DOMAIN s /\ s[1] \in S
         /\ \A i \in DOMAIN Tail(s) : i + 1 \in DOMAIN s /\ i \in Nat /\ Tail(s)[i] = s[i + 1]
OBVIOUS

\* A request whose write is done, or failed, and the writes that are still owed
LEMMA OwedBehind ==
  ASSUME AccountsInv, NEW k \in Accounts!Kinds, writes[k] # <<>>,
         NEW q, NEW stored,
         \A o \in Accounts!Requests : q[o].row = request[o].row /\ (q[o].at = request[o].at \/ q[o].at \in {"done", "refused"}),
         \A x \in Creations : k = "projects" /\ kind[x] = k /\ stored[x].exists =>
           \/ x \in Head(writes[k]).rows
           \/ file[x].exists
  PROVE  OwedInv(k, Tail(writes[k]), q, memory, stored)
<1>1. OwedInv(k, writes[k], request, memory, file) /\ writes[k] \in Seq(Entry)
  BY DEF AccountsInv, AccountTypes
<1>2. /\ Tail(writes[k]) \in Seq(Entry) /\ Head(writes[k]) = writes[k][1] /\ 1 \in DOMAIN writes[k]
      /\ \A i \in DOMAIN Tail(writes[k]) :
           i + 1 \in DOMAIN writes[k] /\ i \in Nat /\ Tail(writes[k])[i] = writes[k][i + 1]
  BY <1>1, TailFacts
<1>3. \A i \in DOMAIN writes[k] : writes[k][i] \in Entry
  BY <1>1
<1>4. ASSUME NEW i \in DOMAIN Tail(writes[k])
      PROVE  /\ Tail(writes[k])[i].rows \subseteq {x \in Creations : kind[x] = k /\ memory[x].exists}
             /\ q[Tail(writes[k])[i].by].at \notin {"idle", "provisioning"}
             /\ q[Tail(writes[k])[i].by].at = "saving" =>
                  kind[q[Tail(writes[k])[i].by].row] = k /\ q[Tail(writes[k])[i].by].row \in Tail(writes[k])[i].rows
  <2> DEFINE w == Tail(writes[k])[i]
  <2>1. w = writes[k][i + 1] /\ i + 1 \in DOMAIN writes[k] /\ w \in Entry
    BY <1>2, <1>3
  <2> HIDE DEF w
  <2>2. /\ w.rows \subseteq {x \in Creations : kind[x] = k /\ memory[x].exists}
        /\ request[w.by].at \notin {"idle", "provisioning"}
        /\ request[w.by].at = "saving" => kind[request[w.by].row] = k /\ request[w.by].row \in w.rows
    BY <1>1, <2>1 DEF OwedInv
  <2>3. w.by \in Accounts!Requests
    BY <2>1 DEF Entry
  <2> QED  BY <2>2, <2>3 DEF w
<1>5. ASSUME NEW i \in DOMAIN Tail(writes[k]), k = "projects"
      PROVE  /\ \A x \in Creations : kind[x] = k /\ stored[x].exists => x \in Tail(writes[k])[i].rows
             /\ \A j \in DOMAIN Tail(writes[k]) : i <= j => Tail(writes[k])[i].rows \subseteq Tail(writes[k])[j].rows
  <2>1. i + 1 \in DOMAIN writes[k] /\ i \in Nat /\ Tail(writes[k])[i] = writes[k][i + 1]
    BY <1>2
  <2>2. writes[k][1].rows \subseteq writes[k][i + 1].rows
    BY <1>1, <1>2, <1>5, <2>1 DEF OwedInv
  <2>3. \A x \in Creations : kind[x] = k /\ file[x].exists => x \in writes[k][i + 1].rows
    BY <1>1, <1>5, <2>1 DEF OwedInv
  <2>4. \A j \in DOMAIN Tail(writes[k]) : i <= j => writes[k][i + 1].rows \subseteq Tail(writes[k])[j].rows
    BY <1>1, <1>2, <1>5, <2>1 DEF OwedInv
  <2> QED  BY <1>2, <1>5, <2>1, <2>2, <2>3, <2>4
<1> QED  BY <1>4, <1>5 DEF OwedInv

LEMMA WriteKeeps ==
  ASSUME AccountsInv, NEW k \in Accounts!Kinds, Accounts!Write(k)
  PROVE  AccountsInv'
<1> DEFINE r == Head(writes[k]).by
           written == Accounts!Written(k)
<1>1. /\ writes[k] # <<>> /\ UNCHANGED <<kind, memory, external>>
      /\ request' = IF request[r].at = "saving" THEN [request EXCEPT ![r].at = "done"] ELSE request
      /\ file' = [x \in Creations |-> IF kind[x] # k THEN file[x] ELSE IF x \in written THEN memory[x] ELSE Accounts!NoRow]
      /\ writes' = [writes EXCEPT ![k] = Tail(writes[k])]
  BY DEF Accounts!Write, Accounts!Is, Accounts!Answer
<1>2. writes \in [Accounts!Kinds -> Seq(Entry)] /\ OwedInv(k, writes[k], request, memory, file)
      /\ request \in [Accounts!Requests -> [at : Places, row : Creations \cup {None}]]
      /\ memory \in [Creations -> Accounts!Rows] /\ file \in [Creations -> Accounts!Rows]
  BY DEF AccountsInv, AccountTypes
<1>3. writes[k] \in Seq(Entry) /\ Tail(writes[k]) \in Seq(Entry) /\ Head(writes[k]) = writes[k][1] /\ 1 \in DOMAIN writes[k]
      /\ Head(writes[k]) \in Entry
  BY <1>1, <1>2, TailFacts
<1>4. r \in Accounts!Requests
  BY <1>3 DEF Entry
<1>5. /\ request[r].at = "saving" => kind[request[r].row] = k /\ request[r].row \in Head(writes[k]).rows
      /\ \A x \in Head(writes[k]).rows : x \in Creations /\ memory[x].exists
      /\ k = "projects" => \A x \in Creations : kind[x] = k /\ file[x].exists => x \in Head(writes[k]).rows
  BY <1>2, <1>3 DEF OwedInv
<1>6. /\ \A x \in written : x \in Creations /\ memory[x].exists
      /\ \A x \in Creations : kind[x] = k /\ file[x].exists => x \in written
      /\ request[r].at = "saving" => kind[request[r].row] = k /\ request[r].row \in written
      /\ k = "projects" => written = Head(writes[k]).rows
  <2>1. CASE k = "projects"
    BY <1>5, <2>1 DEF Accounts!Written
  <2>2. CASE k # "projects"
    <3>1. written = {x \in Creations : kind[x] = k /\ memory[x].exists}
      BY <2>2 DEF Accounts!Written
    <3>2. \A x \in Creations : file[x].exists => memory[x].exists
      BY DEF AccountsInv, Grows
    <3> HIDE DEF written
    <3> QED  BY <1>5, <2>2, <3>1, <3>2
  <2> QED  BY <2>1, <2>2
<1>7. /\ request' \in [Accounts!Requests -> [at : Places, row : Creations \cup {None}]]
      /\ \A o \in Accounts!Requests : o # r => request'[o] = request[o]
      /\ request'[r].row = request[r].row
      /\ request'[r].at = IF request[r].at = "saving" THEN "done" ELSE request[r].at
      /\ request[r].at # "saving" => request'[r] = request[r]
  <2> HIDE DEF r
  <2>1. request[r] \in [at : Places, row : Creations \cup {None}]
    BY <1>2, <1>4
  <2>2. CASE request[r].at = "saving"
    <3> DEFINE e == [request[r] EXCEPT !.at = "done"]
    <3>1. e \in [at : Places, row : Creations \cup {None}] /\ e.at = "done" /\ e.row = request[r].row
      BY <2>1 DEF Places
    <3>2. request' = [request EXCEPT ![r] = e]
      BY <1>1, <1>2, <1>4, <2>2
    <3> HIDE DEF e
    <3> QED  BY <1>2, <1>4, <2>2, <3>1, <3>2
  <2>3. CASE request[r].at # "saving"
    BY <1>1, <1>2, <1>4, <2>3
  <2> QED  BY <2>2, <2>3
<1> HIDE DEF r, written
<1>8. file' \in [Creations -> Accounts!Rows]
  BY <1>1, <1>2, RowFacts
<1>9. /\ \A x \in Creations : kind[x] # k => file'[x] = file[x]
      /\ \A x \in Creations : kind[x] = k /\ x \in written => file'[x] = memory[x]
      /\ \A x \in Creations : kind[x] = k /\ x \notin written => file'[x] = Accounts!NoRow
  BY <1>1
<1>10. Grows(file', memory, external, external) /\ Grows(file, file', external, external)
  BY <1>6, <1>9, RowFacts DEF AccountsInv, Grows
<1>11. \A x \in Creations : file'[x].repository \in external \cup {None}
  BY <1>9, RowFacts DEF AccountsInv
<1>12. \A o \in Accounts!Requests : AccountInv(o, request'[o], memory, file', external)
  <2>1. ASSUME NEW o \in Accounts!Requests, request'[o] = request[o]
        PROVE  AccountInv(o, request'[o], memory, file', external)
    <3>1. AccountInv(o, request[o], memory, file, external) /\ request[o] \in [at : Places, row : Creations \cup {None}]
      BY <1>2 DEF AccountsInv
    <3>2. o \in Creations /\ request[o].at = "idle" => ~memory[o].exists
      BY <3>1 DEF AccountInv
    <3>3. Grows(memory, memory, external, external)
      BY DEF Grows
    <3> QED  BY <1>1, <1>10, <2>1, <3>1, <3>2, <3>3, AccountStays
  <2>2. CASE request[r].at = "saving"
    <3>1. AccountInv(r, request[r], memory, file, external)
      BY <1>4 DEF AccountsInv
    <3>2. request[r].row \in Creations /\ file'[request[r].row] = memory[request[r].row]
      BY <1>6, <1>9, <2>2
    <3>3. request'[r].at = "done" /\ request'[r].row = request[r].row
      BY <1>7, <2>2
    <3>4. AccountInv(r, request'[r], memory, file', external)
      BY <2>2, <3>1, <3>2, <3>3 DEF AccountInv
    <3> QED  BY <1>7, <2>1, <3>4
  <2> QED  BY <1>7, <2>1, <2>2
<1>13. ASSUME NEW l \in Accounts!Kinds
       PROVE  OwedInv(l, writes'[l], request', memory, file')
  <2>1. CASE l = k
    <3>1. \A x \in Creations : k = "projects" /\ kind[x] = k /\ file'[x].exists => x \in Head(writes[k]).rows
      BY <1>6, <1>9, RowFacts
    <3> QED  BY <1>1, <1>2, <1>7, <2>1, <3>1, OwedBehind
  <2>2. CASE l # k
    <3>1. OwedInv(l, writes[l], request, memory, file) /\ writes'[l] = writes[l] /\ writes[l] \in Seq(Entry)
      BY <1>1, <1>2, <2>2 DEF AccountsInv
    <3>2. \A i \in DOMAIN writes[l] : writes[l][i] \in Entry
      BY <3>1
    <3>3. \A i \in DOMAIN writes[l] :
            /\ request'[writes[l][i].by].row = request[writes[l][i].by].row
            /\ request'[writes[l][i].by].at \in {request[writes[l][i].by].at, "done"}
      BY <1>7, <3>2 DEF Entry
    <3>4. \A x \in Creations : kind[x] = l => file'[x] = file[x]
      BY <1>9, <2>2
    <3> QED  BY <3>1, <3>3, <3>4 DEF OwedInv
  <2> QED  BY <2>1, <2>2
<1>14. AccountTypes'
  BY <1>1, <1>2, <1>3, <1>7, <1>8 DEF AccountsInv, AccountTypes
<1>15. \A o \in Accounts!Requests : AccountInv(o, request[o], memory, file, external)'
  BY <1>1, <1>12 DEF AccountInv, Acknowledges
<1>16. \A l \in Accounts!Kinds : OwedInv(l, writes[l], request, memory, file)'
  <2> TAKE l \in Accounts!Kinds
  <2>1. memory' = memory /\ kind' = kind
    BY <1>1
  <2>2. OwedInv(l, writes'[l], request', memory, file')
    BY <1>13
  <2> QED  BY <2>1, <2>2 DEF OwedInv
<1> QED  BY <1>1, <1>10, <1>11, <1>14, <1>15, <1>16 DEF AccountsInv, Grows

LEMMA ReloadedKeeps ==
  ASSUME AccountsInv, Accounts!Reloaded, UNCHANGED <<kind, file, external>>
  PROVE  AccountsInv'
<1> DEFINE lost == [o \in Accounts!Requests |-> [request[o] EXCEPT !.at = "lost"]]
<1>1. /\ memory' = file /\ writes' = [k \in Accounts!Kinds |-> <<>>]
      /\ request' = [o \in Accounts!Requests |-> IF request[o].at \in {"idle", "done", "refused"} THEN request[o]
                                                 ELSE lost[o]]
  BY DEF Accounts!Reloaded
<1>2. \A o \in Accounts!Requests : request[o] \in [at : Places, row : Creations \cup {None}]
  BY DEF AccountsInv, AccountTypes
<1>3. \A o \in Accounts!Requests : lost[o] \in [at : Places, row : Creations \cup {None}] /\ lost[o].at = "lost"
  BY <1>2 DEF Places
<1> HIDE DEF lost
<1>4. AccountTypes'
  <2>1. writes' \in [Accounts!Kinds -> Seq(Entry)]
    BY <1>1
  <2>2. request' \in [Accounts!Requests -> [at : Places, row : Creations \cup {None}]]
    BY <1>1, <1>2, <1>3
  <2> QED  BY <1>1, <2>1, <2>2 DEF AccountsInv, AccountTypes
<1>5. \A o \in Accounts!Requests : AccountInv(o, request'[o], file, file, external)
  <2> TAKE o \in Accounts!Requests
  <2>1. AccountInv(o, request[o], memory, file, external)
    BY DEF AccountsInv
  <2>2. CASE request[o].at \in {"idle", "done", "refused"}
    <3>1. request'[o] = request[o]
      BY <1>1, <2>2
    <3>2. o \in Creations /\ request[o].at = "idle" => ~file[o].exists
      BY <2>1 DEF AccountInv, AccountsInv, Grows
    <3> QED  BY <2>1, <2>2, <3>1, <3>2 DEF AccountInv
  <2>3. CASE request[o].at \notin {"idle", "done", "refused"}
    <3>1. request'[o].at = "lost"
      BY <1>1, <1>3, <2>3
    <3> QED  BY <3>1 DEF AccountInv
  <2> QED  BY <2>2, <2>3
<1>6. \A o \in Accounts!Requests : AccountInv(o, request[o], memory, file, external)'
  BY <1>1, <1>5 DEF AccountInv, Acknowledges
<1>7. \A k \in Accounts!Kinds : OwedInv(k, writes[k], request, memory, file)'
  BY <1>1 DEF OwedInv
<1>8. Grows(file', memory', external', external')
  BY <1>1 DEF Grows
<1>9. \A x \in Creations : memory'[x].repository \in external' \cup {None} /\ file'[x].repository \in external' \cup {None}
  BY <1>1 DEF AccountsInv
<1> QED  BY <1>4, <1>6, <1>7, <1>8, <1>9 DEF AccountsInv, Grows

LEMMA WriteFailsKeeps ==
  ASSUME AccountsInv, NEW k \in Accounts!Kinds, Accounts!WriteFails(k)
  PROVE  AccountsInv'
<1> DEFINE r == Head(writes[k]).by
           q == [request[r] EXCEPT !.at = "refused"]
<1>1. writes[k] # <<>> /\ UNCHANGED <<kind, file, external>>
  BY DEF Accounts!WriteFails
<1>2. CASE request[r].at # "saving"
  BY <1>1, <1>2, ReloadedKeeps DEF Accounts!WriteFails, Accounts!Is
<1>3. CASE request[r].at = "saving"
  <2>1. /\ UNCHANGED <<kind, file, external, memory>>
        /\ request' = [request EXCEPT ![r].at = "refused"]
        /\ writes' = [writes EXCEPT ![k] = Tail(writes[k])]
    BY <1>3 DEF Accounts!WriteFails, Accounts!Is, Accounts!Answer
  <2>2. writes \in [Accounts!Kinds -> Seq(Entry)]
        /\ request \in [Accounts!Requests -> [at : Places, row : Creations \cup {None}]]
    BY DEF AccountsInv, AccountTypes
  <2>3. Tail(writes[k]) \in Seq(Entry) /\ Head(writes[k]) \in Entry
    BY <1>1, <2>2, TailFacts
  <2>4. r \in Accounts!Requests
    BY <2>3 DEF Entry
  <2> HIDE DEF r
  <2>5. q \in [at : Places, row : Creations \cup {None}] /\ q.at = "refused" /\ q.row = request[r].row
    <3>1. request[r] \in [at : Places, row : Creations \cup {None}]
      BY <2>2, <2>4
    <3> QED  BY <3>1 DEF Places
  <2>6. request' = [request EXCEPT ![r] = q]
    BY <2>1, <2>2, <2>4
  <2> HIDE DEF q
  <2>7. /\ request' \in [Accounts!Requests -> [at : Places, row : Creations \cup {None}]]
        /\ request'[r] = q /\ \A o \in Accounts!Requests \ {r} : request'[o] = request[o]
    BY <2>2, <2>4, <2>5, <2>6
  <2>8. \A o \in Accounts!Requests : AccountInv(o, request'[o], memory, file, external)
    <3>1. AccountInv(r, q, memory, file, external)
      <4>1. AccountInv(r, request[r], memory, file, external)
        BY <2>4 DEF AccountsInv
      <4> QED  BY <2>5, <4>1 DEF AccountInv
    <3> QED  BY <2>7, <3>1 DEF AccountsInv
  <2>9. \A o \in Accounts!Requests : request'[o].row = request[o].row
                                     /\ (request'[o].at = request[o].at \/ request'[o].at \in {"done", "refused"})
    BY <2>5, <2>7
  <2>10. ASSUME NEW l \in Accounts!Kinds
         PROVE  OwedInv(l, writes'[l], request', memory, file)
    <3>1. CASE l = k
      <4>1. \A x \in Creations : k = "projects" /\ kind[x] = k /\ file[x].exists =>
              x \in Head(writes[k]).rows \/ file[x].exists
        OBVIOUS
      <4>2. writes'[k] = Tail(writes[k])
        BY <2>1, <2>2
      <4> QED  BY <1>1, <2>9, <3>1, <4>1, <4>2, OwedBehind
    <3>2. CASE l # k
      <4>1. OwedInv(l, writes[l], request, memory, file) /\ writes'[l] = writes[l] /\ writes[l] \in Seq(Entry)
        BY <2>1, <2>2, <3>2 DEF AccountsInv
      <4>2. \A i \in DOMAIN writes[l] : writes[l][i] \in Entry
        BY <4>1
      <4>3. \A i \in DOMAIN writes[l] :
              /\ request'[writes[l][i].by].row = request[writes[l][i].by].row
              /\ request'[writes[l][i].by].at \in {request[writes[l][i].by].at, "done", "refused"}
        BY <2>9, <4>2 DEF Entry
      <4> QED  BY <4>1, <4>3 DEF OwedInv
    <3> QED  BY <3>1, <3>2
  <2>11. AccountTypes'
    BY <2>1, <2>2, <2>3, <2>7 DEF AccountsInv, AccountTypes
  <2>12. \A o \in Accounts!Requests : AccountInv(o, request[o], memory, file, external)'
    BY <2>1, <2>8 DEF AccountInv, Acknowledges
  <2>13. \A l \in Accounts!Kinds : OwedInv(l, writes[l], request, memory, file)'
    <3> TAKE l \in Accounts!Kinds
    <3>1. memory' = memory /\ kind' = kind /\ file' = file
      BY <2>1
    <3>2. OwedInv(l, writes'[l], request', memory, file)
      BY <2>10
    <3> QED  BY <3>1, <3>2 DEF OwedInv
  <2> QED  BY <2>1, <2>11, <2>12, <2>13 DEF AccountsInv, Grows
<1> QED  BY <1>2, <1>3

LEMMA AccountsInitially ==
  ASSUME Accounts!Init
  PROVE  AccountsInv
<1>1. /\ kind \in [Creations -> Accounts!Kinds]
      /\ memory = [x \in Creations |-> Accounts!NoRow] /\ file = memory
      /\ writes = [k \in Accounts!Kinds |-> <<>>]
      /\ request = [o \in Accounts!Requests |-> [at |-> "idle", row |-> None]]
      /\ external = {}
  BY DEF Accounts!Init
<1>2. \A x \in Creations : memory[x] = Accounts!NoRow /\ ~memory[x].exists /\ file[x] = memory[x]
  BY <1>1, RowFacts
<1>3. AccountTypes
  BY <1>1, RowFacts DEF AccountTypes, Places
<1>4. \A o \in Accounts!Requests : AccountInv(o, request[o], memory, file, external)
  BY <1>1, <1>2 DEF AccountInv
<1>5. \A k \in Accounts!Kinds : OwedInv(k, writes[k], request, memory, file)
  BY <1>1 DEF OwedInv
<1> QED  BY <1>2, <1>3, <1>4, <1>5, RowFacts DEF AccountsInv, Grows

LEMMA AccountsKeep ==
  ASSUME AccountsInv, [Accounts!Next]_(Accounts!vars)
  PROVE  AccountsInv'
<1>1. ASSUME NEW r \in Creations, Accounts!Create(r)
      PROVE  AccountsInv'
  BY <1>1, CreateKeeps
<1>2. ASSUME NEW r \in Changes, NEW row \in Creations, Accounts!Revoke(r, row)
      PROVE  AccountsInv'
  BY <1>2, RevokeKeeps
<1>3. ASSUME NEW r \in Changes, NEW row \in Creations, Accounts!Provision(r, row)
      PROVE  AccountsInv'
  <2>1. CASE memory[row].exists
    BY <1>3, <2>1, ChangeMoves DEF Accounts!Provision, Accounts!Is
  <2>2. CASE ~memory[row].exists
    BY <1>3, <2>2, ChangeMoves DEF Accounts!Provision, Accounts!Is
  <2> QED  BY <2>1, <2>2
<1>4. ASSUME NEW r \in Changes, Accounts!Provisioned(r) \/ Accounts!Attach(r)
      PROVE  AccountsInv'
  BY <1>4, ProvisionedKeeps, AttachKeeps
<1>5. ASSUME NEW r \in Changes, Accounts!ProvisionFails(r)
      PROVE  AccountsInv'
  <2>1. /\ r \in Accounts!Requests /\ request[r].at = "provisioning"
        /\ request \in [Accounts!Requests -> [at : Places, row : Creations \cup {None}]]
        /\ request' = [request EXCEPT ![r].at = "refused"]
        /\ UNCHANGED <<kind, memory, file, writes, external>>
    BY <1>5 DEF Accounts!ProvisionFails, Accounts!Is, Accounts!Answer, Accounts!Requests, AccountsInv, AccountTypes
  <2> DEFINE q == [request[r] EXCEPT !.at = "refused"]
  <2>2. q \in [at : Places, row : Creations \cup {None}] /\ q.at = "refused"
    <3>1. request[r] \in [at : Places, row : Creations \cup {None}]
      BY <2>1
    <3> QED  BY <3>1 DEF Places
  <2>3. request' = [request EXCEPT ![r] = q]
    BY <2>1
  <2> HIDE DEF q
  <2>4. AccountInv(r, q, memory, file, external)
    BY <2>2 DEF AccountInv
  <2> QED  BY <2>1, <2>2, <2>3, <2>4, RequestMoves
<1>6. ASSUME NEW k \in Accounts!Kinds, Accounts!Write(k) \/ Accounts!WriteFails(k)
      PROVE  AccountsInv'
  BY <1>6, WriteKeeps, WriteFailsKeeps
<1>7. CASE Accounts!Crash
  BY <1>7, ReloadedKeeps DEF Accounts!Crash
<1>8. CASE UNCHANGED Accounts!vars
  BY <1>8 DEF AccountsInv, AccountTypes, AccountInv, Acknowledges, OwedInv, Grows, Accounts!vars
<1> QED  BY <1>1, <1>2, <1>3, <1>4, <1>5, <1>6, <1>7, <1>8 DEF Accounts!Next

\* A user, a key, a revocation or a repository that a registry acknowledged is in its
\* memory and in its file, whatever writes fail and whatever processes die
\* (customer-saas-control-plane-v3.80.js:5-37): for any number of requests.
THEOREM AcknowledgedKept == Accounts!Spec => []AcknowledgedIsKept
<1>1. AccountsInv => AcknowledgedIsKept
  <2> SUFFICES ASSUME AccountsInv, NEW r \in Accounts!Requests, request[r].at = "done", Acknowledges(r)
               PROVE  Accounts!Holds(memory, r) /\ Accounts!Holds(file, r)
    BY DEF AcknowledgedIsKept, Accounts!AcknowledgedIsKept, Accounts!Is, Acknowledges
  <2>1. /\ Holding(memory[request[r].row], kind[request[r].row], r, external)
        /\ Holding(file[request[r].row], kind[request[r].row], r, external)
    BY DEF AccountsInv, AccountInv
  <2> QED  BY <2>1 DEF Holding, Accounts!Holds
<1> QED  BY <1>1, AccountsInitially, AccountsKeep, PTL DEF Accounts!Spec

-----------------------------------------------------------------------------
(* The memory of conversations                                             *)

\* The requirements that a state may have
Lists == {list \in Seq(Messages) : Len(list) <= MaxRequirements}
State == [project : Topics \cup {NoTopic}, requirements : Lists]
Record == [key : Topics, state : State]
OneEach(db) == \A i, j \in DOMAIN db : db[i].key = db[j].key => i = j

\* A project's record holds what was asked for
Has(db, key, asked) ==
  \E i \in DOMAIN db : db[i].key = key /\ Chat!GoesOn(db[i].state.requirements, asked)

\* A list goes on where it ends, and a list that went on still does when one
\* requirement more is asked
LEMMA GrownList ==
  ASSUME NEW list \in Lists, NEW r \in Messages
  PROVE  /\ Chat!Latest(Append(list, r)) \in Lists
         /\ Chat!GoesOn(list, list)
         /\ \A asked \in Lists : Chat!GoesOn(list, asked) => Chat!GoesOn(Chat!Latest(Append(list, r)), asked)
<1> DEFINE all == Append(list, r)
           grown == Chat!Latest(all)
           k == Len(list)
<1>1. /\ MaxRequirements \in Nat /\ MaxRequirements >= 1 /\ k \in Nat /\ k <= MaxRequirements
      /\ list \in Seq(Messages) /\ all \in Seq(Messages) /\ Len(all) = k + 1
      /\ all[k + 1] = r /\ \A i \in 1 .. k : all[i] = list[i]
  BY PartsAssumption DEF Lists
<1>2. /\ Tail(all) \in Seq(Messages) /\ Len(Tail(all)) = k
      /\ \A i \in 1 .. k : Tail(all)[i] = all[i + 1]
  BY <1>1
<1>3. grown = IF Len(all) > MaxRequirements THEN Tail(all) ELSE all
  BY DEF Chat!Latest
<1> HIDE DEF all, grown
<1>4. grown \in Lists
  BY <1>1, <1>2, <1>3 DEF Lists
<1>5. Chat!GoesOn(list, list)
  <2>1. 0 \in 0 .. Len(list) /\ \A i \in 1 .. (Len(list) - 0) : i <= Len(list) /\ list[i] = list[0 + i]
    BY <1>1
  <2> QED  BY <2>1 DEF Chat!GoesOn
<1>6. ASSUME NEW asked \in Lists, Chat!GoesOn(list, asked)
      PROVE  Chat!GoesOn(grown, asked)
  <2> DEFINE m == Len(asked)
  <2>0. m \in Nat
    BY DEF Lists
  <2>1. PICK n \in 0 .. m : /\ n > 0 => k = MaxRequirements
                            /\ \A i \in 1 .. (m - n) : i <= k /\ list[i] = asked[n + i]
    BY <1>6 DEF Chat!GoesOn
  <2>2. CASE k < MaxRequirements
    <3>1. n = 0 /\ grown = all
      BY <1>1, <1>3, <2>0, <2>1, <2>2
    <3>2. \A i \in 1 .. (m - 0) : i <= Len(grown) /\ grown[i] = asked[0 + i]
      BY <1>1, <2>0, <2>1, <3>1
    <3> QED  BY <2>0, <3>2 DEF Chat!GoesOn
  <2>3. CASE ~(k < MaxRequirements)
    <3>1. k = MaxRequirements /\ grown = Tail(all) /\ Len(grown) = MaxRequirements
      BY <1>1, <1>2, <1>3, <2>3
    <3>2. CASE n = m
      <4>1. \A i \in 1 .. (m - n) : FALSE
        BY <2>0, <3>2
      <4>2. n > 0 => Len(grown) = MaxRequirements
        BY <3>1
      <4> QED  BY <4>1, <4>2 DEF Chat!GoesOn
    <3>3. CASE n # m
      <4>1. n + 1 \in 0 .. m
        BY <2>0, <2>1, <3>3
      <4>2. ASSUME NEW i \in 1 .. (m - (n + 1))
            PROVE  i <= Len(grown) /\ grown[i] = asked[(n + 1) + i]
        <5>1. i \in Nat /\ i + 1 \in 1 .. (m - n) /\ n \in Nat /\ n + (i + 1) = (n + 1) + i
          BY <2>0, <2>1, <4>2
        <5>2. i + 1 <= k /\ list[i + 1] = asked[n + (i + 1)]
          BY <2>1, <5>1
        <5>3. i \in 1 .. k /\ i + 1 \in 1 .. k
          BY <1>1, <4>2, <5>1, <5>2
        <5>4. grown[i] = all[i + 1] /\ all[i + 1] = list[i + 1]
          BY <1>1, <1>2, <3>1, <5>3
        <5> QED  BY <1>1, <3>1, <5>1, <5>2, <5>3, <5>4
      <4>3. n + 1 > 0 => Len(grown) = MaxRequirements
        BY <3>1
      <4> QED  BY <4>1, <4>2, <4>3 DEF Chat!GoesOn
    <3> QED  BY <3>2, <3>3
  <2> QED  BY <2>2, <2>3
<1> QED  BY <1>4, <1>5, <1>6 DEF all, grown

LEMMA RemoveAtFacts ==
  ASSUME NEW S, NEW s \in Seq(S), NEW i \in DOMAIN s
  PROVE  LET t == Chat!RemoveAt(s, i)
         IN  /\ t \in Seq(S) /\ Len(t) = Len(s) - 1
             /\ \A j \in DOMAIN t : t[j] = IF j < i THEN s[j] ELSE s[j + 1]
<1> DEFINE a == SubSeq(s, 1, i - 1)
           b == SubSeq(s, i + 1, Len(s))
<1>1. i \in Nat /\ i >= 1 /\ i <= Len(s) /\ Len(s) \in Nat
  OBVIOUS
<1>2. a \in Seq(S) /\ Len(a) = i - 1 /\ \A j \in 1 .. (i - 1) : a[j] = s[j]
  BY <1>1, SubSeqProperties
<1>3. b \in Seq(S) /\ Len(b) = Len(s) - i /\ \A j \in 1 .. (Len(s) - i) : b[j] = s[i + j]
  BY <1>1, SubSeqProperties
<1> HIDE DEF a, b
<1>4. a \o b \in Seq(S) /\ Len(a \o b) = Len(s) - 1
      /\ \A j \in 1 .. (Len(s) - 1) : (a \o b)[j] = IF j < i THEN s[j] ELSE s[j + 1]
  <2>1. a \o b \in Seq(S) /\ Len(a \o b) = Len(s) - 1
    BY <1>1, <1>2, <1>3
  <2>2. ASSUME NEW j \in 1 .. (Len(s) - 1)
        PROVE  (a \o b)[j] = IF j < i THEN s[j] ELSE s[j + 1]
    <3>1. CASE j < i
      BY <1>1, <1>2, <1>3, <3>1
    <3>2. CASE ~(j < i)
      <4>1. (a \o b)[j] = b[j - Len(a)]
        <5>1. j \in 1 .. (Len(a) + Len(b)) /\ ~(j <= Len(a))
          BY <1>1, <1>2, <1>3, <3>2
        <5> QED  BY <1>2, <1>3, <5>1, ConcatProperties
      <4>3. j - Len(a) \in 1 .. (Len(s) - i)
        BY <1>1, <1>2, <1>3, <3>2
      <4>2. i + (j - Len(a)) = j + 1
        BY <1>1, <1>2
      <4> QED  BY <1>3, <3>2, <4>1, <4>2, <4>3
    <3> QED  BY <3>1, <3>2
  <2> QED  BY <2>1, <2>2
<1>5. Chat!RemoveAt(s, i) = a \o b
  BY DEF Chat!RemoveAt, a, b
<1>6. DOMAIN (a \o b) = 1 .. (Len(s) - 1)
  BY <1>1, <1>4
<1> QED  BY <1>4, <1>5, <1>6

LEMMA PlaceFacts ==
  ASSUME NEW db, NEW key, Chat!Holds(db, key)
  PROVE  Chat!Place(db, key) \in DOMAIN db /\ db[Chat!Place(db, key)].key = key
BY DEF Chat!Holds, Chat!Place

\* What writing a record does to the file: the record is in it, and another project's
\* record stays, unless the file was full and it is trimmed; and nothing else is in it
LEMMA PutResult ==
  ASSUME NEW db \in Seq(Record), OneEach(db), NEW record \in Record
  PROVE  LET new == Chat!Put(db, record)
         IN  /\ new \in Seq(Record) /\ OneEach(new)
             /\ \E j \in DOMAIN new : new[j] = record
             /\ \A i \in DOMAIN db : db[i].key # record.key =>
                  \/ \E j \in DOMAIN new : new[j] = db[i]
                  \/ Len(db) >= MaxRecords /\ ~Chat!Holds(new, db[i].key)
             /\ Len(new) <= MaxRecords
             /\ \A j \in DOMAIN new : new[j] = record \/ \E i \in DOMAIN db : new[j] = db[i]
<1> DEFINE place == Chat!Place(db, record.key)
           others == IF Chat!Holds(db, record.key) THEN Chat!RemoveAt(db, place) ELSE db
           all == Append(others, record)
           n == Len(others)
<1>1. /\ others \in Seq(Record) /\ n \in Nat /\ n <= Len(db) /\ Len(db) \in Nat
      /\ \A i \in DOMAIN db : db[i].key # record.key => \E j \in 1 .. n : others[j] = db[i]
      /\ \A j \in 1 .. n : others[j].key # record.key /\ \E i \in DOMAIN db : others[j] = db[i]
      /\ \A i, j \in 1 .. n : others[i].key = others[j].key => i = j
  <2>1. CASE ~Chat!Holds(db, record.key)
    <3>1. others = db /\ DOMAIN db = 1 .. Len(db)
      BY <2>1
    <3> QED  BY <2>1, <3>1 DEF Chat!Holds, OneEach
  <2>2. CASE Chat!Holds(db, record.key)
    <3>1. others = Chat!RemoveAt(db, place) /\ place \in DOMAIN db /\ db[place].key = record.key
      BY <2>2, PlaceFacts
    <3> HIDE DEF place, others
    <3>2. /\ others \in Seq(Record) /\ Len(others) = Len(db) - 1 /\ DOMAIN others = 1 .. (Len(db) - 1)
          /\ \A j \in 1 .. (Len(db) - 1) : others[j] = IF j < place THEN db[j] ELSE db[j + 1]
      <4>1. others \in Seq(Record) /\ Len(others) = Len(db) - 1
            /\ \A j \in DOMAIN others : others[j] = IF j < place THEN db[j] ELSE db[j + 1]
        BY <3>1, RemoveAtFacts
      <4>2. DOMAIN others = 1 .. (Len(db) - 1)
        BY <4>1
      <4> QED  BY <4>1, <4>2
    <3>3. place \in Nat /\ 1 <= place /\ place <= Len(db) /\ DOMAIN db = 1 .. Len(db) /\ Len(db) \in Nat
      BY <3>1
    <3>4. \A i \in DOMAIN db : db[i].key # record.key => \E j \in 1 .. n : others[j] = db[i]
      <4> SUFFICES ASSUME NEW i \in DOMAIN db, db[i].key # record.key
                   PROVE  \E j \in 1 .. n : others[j] = db[i]
        OBVIOUS
      <4>1. i # place
        BY <3>1
      <4>2. CASE i < place
        <5>1. i \in 1 .. n /\ others[i] = db[i]
          BY <3>2, <3>3, <4>2
        <5> QED  BY <5>1
      <4>3. CASE i > place
        <5>1. i - 1 \in 1 .. n /\ ~(i - 1 < place) /\ (i - 1) + 1 = i
          BY <3>2, <3>3, <4>3
        <5>2. others[i - 1] = db[i]
          BY <3>2, <5>1
        <5> QED  BY <5>1, <5>2
      <4> QED  BY <3>3, <4>1, <4>2, <4>3
    <3>5. \A j \in 1 .. n : \E i \in DOMAIN db : others[j] = db[i] /\ i # place /\ (i = j \/ i = j + 1)
                                                 /\ (i = j <=> j < place)
      BY <3>2, <3>3
    <3>6. \A j \in 1 .. n : others[j].key # record.key /\ \E i \in DOMAIN db : others[j] = db[i]
      BY <3>1, <3>5 DEF OneEach
    <3>7. \A i, j \in 1 .. n : others[i].key = others[j].key => i = j
      <4> SUFFICES ASSUME NEW i \in 1 .. n, NEW j \in 1 .. n, others[i].key = others[j].key
                   PROVE  i = j
        OBVIOUS
      <4>1. PICK k \in DOMAIN db : others[i] = db[k] /\ (k = i \/ k = i + 1) /\ (k = i <=> i < place)
        BY <3>5
      <4>2. PICK l \in DOMAIN db : others[j] = db[l] /\ (l = j \/ l = j + 1) /\ (l = j <=> j < place)
        BY <3>5
      <4>3. k = l
        BY <4>1, <4>2 DEF OneEach
      <4> QED  BY <3>3, <4>1, <4>2, <4>3
    <3> QED  BY <3>2, <3>3, <3>4, <3>6, <3>7
  <2> QED  BY <2>1, <2>2
<1> HIDE DEF others, n
<1>2. /\ all \in Seq(Record) /\ Len(all) = n + 1 /\ all[n + 1] = record
      /\ \A j \in 1 .. n : all[j] = others[j]
  BY <1>1 DEF n
<1> DEFINE new == Chat!Put(db, record)
           shift == IF n + 1 > MaxRecords THEN n + 1 - MaxRecords ELSE 0
<1>3. new = IF Len(all) > MaxRecords THEN SubSeq(all, Len(all) - MaxRecords + 1, Len(all)) ELSE all
  BY DEF Chat!Put, others
<1>4. MaxRecords \in Nat /\ MaxRecords >= 1
  BY PartsAssumption
<1> HIDE DEF all, new
<1>5. /\ shift \in Nat /\ shift <= n /\ new \in Seq(Record) /\ Len(new) = n + 1 - shift
      /\ \A j \in 1 .. (n + 1 - shift) : new[j] = all[j + shift]
      /\ shift > 0 => Len(db) >= MaxRecords
      /\ n + 1 - shift <= MaxRecords
  <2>1. CASE n + 1 > MaxRecords
    <3>1. shift = n + 1 - MaxRecords /\ shift \in Nat /\ shift <= n /\ shift > 0 /\ Len(db) >= MaxRecords
      BY <1>1, <1>4, <2>1
    <3>5. n + 1 - shift <= MaxRecords
      BY <1>1, <1>4, <3>1
    <3> HIDE DEF shift
    <3>2. new = SubSeq(all, shift + 1, n + 1)
      <4>1. Len(all) = n + 1
        BY <1>2
      <4>2. Len(all) - MaxRecords + 1 = shift + 1 /\ Len(all) > MaxRecords
        BY <1>1, <1>4, <2>1, <3>1, <4>1
      <4> QED  BY <1>3, <4>1, <4>2
    <3>3. new \in Seq(Record) /\ Len(new) = n + 1 - shift
          /\ \A j \in 1 .. (n + 1 - shift) : new[j] = all[shift + j]
      <4>1. shift + 1 \in Int /\ n + 1 \in Int /\ n \in Nat /\ shift <= n
        BY <1>1, <3>1
      <4>2. \A i \in (shift + 1) .. (n + 1) : all[i] \in Record
        BY <1>2, <3>1, <4>1
      <4>3. /\ new \in Seq(Record) /\ Len(new) = (n + 1) - (shift + 1) + 1
            /\ \A j \in 1 .. ((n + 1) - (shift + 1) + 1) : new[j] = all[(shift + 1) + j - 1]
        BY <3>1, <3>2, <4>1, <4>2, SubSeqProperties
      <4>4. (n + 1) - (shift + 1) + 1 = n + 1 - shift /\ \A j \in Int : (shift + 1) + j - 1 = shift + j
        BY <3>1, <4>1
      <4>5. ASSUME NEW j \in 1 .. (n + 1 - shift)
            PROVE  new[j] = all[shift + j]
        <5>1. j \in 1 .. ((n + 1) - (shift + 1) + 1) /\ (shift + 1) + j - 1 = shift + j
          BY <4>4
        <5>2. new[j] = all[(shift + 1) + j - 1]
          BY <4>3, <5>1
        <5> QED  BY <5>1, <5>2
      <4>6. new \in Seq(Record) /\ Len(new) = n + 1 - shift
        BY <4>3, <4>4
      <4> QED  BY <4>5, <4>6
    <3>4. \A j \in 1 .. (n + 1 - shift) : shift + j = j + shift
      BY <1>1, <3>1
    <3> QED  BY <3>1, <3>3, <3>4, <3>5
  <2>2. CASE ~(n + 1 > MaxRecords)
    <3>1. shift = 0 /\ new = all
      BY <1>2, <1>3, <2>2
    <3> QED  BY <1>1, <1>2, <1>4, <2>2, <3>1
  <2> QED  BY <2>1, <2>2
<1> HIDE DEF shift
<1>6. DOMAIN new = 1 .. (n + 1 - shift)
  BY <1>1, <1>5
<1>7. n + 1 - shift \in DOMAIN new /\ new[n + 1 - shift] = record
  <2>1. n + 1 - shift \in DOMAIN new /\ (n + 1 - shift) + shift = n + 1
    BY <1>1, <1>5, <1>6
  <2> QED  BY <1>2, <1>5, <1>6, <2>1
<1>8. \A j \in DOMAIN new : j \in Nat /\ j + shift \in 1 .. (n + 1) /\ new[j] = all[j + shift]
  BY <1>1, <1>5, <1>6
<1>9. \A i, j \in 1 .. (n + 1) : all[i].key = all[j].key => i = j
  <2>1. /\ n \in Nat
        /\ \A j \in 1 .. n : others[j].key # record.key
        /\ \A i, j \in 1 .. n : others[i].key = others[j].key => i = j
    BY <1>1
  <2> QED  BY <1>2, <2>1
<1>10. OneEach(new)
  <2> SUFFICES ASSUME NEW i \in DOMAIN new, NEW j \in DOMAIN new, new[i].key = new[j].key
               PROVE  i = j
    BY DEF OneEach
  <2>1. i + shift = j + shift
    BY <1>8, <1>9
  <2> QED  BY <1>5, <1>8, <2>1
<1>11. ASSUME NEW i \in DOMAIN db, db[i].key # record.key
       PROVE  \/ \E j \in DOMAIN new : new[j] = db[i]
              \/ Len(db) >= MaxRecords /\ ~Chat!Holds(new, db[i].key)
  <2>1. PICK j \in 1 .. n : others[j] = db[i]
    BY <1>1, <1>11
  <2>2. all[j] = db[i]
    BY <1>2, <2>1
  <2>3. CASE j > shift
    <3>1. j - shift \in DOMAIN new /\ (j - shift) + shift = j
      BY <1>1, <1>5, <1>6, <2>3
    <3>2. new[j - shift] = db[i]
      BY <1>8, <2>2, <3>1
    <3> QED  BY <3>1, <3>2
  <2>4. CASE ~(j > shift)
    <3>1. shift > 0 /\ j \in 1 .. (n + 1)
      BY <1>1, <1>5, <2>4
    <3>2. ASSUME NEW l \in DOMAIN new, new[l].key = db[i].key
          PROVE  FALSE
      <4>1. l + shift = j
        BY <1>8, <1>9, <2>2, <3>1, <3>2
      <4> QED  BY <1>1, <1>5, <1>6, <2>4, <4>1
    <3> QED  BY <1>5, <3>1, <3>2 DEF Chat!Holds
  <2> QED  BY <1>1, <1>5, <2>3, <2>4
<1>12. ASSUME NEW j \in DOMAIN new
       PROVE  new[j] = record \/ \E i \in DOMAIN db : new[j] = db[i]
  <2>1. CASE j + shift = n + 1
    BY <1>2, <1>8, <2>1
  <2>2. CASE j + shift # n + 1
    <3>1. j + shift \in 1 .. n
      <4>1. j + shift \in 1 .. (n + 1) /\ n \in Nat
        BY <1>1, <1>8
      <4> QED  BY <2>2, <4>1
    <3>2. new[j] = others[j + shift]
      BY <1>2, <1>8, <3>1
    <3> QED  BY <1>1, <3>1, <3>2
  <2> QED  BY <2>1, <2>2
<1> QED  BY <1>5, <1>7, <1>10, <1>11, <1>12 DEF new

LEMMA PutFacts ==
  ASSUME NEW db \in Seq(Record), OneEach(db), NEW record \in Record
  PROVE  LET new == Chat!Put(db, record)
         IN  /\ new \in Seq(Record) /\ OneEach(new)
             /\ \E j \in DOMAIN new : new[j] = record
             /\ \A i \in DOMAIN db : db[i].key # record.key =>
                  \/ \E j \in DOMAIN new : new[j] = db[i]
                  \/ Len(db) >= MaxRecords /\ ~Chat!Holds(new, db[i].key)
BY PutResult

Busy == {"context", "understand", "save", "write"}
Turn == [at : Busy \cup {"idle", "answered", "lost"}, id : Topics \cup {NoTopic}, state : State, found : BOOLEAN,
         key : Topics \cup {NoTopic}, db : Seq(Record), kept : BOOLEAN]

ChatTypes ==
  /\ states \in Seq(Record) /\ chat \in [Messages -> Turn]
  /\ beside \in [Messages -> SUBSET Messages] /\ pushedOut \subseteq Topics

\* What a request goes by
TurnInv(q) ==
  /\ q.at \in {"context", "save", "write"} => q.key \in Topics
  /\ q.at \in Busy /\ q.found => q.id = q.key /\ q.key \in Topics
  /\ q.at = "write" => OneEach(q.db)
  /\ q.kept => q.at = "answered" /\ q.key \in Topics

\* No request has been under way beside the one that has q, no record was trimmed and
\* none was written blindly, as q is about its project
Undisturbed(r, q, others, disturbers, out) ==
  /\ q.kept /\ others = {} /\ q.key \notin out
  /\ \A o \in Messages \ {r} : ~(disturbers[o].at = "answered" /\ disturbers[o].key = q.key /\ ~disturbers[o].found)

\* What was asked is in the file and in every copy that will be written over it
Knows(q, key, asked) ==
  /\ q.at \in Busy /\ q.found /\ q.key = key => Chat!GoesOn(q.state.requirements, asked)
  /\ q.at = "write" => Has(q.db, key, asked)
Carried(key, asked, db, requests) ==
  /\ Has(db, key, asked)
  /\ \A o \in Messages : Knows(requests[o], key, asked)

ChatInv ==
  /\ ChatTypes /\ OneEach(states)
  /\ \A r \in Messages : TurnInv(chat[r])
  /\ \A r, o \in Messages : chat[r].at \in Busy /\ chat[o].at \in Busy /\ r # o => o \in beside[r]
  /\ \A r \in Messages : Undisturbed(r, chat[r], beside[r], chat, pushedOut) =>
       Carried(chat[r].key, chat[r].state.requirements, states, chat)

LEMMA IdleTurn ==
  /\ Chat!Idle \in Turn /\ Chat!Idle.at = "idle" /\ Chat!Idle.found = FALSE /\ Chat!Idle.kept = FALSE
  /\ Chat!Idle.key = NoTopic /\ Chat!Idle.db = <<>> /\ Chat!Idle.id = NoTopic
<1>1. <<>> \in Lists
  BY PartsAssumption DEF Lists
<1>2. Chat!Blank \in State
  BY <1>1 DEF State, Chat!Blank
<1>3. <<>> \in Seq(Record)
  OBVIOUS
<1> QED  BY <1>2, <1>3 DEF Chat!Idle, Chat!Unread, Turn, Busy

LEMMA UnderWayIsBusy == \A r \in Messages : r \in Chat!UnderWay <=> chat[r].at \in Busy
BY DEF Chat!UnderWay, Busy

\* A step of a request under way that leaves the file
LEMMA TurnKeeps ==
  ASSUME ChatInv, NEW r \in Messages, NEW q \in Turn,
         chat[r].at \in Busy, chat' = [chat EXCEPT ![r] = q], UNCHANGED <<states, beside, pushedOut>>,
         TurnInv(q), ~q.kept,
         \A p \in Messages : Carried(chat[p].key, chat[p].state.requirements, states, chat) =>
           Knows(q, chat[p].key, chat[p].state.requirements)
  PROVE  ChatInv'
<1>1. chat' \in [Messages -> Turn] /\ chat'[r] = q /\ \A o \in Messages \ {r} : chat'[o] = chat[o]
  BY DEF ChatInv, ChatTypes
<1>2. ChatTypes' /\ OneEach(states)' /\ \A o \in Messages : TurnInv(chat'[o])
  BY <1>1 DEF ChatInv, ChatTypes, OneEach
<1>3. \A p, o \in Messages : chat'[p].at \in Busy /\ chat'[o].at \in Busy /\ p # o => o \in beside'[p]
  BY <1>1 DEF ChatInv
<1>4. ASSUME NEW p \in Messages, Undisturbed(p, chat'[p], beside[p], chat', pushedOut)
      PROVE  Carried(chat'[p].key, chat'[p].state.requirements, states, chat')
  <2>1. p # r /\ chat'[p] = chat[p]
    BY <1>1, <1>4 DEF Undisturbed
  <2>2. Undisturbed(p, chat[p], beside[p], chat, pushedOut)
    BY <1>1, <1>4, <2>1 DEF Undisturbed, Busy
  <2>3. Carried(chat[p].key, chat[p].state.requirements, states, chat)
    BY <2>2 DEF ChatInv
  <2>4. Knows(q, chat[p].key, chat[p].state.requirements)
    BY <2>3
  <2> QED  BY <1>1, <2>1, <2>3, <2>4 DEF Carried
<1>5. \A p \in Messages : Undisturbed(p, chat[p], beside[p], chat, pushedOut)' =>
        Carried(chat[p].key, chat[p].state.requirements, states, chat)'
  BY <1>4 DEF Undisturbed, Carried, Has
<1>6. \A o \in Messages : TurnInv(chat[o])'
  BY <1>2 DEF TurnInv, OneEach
<1> QED  BY <1>2, <1>3, <1>5, <1>6 DEF ChatInv

LEMMA TurnFacts ==
  ASSUME ChatInv, NEW r \in Messages
  PROVE  /\ chat[r] \in Turn /\ TurnInv(chat[r]) /\ chat[r].state \in State /\ chat[r].db \in Seq(Record)
         /\ chat[r].key \in Topics \cup {NoTopic} /\ chat[r].id \in Topics \cup {NoTopic} /\ chat[r].found \in BOOLEAN
         /\ chat[r].at \in Busy => ~chat[r].kept
         /\ states \in Seq(Record) /\ OneEach(states)
         /\ \A key, asked : Carried(key, asked, states, chat) => Knows(chat[r], key, asked) /\ Has(states, key, asked)
<1>1. chat[r] \in Turn /\ TurnInv(chat[r])
  BY DEF ChatInv, ChatTypes
<1>2. chat[r].at \in Busy => ~chat[r].kept
  BY <1>1 DEF TurnInv, Busy
<1>3. chat[r].state \in State /\ chat[r].db \in Seq(Record) /\ chat[r].key \in Topics \cup {NoTopic}
      /\ chat[r].id \in Topics \cup {NoTopic} /\ chat[r].found \in BOOLEAN
  BY <1>1 DEF Turn
<1> QED  BY <1>1, <1>2, <1>3 DEF ChatInv, ChatTypes, Carried

LEMMA ArriveKeeps ==
  ASSUME ChatInv, NEW r \in Messages, Chat!Arrive(r)
  PROVE  ChatInv'
<1>1. PICK id \in Topics \cup {NoTopic}, state \in Chat!Given :
        LET named == IF id # NoTopic THEN id ELSE state.project
        IN  Chat!Set(r, [Chat!Idle EXCEPT !.at = IF named = NoTopic THEN "understand" ELSE "context",
                                          !.id = id, !.key = named, !.state = state])
  BY DEF Chat!Arrive
<1> DEFINE named == IF id # NoTopic THEN id ELSE state.project
           q == [Chat!Idle EXCEPT !.at = IF named = NoTopic THEN "understand" ELSE "context",
                                  !.id = id, !.key = named, !.state = state]
<1>2. state \in State
  <2>1. <<>> \in Lists
    BY PartsAssumption DEF Lists
  <2>2. Chat!Blank \in State
    BY <2>1 DEF State, Chat!Blank
  <2> QED  BY <2>2, TurnFacts DEF Chat!Given
<1>3. named \in Topics \cup {NoTopic}
  BY <1>2 DEF State
<1>4. /\ chat' = [chat EXCEPT ![r] = q] /\ chat[r].at = "idle" /\ UNCHANGED <<states, pushedOut>>
      /\ beside' = [o \in Messages |-> IF o = r THEN Chat!UnderWay
                                       ELSE IF o \in Chat!UnderWay THEN beside[o] \cup {r} ELSE beside[o]]
  BY <1>1 DEF Chat!Arrive, Chat!Set, Chat!Is
<1> HIDE DEF named
<1>5. /\ q \in Turn /\ q.at \in {"context", "understand"} /\ (q.at = "context" => q.key \in Topics)
      /\ q.found = FALSE /\ q.kept = FALSE
  BY <1>2, <1>3, IdleTurn DEF Turn, Busy
<1> HIDE DEF q
<1>6. chat' \in [Messages -> Turn] /\ chat'[r] = q /\ \A o \in Messages \ {r} : chat'[o] = chat[o]
  BY <1>4, <1>5 DEF ChatInv, ChatTypes
<1>7. Chat!UnderWay \subseteq Messages
  BY DEF Chat!UnderWay
<1>8. ChatTypes'
  BY <1>4, <1>6, <1>7 DEF ChatInv, ChatTypes
<1>9. \A o \in Messages : TurnInv(chat'[o])
  BY <1>5, <1>6 DEF ChatInv, TurnInv
<1>10. \A p, o \in Messages : chat'[p].at \in Busy /\ chat'[o].at \in Busy /\ p # o => o \in beside'[p]
  BY <1>4, <1>6, UnderWayIsBusy DEF ChatInv
<1>11. ASSUME NEW p \in Messages, Undisturbed(p, chat'[p], beside'[p], chat', pushedOut)
       PROVE  Carried(chat'[p].key, chat'[p].state.requirements, states, chat')
  <2>1. p # r /\ chat'[p] = chat[p]
    BY <1>5, <1>6, <1>11 DEF Undisturbed
  <2>2. p \notin Chat!UnderWay
    BY <1>11, <2>1, TurnFacts, UnderWayIsBusy DEF Undisturbed
  <2>3. beside'[p] = beside[p]
    BY <1>4, <2>1, <2>2
  <2>4. Undisturbed(p, chat[p], beside[p], chat, pushedOut)
    BY <1>4, <1>6, <1>11, <2>1, <2>3 DEF Undisturbed
  <2>5. Carried(chat[p].key, chat[p].state.requirements, states, chat)
    BY <2>4 DEF ChatInv
  <2> QED  BY <1>5, <1>6, <2>1, <2>5 DEF Carried, Knows
<1>12. \A p \in Messages : Undisturbed(p, chat[p], beside[p], chat, pushedOut)' =>
         Carried(chat[p].key, chat[p].state.requirements, states, chat)'
  BY <1>4, <1>11 DEF Undisturbed, Carried, Has
<1>13. (\A o \in Messages : TurnInv(chat[o])') /\ OneEach(states)'
  BY <1>4, <1>9 DEF TurnInv, OneEach, ChatInv
<1> QED  BY <1>8, <1>10, <1>12, <1>13 DEF ChatInv

LEMMA FoundKeeps ==
  ASSUME ChatInv, NEW r \in Messages, Chat!Found(r)
  PROVE  ChatInv'
<1> DEFINE q0 == chat[r]
           key == q0.key
           place == Chat!Place(states, key)
           q == [q0 EXCEPT !.at = "understand", !.found = TRUE, !.id = key, !.state = states[place].state]
<1>1. /\ q0.at = "context" /\ Chat!Holds(states, key) /\ chat' = [chat EXCEPT ![r] = q]
      /\ UNCHANGED <<states, beside, pushedOut>>
  BY DEF Chat!Found, Chat!Is, Chat!Set, Chat!StateOf
<1>2. q0 \in Turn /\ TurnInv(q0) /\ ~q0.kept /\ key \in Topics /\ states \in Seq(Record) /\ OneEach(states)
  BY <1>1, TurnFacts DEF Busy, TurnInv
<1>3. place \in DOMAIN states /\ states[place].key = key
  BY <1>1, PlaceFacts
<1>4. states[place].state \in State
  <2>1. states[place] \in Record
    BY <1>2, <1>3
  <2> QED  BY <2>1 DEF Record
<1>5. chat[r].at \in Busy
  BY <1>1 DEF Busy
<1> HIDE DEF place, q0, key
<1>6. /\ q \in Turn /\ q.at = "understand" /\ q.key = q0.key /\ q.id = key /\ q.kept = q0.kept
      /\ q.state = states[place].state
  BY <1>2, <1>4 DEF Turn, Busy
<1>7. q0.key = key
  BY DEF key
<1> HIDE DEF q
<1>8. TurnInv(q) /\ ~q.kept
  BY <1>2, <1>6, <1>7 DEF TurnInv
<1>9. ASSUME NEW p \in Messages, Carried(chat[p].key, chat[p].state.requirements, states, chat)
      PROVE  Knows(q, chat[p].key, chat[p].state.requirements)
  <2>1. Has(states, chat[p].key, chat[p].state.requirements)
    BY <1>9 DEF Carried
  <2>2. q.key = chat[p].key => Chat!GoesOn(q.state.requirements, chat[p].state.requirements)
    BY <1>2, <1>3, <1>6, <1>7, <2>1 DEF Has, OneEach
  <2> QED  BY <1>6, <2>2 DEF Knows
<1> QED  BY <1>1, <1>5, <1>6, <1>8, <1>9, TurnKeeps

LEMMA NotFoundKeeps ==
  ASSUME ChatInv, NEW r \in Messages, Chat!NotFound(r)
  PROVE  ChatInv'
<1> DEFINE q == [chat[r] EXCEPT !.at = "understand"]
<1>1. chat[r].at = "context" /\ chat' = [chat EXCEPT ![r] = q] /\ UNCHANGED <<states, beside, pushedOut>>
  BY DEF Chat!NotFound, Chat!Is, Chat!Set
<1>2. chat[r] \in Turn /\ TurnInv(chat[r]) /\ chat[r].at \in Busy /\ ~chat[r].kept
  BY <1>1, TurnFacts DEF Busy
<1>3. /\ q \in Turn /\ q.at = "understand" /\ q.key = chat[r].key /\ q.id = chat[r].id /\ q.found = chat[r].found
      /\ q.kept = chat[r].kept /\ q.state = chat[r].state
  BY <1>2 DEF Turn, Busy
<1> HIDE DEF q
<1>4. TurnInv(q) /\ ~q.kept
  BY <1>2, <1>3 DEF TurnInv
<1>5. ASSUME NEW p \in Messages, Carried(chat[p].key, chat[p].state.requirements, states, chat)
      PROVE  Knows(q, chat[p].key, chat[p].state.requirements)
  BY <1>2, <1>3, <1>5 DEF Knows, Carried
<1> QED  BY <1>1, <1>2, <1>3, <1>4, <1>5, TurnKeeps

LEMMA UnderstandKeeps ==
  ASSUME ChatInv, NEW r \in Messages, Chat!Understand(r)
  PROVE  ChatInv'
<1>1. PICK action \in {"answer", "modify"}, said \in Topics \cup {NoTopic}, recalled \in Topics \cup {NoTopic} :
        LET new == Chat!Updated(r, chat[r].state, action, said, recalled)
            key == IF chat[r].id # NoTopic THEN chat[r].id ELSE new.project
        IN  Chat!Set(r, IF new.project = NoTopic THEN [Chat!Idle EXCEPT !.at = "answered", !.state = new]
                        ELSE [chat[r] EXCEPT !.at = "save", !.state = new, !.key = key])
  BY DEF Chat!Understand
<1> DEFINE new == Chat!Updated(r, chat[r].state, action, said, recalled)
           key == IF chat[r].id # NoTopic THEN chat[r].id ELSE new.project
           q == IF new.project = NoTopic THEN [Chat!Idle EXCEPT !.at = "answered", !.state = new]
                ELSE [chat[r] EXCEPT !.at = "save", !.state = new, !.key = key]
<1>2. chat[r].at = "understand" /\ chat' = [chat EXCEPT ![r] = q] /\ UNCHANGED <<states, beside, pushedOut>>
  BY <1>1 DEF Chat!Understand, Chat!Is, Chat!Set
<1>3. /\ chat[r] \in Turn /\ TurnInv(chat[r]) /\ chat[r].at \in Busy /\ ~chat[r].kept
      /\ chat[r].state \in State /\ chat[r].id \in Topics \cup {NoTopic}
  BY <1>2, TurnFacts DEF Busy
<1>4. new \in State /\ \A asked \in Lists : Chat!GoesOn(chat[r].state.requirements, asked) => Chat!GoesOn(new.requirements, asked)
  <2>1. chat[r].state.project \in Topics \cup {NoTopic} /\ chat[r].state.requirements \in Lists
    BY <1>3 DEF State
  <2> DEFINE project == CASE said # NoTopic -> said
                          [] said = NoTopic /\ chat[r].state.project # NoTopic -> chat[r].state.project
                          [] OTHER -> recalled
             asked == IF action = "answer" THEN chat[r].state.requirements
                      ELSE Chat!Latest(Append(chat[r].state.requirements, r))
  <2>2. project \in Topics \cup {NoTopic}
    BY <2>1
  <2>3. asked \in Lists /\ \A old \in Lists : Chat!GoesOn(chat[r].state.requirements, old) => Chat!GoesOn(asked, old)
    BY <2>1, GrownList
  <2>4. new = [project |-> project, requirements |-> asked]
    BY DEF Chat!Updated
  <2> HIDE DEF project, asked, new
  <2> QED  BY <2>2, <2>3, <2>4 DEF State
<1>5. new.project \in Topics \cup {NoTopic}
  BY <1>4 DEF State
<1> HIDE DEF new
<1>6. CASE new.project = NoTopic
  <2>1. q = [Chat!Idle EXCEPT !.at = "answered", !.state = new]
    BY <1>6
  <2> HIDE DEF q
  <2>2. q \in Turn /\ q.at = "answered" /\ q.kept = FALSE
    BY <1>4, <2>1, IdleTurn DEF Turn, Busy
  <2>3. TurnInv(q) /\ \A k, asked : Knows(q, k, asked)
    BY <2>2 DEF TurnInv, Knows, Busy
  <2> QED  BY <1>2, <1>3, <2>2, <2>3, TurnKeeps
<1>7. CASE new.project # NoTopic
  <2>1. key \in Topics /\ (chat[r].id # NoTopic => key = chat[r].id)
    BY <1>3, <1>5, <1>7
  <2> HIDE DEF key
  <2>2. q = [chat[r] EXCEPT !.at = "save", !.state = new, !.key = key]
    BY <1>7
  <2> HIDE DEF q
  <2>3. /\ q \in Turn /\ q.at = "save" /\ q.state = new /\ q.key = key /\ q.found = chat[r].found
        /\ q.id = chat[r].id /\ q.kept = chat[r].kept
    BY <1>3, <1>4, <2>1, <2>2 DEF Turn, Busy
  <2>4. chat[r].found => chat[r].id = chat[r].key /\ chat[r].id # NoTopic
    BY <1>3, PartsAssumption DEF TurnInv
  <2>5. TurnInv(q) /\ ~q.kept
    BY <1>3, <2>1, <2>3, <2>4 DEF TurnInv
  <2>6. ASSUME NEW p \in Messages, Carried(chat[p].key, chat[p].state.requirements, states, chat)
        PROVE  Knows(q, chat[p].key, chat[p].state.requirements)
    <3>1. chat[p].state.requirements \in Lists
      BY TurnFacts DEF State
    <3> QED  BY <1>3, <1>4, <2>1, <2>3, <2>4, <2>6, <3>1 DEF Knows, Carried
  <2> QED  BY <1>2, <1>3, <2>3, <2>5, <2>6, TurnKeeps
<1> QED  BY <1>6, <1>7

LEMMA ChatSaveKeeps ==
  ASSUME ChatInv, NEW r \in Messages, Chat!Save(r)
  PROVE  ChatInv'
<1> DEFINE q == [chat[r] EXCEPT !.at = "write", !.db = states]
<1>1. chat[r].at = "save" /\ chat' = [chat EXCEPT ![r] = q] /\ UNCHANGED <<states, beside, pushedOut>>
  BY DEF Chat!Save, Chat!Is, Chat!Set
<1>2. chat[r] \in Turn /\ TurnInv(chat[r]) /\ chat[r].at \in Busy /\ ~chat[r].kept /\ states \in Seq(Record) /\ OneEach(states)
  BY <1>1, TurnFacts DEF Busy
<1>3. /\ q \in Turn /\ q.at = "write" /\ q.key = chat[r].key /\ q.id = chat[r].id /\ q.found = chat[r].found
      /\ q.kept = chat[r].kept /\ q.state = chat[r].state /\ q.db = states
  BY <1>2 DEF Turn, Busy
<1> HIDE DEF q
<1>4. TurnInv(q) /\ ~q.kept
  BY <1>1, <1>2, <1>3 DEF TurnInv
<1>5. ASSUME NEW p \in Messages, Carried(chat[p].key, chat[p].state.requirements, states, chat)
      PROVE  Knows(q, chat[p].key, chat[p].state.requirements)
  BY <1>2, <1>3, <1>5 DEF Knows, Carried
<1> QED  BY <1>1, <1>2, <1>3, <1>4, <1>5, TurnKeeps

LEMMA SaveFailsKeeps ==
  ASSUME ChatInv, NEW r \in Messages, Chat!SaveFails(r)
  PROVE  ChatInv'
<1> DEFINE q == [Chat!Idle EXCEPT !.at = "answered", !.state = chat[r].state]
<1>1. chat[r].at \in Busy /\ chat' = [chat EXCEPT ![r] = q] /\ UNCHANGED <<states, beside, pushedOut>>
  BY DEF Chat!SaveFails, Chat!Is, Chat!Set, Busy
<1>2. chat[r].state \in State
  BY TurnFacts
<1>3. q \in Turn /\ q.at = "answered" /\ q.kept = FALSE
  BY <1>2, IdleTurn DEF Turn, Busy
<1> HIDE DEF q
<1>4. TurnInv(q) /\ \A k, asked : Knows(q, k, asked)
  BY <1>3 DEF TurnInv, Knows, Busy
<1> QED  BY <1>1, <1>3, <1>4, TurnKeeps

LEMMA ChatWriteKeeps ==
  ASSUME ChatInv, NEW r \in Messages, Chat!Write(r)
  PROVE  ChatInv'
<1> DEFINE q0 == chat[r]
           record == [key |-> q0.key, state |-> q0.state]
           q == [q0 EXCEPT !.at = "answered", !.id = NoTopic, !.db = Chat!Unread, !.kept = TRUE]
<1>1. /\ q0.at = "write" /\ states' = Chat!Put(q0.db, record) /\ chat' = [chat EXCEPT ![r] = q]
      /\ pushedOut' = pushedOut \cup {p \in Topics : Chat!Holds(q0.db, p) /\ p # q0.key /\ ~Chat!Holds(states', p)
                                                     /\ Len(q0.db) >= MaxRecords}
      /\ beside' = beside
  BY DEF Chat!Write, Chat!Is, Chat!Set
<1>2. q0 \in Turn /\ TurnInv(q0) /\ q0.at \in Busy /\ ~q0.kept /\ q0.db \in Seq(Record) /\ q0.state \in State
      /\ q0.key \in Topics /\ OneEach(q0.db)
  BY <1>1, TurnFacts DEF Busy, TurnInv
<1>3. record \in Record /\ record.key = q0.key /\ record.state = q0.state
  BY <1>2 DEF Record
<1> HIDE DEF record
<1>4. /\ states' \in Seq(Record) /\ OneEach(states')
      /\ \E j \in DOMAIN states' : states'[j] = record
      /\ \A i \in DOMAIN q0.db : q0.db[i].key # q0.key =>
           \/ \E j \in DOMAIN states' : states'[j] = q0.db[i]
           \/ Len(q0.db) >= MaxRecords /\ ~Chat!Holds(states', q0.db[i].key)
  BY <1>1, <1>2, <1>3, PutFacts
<1>5. /\ q \in Turn /\ q.at = "answered" /\ q.kept = TRUE /\ q.key = q0.key /\ q.state = q0.state /\ q.found = q0.found
  <2>1. Chat!Unread \in Seq(Record)
    BY DEF Chat!Unread
  <2> QED  BY <1>2, <2>1 DEF Turn, Busy
<1> HIDE DEF q
<1>6. chat' \in [Messages -> Turn] /\ chat'[r] = q /\ \A o \in Messages \ {r} : chat'[o] = chat[o]
  BY <1>1, <1>5 DEF ChatInv, ChatTypes
<1>7. TurnInv(q)
  BY <1>2, <1>5 DEF TurnInv, Busy
<1>8. Has(states', q0.key, q0.state.requirements)
  <2>1. q0.state.requirements \in Lists
    BY <1>2 DEF State
  <2>2. Chat!GoesOn(q0.state.requirements, q0.state.requirements)
    BY <2>1, GrownList
  <2> QED  BY <1>3, <1>4, <2>2 DEF Has
<1>9. pushedOut' \subseteq Topics /\ pushedOut \subseteq pushedOut'
  BY <1>1 DEF ChatInv, ChatTypes
<1>10. ASSUME NEW p \in Messages, Undisturbed(p, chat'[p], beside[p], chat', pushedOut')
       PROVE  Carried(chat'[p].key, chat'[p].state.requirements, states', chat')
  <2>1. CASE p = r
    <3>1. ASSUME NEW o \in Messages
          PROVE  chat'[o].at \notin Busy
      <4>1. CASE o = r
        BY <1>5, <1>6, <4>1 DEF Busy
      <4>2. CASE o # r
        BY <1>2, <1>6, <1>10, <2>1, <4>2 DEF ChatInv, Undisturbed
      <4> QED  BY <4>1, <4>2
    <3>2. \A o \in Messages : Knows(chat'[o], chat'[p].key, chat'[p].state.requirements)
      BY <3>1 DEF Knows, Busy
    <3> QED  BY <1>5, <1>6, <1>8, <2>1, <3>2 DEF Carried
  <2>2. CASE p # r
    <3> DEFINE key == chat[p].key
               asked == chat[p].state.requirements
    <3>1. chat'[p] = chat[p]
      BY <1>6, <2>2
    <3>2. /\ Undisturbed(p, chat[p], beside[p], chat, pushedOut)
          /\ ~(q.key = key /\ ~q.found) /\ key \notin pushedOut'
      <4>1. chat[p].kept /\ beside[p] = {} /\ key \notin pushedOut' /\ key \notin pushedOut
        BY <1>9, <1>10, <3>1 DEF Undisturbed
      <4>2. \A o \in Messages \ {p} : ~(chat'[o].at = "answered" /\ chat'[o].key = key /\ ~chat'[o].found)
        BY <1>10, <3>1 DEF Undisturbed
      <4>3. ~(q.key = key /\ ~q.found)
        BY <1>5, <1>6, <2>2, <4>2
      <4>4. \A o \in Messages \ {p} : ~(chat[o].at = "answered" /\ chat[o].key = key /\ ~chat[o].found)
        BY <1>1, <1>6, <4>2
      <4> QED  BY <4>1, <4>3, <4>4 DEF Undisturbed
    <3>3. Carried(key, asked, states, chat)
      BY <3>2 DEF ChatInv
    <3>4. Knows(q0, key, asked)
      BY <3>3 DEF Carried
    <3>5. \A o \in Messages : Knows(chat'[o], key, asked)
      BY <1>5, <1>6, <3>3 DEF Carried, Knows, Busy
    <3>6. Has(states', key, asked)
      <4>1. CASE q0.key = key
        <5>1. Chat!GoesOn(q0.state.requirements, asked)
          BY <1>2, <1>5, <3>2, <3>4, <4>1 DEF Knows
        <5> QED  BY <1>3, <1>4, <4>1, <5>1 DEF Has
      <4>2. CASE q0.key # key
        <5>1. PICK i \in DOMAIN q0.db : q0.db[i].key = key /\ Chat!GoesOn(q0.db[i].state.requirements, asked)
          BY <1>1, <3>4 DEF Knows, Has
        <5>2. key \in Topics /\ Chat!Holds(q0.db, key)
          <6>1. q0.db[i] \in Record
            BY <1>2
          <6> QED  BY <5>1, <6>1 DEF Record, Chat!Holds
        <5>3. \E j \in DOMAIN states' : states'[j] = q0.db[i]
          <6>1. ~(Len(q0.db) >= MaxRecords /\ ~Chat!Holds(states', key))
            BY <1>1, <3>2, <4>2, <5>2
          <6> QED  BY <1>4, <4>2, <5>1, <6>1
        <5> QED  BY <5>1, <5>3 DEF Has
      <4> QED  BY <4>1, <4>2
    <3> QED  BY <3>1, <3>5, <3>6 DEF Carried
  <2> QED  BY <2>1, <2>2
<1>11. \A o \in Messages : TurnInv(chat'[o])
  BY <1>6, <1>7 DEF ChatInv
<1>12. \A p, o \in Messages : chat'[p].at \in Busy /\ chat'[o].at \in Busy /\ p # o => o \in beside'[p]
  BY <1>1, <1>5, <1>6 DEF ChatInv, Busy
<1>13. ChatTypes'
  BY <1>1, <1>4, <1>6, <1>9 DEF ChatInv, ChatTypes
<1>14. \A p \in Messages : Undisturbed(p, chat[p], beside[p], chat, pushedOut)' =>
         Carried(chat[p].key, chat[p].state.requirements, states, chat)'
  BY <1>1, <1>10 DEF Undisturbed, Carried, Has
<1>15. (\A o \in Messages : TurnInv(chat[o])') /\ OneEach(states)'
  BY <1>4, <1>11 DEF TurnInv, OneEach
<1> QED  BY <1>12, <1>13, <1>14, <1>15 DEF ChatInv

LEMMA ChatRestartKeeps ==
  ASSUME ChatInv, Chat!Restart
  PROVE  ChatInv'
<1> DEFINE lost == [Chat!Idle EXCEPT !.at = "lost"]
<1>1. /\ chat' = [o \in Messages |-> IF o \in Chat!UnderWay THEN lost ELSE chat[o]]
      /\ UNCHANGED <<states, beside, pushedOut>>
  BY DEF Chat!Restart
<1>2. lost \in Turn /\ lost.at = "lost" /\ lost.kept = FALSE /\ lost.found = FALSE
  BY IdleTurn DEF Turn, Busy
<1> HIDE DEF lost
<1>3. \A o \in Messages : \/ chat'[o] = lost /\ chat[o].at \in Busy
                          \/ chat'[o] = chat[o] /\ chat[o].at \notin Busy
  BY <1>1, UnderWayIsBusy
<1>4. \A o \in Messages : chat'[o] \in Turn /\ TurnInv(chat'[o]) /\ chat'[o].at \notin Busy
  BY <1>2, <1>3 DEF ChatInv, ChatTypes, TurnInv, Busy
<1>5. ChatTypes'
  BY <1>1, <1>4 DEF ChatInv, ChatTypes
<1>6. ASSUME NEW p \in Messages, Undisturbed(p, chat'[p], beside[p], chat', pushedOut)
      PROVE  Carried(chat'[p].key, chat'[p].state.requirements, states, chat')
  <2>1. chat'[p] = chat[p]
    BY <1>2, <1>3, <1>6 DEF Undisturbed
  <2>2. Undisturbed(p, chat[p], beside[p], chat, pushedOut)
    BY <1>3, <1>6, <2>1 DEF Undisturbed, Busy
  <2>3. Carried(chat[p].key, chat[p].state.requirements, states, chat)
    BY <2>2 DEF ChatInv
  <2>4. \A o \in Messages : Knows(chat'[o], chat[p].key, chat[p].state.requirements)
    BY <1>4 DEF Knows, Busy
  <2> QED  BY <2>1, <2>3, <2>4 DEF Carried
<1>7. \A p \in Messages : Undisturbed(p, chat[p], beside[p], chat, pushedOut)' =>
        Carried(chat[p].key, chat[p].state.requirements, states, chat)'
  BY <1>1, <1>6 DEF Undisturbed, Carried, Has
<1>8. (\A o \in Messages : TurnInv(chat[o])') /\ OneEach(states)'
  BY <1>1, <1>4 DEF TurnInv, OneEach, ChatInv
<1>9. \A p, o \in Messages : chat'[p].at \in Busy /\ chat'[o].at \in Busy /\ p # o => o \in beside'[p]
  BY <1>4
<1> QED  BY <1>5, <1>7, <1>8, <1>9 DEF ChatInv

LEMMA ChatInitially ==
  ASSUME Chat!Init
  PROVE  ChatInv
<1>1. /\ states = <<>> /\ chat = [o \in Messages |-> Chat!Idle]
      /\ beside = [o \in Messages |-> {}] /\ pushedOut = {}
  BY DEF Chat!Init
<1>2. ChatTypes /\ OneEach(states)
  BY <1>1, IdleTurn DEF ChatTypes, OneEach
<1>3. \A o \in Messages : TurnInv(chat[o]) /\ chat[o].at \notin Busy /\ ~chat[o].kept
  BY <1>1, IdleTurn DEF TurnInv, Busy
<1> QED  BY <1>2, <1>3 DEF ChatInv, Undisturbed

LEMMA ChatKeeps ==
  ASSUME ChatInv, [Chat!Next]_(Chat!vars)
  PROVE  ChatInv'
<1>1. ASSUME NEW r \in Messages,
             \/ Chat!Arrive(r) \/ Chat!Found(r) \/ Chat!NotFound(r) \/ Chat!Understand(r)
             \/ Chat!Save(r) \/ Chat!Write(r) \/ Chat!SaveFails(r)
      PROVE  ChatInv'
  BY <1>1, ArriveKeeps, FoundKeeps, NotFoundKeeps, UnderstandKeeps, ChatSaveKeeps, ChatWriteKeeps, SaveFailsKeeps
<1>2. CASE UNCHANGED Chat!vars
  BY <1>2 DEF ChatInv, ChatTypes, OneEach, TurnInv, Undisturbed, Carried, Knows, Has, Chat!vars
<1> QED  BY <1>1, <1>2, ChatRestartKeeps DEF Chat!Next

\* What a request asked of a project and stored stays in the project's record, in its
\* order, across requests, failed calls and restarts, until later requirements fill the
\* record (project-state-engine.js:80-95); else it is lost only to a request under way
\* at the same time, to one that stored without having read, and to the trim of records
\* (persistent-project-state-store.js:18-42): for any requests, projects and limits.
THEOREM AskedIsRemembered == Chat!Spec => []Remembered
<1>1. ChatInv => Remembered
  <2> SUFFICES ASSUME ChatInv, NEW r \in Messages, chat[r].kept, chat[r].key \notin pushedOut, beside[r] = {},
                      \A o \in Messages \ {r} : ~Chat!Unaware(o, chat[r].key)
               PROVE  Chat!Holds(states, chat[r].key)
                      /\ Chat!GoesOn(Chat!StateOf(states, chat[r].key).requirements, chat[r].state.requirements)
    BY DEF Remembered, Chat!Remembered
  <2>1. Undisturbed(r, chat[r], beside[r], chat, pushedOut)
    BY DEF Undisturbed, Chat!Unaware
  <2>2. Has(states, chat[r].key, chat[r].state.requirements) /\ OneEach(states)
    BY <2>1 DEF ChatInv, Carried
  <2>3. PICK i \in DOMAIN states : states[i].key = chat[r].key
                                   /\ Chat!GoesOn(states[i].state.requirements, chat[r].state.requirements)
    BY <2>2 DEF Has
  <2>4. Chat!Holds(states, chat[r].key)
    BY <2>3 DEF Chat!Holds
  <2>5. Chat!Place(states, chat[r].key) = i
    BY <2>2, <2>3, <2>4, PlaceFacts DEF OneEach
  <2> QED  BY <2>3, <2>4, <2>5 DEF Chat!StateOf
<1> QED  BY <1>1, ChatInitially, ChatKeeps, PTL DEF Chat!Spec

-----------------------------------------------------------------------------
(* The mission director: its scheduler                                     *)

\* A sequence whose every element is computed from the one before exists: the least
\* length for which it did not could be lengthened by one.
Computes(f, N, base, G) == f[0] = base /\ \A i \in 1 .. N : f[i] = G[i][f[i - 1]]

LEMMA StepByStep ==
  ASSUME NEW N \in Nat, NEW S, NEW base \in S, NEW G \in [1 .. N -> [S -> S]]
  PROVE  \E f \in [0 .. N -> S] : Computes(f, N, base, G)
<1> DEFINE P(m) == \E f \in [0 .. m -> S] : f[0] = base /\ \A i \in 1 .. m : f[i] = G[i][f[i - 1]]
           bad == {m \in 0 .. N : ~P(m)}
<1>1. P(0)
  <2> DEFINE f == [i \in 0 .. 0 |-> base]
  <2>1. f \in [0 .. 0 -> S] /\ f[0] = base /\ \A i \in 1 .. 0 : f[i] = G[i][f[i - 1]]
    OBVIOUS
  <2> QED  BY <2>1
<1>2. ASSUME NEW m \in 0 .. N, m # 0, P(m - 1)
      PROVE  P(m)
  <2>1. m \in 1 .. N /\ m - 1 \in Nat /\ m \in Nat
    BY <1>2
  <2>2. PICK f \in [0 .. (m - 1) -> S] : f[0] = base /\ \A i \in 1 .. (m - 1) : f[i] = G[i][f[i - 1]]
    BY <1>2
  <2> DEFINE g == [i \in 0 .. m |-> IF i = m THEN G[m][f[m - 1]] ELSE f[i]]
  <2>3. f[m - 1] \in S /\ G[m] \in [S -> S]
    BY <2>1, <2>2
  <2>4. G[m][f[m - 1]] \in S
    BY <2>3
  <2>5. g \in [0 .. m -> S]
    BY <2>1, <2>2, <2>4
  <2>6. g[0] = base
    BY <2>1, <2>2
  <2>7. ASSUME NEW i \in 1 .. m
        PROVE  g[i] = G[i][g[i - 1]]
    <3>1. i - 1 \in 0 .. (m - 1) /\ g[i - 1] = f[i - 1]
      BY <2>1, <2>7
    <3>2. CASE i = m
      BY <2>1, <3>1, <3>2
    <3>3. CASE i # m
      <4>1. i \in 1 .. (m - 1) /\ g[i] = f[i]
        BY <2>1, <2>7, <3>3
      <4> QED  BY <2>2, <3>1, <4>1
    <3> QED  BY <3>2, <3>3
  <2> HIDE DEF g
  <2> QED  BY <2>5, <2>6, <2>7
<1> HIDE DEF P
<1>3. bad = {}
  <2> SUFFICES ASSUME bad # {} PROVE FALSE
    OBVIOUS
  <2>1. bad \in SUBSET Nat
    OBVIOUS
  <2>2. Min(bad) \in bad /\ \A y \in bad : Min(bad) <= y
    BY <2>1, LeastNumber
  <2>3. PICK m \in bad : \A y \in bad : m <= y
    BY <2>2
  <2>4. m \in 0 .. N /\ ~P(m) /\ m # 0
    BY <1>1, <2>3
  <2>5. m - 1 \in 0 .. N /\ ~(m <= m - 1)
    BY <2>4
  <2>6. P(m - 1)
    BY <2>3, <2>5
  <2> QED  BY <1>2, <2>4, <2>6
<1>4. P(N)
  BY <1>3
<1> QED  BY <1>4 DEF P, Computes

StepSet == {Steps[i] : i \in DOMAIN Steps}

LEMMA StepsFacts ==
  /\ Steps \in Seq(StepSet) /\ Len(Steps) \in Nat \ {0} /\ DOMAIN Steps = 1 .. Len(Steps)
  /\ \A i, j \in DOMAIN Steps : Steps[i] = Steps[j] => i = j
  /\ Director!StepIds = StepSet
<1>1. Steps \in Seq(StepSet) /\ Steps # <<>> /\ \A i, j \in DOMAIN Steps : Steps[i] = Steps[j] => i = j
  BY PartsAssumption DEF StepSet
<1>2. Len(Steps) \in Nat \ {0} /\ DOMAIN Steps = 1 .. Len(Steps)
  BY <1>1
<1>3. Director!StepIds = StepSet
  BY DEF Director!StepIds, Director!Range, StepSet
<1> QED  BY <1>1, <1>2, <1>3

\* What a sequence holds, and that it holds it once
Elements(s) == {s[i] : i \in DOMAIN s}
Once(s) == \A i, j \in DOMAIN s : s[i] = s[j] => i = j

LEMMA AppendFacts ==
  ASSUME NEW S, NEW s \in Seq(S), NEW e \in S
  PROVE  LET t == Append(s, e)
         IN  /\ t \in Seq(S) /\ Elements(t) = Elements(s) \cup {e}
             /\ Once(s) /\ e \notin Elements(s) => Once(t)
<1> DEFINE t == Append(s, e)
           n == Len(s) + 1
<1>1. t \in Seq(S) /\ n \in Nat /\ n >= 1 /\ DOMAIN t = 1 .. n /\ DOMAIN s = 1 .. (n - 1)
      /\ t[n] = e /\ \A i \in 1 .. (n - 1) : t[i] = s[i]
  OBVIOUS
<1> HIDE DEF t, n
<1>2. n \in DOMAIN t /\ \A i \in DOMAIN t : i = n \/ i \in DOMAIN s
  BY <1>1
<1>3. DOMAIN s \subseteq DOMAIN t
  BY <1>1
<1>4. Elements(t) = Elements(s) \cup {e}
  BY <1>1, <1>2, <1>3 DEF Elements
<1>5. Once(s) /\ e \notin Elements(s) => Once(t)
  BY <1>1, <1>2 DEF Once, Elements
<1> QED  BY <1>1, <1>4, <1>5 DEF t

\* The steps of a set in the order they were given are the steps of the set, each once
LEMMA InOrderFacts ==
  ASSUME NEW ready \in SUBSET StepSet
  PROVE  LET p == Director!InOrder(ready)
         IN  p \in Seq(StepSet) /\ Elements(p) = ready /\ Once(p)
<1> DEFINE N == Len(Steps)
           body(g) == [i \in 0 .. N |->
                         IF i = 0 THEN <<>>
                         ELSE IF Steps[i] \in ready THEN Append(g[i - 1], Steps[i]) ELSE g[i - 1]]
           upTo == CHOOSE g : g = body(g)
           G == [i \in 1 .. N |-> [s \in Seq(StepSet) |-> IF Steps[i] \in ready THEN Append(s, Steps[i]) ELSE s]]
<1>1. Director!InOrder(ready) = upTo[N]
  BY DEF Director!InOrder
<1>2. N \in Nat /\ \A i \in 1 .. N : Steps[i] \in StepSet /\ i \in DOMAIN Steps
  BY StepsFacts DEF StepSet
<1>3. G \in [1 .. N -> [Seq(StepSet) -> Seq(StepSet)]] /\ <<>> \in Seq(StepSet)
  <2>1. ASSUME NEW i \in 1 .. N, NEW s \in Seq(StepSet)
        PROVE  (IF Steps[i] \in ready THEN Append(s, Steps[i]) ELSE s) \in Seq(StepSet)
    BY <1>2, <2>1
  <2> QED  BY <2>1
<1>4. \A i \in 1 .. N, s \in Seq(StepSet) : G[i][s] = IF Steps[i] \in ready THEN Append(s, Steps[i]) ELSE s
  OBVIOUS
<1> HIDE DEF N, G
<1>5. PICK f \in [0 .. N -> Seq(StepSet)] : f[0] = <<>> /\ \A i \in 1 .. N : f[i] = G[i][f[i - 1]]
  <2> DEFINE S == Seq(StepSet)
             base == <<>>
  <2>1. N \in Nat /\ base \in S /\ G \in [1 .. N -> [S -> S]]
    BY <1>2, <1>3
  <2> HIDE DEF S, base
  <2>2. \E f \in [0 .. N -> S] : Computes(f, N, base, G)
    BY <2>1, StepByStep
  <2> QED  BY <2>2 DEF S, base, Computes
<1>6. f = body(f)
  <2>1. f = [i \in 0 .. N |-> f[i]]
    BY <1>5
  <2>2. ASSUME NEW i \in 0 .. N
        PROVE  f[i] = IF i = 0 THEN <<>> ELSE IF Steps[i] \in ready THEN Append(f[i - 1], Steps[i]) ELSE f[i - 1]
    <3>1. CASE i = 0
      BY <1>5, <3>1
    <3>2. CASE i # 0
      <4>1. i \in 1 .. N /\ i - 1 \in 0 .. N
        BY <1>2, <2>2, <3>2
      <4>2. f[i - 1] \in Seq(StepSet)
        BY <1>5, <4>1
      <4> QED  BY <1>4, <1>5, <3>2, <4>1, <4>2
    <3> QED  BY <3>1, <3>2
  <2> QED  BY <2>1, <2>2
<1>7. upTo = body(upTo)
  <2> HIDE DEF body
  <2> QED  BY <1>6
<1> HIDE DEF upTo
<1>8. upTo[0] = <<>> /\ \A i \in 1 .. N : upTo[i] = IF Steps[i] \in ready THEN Append(upTo[i - 1], Steps[i]) ELSE upTo[i - 1]
  <2>1. \A i \in 0 .. N : upTo[i] = IF i = 0 THEN <<>>
                                     ELSE IF Steps[i] \in ready THEN Append(upTo[i - 1], Steps[i]) ELSE upTo[i - 1]
    BY <1>7
  <2>2. 0 \in 0 .. N /\ \A i \in 1 .. N : i \in 0 .. N /\ i # 0
    BY <1>2
  <2> QED  BY <2>1, <2>2
<1> DEFINE Good(i) == /\ upTo[i] \in Seq(StepSet) /\ Once(upTo[i])
                      /\ Elements(upTo[i]) = {Steps[j] : j \in 1 .. i} \cap ready
           bad == {i \in 0 .. N : ~Good(i)}
<1>9. Good(0)
  <2>1. upTo[0] = <<>> /\ <<>> \in Seq(StepSet) /\ Once(<<>>) /\ Elements(<<>>) = {}
    BY <1>8 DEF Once, Elements
  <2>2. {Steps[j] : j \in 1 .. 0} = {}
    OBVIOUS
  <2> QED  BY <2>1, <2>2
<1>10. ASSUME NEW i \in 1 .. N, Good(i - 1)
       PROVE  Good(i)
  <2>1. Steps[i] \in StepSet /\ i \in Nat /\ i \in DOMAIN Steps
    BY <1>2
  <2>2. {Steps[j] : j \in 1 .. i} = {Steps[j] : j \in 1 .. (i - 1)} \cup {Steps[i]}
    BY <2>1
  <2>3. Steps[i] \notin {Steps[j] : j \in 1 .. (i - 1)}
    <3>1. \A j \in 1 .. (i - 1) : j \in DOMAIN Steps /\ j # i
      BY <1>2, <2>1
    <3> QED  BY <2>1, <3>1, StepsFacts
  <2>4. CASE Steps[i] \in ready
    <3>1. upTo[i] = Append(upTo[i - 1], Steps[i])
      BY <1>8, <2>4
    <3>2. Steps[i] \notin Elements(upTo[i - 1])
      BY <1>10, <2>3
    <3>3. /\ upTo[i] \in Seq(StepSet) /\ Elements(upTo[i]) = Elements(upTo[i - 1]) \cup {Steps[i]}
          /\ Once(upTo[i])
      BY <1>10, <2>1, <3>1, <3>2, AppendFacts
    <3> QED  BY <1>10, <2>2, <2>4, <3>3
  <2>5. CASE Steps[i] \notin ready
    <3>1. upTo[i] = upTo[i - 1]
      BY <1>8, <2>5
    <3> QED  BY <1>10, <2>2, <2>5, <3>1
  <2> QED  BY <2>4, <2>5
<1> HIDE DEF Good
<1>11. bad = {}
  <2> SUFFICES ASSUME bad # {} PROVE FALSE
    OBVIOUS
  <2>1. bad \in SUBSET Nat
    OBVIOUS
  <2>2. Min(bad) \in bad /\ \A y \in bad : Min(bad) <= y
    BY <2>1, LeastNumber
  <2>3. PICK m \in bad : \A y \in bad : m <= y
    BY <2>2
  <2>4. m \in 1 .. N /\ ~Good(m)
    BY <1>2, <1>9, <2>3
  <2>5. m - 1 \in 0 .. N /\ ~(m <= m - 1)
    BY <1>2, <2>4
  <2>6. Good(m - 1)
    BY <2>3, <2>5
  <2> QED  BY <1>10, <2>4, <2>6
<1>12. Good(N)
  BY <1>2, <1>11
<1>13. {Steps[j] : j \in 1 .. N} = StepSet
  BY StepsFacts DEF StepSet, N
<1> QED  BY <1>1, <1>12, <1>13 DEF Good


\* A schedule: every step once, behind the steps it depends on
Planned(order, needs) ==
  /\ order \in Seq(StepSet) /\ Once(order)
  /\ \A i \in DOMAIN order : needs[order[i]] \subseteq {order[j] : j \in 1 .. (i - 1)}

\* A round adds steps that are not in the schedule and depend on none but those in it
LEMMA RoundPlans ==
  ASSUME NEW o, NEW p \in Seq(StepSet), NEW needs, Planned(o, needs), Once(p),
         \A s \in Elements(p) : s \notin Elements(o) /\ needs[s] \subseteq Elements(o)
  PROVE  Planned(o \o p, needs)
<1> DEFINE t == o \o p
           n == Len(o)
           m == Len(p)
<1>1. o \in Seq(StepSet) /\ Once(o)
  BY DEF Planned
<1>2. /\ t \in Seq(StepSet) /\ Len(t) = n + m /\ n \in Nat /\ m \in Nat
      /\ \A i \in 1 .. (n + m) : t[i] = IF i <= n THEN o[i] ELSE p[i - n]
  BY <1>1, ConcatProperties
<1>3. DOMAIN t = 1 .. (n + m) /\ DOMAIN o = 1 .. n /\ DOMAIN p = 1 .. m
  BY <1>1, <1>2
<1> HIDE DEF t, n, m
<1>4. \A i \in DOMAIN t : \/ i \in DOMAIN o /\ i <= n /\ t[i] = o[i]
                          \/ i - n \in DOMAIN p /\ i > n /\ t[i] = p[i - n]
  BY <1>2, <1>3
<1>5. \A i \in DOMAIN o : o[i] \in Elements(o)
  BY DEF Elements
<1>6. \A i \in DOMAIN p : p[i] \in Elements(p)
  BY DEF Elements
<1>7. Once(t)
  <2> SUFFICES ASSUME NEW i \in DOMAIN t, NEW j \in DOMAIN t, t[i] = t[j]
               PROVE  i = j
    BY DEF Once
  <2>1. CASE i <= n /\ j <= n
    <3>1. i \in DOMAIN o /\ t[i] = o[i]
      BY <1>2, <1>3, <1>4, <2>1
    <3>2. j \in DOMAIN o /\ t[j] = o[j]
      BY <1>2, <1>3, <1>4, <2>1
    <3> QED  BY <1>1, <3>1, <3>2 DEF Once
  <2>2. CASE i <= n /\ j > n
    BY <1>2, <1>3, <1>4, <1>5, <1>6, <2>2
  <2>3. CASE i > n /\ j <= n
    BY <1>2, <1>3, <1>4, <1>5, <1>6, <2>3
  <2>4. CASE i > n /\ j > n
    <3>1. i - n \in DOMAIN p /\ t[i] = p[i - n]
      BY <1>2, <1>3, <1>4, <2>4
    <3>2. j - n \in DOMAIN p /\ t[j] = p[j - n]
      BY <1>2, <1>3, <1>4, <2>4
    <3>3. i - n = j - n
      BY <3>1, <3>2 DEF Once
    <3> QED  BY <1>2, <1>3, <3>3
  <2> QED  BY <1>2, <1>3, <2>1, <2>2, <2>3, <2>4
<1>8. ASSUME NEW i \in DOMAIN t
      PROVE  needs[t[i]] \subseteq {t[j] : j \in 1 .. (i - 1)}
  <2>1. CASE i <= n
    <3>1. i \in DOMAIN o /\ t[i] = o[i] /\ \A j \in 1 .. (i - 1) : t[j] = o[j]
      BY <1>2, <1>3, <1>4, <2>1
    <3>2. needs[o[i]] \subseteq {o[j] : j \in 1 .. (i - 1)}
      BY <3>1 DEF Planned
    <3> QED  BY <3>1, <3>2
  <2>2. CASE i > n
    <3>1. t[i] \in Elements(p)
      BY <1>2, <1>4, <1>6, <2>2
    <3>2. \A j \in DOMAIN o : j \in 1 .. (i - 1) /\ t[j] = o[j]
      BY <1>2, <1>3, <1>4, <2>2
    <3>3. Elements(o) \subseteq {t[j] : j \in 1 .. (i - 1)}
      BY <3>2 DEF Elements
    <3> QED  BY <3>1, <3>3
  <2> QED  BY <1>2, <1>3, <2>1, <2>2
<1> QED  BY <1>2, <1>7, <1>8 DEF Planned, t

LEMMA NextRoundFacts ==
  ASSUME NEW o \in Seq(StepSet), NEW needs
  PROVE  LET p == Director!NextRound(o, needs)
         IN  /\ p \in Seq(StepSet) /\ Once(p)
             /\ \A s \in Elements(p) : s \notin Elements(o) /\ needs[s] \subseteq Elements(o)
<1> DEFINE ready == {s \in StepSet : s \notin Elements(o) /\ needs[s] \subseteq Elements(o)}
<1>1. Director!NextRound(o, needs) = Director!InOrder(ready)
  <2>1. Director!Range(o) = Elements(o)
    BY DEF Director!Range, Elements
  <2>2. {s \in Director!StepIds : s \notin Director!Range(o) /\ Director!IsReady(s, needs, Director!Range(o))} = ready
    BY <2>1, StepsFacts DEF Director!IsReady
  <2> HIDE DEF ready
  <2> QED  BY <2>2 DEF Director!NextRound
<1>2. ready \in SUBSET StepSet
  OBVIOUS
<1> QED  BY <1>1, <1>2, InOrderFacts

\* Whatever steps depend on each other, the scheduler gives a schedule
LEMMA ScheduleFacts ==
  ASSUME NEW needs
  PROVE  Planned(Director!Schedule(needs), needs)
<1> DEFINE N == Len(Steps)
           body(g) == [i \in 0 .. N |-> IF i = 0 THEN <<>> ELSE g[i - 1] \o Director!NextRound(g[i - 1], needs)]
           round == CHOOSE g : g = body(g)
           G == [i \in 1 .. N |-> [s \in Seq(StepSet) |-> s \o Director!NextRound(s, needs)]]
<1>1. Director!Schedule(needs) = round[N]
  BY DEF Director!Schedule
<1>2. N \in Nat
  BY StepsFacts
<1>3. G \in [1 .. N -> [Seq(StepSet) -> Seq(StepSet)]] /\ <<>> \in Seq(StepSet)
  <2>1. ASSUME NEW s \in Seq(StepSet)
        PROVE  s \o Director!NextRound(s, needs) \in Seq(StepSet)
    <3>1. Director!NextRound(s, needs) \in Seq(StepSet)
      BY NextRoundFacts
    <3> QED  BY <3>1, ConcatProperties
  <2> QED  BY <2>1
<1>4. \A i \in 1 .. N, s \in Seq(StepSet) : G[i][s] = s \o Director!NextRound(s, needs)
  OBVIOUS
<1> HIDE DEF N, G
<1>5. PICK f \in [0 .. N -> Seq(StepSet)] : f[0] = <<>> /\ \A i \in 1 .. N : f[i] = G[i][f[i - 1]]
  <2> DEFINE S == Seq(StepSet)
             base == <<>>
  <2>1. N \in Nat /\ base \in S /\ G \in [1 .. N -> [S -> S]]
    BY <1>2, <1>3
  <2> HIDE DEF S, base
  <2>2. \E f \in [0 .. N -> S] : Computes(f, N, base, G)
    BY <2>1, StepByStep
  <2> QED  BY <2>2 DEF S, base, Computes
<1>6. f = body(f)
  <2>1. f = [i \in 0 .. N |-> f[i]]
    BY <1>5
  <2>2. ASSUME NEW i \in 0 .. N
        PROVE  f[i] = IF i = 0 THEN <<>> ELSE f[i - 1] \o Director!NextRound(f[i - 1], needs)
    <3>1. CASE i = 0
      BY <1>5, <3>1
    <3>2. CASE i # 0
      <4>1. i \in 1 .. N /\ i - 1 \in 0 .. N
        BY <1>2, <2>2, <3>2
      <4>2. f[i - 1] \in Seq(StepSet)
        BY <1>5, <4>1
      <4> QED  BY <1>4, <1>5, <3>2, <4>1, <4>2
    <3> QED  BY <3>1, <3>2
  <2> QED  BY <2>1, <2>2
<1>7. round = body(round)
  <2> HIDE DEF body
  <2> QED  BY <1>6
<1> HIDE DEF round
<1>8. round[0] = <<>> /\ \A i \in 1 .. N : round[i] = round[i - 1] \o Director!NextRound(round[i - 1], needs)
  <2>1. \A i \in 0 .. N : round[i] = IF i = 0 THEN <<>> ELSE round[i - 1] \o Director!NextRound(round[i - 1], needs)
    BY <1>7
  <2>2. 0 \in 0 .. N /\ \A i \in 1 .. N : i \in 0 .. N /\ i # 0
    BY <1>2
  <2> QED  BY <2>1, <2>2
<1> DEFINE bad == {i \in 0 .. N : ~Planned(round[i], needs)}
<1>9. Planned(round[0], needs)
  BY <1>8 DEF Planned, Once
<1>10. ASSUME NEW i \in 1 .. N, Planned(round[i - 1], needs)
       PROVE  Planned(round[i], needs)
  <2> DEFINE o == round[i - 1]
             p == Director!NextRound(o, needs)
  <2>1. o \in Seq(StepSet) /\ Planned(o, needs)
    BY <1>10 DEF Planned
  <2>2. round[i] = o \o p
    BY <1>8
  <2> HIDE DEF o
  <2>3. p \in Seq(StepSet) /\ Once(p) /\ \A s \in Elements(p) : s \notin Elements(o) /\ needs[s] \subseteq Elements(o)
    BY <2>1, NextRoundFacts
  <2> HIDE DEF p
  <2> QED  BY <2>1, <2>2, <2>3, RoundPlans
<1>11. bad = {}
  <2> SUFFICES ASSUME bad # {} PROVE FALSE
    OBVIOUS
  <2>1. bad \in SUBSET Nat
    OBVIOUS
  <2>2. Min(bad) \in bad /\ \A y \in bad : Min(bad) <= y
    BY <2>1, LeastNumber
  <2>3. PICK m \in bad : \A y \in bad : m <= y
    BY <2>2
  <2>4. m \in 1 .. N /\ ~Planned(round[m], needs)
    BY <1>2, <1>9, <2>3
  <2>5. m - 1 \in 0 .. N /\ ~(m <= m - 1)
    BY <1>2, <2>4
  <2>6. Planned(round[m - 1], needs)
    BY <2>3, <2>5
  <2> QED  BY <1>10, <2>4, <2>6
<1> QED  BY <1>1, <1>2, <1>11

-----------------------------------------------------------------------------
(* The mission director: its runs, its store and the store's file          *)

RunType == [at : {"new", "waiting", "answered", "threw", "died"}, id : Ids \cup {NoId},
            status : Director!Statuses, needs : [StepSet -> SUBSET StepSet], order : Seq(StepSet),
            step : Nat, routed : BOOLEAN, done : SUBSET StepSet]
RowType == [run : Runs, id : Ids \cup {NoId}, status : Director!Statuses]

Before(order, step) == {order[j] : j \in 1 .. (step - 1)}

\* A run that waits for a step has done the steps before it
OnSchedule(record) ==
  record.at = "waiting" =>
    /\ Planned(record.order, record.needs) /\ record.step \in DOMAIN record.order
    /\ record.done = Before(record.order, record.step)

\* A list of the Map's objects: of runs that have started, one of each mission
Mapped(list, objects) ==
  /\ list \in Seq(Runs)
  /\ \A i \in DOMAIN list : objects[list[i]].at # "new"
  /\ \A i, j \in DOMAIN list : objects[list[i]].id = objects[list[j]].id => i = j

\* The rows of a file that was written from such a list
Filed(rows, objects) ==
  /\ rows \in Seq(RowType)
  /\ \A i \in DOMAIN rows : objects[rows[i].run].at # "new" /\ rows[i].id = objects[rows[i].run].id
  /\ \A i, j \in DOMAIN rows : rows[i].id = rows[j].id => i = j

\* The store asks for its writes in the order of its changes: the last that waits is
\* of the Map as it is
DirectorInv ==
  /\ run \in [Runs -> RunType] /\ available \in BOOLEAN
  /\ \A r \in Runs : OnSchedule(run[r])
  /\ Mapped(missions, run)
  /\ lists \in Seq(Seq(Runs)) /\ \A i \in DOMAIN lists : Mapped(lists[i], run)
  /\ lists # <<>> => lists[Len(lists)] = missions
  /\ Filed(missionFile, run)
  /\ lists = <<>> => missionFile = Director!Rows(missions)

\* The objects of runs that have started keep their mission
Keeps(objects, later) ==
  \A r \in Runs : objects[r].at # "new" => later[r].at # "new" /\ later[r].id = objects[r].id

LEMMA StaysMapped ==
  ASSUME NEW list, NEW a, NEW b, Mapped(list, a), Keeps(a, b)
  PROVE  Mapped(list, b)
<1>1. list \in Seq(Runs) /\ \A i \in DOMAIN list : list[i] \in Runs
  BY DEF Mapped
<1>2. \A i \in DOMAIN list : b[list[i]].at # "new" /\ b[list[i]].id = a[list[i]].id
  BY <1>1 DEF Mapped, Keeps
<1> QED  BY <1>1, <1>2 DEF Mapped

LEMMA StaysFiled ==
  ASSUME NEW rows, NEW a, NEW b, Filed(rows, a), Keeps(a, b)
  PROVE  Filed(rows, b)
<1>1. rows \in Seq(RowType) /\ \A i \in DOMAIN rows : rows[i] \in RowType
  BY DEF Filed
<1>2. \A i \in DOMAIN rows : rows[i].run \in Runs
  BY <1>1 DEF RowType
<1>3. \A i \in DOMAIN rows : b[rows[i].run].at # "new" /\ rows[i].id = b[rows[i].run].id
  BY <1>2 DEF Filed, Keeps
<1> QED  BY <1>1, <1>3 DEF Filed

LEMMA DirectorStart == Director!Init => DirectorInv
<1> SUFFICES ASSUME Director!Init PROVE DirectorInv
  OBVIOUS
<1>1. Director!NoRun \in RunType /\ Director!NoRun.at = "new"
  <2>1. [s \in Director!StepIds |-> {}] \in [StepSet -> SUBSET StepSet]
    BY StepsFacts
  <2> QED  BY <2>1 DEF Director!NoRun, RunType, Director!Statuses
<1>2. run = [r \in Runs |-> Director!NoRun] /\ missions = <<>> /\ lists = <<>> /\ missionFile = <<>> /\ available = TRUE
  BY DEF Director!Init
<1>3. run \in [Runs -> RunType] /\ \A r \in Runs : OnSchedule(run[r])
  BY <1>1, <1>2 DEF OnSchedule
<1>4. Mapped(<<>>, run) /\ Filed(<<>>, run)
  BY DEF Mapped, Filed
<1>5. Director!Rows(<<>>) = <<>>
  BY DEF Director!Rows
<1>6. lists \in Seq(Seq(Runs)) /\ DOMAIN lists = {}
  BY <1>2
<1> QED  BY <1>2, <1>3, <1>4, <1>5, <1>6 DEF DirectorInv

\* upsert() leaves one object of each mission, the record's run among them
LEMMA UpsertFacts ==
  ASSUME NEW kept, NEW r \in Runs, NEW id, NEW b,
         Mapped(kept, run), b[r].at # "new", b[r].id = id,
         \A q \in Runs : q # r => b[q] = run[q],
         run[r].at # "new" => run[r].id = id
  PROVE  Mapped(Director!Upsert(r, id, kept), b)
<1> DEFINE same == {i \in DOMAIN kept : run[kept[i]].id = id}
           put == IF same = {} THEN Append(kept, r)
                  ELSE [i \in DOMAIN kept |-> IF i \in same THEN r ELSE kept[i]]
           n == Len(kept)
<1>1. kept \in Seq(Runs) /\ n \in Nat /\ DOMAIN kept = 1 .. n /\ \A i \in 1 .. n : kept[i] \in Runs
  BY DEF Mapped
<1>2. \A i \in DOMAIN kept : i \notin same => kept[i] # r /\ b[kept[i]] = run[kept[i]] /\ run[kept[i]].id # id
  BY <1>1 DEF Mapped
<1>3. Mapped(put, b) /\ put # <<>>
  <2>1. CASE same = {}
    <3>1. /\ put \in Seq(Runs) /\ DOMAIN put = 1 .. (n + 1) /\ put[n + 1] = r
          /\ \A i \in 1 .. n : put[i] = kept[i]
      BY <1>1, <2>1
    <3> HIDE DEF put
    <3>2. \A i \in 1 .. n : put[i] # r /\ b[put[i]] = run[kept[i]] /\ b[put[i]].id # id
      BY <1>1, <1>2, <2>1, <3>1
    <3>3. \A i \in DOMAIN put : i = n + 1 \/ i \in 1 .. n
      BY <1>1, <3>1
    <3>4. \A i \in DOMAIN put : b[put[i]].at # "new"
      BY <1>1, <3>1, <3>2, <3>3 DEF Mapped
    <3>5. \A i, j \in DOMAIN put : b[put[i]].id = b[put[j]].id => i = j
      BY <1>1, <3>1, <3>2, <3>3 DEF Mapped
    <3>6. put # <<>>
      BY <1>1, <3>1
    <3> QED  BY <3>1, <3>4, <3>5, <3>6 DEF Mapped
  <2>2. CASE same # {}
    <3>1. put = [i \in 1 .. n |-> IF i \in same THEN r ELSE kept[i]]
      BY <1>1, <2>2
    <3> HIDE DEF put
    <3>2. /\ put \in [1 .. n -> Runs] /\ DOMAIN put = 1 .. n
          /\ \A i \in 1 .. n : put[i] = IF i \in same THEN r ELSE kept[i]
      BY <1>1, <3>1
    <3>3. put \in Seq(Runs)
      BY <1>1, <3>2
    <3>4. \A i \in DOMAIN put : b[put[i]].at # "new" /\ b[put[i]].id = run[kept[i]].id
      <4> SUFFICES ASSUME NEW i \in 1 .. n
                   PROVE  b[put[i]].at # "new" /\ b[put[i]].id = run[kept[i]].id
        BY <3>2
      <4>1. CASE i \in same
        BY <3>2, <4>1
      <4>2. CASE i \notin same
        BY <1>1, <1>2, <3>2, <4>2 DEF Mapped
      <4> QED  BY <4>1, <4>2
    <3>5. put # <<>>
      BY <1>1, <2>2, <3>2
    <3> QED  BY <1>1, <3>2, <3>3, <3>4, <3>5 DEF Mapped
  <2> QED  BY <2>1, <2>2
<1> HIDE DEF put
<1>4. Mapped(Tail(put), b) \/ ~(Len(put) > MaxMissions)
  <2> SUFFICES ASSUME Len(put) > MaxMissions PROVE Mapped(Tail(put), b)
    OBVIOUS
  <2> DEFINE t == Tail(put)
             m == Len(put)
  <2>1. /\ put \in Seq(Runs) /\ m \in Nat /\ DOMAIN put = 1 .. m /\ t \in Seq(Runs) /\ DOMAIN t = 1 .. (m - 1)
        /\ \A i \in 1 .. (m - 1) : t[i] = put[i + 1]
    BY <1>3 DEF Mapped
  <2> HIDE DEF t, m
  <2>2. ASSUME NEW i \in DOMAIN t
        PROVE  t[i] = put[i + 1] /\ i + 1 \in DOMAIN put /\ i \in Nat
    BY <2>1
  <2>3. ASSUME NEW i \in DOMAIN t
        PROVE  b[t[i]].at # "new"
    BY <1>3, <2>2 DEF Mapped
  <2>4. ASSUME NEW i \in DOMAIN t, NEW j \in DOMAIN t, b[t[i]].id = b[t[j]].id
        PROVE  i = j
    <3>1. b[put[i + 1]].id = b[put[j + 1]].id /\ i + 1 \in DOMAIN put /\ j + 1 \in DOMAIN put
      BY <2>2, <2>4
    <3>2. i + 1 = j + 1
      BY <1>3, <3>1 DEF Mapped
    <3> QED  BY <2>2, <3>2
  <2> QED  BY <2>1, <2>3, <2>4 DEF Mapped, t
<1> QED  BY <1>3, <1>4 DEF Director!Upsert, put

\* Whatever object a run puts into the store, if it is of the run's mission and, when
\* the run waits on, on schedule
LEMMA StoresKeeps ==
  ASSUME DirectorInv, NEW r \in Runs, NEW record \in RunType, record.at # "new",
         run[r].at # "new" => run[r].id = record.id, OnSchedule(record),
         Director!Stores(r, record), missionFile' = missionFile, available' = available
  PROVE  DirectorInv'
<1>1. /\ run' = [run EXCEPT ![r] = record] /\ missions' = Director!Upsert(r, record.id, missions)
      /\ lists' = Append(lists, missions')
  BY DEF Director!Stores
<1>2. run \in [Runs -> RunType] /\ lists \in Seq(Seq(Runs))
  BY DEF DirectorInv
<1>3. run' \in [Runs -> RunType] /\ run'[r] = record /\ \A q \in Runs : q # r => run'[q] = run[q]
  BY <1>1, <1>2
<1>4. Keeps(run, run')
  BY <1>3 DEF Keeps
<1>5. Mapped(missions', run')
  <2>1. Mapped(missions, run)
    BY DEF DirectorInv
  <2> DEFINE b == run'
             id == record.id
  <2>2. /\ b[r].at # "new" /\ b[r].id = id /\ \A q \in Runs : q # r => b[q] = run[q]
        /\ run[r].at # "new" => run[r].id = id
    BY <1>3
  <2> HIDE DEF b, id
  <2>3. Mapped(Director!Upsert(r, id, missions), b)
    BY <2>1, <2>2, UpsertFacts
  <2> QED  BY <1>1, <2>3 DEF b, id
<1>6. \A q \in Runs : OnSchedule(run'[q])
  BY <1>3 DEF DirectorInv
<1>7. /\ lists' \in Seq(Seq(Runs)) /\ lists' # <<>> /\ lists'[Len(lists')] = missions'
      /\ \A i \in DOMAIN lists' : lists'[i] = missions' \/ (i \in DOMAIN lists /\ lists'[i] = lists[i])
  <2>1. missions' \in Seq(Runs)
    BY <1>5 DEF Mapped
  <2> QED  BY <1>1, <1>2, <2>1
<1>8. \A i \in DOMAIN lists' : Mapped(lists'[i], run')
  <2> SUFFICES ASSUME NEW i \in DOMAIN lists' PROVE Mapped(lists'[i], run')
    OBVIOUS
  <2>1. CASE lists'[i] = missions'
    BY <1>5, <2>1
  <2>2. CASE i \in DOMAIN lists /\ lists'[i] = lists[i]
    <3>1. Mapped(lists[i], run)
      BY <2>2 DEF DirectorInv
    <3> QED  BY <1>4, <2>2, <3>1, StaysMapped
  <2> QED  BY <1>7, <2>1, <2>2
<1>9. Filed(missionFile', run')
  <2>1. Filed(missionFile, run)
    BY DEF DirectorInv
  <2> QED  BY <1>4, <2>1, StaysFiled
<1>10. available' \in BOOLEAN
  BY DEF DirectorInv
<1> QED  BY <1>3, <1>5, <1>6, <1>7, <1>8, <1>9, <1>10 DEF DirectorInv

LEMMA FreshRun == Director!NoRun \in RunType /\ Director!NoRun.at = "new" /\ Director!NoRun.done = {}
<1>1. [s \in Director!StepIds |-> {}] \in [StepSet -> SUBSET StepSet]
  BY StepsFacts
<1> QED  BY <1>1 DEF Director!NoRun, RunType, Director!Statuses

LEMMA ExecuteFacts ==
  ASSUME NEW record \in RunType, NEW step \in Nat, available \in BOOLEAN
  PROVE  LET e == Director!Execute(record, step)
         IN  /\ e \in RunType /\ e.at = "waiting" /\ e.step = step /\ e.id = record.id
             /\ e.order = record.order /\ e.needs = record.needs /\ e.done = record.done
BY DEF Director!Execute, RunType, Director!Statuses

LEMMA DirectorStarts ==
  ASSUME DirectorInv, NEW r \in Runs, NEW id \in Ids, NEW needs \in [Director!StepIds -> SUBSET Director!StepIds],
         NEW blank \in BOOLEAN, NEW approved \in BOOLEAN, Director!Start(r, id, needs, blank, approved)
  PROVE  DirectorInv'
<1> DEFINE order == Director!Schedule(needs)
           begun == [Director!NoRun EXCEPT !.id = id, !.needs = needs, !.order = order]
           threw == [Director!NoRun EXCEPT !.at = "threw", !.id = id, !.status = "PLANNING"]
           refused == [Director!NoRun EXCEPT !.at = "answered", !.id = id, !.status = "NOT_READY"]
<1>1. Planned(order, needs)
  BY ScheduleFacts
<1>2. needs \in [StepSet -> SUBSET StepSet]
  BY StepsFacts
<1>3. order \in Seq(StepSet)
  BY <1>1 DEF Planned
<1>4. /\ run[r].at = "new" /\ missionFile' = missionFile /\ available' = available
      /\ \/ Director!Stores(r, threw)
         \/ Len(order) = Len(Steps) /\ Director!Stores(r, Director!Execute(begun, 1))
         \/ Director!Stores(r, refused)
  BY DEF Director!Start
<1> HIDE DEF order
<1>5. CASE Director!Stores(r, threw)
  <2>1. threw \in RunType /\ threw.at = "threw"
    BY FreshRun DEF RunType, Director!Statuses
  <2> HIDE DEF threw
  <2>2. OnSchedule(threw) /\ threw.at # "new"
    BY <2>1 DEF OnSchedule
  <2> QED  BY <1>4, <1>5, <2>1, <2>2, StoresKeeps
<1>6. CASE Director!Stores(r, refused)
  <2>1. refused \in RunType /\ refused.at = "answered"
    BY FreshRun DEF RunType, Director!Statuses
  <2> HIDE DEF refused
  <2>2. OnSchedule(refused) /\ refused.at # "new"
    BY <2>1 DEF OnSchedule
  <2> QED  BY <1>4, <1>6, <2>1, <2>2, StoresKeeps
<1>7. CASE Len(order) = Len(Steps) /\ Director!Stores(r, Director!Execute(begun, 1))
  <2> DEFINE e == Director!Execute(begun, 1)
  <2>1. begun \in RunType /\ begun.order = order /\ begun.needs = needs /\ begun.done = {}
    BY <1>2, <1>3, FreshRun DEF RunType, Director!Statuses
  <2> HIDE DEF begun
  <2>2. e \in RunType /\ e.at = "waiting" /\ e.step = 1 /\ e.order = order /\ e.needs = needs /\ e.done = {}
    <3>1. available \in BOOLEAN /\ 1 \in Nat
      BY DEF DirectorInv
    <3> QED  BY <2>1, <3>1, ExecuteFacts
  <2> HIDE DEF e
  <2>3. 1 \in DOMAIN order
    BY <1>3, <1>7, StepsFacts
  <2>4. Before(order, 1) = {}
    BY DEF Before
  <2>5. OnSchedule(e) /\ e.at # "new"
    BY <1>1, <2>2, <2>3, <2>4 DEF OnSchedule
  <2>6. Director!Stores(r, e)
    BY <1>7 DEF e
  <2> QED  BY <1>4, <2>2, <2>5, <2>6, StoresKeeps
<1> QED  BY <1>4, <1>5, <1>6, <1>7

LEMMA DirectorTeamless ==
  ASSUME DirectorInv, NEW r \in Runs, NEW id \in Ids, Director!NoTeam(r, id)
  PROVE  DirectorInv'
<1> DEFINE teamless == [Director!NoRun EXCEPT !.at = "answered", !.id = id, !.status = "NO_TEAM_AVAILABLE"]
<1>1. /\ run[r].at = "new" /\ missionFile' = missionFile /\ available' = available
      /\ Director!Stores(r, teamless)
  BY DEF Director!NoTeam
<1>2. teamless \in RunType /\ teamless.at = "answered"
  BY FreshRun DEF RunType, Director!Statuses
<1> HIDE DEF teamless
<1>3. OnSchedule(teamless) /\ teamless.at # "new"
  BY <1>2 DEF OnSchedule
<1> QED  BY <1>1, <1>2, <1>3, StoresKeeps

LEMMA DirectorAnswers ==
  ASSUME DirectorInv, NEW r \in Runs, Director!StepAnswers(r)
  PROVE  DirectorInv'
<1> DEFINE o == run[r].order
           s == run[r].step
           next == [run[r] EXCEPT !.done = @ \cup {o[s]}]
           completed == [next EXCEPT !.at = "answered", !.status = "COMPLETED"]
           failed == [run[r] EXCEPT !.at = "answered", !.status = "FAILED"]
<1>1. /\ run[r].at = "waiting" /\ missionFile' = missionFile /\ available' = available
      /\ \/ s < Len(o) /\ Director!Stores(r, Director!Execute(next, s + 1))
         \/ Director!Stores(r, completed)
         \/ Director!Stores(r, failed)
  BY DEF Director!StepAnswers, Director!StepFails
<1>2. run[r] \in RunType /\ available \in BOOLEAN /\ OnSchedule(run[r])
  BY DEF DirectorInv
<1>3. /\ Planned(o, run[r].needs) /\ s \in DOMAIN o
      /\ run[r].done = Before(o, s)
  BY <1>1, <1>2 DEF OnSchedule
<1>4. /\ o \in Seq(StepSet) /\ s \in Nat /\ s >= 1 /\ o[s] \in StepSet /\ DOMAIN o = 1 .. Len(o)
      /\ Len(o) \in Nat
  BY <1>3 DEF Planned
<1>5. /\ next \in RunType /\ next.id = run[r].id /\ next.order = o /\ next.needs = run[r].needs
      /\ next.done = run[r].done \cup {o[s]}
  BY <1>2, <1>4 DEF RunType
<1>6. CASE s < Len(o) /\ Director!Stores(r, Director!Execute(next, s + 1))
  <2> DEFINE e == Director!Execute(next, s + 1)
  <2> HIDE DEF next, o, s
  <2>1. /\ e \in RunType /\ e.at = "waiting" /\ e.step = s + 1 /\ e.id = run[r].id /\ e.order = o
        /\ e.needs = run[r].needs /\ e.done = run[r].done \cup {o[s]}
    <3>1. s + 1 \in Nat
      BY <1>4
    <3> QED  BY <1>2, <1>5, <3>1, ExecuteFacts
  <2>2. Director!Stores(r, e)
    BY <1>6
  <2> HIDE DEF e
  <2>3. s + 1 \in DOMAIN o
    BY <1>4, <1>6
  <2>4. Before(o, s + 1) = Before(o, s) \cup {o[s]}
    BY <1>4 DEF Before
  <2>5. OnSchedule(e) /\ e.at # "new"
    BY <1>3, <2>1, <2>3, <2>4 DEF OnSchedule
  <2> QED  BY <1>1, <2>1, <2>2, <2>5, StoresKeeps
<1>7. CASE Director!Stores(r, completed)
  <2>1. completed \in RunType /\ completed.at = "answered" /\ completed.id = run[r].id
    <3> HIDE DEF next
    <3> QED  BY <1>5 DEF RunType, Director!Statuses
  <2> HIDE DEF completed
  <2>2. OnSchedule(completed) /\ completed.at # "new"
    BY <2>1 DEF OnSchedule
  <2> QED  BY <1>1, <1>7, <2>1, <2>2, StoresKeeps
<1>8. CASE Director!Stores(r, failed)
  <2>1. failed \in RunType /\ failed.at = "answered" /\ failed.id = run[r].id
    BY <1>2 DEF RunType, Director!Statuses
  <2> HIDE DEF failed
  <2>2. OnSchedule(failed) /\ failed.at # "new"
    BY <2>1 DEF OnSchedule
  <2> QED  BY <1>1, <1>8, <2>1, <2>2, StoresKeeps
<1> QED  BY <1>1, <1>6, <1>7, <1>8

LEMMA DirectorThrows ==
  ASSUME DirectorInv, NEW r \in Runs, Director!StepThrows(r)
  PROVE  DirectorInv'
<1> DEFINE thrown == [run[r] EXCEPT !.at = "threw"]
<1>1. /\ run[r].at = "waiting" /\ run' = [run EXCEPT ![r] = thrown]
      /\ missions' = missions /\ lists' = lists /\ missionFile' = missionFile /\ available' = available
  BY DEF Director!StepThrows
<1>2. run \in [Runs -> RunType]
  BY DEF DirectorInv
<1>3. thrown \in RunType /\ thrown.at = "threw" /\ thrown.id = run[r].id /\ thrown.status = run[r].status
  BY <1>2 DEF RunType
<1> HIDE DEF thrown
<1>4. run' \in [Runs -> RunType] /\ run'[r] = thrown /\ \A q \in Runs : q # r => run'[q] = run[q]
  BY <1>1, <1>2, <1>3
<1>5. Keeps(run, run')
  BY <1>3, <1>4 DEF Keeps
<1>6. \A q \in Runs : OnSchedule(run'[q])
  <2>1. OnSchedule(thrown)
    BY <1>3 DEF OnSchedule
  <2>2. \A q \in Runs : OnSchedule(run[q])
    BY DEF DirectorInv
  <2> QED  BY <1>4, <2>1, <2>2
<1>7. Mapped(missions, run') /\ \A i \in DOMAIN lists : Mapped(lists[i], run')
  <2>1. Mapped(missions, run) /\ \A i \in DOMAIN lists : Mapped(lists[i], run)
    BY DEF DirectorInv
  <2> QED  BY <1>5, <2>1, StaysMapped
<1>8. Filed(missionFile, run')
  <2>1. Filed(missionFile, run)
    BY DEF DirectorInv
  <2> QED  BY <1>5, <2>1, StaysFiled
<1>9. Director!Rows(missions)' = Director!Rows(missions)
  <2>1. \A q \in Runs : run'[q].id = run[q].id /\ run'[q].status = run[q].status
    BY <1>3, <1>4
  <2>2. missions \in Seq(Runs)
    BY DEF DirectorInv, Mapped
  <2>3. \A i \in DOMAIN missions : missions[i] \in Runs
    BY <2>2
  <2> QED  BY <1>1, <2>1, <2>3 DEF Director!Rows, Director!Row
<1> QED  BY <1>1, <1>4, <1>6, <1>7, <1>8, <1>9 DEF DirectorInv

\* A list that is written gives a file of its missions
LEMMA RowsFacts ==
  ASSUME NEW list, Mapped(list, run), run \in [Runs -> RunType]
  PROVE  Filed(Director!Rows(list), run)
<1> DEFINE rows == Director!Rows(list)
<1>1. list \in Seq(Runs) /\ \A i \in DOMAIN list : list[i] \in Runs
  BY DEF Mapped
<1>2. \A q \in Runs : Director!Row(q) \in RowType /\ Director!Row(q).run = q /\ Director!Row(q).id = run[q].id
  <2>1. \A q \in Runs : run[q].id \in Ids \cup {NoId} /\ run[q].status \in Director!Statuses
    BY DEF RunType
  <2> QED  BY <2>1 DEF RowType, Director!Row
<1>3. rows = [i \in 1 .. Len(list) |-> Director!Row(list[i])] /\ Len(list) \in Nat /\ DOMAIN list = 1 .. Len(list)
  BY <1>1 DEF Director!Rows
<1> HIDE DEF rows
<1>4. \A i \in 1 .. Len(list) : rows[i] = Director!Row(list[i]) /\ list[i] \in Runs /\ rows[i] \in RowType
  BY <1>1, <1>2, <1>3
<1>5. rows \in Seq(RowType) /\ DOMAIN rows = DOMAIN list
  BY <1>3, <1>4
<1>6. \A i \in DOMAIN rows : rows[i].run = list[i] /\ rows[i].id = run[list[i]].id
  BY <1>2, <1>3, <1>4, <1>5
<1>7. \A i \in DOMAIN rows : run[rows[i].run].at # "new" /\ rows[i].id = run[rows[i].run].id
  BY <1>5, <1>6 DEF Mapped
<1>8. \A i, j \in DOMAIN rows : rows[i].id = rows[j].id => i = j
  BY <1>5, <1>6 DEF Mapped
<1>9. Filed(rows, run)
  BY <1>5, <1>7, <1>8 DEF Filed
<1> QED  BY <1>9 DEF rows

LEMMA DirectorWrites ==
  ASSUME DirectorInv, Director!Write
  PROVE  DirectorInv'
<1> DEFINE n == Len(lists)
<1>1. /\ lists # <<>> /\ missionFile' = Director!Rows(Head(lists)) /\ lists' = Tail(lists)
      /\ run' = run /\ missions' = missions /\ available' = available
  BY DEF Director!Write
<1>2. lists \in Seq(Seq(Runs)) /\ lists[Len(lists)] = missions /\ \A i \in DOMAIN lists : Mapped(lists[i], run)
  BY <1>1 DEF DirectorInv
<1>3. n \in Nat \ {0} /\ DOMAIN lists = 1 .. n /\ Head(lists) = lists[1]
  BY <1>1, <1>2
<1>4. /\ lists' \in Seq(Seq(Runs)) /\ Len(lists') = n - 1 /\ DOMAIN lists' = 1 .. (n - 1)
      /\ \A i \in 1 .. (n - 1) : lists'[i] = lists[i + 1]
  BY <1>1, <1>2, <1>3
<1> HIDE DEF n
<1>5. Filed(missionFile', run)
  <2>1. Mapped(Head(lists), run) /\ run \in [Runs -> RunType]
    BY <1>2, <1>3 DEF DirectorInv
  <2> QED  BY <1>1, <2>1, RowsFacts
<1>6. \A i \in DOMAIN lists' : Mapped(lists'[i], run)
  <2> SUFFICES ASSUME NEW i \in 1 .. (n - 1) PROVE Mapped(lists'[i], run)
    BY <1>4
  <2>1. i + 1 \in DOMAIN lists /\ lists'[i] = lists[i + 1]
    BY <1>3, <1>4
  <2> QED  BY <1>2, <2>1
<1>7. lists' # <<>> => lists'[Len(lists')] = missions
  <2> SUFFICES ASSUME lists' # <<>> PROVE lists'[Len(lists')] = missions
    OBVIOUS
  <2>1. n - 1 # 0
    BY <1>3, <1>4
  <2>2. n - 1 \in 1 .. (n - 1) /\ n - 1 + 1 = n
    BY <1>3, <2>1
  <2>3. lists'[n - 1] = lists[n]
    BY <1>4, <2>2
  <2> QED  BY <1>2, <1>4, <2>3 DEF n
<1>8. lists' = <<>> => missionFile' = Director!Rows(missions)'
  <2> SUFFICES ASSUME lists' = <<>> PROVE missionFile' = Director!Rows(missions)'
    OBVIOUS
  <2>1. n = 1
    BY <1>3, <1>4
  <2>2. Head(lists) = missions
    BY <1>2, <1>3, <2>1 DEF n
  <2>3. Director!Rows(missions)' = Director!Rows(missions)
    BY <1>1 DEF Director!Rows, Director!Row
  <2> QED  BY <1>1, <2>2, <2>3
<1>9. /\ run' \in [Runs -> RunType] /\ available' \in BOOLEAN /\ \A q \in Runs : OnSchedule(run'[q])
      /\ Mapped(missions', run')
  BY <1>1 DEF DirectorInv
<1> QED  BY <1>1, <1>4, <1>5, <1>6, <1>7, <1>8, <1>9 DEF DirectorInv

\* load() finds in the file what memory holds afterwards
LEMMA DirectorRestarts ==
  ASSUME DirectorInv, Director!Restart
  PROVE  DirectorInv'
<1> DEFINE rows(r) == {i \in DOMAIN missionFile : missionFile[i].run = r}
           status(r) == IF rows(r) = {} THEN "none" ELSE missionFile[CHOOSE i \in rows(r) : TRUE].status
           loaded(r) == [Director!NoRun EXCEPT !.at = IF run[r].at = "waiting" THEN "died" ELSE run[r].at,
                                               !.id = run[r].id, !.status = status(r)]
<1>1. /\ missions' = [i \in DOMAIN missionFile |-> missionFile[i].run]
      /\ run' = [r \in Runs |-> IF run[r].at = "new" THEN run[r] ELSE loaded(r)]
      /\ lists' = <<>> /\ available' = TRUE /\ missionFile' = missionFile
  BY DEF Director!Restart
<1>2. run \in [Runs -> RunType] /\ Filed(missionFile, run)
  BY DEF DirectorInv
<1>3. missionFile \in Seq(RowType) /\ \A i \in DOMAIN missionFile : missionFile[i] \in RowType
  BY <1>2 DEF Filed
<1>4. \A r \in Runs : status(r) \in Director!Statuses
  <2> SUFFICES ASSUME NEW r \in Runs PROVE status(r) \in Director!Statuses
    OBVIOUS
  <2>1. CASE rows(r) = {}
    BY <2>1 DEF Director!Statuses
  <2>2. CASE rows(r) # {}
    <3>1. PICK i \in DOMAIN missionFile : (CHOOSE j \in rows(r) : TRUE) = i
      BY <2>2
    <3>2. missionFile[i].status \in Director!Statuses
      BY <1>3 DEF RowType
    <3> QED  BY <2>2, <3>1, <3>2
  <2> QED  BY <2>1, <2>2
<1>5. \A i \in DOMAIN missionFile : status(missionFile[i].run) = missionFile[i].status
  <2> SUFFICES ASSUME NEW i \in DOMAIN missionFile PROVE status(missionFile[i].run) = missionFile[i].status
    OBVIOUS
  <2>1. rows(missionFile[i].run) = {i}
    BY <1>2 DEF Filed
  <2>2. (CHOOSE j \in {i} : TRUE) = i
    OBVIOUS
  <2> QED  BY <2>1, <2>2
<1> HIDE DEF status
<1>6. \A r \in Runs : /\ loaded(r) \in RunType /\ loaded(r).id = run[r].id /\ loaded(r).status = status(r)
                      /\ loaded(r).at # "waiting"
                      /\ run[r].at # "new" => loaded(r).at # "new"
  <2> SUFFICES ASSUME NEW r \in Runs
               PROVE  /\ loaded(r) \in RunType /\ loaded(r).id = run[r].id /\ loaded(r).status = status(r)
                      /\ loaded(r).at # "waiting"
                      /\ run[r].at # "new" => loaded(r).at # "new"
    OBVIOUS
  <2> DEFINE at == IF run[r].at = "waiting" THEN "died" ELSE run[r].at
             id == run[r].id
  <2>1. /\ at \in {"new", "waiting", "answered", "threw", "died"} /\ at # "waiting" /\ (run[r].at # "new" => at # "new")
        /\ id \in Ids \cup {NoId}
    BY <1>2 DEF RunType
  <2>2. loaded(r) = [Director!NoRun EXCEPT !.at = at, !.id = id, !.status = status(r)]
    OBVIOUS
  <2> HIDE DEF at, loaded, id
  <2>3. loaded(r) \in RunType /\ loaded(r).id = id /\ loaded(r).status = status(r) /\ loaded(r).at = at
    BY <1>4, <2>1, <2>2, FreshRun DEF RunType
  <2> QED  BY <2>1, <2>3 DEF id
<1> HIDE DEF loaded
<1>7. /\ run' \in [Runs -> RunType] /\ \A r \in Runs : run'[r] = IF run[r].at = "new" THEN run[r] ELSE loaded(r)
  BY <1>1, <1>2, <1>6
<1>8. Keeps(run, run') /\ \A r \in Runs : OnSchedule(run'[r])
  BY <1>6, <1>7 DEF Keeps, OnSchedule
<1>9. Filed(missionFile, run')
  BY <1>2, <1>8, StaysFiled
<1>10. missions' \in Seq(Runs) /\ DOMAIN missions' = DOMAIN missionFile
       /\ \A i \in DOMAIN missionFile : missions'[i] = missionFile[i].run /\ missionFile[i].run \in Runs
  <2>1. \A i \in DOMAIN missionFile : missionFile[i].run \in Runs
    BY <1>3 DEF RowType
  <2>2. DOMAIN missionFile = 1 .. Len(missionFile) /\ Len(missionFile) \in Nat
    BY <1>3
  <2> QED  BY <1>1, <2>1, <2>2
<1>11. Mapped(missions', run')
  BY <1>9, <1>10 DEF Mapped, Filed
<1>12. missionFile = Director!Rows(missions)'
  <2>1. ASSUME NEW i \in DOMAIN missionFile
        PROVE  missionFile[i] = [run |-> missionFile[i].run, id |-> run'[missionFile[i].run].id,
                                 status |-> run'[missionFile[i].run].status]
    <3> DEFINE q == missionFile[i].run
    <3>1. missionFile[i] \in RowType /\ q \in Runs
      BY <1>3, <1>10
    <3>2. run[q].at # "new" /\ missionFile[i].id = run[q].id
      BY <1>2 DEF Filed
    <3>3. run'[q].id = missionFile[i].id /\ run'[q].status = missionFile[i].status
      BY <1>5, <1>6, <1>7, <3>1, <3>2
    <3> HIDE DEF q
    <3>4. missionFile[i].run = q
      BY DEF q
    <3> QED  BY <3>1, <3>3, <3>4 DEF RowType
  <2>2. missionFile = [i \in DOMAIN missionFile |-> missionFile[i]]
    BY <1>3
  <2>3. Director!Rows(missions)' = [i \in DOMAIN missionFile |->
                                     [run |-> missionFile[i].run, id |-> run'[missionFile[i].run].id,
                                      status |-> run'[missionFile[i].run].status]]
    BY <1>10 DEF Director!Rows, Director!Row
  <2> QED  BY <2>1, <2>2, <2>3
<1>13. lists' \in Seq(Seq(Runs)) /\ DOMAIN lists' = {}
  BY <1>1
<1> QED  BY <1>1, <1>7, <1>8, <1>9, <1>11, <1>12, <1>13 DEF DirectorInv

LEMMA DirectorInductive ==
  ASSUME DirectorInv, [Director!Next]_(Director!vars)
  PROVE  DirectorInv'
<1>1. ASSUME NEW r \in Runs, NEW id \in Ids, NEW needs \in [Director!StepIds -> SUBSET Director!StepIds],
             NEW blank \in BOOLEAN, NEW approved \in BOOLEAN, Director!Start(r, id, needs, blank, approved)
      PROVE  DirectorInv'
  BY <1>1, DirectorStarts
<1>6. ASSUME NEW r \in Runs, NEW id \in Ids, Director!NoTeam(r, id)
      PROVE  DirectorInv'
  BY <1>6, DirectorTeamless
<1>2. ASSUME NEW r \in Runs, Director!StepAnswers(r) \/ Director!StepThrows(r)
      PROVE  DirectorInv'
  BY <1>2, DirectorAnswers, DirectorThrows
<1>3. CASE Director!SetAvailability \/ UNCHANGED Director!vars
  <2>1. /\ run' = run /\ missions' = missions /\ lists' = lists /\ missionFile' = missionFile
        /\ available' \in BOOLEAN
    BY <1>3 DEF Director!SetAvailability, Director!vars, DirectorInv
  <2>2. Director!Rows(missions)' = Director!Rows(missions)
    BY <2>1 DEF Director!Rows, Director!Row
  <2> QED  BY <2>1, <2>2 DEF DirectorInv
<1>4. CASE Director!Write
  BY <1>4, DirectorWrites
<1>5. CASE Director!Restart
  BY <1>5, DirectorRestarts
<1> QED  BY <1>1, <1>2, <1>3, <1>4, <1>5, <1>6 DEF Director!Next

\* Whatever steps depend on each other, whatever clients give the same id to their
\* missions and wherever the process ends: a step runs behind the steps it depends on,
\* none twice, and when no write waits the file says what memory says
\* (autonomous-mission-director-v4.60.js:6-28, 71-133).
THEOREM RunsAsPlanned == Director!Spec => []MissionsAsPlanned
<1>1. DirectorInv => MissionsAsPlanned
  <2> SUFFICES ASSUME DirectorInv PROVE Director!StepsInOrder /\ Director!QuietFileAgrees
    BY DEF MissionsAsPlanned
  <2>1. Director!QuietFileAgrees
    BY DEF DirectorInv, Director!QuietFileAgrees
  <2>2. ASSUME NEW r \in Runs, run[r].at = "waiting"
        PROVE  LET step == run[r].order[run[r].step]
               IN  run[r].needs[step] \subseteq run[r].done /\ step \notin run[r].done
    <3> DEFINE o == run[r].order
               s == run[r].step
    <3>1. /\ Planned(o, run[r].needs) /\ s \in DOMAIN o
          /\ run[r].done = Before(o, s)
      BY <2>2 DEF DirectorInv, OnSchedule
    <3> HIDE DEF o, s
    <3>2. run[r].needs[o[s]] \subseteq run[r].done
      BY <3>1 DEF Planned, Before
    <3>3. \A j \in 1 .. (s - 1) : j \in DOMAIN o /\ j # s
      BY <3>1 DEF Planned
    <3>4. o[s] \notin run[r].done
      BY <3>1, <3>3 DEF Planned, Once, Before
    <3> QED  BY <3>2, <3>4 DEF o, s
  <2> QED  BY <2>1, <2>2 DEF Director!StepsInOrder
<1> QED  BY <1>1, DirectorStart, DirectorInductive, PTL DEF Director!Spec

-----------------------------------------------------------------------------
(* The types of the parts *)

Counts == 0 .. MaxFailures
Counted == monitor.failures \in Counts /\ \A c \in Cycles : watch[c].copy.failures \in Counts

LEMMA CountedStep ==
  ASSUME MonitorInv, Counted, NEW c \in Cycles,
         \/ Monitor!LoopStarts(c) \/ Monitor!Begin(c) \/ Monitor!Healthy(c) \/ Monitor!ResolveNext(c)
         \/ Monitor!AllResolved(c) \/ Monitor!Unhealthy(c) \/ Monitor!Tolerate(c)
         \/ Monitor!StartRecovery(c) \/ Monitor!Recovered(c) \/ Monitor!NotRecovered(c)
         \/ Monitor!Save(c) \/ Monitor!LoopStops(c) \/ Monitor!Throws(c)
  PROVE  Counted'
<1>0. /\ MaxFailures \in Nat /\ 0 \in Counts
      /\ watch \in [Cycles -> Round] /\ monitor \in MonitorState /\ monitor.failures \in Counts
      /\ watch[c] \in Round /\ watch[c].copy \in MonitorState /\ watch[c].copy.failures \in Counts
      /\ Monitor!NoCycle \in Round /\ Monitor!NoCycle.copy.failures \in Counts
  BY PartsAssumption, RoundTypes DEF MonitorInv, MonitorTypes, Counted, Counts, Round, Monitor!NoCycle,
     Monitor!Fresh
<1>7. Monitor!Fresh \in MonitorState /\ Monitor!Fresh.failures \in Counts
  BY <1>0 DEF Monitor!Fresh, MonitorState
<1> DEFINE Others == \A d \in Cycles \ {c} : watch'[d] = watch[d]
           Mine == watch'[c].copy.failures \in Counts
           Saved == monitor'.failures \in Counts
<1>1. ASSUME Monitor!LoopStarts(c) PROVE Others /\ Mine /\ Saved
  <2>1. PICK state \in {monitor, Monitor!Fresh} : monitor' = [state EXCEPT !.status = "RUNNING"]
    BY <1>1 DEF Monitor!LoopStarts
  <2> HIDE DEF Counts
  <2>3. monitor' \in MonitorState /\ monitor'.failures \in Counts
    BY <1>0, <1>7, <2>1 DEF MonitorState
  <2>2. watch' = [watch EXCEPT ![c] = [Monitor!NoCycle EXCEPT !.at = "looping", !.loop = TRUE, !.copy = monitor']]
    BY <1>1 DEF Monitor!LoopStarts
  <2> QED  BY <1>0, <2>3, <2>2 DEF Round
<1>2. ASSUME Monitor!Begin(c) PROVE Others /\ Mine /\ Saved
  <2>1. PICK state \in {monitor, Monitor!Fresh, watch[c].copy} : monitor' = [state EXCEPT !.status = "CHECKING"]
    BY <1>2 DEF Monitor!Begin
  <2> DEFINE e == monitor'
  <2> HIDE DEF Counts
  <2>4. e.failures \in Counts
    BY <1>0, <1>7, <2>1 DEF MonitorState
  <2>2. watch' = [watch EXCEPT ![c].at = "probing", ![c].copy = e]
    BY <1>2 DEF Monitor!Begin
  <2> HIDE DEF e
  <2>3. watch'[c].copy = e /\ Others
    BY <1>0, <2>2 DEF Round
  <2> QED  BY <2>3, <2>4 DEF e
<1>3. ASSUME \/ Monitor!Healthy(c) \/ Monitor!ResolveNext(c) \/ Monitor!AllResolved(c)
      PROVE  Others /\ Mine /\ Saved
  BY <1>0, <1>3 DEF Monitor!Healthy, Monitor!ResolveNext, Monitor!AllResolved, Round, MonitorState
<1>4. ASSUME Monitor!Unhealthy(c) PROVE Others /\ Mine /\ Saved
  <2>1. PICK i \in Incidents :
          watch' = [watch EXCEPT ![c].at = "opened", ![c].about = i,
                     ![c].copy.failures = @ + 1, ![c].copy.status = "UNHEALTHY",
                     ![c].copy.active = @ \cup {i}]
    BY <1>4 DEF Monitor!Unhealthy
  <2> DEFINE step == [watch[c] EXCEPT !.at = "opened", !.about = i,
                        !.copy.failures = watch[c].copy.failures + 1, !.copy.status = "UNHEALTHY",
                        !.copy.active = watch[c].copy.active \cup {i}]
  <2>2. watch' = [watch EXCEPT ![c] = step]
    BY <2>1
  <2>3. step.copy.failures = watch[c].copy.failures + 1
    BY <1>0 DEF Round, MonitorState
  <2> HIDE DEF step
  <2>4. watch[c].copy.failures < MaxFailures /\ UNCHANGED monitor
    BY <1>4 DEF Monitor!Unhealthy
  <2>5. watch[c].copy.failures + 1 \in Counts
    BY <1>0, <2>4 DEF Counts
  <2> QED  BY <1>0, <2>2, <2>3, <2>4, <2>5
<1>5. ASSUME \/ Monitor!Tolerate(c) \/ Monitor!StartRecovery(c) \/ Monitor!Recovered(c) \/ Monitor!NotRecovered(c)
      PROVE  Others /\ Mine /\ Saved
  BY <1>0, <1>5 DEF Monitor!Tolerate, Monitor!StartRecovery, Monitor!Recovered, Monitor!NotRecovered,
     Monitor!Goes, Round, MonitorState
<1>6. ASSUME \/ Monitor!Save(c) \/ Monitor!LoopStops(c) \/ Monitor!Throws(c)
      PROVE  Others /\ Mine /\ Saved
  BY <1>0, <1>6 DEF Monitor!Save, Monitor!LoopStops, Monitor!Throws, Round, MonitorState
<1> QED  BY <1>1, <1>2, <1>3, <1>4, <1>5, <1>6 DEF Counted

LEMMA MonitorTypesHold == Monitor!Spec => []Monitor!TypeOK
<1>1. Monitor!Init => MonitorInv /\ Counted
  <2> SUFFICES ASSUME Monitor!Init PROVE MonitorInv /\ Counted
    OBVIOUS
  <2>1. \A c \in Cycles : watch[c] = Monitor!NoCycle
    BY DEF Monitor!Init
  <2>2. monitor.failures = 0 /\ Monitor!NoCycle.copy.failures = 0
    BY DEF Monitor!Init, Monitor!NoCycle, Monitor!Fresh
  <2> QED  BY <2>1, <2>2, MonitorInitially, PartsAssumption DEF Counted, Counts
<1>2. MonitorInv /\ Counted /\ [Monitor!Next]_(Monitor!vars) => (MonitorInv /\ Counted)'
  <2> SUFFICES ASSUME MonitorInv, Counted, [Monitor!Next]_(Monitor!vars) PROVE Counted'
    BY MonitorKeeps
  <2>1. CASE UNCHANGED Monitor!vars
    BY <2>1 DEF Counted, Monitor!vars
  <2>2. CASE Monitor!Restart
    <3>1. Monitor!NoCycle.copy.failures = 0
      BY DEF Monitor!NoCycle, Monitor!Fresh
    <3> QED  BY <2>2, <3>1, PartsAssumption DEF Monitor!Restart, Counted, Counts
  <2> QED  BY <2>1, <2>2, CountedStep DEF Monitor!Next
<1>3. MonitorInv /\ Counted => Monitor!TypeOK
  BY DEF MonitorInv, MonitorTypes, Monitor!TypeOK, Counted, Counts, Round, MonitorState
<1> QED  BY <1>1, <1>2, <1>3, PTL DEF Monitor!Spec

Bounded == faults \in 0 .. MaxFaults /\ crashes \in 0 .. MaxCrashes

LEMMA AccountTypesHold == Accounts!Spec => []Accounts!TypeOK
<1>1. Accounts!Init => AccountsInv /\ Bounded
  BY AccountsInitially, PartsAssumption DEF Accounts!Init, Bounded
<1>2. AccountsInv /\ Bounded /\ [Accounts!Next]_(Accounts!vars) => (AccountsInv /\ Bounded)'
  <2> SUFFICES ASSUME Bounded, [Accounts!Next]_(Accounts!vars) PROVE Bounded'
    BY AccountsKeep
  <2>1. \/ UNCHANGED <<faults, crashes>>
        \/ faults < MaxFaults /\ faults' = faults + 1 /\ UNCHANGED crashes
        \/ crashes < MaxCrashes /\ crashes' = crashes + 1 /\ UNCHANGED faults
    BY DEF Accounts!Next, Accounts!vars, Accounts!Create, Accounts!Revoke, Accounts!Provision,
       Accounts!Provisioned, Accounts!Attach, Accounts!ProvisionFails, Accounts!Write,
       Accounts!WriteFails, Accounts!Crash
  <2> QED  BY <2>1, PartsAssumption DEF Bounded
<1>3. AccountsInv /\ Bounded => Accounts!TypeOK
  <2> SUFFICES ASSUME AccountsInv, Bounded PROVE Accounts!TypeOK
    OBVIOUS
  <2>1. ASSUME NEW k \in Accounts!Kinds, NEW i \in DOMAIN writes[k]
        PROVE  writes[k][i].by \in Accounts!Requests /\ writes[k][i].rows \subseteq Creations
    <3>1. writes[k] \in Seq(Entry)
      BY DEF AccountsInv, AccountTypes
    <3>2. writes[k][i] \in Entry
      BY <2>1, <3>1, ElementOfSeq, LenProperties
    <3> QED  BY <3>2 DEF Entry
  <2> QED  BY <2>1 DEF AccountsInv, AccountTypes, Accounts!TypeOK, Bounded, Places
<1> QED  BY <1>1, <1>2, <1>3, PTL DEF Accounts!Spec

\* What is stored names its project, and so does what is to be stored
AllNamed(db) == \A i \in DOMAIN db : db[i].state.project \in Topics
Storing(q) ==
  /\ q.at \in {"save", "write"} => q.state.project \in Topics
  /\ q.at = "write" => AllNamed(q.db)
StoredInv ==
  /\ Len(states) <= MaxRecords /\ AllNamed(states)
  /\ \A r \in Messages : Storing(chat[r])
  /\ chatFaults \in 0 .. MaxFaults /\ chatRestarts \in 0 .. MaxRestarts

LEMMA StoringStep ==
  ASSUME ChatInv, StoredInv, NEW r \in Messages,
         \/ Chat!Arrive(r) \/ Chat!Found(r) \/ Chat!NotFound(r) \/ Chat!Understand(r)
         \/ Chat!Save(r) \/ Chat!Write(r) \/ Chat!SaveFails(r)
  PROVE  StoredInv'
<1>0. /\ chat \in [Messages -> Turn] /\ chat[r] \in Turn /\ Storing(chat[r]) /\ states \in Seq(Record)
      /\ chat[r].state \in State /\ chat[r].id \in Topics \cup {NoTopic} /\ chat[r].db \in Seq(Record)
      /\ Len(states) <= MaxRecords /\ AllNamed(states)
  BY TurnFacts DEF ChatInv, ChatTypes, StoredInv
<1>1. ASSUME NEW q, Chat!Set(r, q)
      PROVE  chat'[r] = q /\ \A o \in Messages \ {r} : chat'[o] = chat[o]
  BY <1>0, <1>1 DEF Chat!Set
<1>2. Storing(chat'[r]) /\ \A o \in Messages \ {r} : chat'[o] = chat[o]
  <2>1. CASE Chat!Arrive(r)
    <3>1. PICK id \in Topics \cup {NoTopic}, state \in Chat!Given :
            LET named == IF id # NoTopic THEN id ELSE state.project
            IN  Chat!Set(r, [Chat!Idle EXCEPT !.at = IF named = NoTopic THEN "understand" ELSE "context",
                                              !.id = id, !.key = named, !.state = state])
      BY <2>1 DEF Chat!Arrive
    <3> DEFINE named == IF id # NoTopic THEN id ELSE state.project
               q == [Chat!Idle EXCEPT !.at = IF named = NoTopic THEN "understand" ELSE "context",
                                      !.id = id, !.key = named, !.state = state]
    <3>2. q.at \in {"context", "understand"}
      BY DEF Chat!Idle
    <3> HIDE DEF named
    <3>3. Chat!Set(r, q)
      BY <3>1 DEF named
    <3> HIDE DEF q
    <3> QED  BY <1>1, <3>2, <3>3 DEF Storing
  <2>2. CASE Chat!Found(r)
    <3> DEFINE q == [chat[r] EXCEPT !.at = "understand", !.found = TRUE, !.id = chat[r].key,
                                    !.state = Chat!StateOf(states, chat[r].key)]
    <3>1. Chat!Set(r, q) /\ q.at = "understand"
      BY <1>0, <2>2 DEF Chat!Found, Turn
    <3> HIDE DEF q
    <3> QED  BY <1>1, <3>1 DEF Storing
  <2>3. CASE Chat!NotFound(r)
    <3> DEFINE q == [chat[r] EXCEPT !.at = "understand"]
    <3>1. Chat!Set(r, q) /\ q.at = "understand"
      BY <1>0, <2>3 DEF Chat!NotFound, Turn
    <3> HIDE DEF q
    <3> QED  BY <1>1, <3>1 DEF Storing
  <2>4. CASE Chat!Understand(r)
    <3>1. PICK action \in {"answer", "modify"}, said \in Topics \cup {NoTopic}, recalled \in Topics \cup {NoTopic} :
            LET new == Chat!Updated(r, chat[r].state, action, said, recalled)
                key == IF chat[r].id # NoTopic THEN chat[r].id ELSE new.project
            IN  Chat!Set(r, IF new.project = NoTopic THEN [Chat!Idle EXCEPT !.at = "answered", !.state = new]
                            ELSE [chat[r] EXCEPT !.at = "save", !.state = new, !.key = key])
      BY <2>4 DEF Chat!Understand
    <3> DEFINE new == Chat!Updated(r, chat[r].state, action, said, recalled)
               key == IF chat[r].id # NoTopic THEN chat[r].id ELSE new.project
               q == IF new.project = NoTopic THEN [Chat!Idle EXCEPT !.at = "answered", !.state = new]
                    ELSE [chat[r] EXCEPT !.at = "save", !.state = new, !.key = key]
    <3>2. new.project \in Topics \cup {NoTopic}
      <4>1. chat[r].state.project \in Topics \cup {NoTopic}
        BY <1>0 DEF State
      <4> QED  BY <4>1 DEF Chat!Updated
    <3>3. Chat!Set(r, q)
      BY <3>1
    <3> HIDE DEF new, key
    <3>4. q.at = "answered" \/ (q.at = "save" /\ q.state = new /\ new.project # NoTopic)
      BY <1>0 DEF Chat!Idle, Turn
    <3> HIDE DEF q
    <3> QED  BY <1>1, <3>2, <3>3, <3>4 DEF Storing
  <2>5. CASE Chat!Save(r)
    <3> DEFINE q == [chat[r] EXCEPT !.at = "write", !.db = states]
    <3>1. Chat!Set(r, q) /\ chat[r].at = "save" /\ q.at = "write" /\ q.db = states /\ q.state = chat[r].state
      BY <1>0, <2>5 DEF Chat!Save, Chat!Is, Turn
    <3> HIDE DEF q
    <3> QED  BY <1>0, <1>1, <3>1 DEF Storing
  <2>6. CASE Chat!Write(r)
    <3> DEFINE q == [chat[r] EXCEPT !.at = "answered", !.id = NoTopic, !.db = Chat!Unread, !.kept = TRUE]
    <3>1. Chat!Set(r, q) /\ q.at = "answered"
      BY <1>0, <2>6 DEF Chat!Write, Turn
    <3> HIDE DEF q
    <3> QED  BY <1>1, <3>1 DEF Storing
  <2>7. CASE Chat!SaveFails(r)
    <3> DEFINE q == [Chat!Idle EXCEPT !.at = "answered", !.state = chat[r].state]
    <3>1. Chat!Set(r, q) /\ q.at = "answered"
      BY <2>7 DEF Chat!SaveFails, Chat!Idle
    <3> HIDE DEF q
    <3> QED  BY <1>1, <3>1 DEF Storing
  <2> QED  BY <2>1, <2>2, <2>3, <2>4, <2>5, <2>6, <2>7
<1>3. \A o \in Messages : Storing(chat'[o])
  BY <1>2 DEF StoredInv
<1>4. Len(states') <= MaxRecords /\ AllNamed(states')
  <2>1. CASE Chat!Write(r)
    <3> DEFINE db == chat[r].db
               record == [key |-> chat[r].key, state |-> chat[r].state]
    <3>1. chat[r].at = "write" /\ states' = Chat!Put(db, record)
      BY <2>1 DEF Chat!Write, Chat!Is
    <3>2. OneEach(db) /\ AllNamed(db) /\ chat[r].state.project \in Topics /\ chat[r].key \in Topics
      BY <1>0, <3>1, TurnFacts DEF Storing, TurnInv
    <3>3. record \in Record /\ record.state = chat[r].state
      BY <1>0, <3>2 DEF Record
    <3> HIDE DEF record
    <3>4. /\ Len(states') <= MaxRecords
          /\ \A j \in DOMAIN states' : states'[j] = record \/ \E i \in DOMAIN db : states'[j] = db[i]
      BY <1>0, <3>1, <3>2, <3>3, PutResult
    <3> QED  BY <3>2, <3>3, <3>4 DEF AllNamed
  <2>2. CASE ~Chat!Write(r)
    <3>1. states' = states
      BY <2>2 DEF Chat!Arrive, Chat!Found, Chat!NotFound, Chat!Understand, Chat!Save, Chat!SaveFails
    <3> QED  BY <1>0, <3>1
  <2> QED  BY <2>1, <2>2
<1>5. /\ chatFaults' = chatFaults \/ (chatFaults < MaxFaults /\ chatFaults' = chatFaults + 1)
      /\ chatRestarts' = chatRestarts
  BY DEF Chat!Arrive, Chat!Found, Chat!NotFound, Chat!Understand, Chat!Save, Chat!Write, Chat!SaveFails,
     Chat!Fault
<1>6. chatFaults' \in 0 .. MaxFaults /\ chatRestarts' \in 0 .. MaxRestarts
  BY <1>5, PartsAssumption DEF StoredInv
<1> QED  BY <1>3, <1>4, <1>6 DEF StoredInv, Storing, AllNamed

LEMMA ChatTypesHold == Chat!Spec => []Chat!TypeOK
<1>1. Chat!Init => ChatInv /\ StoredInv
  <2> SUFFICES ASSUME Chat!Init PROVE ChatInv /\ StoredInv
    OBVIOUS
  <2>1. /\ states = <<>> /\ \A r \in Messages : chat[r] = Chat!Idle
        /\ chatFaults = 0 /\ chatRestarts = 0
    BY DEF Chat!Init
  <2> QED  BY <2>1, ChatInitially, IdleTurn, PartsAssumption DEF StoredInv, Storing, AllNamed
<1>2. ChatInv /\ StoredInv /\ [Chat!Next]_(Chat!vars) => (ChatInv /\ StoredInv)'
  <2> SUFFICES ASSUME ChatInv, StoredInv, [Chat!Next]_(Chat!vars) PROVE StoredInv'
    BY ChatKeeps
  <2>1. CASE UNCHANGED Chat!vars
    BY <2>1 DEF StoredInv, Storing, AllNamed, Chat!vars
  <2>2. CASE Chat!Restart
    <3> DEFINE lost == [Chat!Idle EXCEPT !.at = "lost"]
    <3>1. lost.at = "lost"
      BY DEF Chat!Idle
    <3>2. /\ \A o \in Messages : chat'[o] = lost \/ chat'[o] = chat[o]
          /\ chatRestarts < MaxRestarts /\ chatRestarts' = chatRestarts + 1
          /\ UNCHANGED <<states, chatFaults>>
      BY <2>2 DEF Chat!Restart
    <3> HIDE DEF lost
    <3>3. \A o \in Messages : Storing(chat'[o])
      BY <3>1, <3>2 DEF StoredInv, Storing
    <3> QED  BY <3>2, <3>3, PartsAssumption DEF StoredInv, Storing, AllNamed
  <2> QED  BY <2>1, <2>2, StoringStep DEF Chat!Next
<1>3. ChatInv /\ StoredInv => Chat!TypeOK
  <2> SUFFICES ASSUME ChatInv, StoredInv PROVE Chat!TypeOK
    OBVIOUS
  <2>1. \A i \in DOMAIN states : states[i].key \in Topics
    <3>1. \A i \in DOMAIN states : states[i] \in Record
      BY DEF ChatInv, ChatTypes
    <3> QED  BY <3>1 DEF Record
  <2>2. ASSUME NEW r \in Messages
        PROVE  /\ chat[r].at \in {"idle", "context", "understand", "save", "write", "answered", "lost"}
               /\ Chat!Range(chat[r].state.requirements) \subseteq Messages
               /\ Len(chat[r].state.requirements) <= MaxRequirements
    <3>1. chat[r] \in Turn /\ chat[r].state \in State
      BY TurnFacts
    <3>2. chat[r].at \in {"idle", "context", "understand", "save", "write", "answered", "lost"}
      BY <3>1 DEF Turn, Busy
    <3>3. chat[r].state.requirements \in Lists
      BY <3>1 DEF State
    <3> QED  BY <3>2, <3>3 DEF Lists, Chat!Range
  <2> QED  BY <2>1, <2>2 DEF ChatInv, ChatTypes, StoredInv, AllNamed, OneEach, Chat!TypeOK
<1> QED  BY <1>1, <1>2, <1>3, PTL DEF Chat!Spec

\* A schedule as long as the list of steps has every step
LEMMA ScheduleOfAll ==
  ASSUME NEW order \in Seq(StepSet), Once(order), Len(order) = Len(Steps)
  PROVE  Director!Range(order) = Director!StepIds
<1> DEFINE N == Len(Steps)
           S == 1 .. N
<1>1. N \in Nat /\ Steps \in [S -> StepSet] /\ order \in [S -> StepSet]
  <2>1. Steps \in Seq(StepSet) /\ N \in Nat /\ DOMAIN Steps = S
    BY StepsFacts
  <2>2. DOMAIN order = S
    BY <2>1
  <2>3. \A i \in S : Steps[i] \in StepSet /\ order[i] \in StepSet
    BY <2>1, <2>2
  <2> HIDE DEF S
  <2>4. Steps = [i \in S |-> Steps[i]] /\ order = [i \in S |-> order[i]]
    BY <2>1, <2>2
  <2> QED  BY <2>1, <2>3, <2>4
<1>2. Steps \in Bijection(S, StepSet)
  <2>1. IsInjective(Steps)
    BY StepsFacts DEF IsInjective
  <2>2. \A t \in StepSet : \E i \in S : Steps[i] = t
    BY StepsFacts DEF StepSet
  <2> QED  BY <1>1, <2>1, <2>2 DEF Bijection, Injection, Surjection
<1>3. order \in Injection(S, StepSet)
  BY <1>1 DEF Injection, IsInjective, Once
<1>4. IsFiniteSet(StepSet) /\ Cardinality(StepSet) = N
  <2>1. ExistsBijection(S, StepSet)
    BY <1>2 DEF ExistsBijection
  <2> QED  BY <1>1, <2>1, FS_NatBijection, FS_CountingElements
<1>5. Cardinality(S) = N
  <2>1. N \in Int /\ N > 0
    BY StepsFacts
  <2> HIDE DEF N
  <2>2. Cardinality(1 .. N) = IF 1 > N THEN 0 ELSE N - 1 + 1
    BY <2>1, FS_Interval
  <2> QED  BY <2>1, <2>2
<1> HIDE DEF S
<1>6. order \in Surjection(S, StepSet)
  BY <1>3, <1>4, <1>5, FS_Injection
<1>7. Director!Range(order) = StepSet
  <2>1. DOMAIN order = S /\ \A i \in S : order[i] \in StepSet
    BY <1>1
  <2> QED  BY <1>6, <2>1 DEF Surjection, Director!Range
<1> QED  BY <1>7, StepsFacts

\* How far a run is, and that it waits only with all of its steps in the schedule
Whole(record) ==
  /\ record.step \in 0 .. Len(Steps)
  /\ record.at = "waiting" => Len(record.order) = Len(Steps)
Short(list) == Len(list) <= MaxMissions
WholeInv ==
  /\ \A r \in Runs : Whole(run[r])
  /\ Short(missions) /\ Short(missionFile) /\ \A i \in DOMAIN lists : Short(lists[i])
  /\ runRestarts \in 0 .. MaxRestarts

LEMMA UpsertIsShort ==
  ASSUME NEW kept \in Seq(Runs), Short(kept), NEW r \in Runs, NEW id
  PROVE  Short(Director!Upsert(r, id, kept))
<1> DEFINE same == {i \in DOMAIN kept : run[kept[i]].id = id}
           put == IF same = {} THEN Append(kept, r)
                  ELSE [i \in DOMAIN kept |-> IF i \in same THEN r ELSE kept[i]]
           n == Len(kept)
<1>1. n \in Nat /\ MaxMissions \in Nat /\ n <= MaxMissions /\ DOMAIN kept = 1 .. n
      /\ \A i \in 1 .. n : kept[i] \in Runs
  BY PartsAssumption DEF Short
<1>2. put \in Seq(Runs) /\ Len(put) \in Nat /\ Len(put) <= n + 1
  <2>1. CASE same = {}
    <3>1. put = Append(kept, r)
      BY <2>1
    <3> QED  BY <3>1
  <2>2. CASE same # {}
    <3>1. put = [i \in 1 .. n |-> IF i \in same THEN r ELSE kept[i]]
      BY <1>1, <2>2
    <3> HIDE DEF put, same
    <3>2. put \in [1 .. n -> Runs]
      BY <1>1, <3>1
    <3>3. put \in Seq(Runs) /\ Len(put) = n
      BY <1>1, <3>2
    <3> QED  BY <1>1, <3>3
  <2> QED  BY <2>1, <2>2
<1>3. Director!Upsert(r, id, kept) = IF Len(put) > MaxMissions THEN Tail(put) ELSE put
  BY DEF Director!Upsert
<1> HIDE DEF put, n
<1>4. Len(put) > MaxMissions => Len(Tail(put)) = Len(put) - 1
  BY <1>1, <1>2
<1> QED  BY <1>1, <1>2, <1>3, <1>4 DEF Short

LEMMA StoresWhole ==
  ASSUME DirectorInv, WholeInv, NEW r \in Runs, NEW record, Whole(record),
         Director!Stores(r, record), UNCHANGED <<missionFile, runRestarts>>
  PROVE  WholeInv'
<1>1. /\ run' = [run EXCEPT ![r] = record] /\ missions' = Director!Upsert(r, record.id, missions)
      /\ lists' = Append(lists, missions')
  BY DEF Director!Stores
<1>2. run \in [Runs -> RunType] /\ lists \in Seq(Seq(Runs)) /\ missions \in Seq(Runs)
  BY DEF DirectorInv, Mapped
<1>3. \A q \in Runs : Whole(run'[q])
  <2>1. \A q \in Runs : run'[q] = record \/ run'[q] = run[q]
    BY <1>1, <1>2
  <2> QED  BY <2>1 DEF WholeInv
<1>4. Short(missions')
  BY <1>1, <1>2, UpsertIsShort DEF WholeInv
<1>5. \A i \in DOMAIN lists' : lists'[i] = missions' \/ (i \in DOMAIN lists /\ lists'[i] = lists[i])
  BY <1>1, <1>2
<1>6. \A i \in DOMAIN lists' : Short(lists'[i])
  BY <1>4, <1>5 DEF WholeInv
<1> QED  BY <1>3, <1>4, <1>6 DEF WholeInv, Whole, Short

LEMMA DirectorWhole ==
  ASSUME DirectorInv, WholeInv, [Director!Next]_(Director!vars)
  PROVE  WholeInv'
<1>1. ASSUME NEW r \in Runs, NEW id \in Ids, NEW needs \in [Director!StepIds -> SUBSET Director!StepIds],
             NEW blank \in BOOLEAN, NEW approved \in BOOLEAN, Director!Start(r, id, needs, blank, approved)
      PROVE  WholeInv'
  <2> DEFINE order == Director!Schedule(needs)
             begun == [Director!NoRun EXCEPT !.id = id, !.needs = needs, !.order = order]
             threw == [Director!NoRun EXCEPT !.at = "threw", !.id = id, !.status = "PLANNING"]
             refused == [Director!NoRun EXCEPT !.at = "answered", !.id = id, !.status = "NOT_READY"]
             e == Director!Execute(begun, 1)
  <2>1. /\ UNCHANGED <<missionFile, runRestarts>>
        /\ \/ Director!Stores(r, threw)
           \/ Len(order) = Len(Steps) /\ Director!Stores(r, e)
           \/ Director!Stores(r, refused)
    BY <1>1 DEF Director!Start
  <2>2. Len(Steps) \in Nat \ {0}
    BY StepsFacts
  <2>3. Whole(threw) /\ Whole(refused)
    BY <2>2 DEF Whole, Director!NoRun
  <2>4. e.step = 1 /\ e.order = order
    BY DEF Director!Execute, Director!NoRun
  <2> HIDE DEF threw, refused, e, order
  <2>5. Len(order) = Len(Steps) => Whole(e)
    BY <2>2, <2>4 DEF Whole
  <2> QED  BY <2>1, <2>3, <2>5, StoresWhole
<1>2. ASSUME NEW r \in Runs, Director!StepAnswers(r)
      PROVE  WholeInv'
  <2> DEFINE o == run[r].order
             s == run[r].step
             next == [run[r] EXCEPT !.done = @ \cup {o[s]}]
             e == Director!Execute(next, s + 1)
             completed == [next EXCEPT !.at = "answered", !.status = "COMPLETED"]
             failed == [run[r] EXCEPT !.at = "answered", !.status = "FAILED"]
  <2>1. /\ run[r].at = "waiting" /\ UNCHANGED <<missionFile, runRestarts>>
        /\ \/ s < Len(o) /\ Director!Stores(r, e)
           \/ Director!Stores(r, completed)
           \/ Director!Stores(r, failed)
    BY <1>2 DEF Director!StepAnswers, Director!StepFails
  <2>2. run[r] \in RunType /\ Whole(run[r]) /\ Len(o) = Len(Steps) /\ Len(Steps) \in Nat /\ s \in 0 .. Len(Steps)
    BY <2>1, StepsFacts DEF DirectorInv, WholeInv, Whole
  <2>3. /\ e.step = s + 1 /\ e.order = o
        /\ completed.step = s /\ completed.at = "answered"
        /\ failed.step = s /\ failed.at = "answered"
    BY <2>2 DEF Director!Execute, RunType
  <2> HIDE DEF e, completed, failed, next, s, o
  <2>4. (s < Len(o) => Whole(e)) /\ Whole(completed) /\ Whole(failed)
    BY <2>2, <2>3 DEF Whole
  <2> QED  BY <2>1, <2>4, StoresWhole
<1>3. ASSUME NEW r \in Runs, Director!StepThrows(r)
      PROVE  WholeInv'
  <2> DEFINE thrown == [run[r] EXCEPT !.at = "threw"]
  <2>1. run' = [run EXCEPT ![r] = thrown] /\ UNCHANGED <<missions, lists, missionFile, runRestarts>>
        /\ run \in [Runs -> RunType]
    BY <1>3 DEF Director!StepThrows, DirectorInv
  <2>2. thrown.step = run[r].step /\ thrown.at = "threw"
    BY <2>1 DEF RunType
  <2> HIDE DEF thrown
  <2>3. \A q \in Runs : run'[q] = thrown \/ run'[q] = run[q]
    BY <2>1
  <2>4. \A q \in Runs : Whole(run'[q])
    BY <2>2, <2>3 DEF WholeInv, Whole
  <2> QED  BY <2>1, <2>4 DEF WholeInv, Short, Whole
<1>4. CASE Director!SetAvailability \/ UNCHANGED Director!vars
  BY <1>4 DEF Director!SetAvailability, Director!vars, WholeInv, Whole, Short
<1>5. CASE Director!Write
  <2>1. /\ lists # <<>> /\ missionFile' = Director!Rows(Head(lists)) /\ lists' = Tail(lists)
        /\ UNCHANGED <<run, missions, runRestarts>> /\ lists \in Seq(Seq(Runs))
    BY <1>5 DEF Director!Write, DirectorInv
  <2>2. 1 \in DOMAIN lists /\ Head(lists) = lists[1] /\ lists[1] \in Seq(Runs)
    BY <2>1
  <2>3. missionFile' = [i \in 1 .. Len(lists[1]) |-> Director!Row(lists[1][i])] /\ Len(lists[1]) \in Nat
    BY <2>1, <2>2 DEF Director!Rows
  <2>4. Len(missionFile') = Len(lists[1]) /\ Short(lists[1])
    BY <2>2, <2>3 DEF WholeInv
  <2>5. \A i \in DOMAIN lists' : i + 1 \in DOMAIN lists /\ lists'[i] = lists[i + 1]
    BY <2>1
  <2>6. \A i \in DOMAIN lists' : Short(lists'[i])
    BY <2>5 DEF WholeInv
  <2> QED  BY <2>1, <2>4, <2>6 DEF WholeInv, Whole, Short
<1>6. CASE Director!Restart
  <2> DEFINE rows(r) == {i \in DOMAIN missionFile : missionFile[i].run = r}
             status(r) == IF rows(r) = {} THEN "none" ELSE missionFile[CHOOSE i \in rows(r) : TRUE].status
             loaded(r) == [Director!NoRun EXCEPT !.at = IF run[r].at = "waiting" THEN "died" ELSE run[r].at,
                                                 !.id = run[r].id, !.status = status(r)]
  <2>1. /\ missions' = [i \in DOMAIN missionFile |-> missionFile[i].run]
        /\ run' = [r \in Runs |-> IF run[r].at = "new" THEN run[r] ELSE loaded(r)]
        /\ lists' = <<>> /\ missionFile' = missionFile
        /\ runRestarts < MaxRestarts /\ runRestarts' = runRestarts + 1
    BY <1>6 DEF Director!Restart
  <2>2. missionFile \in Seq(RowType) /\ Short(missionFile) /\ \A r \in Runs : Whole(run[r])
        /\ runRestarts \in 0 .. MaxRestarts
    BY DEF DirectorInv, Filed, WholeInv
  <2> HIDE DEF status
  <2>3. \A r \in Runs : loaded(r).step = 0 /\ loaded(r).at # "waiting"
    BY DEF Director!NoRun
  <2> HIDE DEF loaded
  <2>4. \A r \in Runs : Whole(run'[r])
    BY <2>1, <2>2, <2>3, StepsFacts DEF Whole
  <2>5. Short(missions')
    <3>1. missions' \in [1 .. Len(missionFile) -> Runs] /\ Len(missionFile) \in Nat
      <4>1. \A i \in 1 .. Len(missionFile) : missionFile[i].run \in Runs
        <5>1. \A i \in 1 .. Len(missionFile) : missionFile[i] \in RowType
          BY <2>2
        <5> QED  BY <5>1 DEF RowType
      <4> QED  BY <2>1, <2>2, <4>1
    <3>2. Len(missions') = Len(missionFile)
      BY <3>1
    <3> QED  BY <2>2, <3>2 DEF Short
  <2>6. runRestarts' \in 0 .. MaxRestarts
    <3>1. MaxRestarts \in Nat
      BY PartsAssumption
    <3>2. runRestarts \in 0 .. MaxRestarts
      BY DEF WholeInv
    <3>3. runRestarts < MaxRestarts /\ runRestarts' = runRestarts + 1
      BY <1>6 DEF Director!Restart
    <3> QED  BY <3>1, <3>2, <3>3
  <2> QED  BY <2>1, <2>2, <2>4, <2>5, <2>6 DEF WholeInv, Whole, Short
<1>7. ASSUME NEW r \in Runs, NEW id \in Ids, Director!NoTeam(r, id)
      PROVE  WholeInv'
  <2> DEFINE teamless == [Director!NoRun EXCEPT !.at = "answered", !.id = id, !.status = "NO_TEAM_AVAILABLE"]
  <2>1. UNCHANGED <<missionFile, runRestarts>> /\ Director!Stores(r, teamless)
    BY <1>7 DEF Director!NoTeam
  <2>2. Len(Steps) \in Nat \ {0}
    BY StepsFacts
  <2>3. Whole(teamless)
    BY <2>2 DEF Whole, Director!NoRun
  <2> HIDE DEF teamless
  <2> QED  BY <2>1, <2>3, StoresWhole
<1> QED  BY <1>1, <1>2, <1>3, <1>4, <1>5, <1>6, <1>7 DEF Director!Next

LEMMA DirectorTypesHold == Director!Spec => []Director!TypeOK
<1>1. Director!Init => DirectorInv /\ WholeInv
  <2> SUFFICES ASSUME Director!Init PROVE WholeInv
    BY DirectorStart
  <2>1. /\ \A r \in Runs : run[r] = Director!NoRun
        /\ missions = <<>> /\ lists = <<>> /\ missionFile = <<>> /\ runRestarts = 0
    BY DEF Director!Init
  <2>2. Whole(Director!NoRun)
    BY StepsFacts DEF Whole, Director!NoRun
  <2>3. MaxMissions \in Nat /\ MaxRestarts \in Nat
    BY PartsAssumption
  <2> QED  BY <2>1, <2>2, <2>3 DEF WholeInv, Short
<1>2. DirectorInv /\ WholeInv /\ [Director!Next]_(Director!vars) => (DirectorInv /\ WholeInv)'
  BY DirectorInductive, DirectorWhole
<1>3. DirectorInv /\ WholeInv => Director!TypeOK
  <2> SUFFICES ASSUME DirectorInv, WholeInv PROVE Director!TypeOK
    OBVIOUS
  <2>1. ASSUME NEW r \in Runs
        PROVE  /\ run[r].at \in {"new", "waiting", "answered", "threw", "died"}
               /\ run[r].id \in Ids \cup {NoId} /\ run[r].status \in Director!Statuses
               /\ run[r].step \in 0 .. Len(Steps) /\ run[r].done \subseteq Director!StepIds
               /\ run[r].at = "waiting" => Director!Range(run[r].order) = Director!StepIds
    <3>1. run[r] \in RunType /\ Whole(run[r]) /\ OnSchedule(run[r])
      BY DEF DirectorInv, WholeInv
    <3>2. run[r].at = "waiting" => Director!Range(run[r].order) = Director!StepIds
      BY <3>1, ScheduleOfAll DEF OnSchedule, Planned, Whole
    <3> QED  BY <3>1, <3>2, StepsFacts DEF RunType, Whole
  <2>2. Len(missions) <= MaxMissions /\ runRestarts \in 0 .. MaxRestarts
    BY DEF WholeInv, Short
  <2> QED  BY <2>1, <2>2 DEF DirectorInv, Mapped, Director!TypeOK
<1> QED  BY <1>1, <1>2, <1>3, PTL DEF Director!Spec

\* Whichever of the five parts of the API process a behaviour is of: missions, url
\* rows, incidents and sweeps keep their form; a row of a registry, in memory, in its file or in a
\* write that waits, is one that was created; the chat's file has one record of a
\* project and no more than its limit; an order that a run of the director follows is
\* of all its steps, and its store keeps one mission of an id within its limit; the
\* monitor counts and remembers only its own incidents; for any values of the bounds
\* (customer-autonomous-operations-v3.90.js, customer-saas-control-plane-v3.80.js,
\* persistent-project-state-store.js, autonomous-mission-director-v4.60.js,
\* production-monitoring-engine.js).
THEOREM PartsTypes == AllSpec => []AllTypeOK
<1>1. AllInit => Init /\ Accounts!Init /\ Chat!Init /\ Director!Init /\ Monitor!Init
  BY DEF AllInit
<1>2. [AllNext]_allVars => [Next]_vars
  BY DEF AllNext, allVars
<1>3. [AllNext]_allVars => [Accounts!Next]_(Accounts!vars)
  BY DEF AllNext, allVars, accountVars, Accounts!vars
<1>4. [AllNext]_allVars => [Chat!Next]_(Chat!vars)
  BY DEF AllNext, allVars, chatVars, Chat!vars
<1>5. [AllNext]_allVars => [Director!Next]_(Director!vars)
  BY DEF AllNext, allVars, runVars, Director!vars
<1>6. [AllNext]_allVars => [Monitor!Next]_(Monitor!vars)
  BY DEF AllNext, allVars, monitorVars, Monitor!vars
<1> QED
  BY <1>1, <1>2, <1>3, <1>4, <1>5, <1>6, TypeCorrect, AccountTypesHold, ChatTypesHold, DirectorTypesHold,
     MonitorTypesHold, PTL
  DEF AllSpec, AllTypeOK, Spec, Accounts!Spec, Chat!Spec, Director!Spec, Monitor!Spec

=============================================================================
