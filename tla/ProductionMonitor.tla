-------------------------- MODULE ProductionMonitor --------------------------
(***************************************************************************)
(* The production monitor of a project's service                           *)
(* (src/core/production-monitoring-engine.js) and the IncidentManager it   *)
(* reports to: cycles that probe, open an incident, have it repaired and   *)
(* resolve it, and the monitor's state file, which each cycle reads, works *)
(* on a copy of and writes at its end.  Cycles may overlap: nothing orders *)
(* them but the RUNNING that a loop finds in the file.                     *)
(* The event store keeps no incident's id (observability-store.js:10), so  *)
(* that after a restart the manager finds no incident in it.  The slow     *)
(* alert, which opens nothing, and the history file are left out.          *)
(***************************************************************************)
EXTENDS Naturals

CONSTANTS
    Cycles,        \* calls of runProductionMonitorCycle()
    Incidents,     \* ids that open() may give
    NoIncident,
    Threshold,     \* failureThreshold
    MaxFailures,   \* how far the failures in a row are counted (a bound)
    MaxRestarts    \* restarts of the process (a bound)

VARIABLES
    incident,      \* incident[i]: what the manager knows of i
    saved,         \* .jora/production-monitor.json
    cycle,         \* cycle[c]: where the cycle is, its copy of the state, its incident
    overlapped,    \* history: two cycles were under way at once
    orphaned,      \* history: incidents whose ids are not in the file: their cycle threw
                   \* before it saved them, or began from a read that failed
    revived,       \* history: an incident was recovered that another cycle had resolved
    restarts

vars == <<incident, saved, cycle, overlapped, orphaned, revived, restarts>>

Statuses == {"none", "OPEN", "RECOVERING", "ESCALATED", "RESOLVED", "forgotten"}
\* createProductionMonitorState()
Fresh == [status |-> "READY", failures |-> 0, active |-> {}]
NoCycle == [at |-> "idle", loop |-> FALSE, copy |-> Fresh, about |-> NoIncident, left |-> {}]

Init ==
    /\ incident = [i \in Incidents |-> "none"]
    /\ saved = Fresh /\ cycle = [c \in Cycles |-> NoCycle]
    /\ overlapped = FALSE /\ orphaned = {} /\ revived = FALSE /\ restarts = 0

Is(c, place) == cycle[c].at = place
Goes(c, place) == cycle' = [cycle EXCEPT ![c].at = place]
Known(i) == i # NoIncident /\ incident[i] \notin {"none", "forgotten"}
Unresolved == {i \in Incidents : incident[i] \in {"OPEN", "RECOVERING", "ESCALATED"}}
\* An id that the manager does not know is answered with null
Marked(i, status) == IF Known(i) THEN [incident EXCEPT ![i] = status] ELSE incident
Busy(c) == cycle[c].at # "idle"

-----------------------------------------------------------------------------

\* loadProductionMonitorState(): a file that cannot be read, or that a crash or
\* another cycle left half written, is no file, and the state is a fresh one,
\* which names no incident
Read(state) ==
    \/ state = saved /\ UNCHANGED orphaned
    \/ state = Fresh /\ orphaned' = Unresolved

\* runProductionMonitoringLoop(): refused while the file it reads says RUNNING
LoopStarts(c) ==
    /\ ~Busy(c)
    /\ \E state \in {saved, Fresh} :
         /\ Read(state) /\ state.status # "RUNNING"
         /\ saved' = [state EXCEPT !.status = "RUNNING"]
    /\ cycle' = [cycle EXCEPT ![c] = [NoCycle EXCEPT !.at = "looping", !.loop = TRUE, !.copy = saved']]
    /\ overlapped' = (overlapped \/ \E d \in Cycles : Busy(d))
    /\ UNCHANGED <<incident, revived, restarts>>

\* A cycle of the loop has the loop's state, one called alone reads the file
Begin(c) ==
    /\ \E state \in {saved, Fresh, cycle[c].copy} :
         /\ \/ ~Busy(c) /\ Read(state)
            \/ Is(c, "looping") /\ state = cycle[c].copy /\ UNCHANGED orphaned
         /\ saved' = [state EXCEPT !.status = "CHECKING"]
    /\ cycle' = [cycle EXCEPT ![c].at = "probing", ![c].copy = saved']
    /\ overlapped' = (overlapped \/ \E d \in Cycles \ {c} : Busy(d))
    /\ UNCHANGED <<incident, revived, restarts>>

\* The probe passes: every incident of the copy is to be resolved
Healthy(c) ==
    /\ Is(c, "probing")
    /\ cycle' = [cycle EXCEPT ![c].at = "resolving", ![c].left = cycle[c].copy.active,
                              ![c].copy.failures = 0, ![c].copy.status = "HEALTHY"]
    /\ UNCHANGED <<incident, saved, overlapped, orphaned, revived, restarts>>

ResolveNext(c) ==
    /\ Is(c, "resolving")
    /\ \E i \in cycle[c].left :
         /\ incident' = Marked(i, "RESOLVED")
         /\ cycle' = [cycle EXCEPT ![c].left = @ \ {i}]
    /\ UNCHANGED <<saved, overlapped, orphaned, revived, restarts>>

AllResolved(c) ==
    /\ Is(c, "resolving") /\ cycle[c].left = {}
    /\ cycle' = [cycle EXCEPT ![c].at = "saving", ![c].copy.active = {}]
    /\ UNCHANGED <<incident, saved, overlapped, orphaned, revived, restarts>>

\* Mutant: an incident that is being recovered or was escalated is not found
FoundOpen == {i \in Incidents : incident[i] = "OPEN"}

\* open(): an incident of the alert's type that is not resolved
Found == Unresolved

\* open() in memory: the incident found, or a new one
Opened(i) ==
    \/ i \in Found /\ UNCHANGED incident
    \/ /\ Found = {} /\ incident[i] = "none"
       /\ incident' = [incident EXCEPT ![i] = "OPEN"]

\* The probe fails or throws; an incident is there when its event is recorded
Unhealthy(c) ==
    /\ Is(c, "probing") /\ cycle[c].copy.failures < MaxFailures
    /\ \E i \in Incidents :
         /\ Opened(i)
         /\ orphaned' = orphaned \ {i}
         /\ cycle' = [cycle EXCEPT ![c].at = "opened", ![c].about = i,
                        ![c].copy.failures = @ + 1, ![c].copy.status = "UNHEALTHY",
                        ![c].copy.active = @ \cup {i}]
    /\ UNCHANGED <<saved, overlapped, revived, restarts>>

\* Failures in a row below the threshold are only counted
Tolerate(c) ==
    /\ Is(c, "opened") /\ cycle[c].copy.failures < Threshold
    /\ Goes(c, "saving")
    /\ UNCHANGED <<incident, saved, overlapped, orphaned, revived, restarts>>

\* startRecovery() does not look at the incident's status
Marks(c, status) ==
    /\ incident' = Marked(cycle[c].about, status)
    /\ revived' = (revived \/ (status # "RESOLVED" /\ incident[cycle[c].about] = "RESOLVED"))

StartRecovery(c) ==
    /\ Is(c, "opened") /\ cycle[c].copy.failures >= Threshold
    /\ Marks(c, "RECOVERING")
    /\ Goes(c, "repairing")
    /\ UNCHANGED <<saved, overlapped, orphaned, restarts>>

Recovered(c) ==
    /\ Is(c, "repairing")
    /\ Marks(c, "RESOLVED")
    /\ cycle' = [cycle EXCEPT ![c].at = "saving", ![c].copy.status = "RECOVERED",
                              ![c].copy.active = @ \ {cycle[c].about}]
    /\ UNCHANGED <<saved, overlapped, orphaned, restarts>>

NotRecovered(c) ==
    /\ Is(c, "repairing")
    /\ Marks(c, "ESCALATED")
    /\ Goes(c, "saving")
    /\ UNCHANGED <<saved, overlapped, orphaned, restarts>>

\* The copy is saved over whatever other cycles saved.  The loop goes on while
\* the state is RUNNING, which no cycle leaves it at: it stops behind its first.
Save(c) ==
    /\ Is(c, "saving")
    /\ saved' = cycle[c].copy
    /\ cycle' = [cycle EXCEPT ![c] = IF cycle[c].loop THEN [@ EXCEPT !.at = "stopping"] ELSE NoCycle]
    /\ UNCHANGED <<incident, overlapped, orphaned, revived, restarts>>

LoopStops(c) ==
    /\ Is(c, "stopping")
    /\ saved' = [cycle[c].copy EXCEPT !.status = "STOPPED"]
    /\ cycle' = [cycle EXCEPT ![c] = NoCycle]
    /\ UNCHANGED <<incident, overlapped, orphaned, revived, restarts>>

\* The incident of a cycle that ends here, if the file has yet to name it
Orphans(cs) ==
    orphaned' = orphaned \cup {i \in Unresolved \ saved.active : \E c \in cs : cycle[c].about = i}

\* The event store, the repair or the file throws out of the cycle
Throws(c) ==
    /\ Busy(c)
    /\ Orphans({c})
    /\ cycle' = [cycle EXCEPT ![c] = NoCycle]
    /\ UNCHANGED <<incident, saved, overlapped, revived, restarts>>

\* The process ends: the manager starts empty, the file stays
Restart ==
    /\ restarts < MaxRestarts
    /\ restarts' = restarts + 1
    /\ incident' = [i \in Incidents |-> IF incident[i] = "none" THEN "none" ELSE "forgotten"]
    /\ cycle' = [c \in Cycles |-> NoCycle]
    /\ orphaned' = {}
    /\ UNCHANGED <<saved, overlapped, revived>>

Next ==
    \/ \E c \in Cycles :
         \/ LoopStarts(c) \/ Begin(c) \/ Healthy(c) \/ ResolveNext(c) \/ AllResolved(c)
         \/ Unhealthy(c) \/ Tolerate(c) \/ StartRecovery(c) \/ Recovered(c) \/ NotRecovered(c)
         \/ Save(c) \/ LoopStops(c) \/ Throws(c)
    \/ Restart

Spec == Init /\ [][Next]_vars

-----------------------------------------------------------------------------

\* The state has its type
TypeOK ==
    /\ incident \in [Incidents -> Statuses]
    /\ saved.failures \in 0 .. MaxFailures /\ saved.active \subseteq Incidents
    /\ \A c \in Cycles :
         /\ cycle[c].copy.failures \in 0 .. MaxFailures
         /\ cycle[c].copy.active \cup cycle[c].left \subseteq Incidents
         /\ cycle[c].about \in Incidents \cup {NoIncident}
    /\ {overlapped, revived} \subseteq BOOLEAN /\ orphaned \subseteq Incidents

\* One outage has one incident, also when cycles overlap or begin without the file,
\* unless one recovered an incident that another had resolved; and when the service
\* was found healthy and no cycle is under way, no incident is left but those whose
\* ids the file did not have, because their cycle threw before it saved them or a
\* later one could not read them, unless cycles saved over each other
OutageHasOneIncident ==
    /\ ~revived => \A i, j \in Unresolved : i = j
    /\ (saved.status = "HEALTHY" /\ ~overlapped /\ \A c \in Cycles : ~Busy(c))
         => Unresolved \subseteq orphaned

=============================================================================
