---------------------------- MODULE CustomerParts ----------------------------
(***************************************************************************)
(* What runs in the API process beside the queue: customer missions and    *)
(* sweeps (CustomerOperations), the customer registries, the memory of     *)
(* conversations, the mission director and the monitoring of production.   *)
(* They share no state.  The properties of the last four are stated here   *)
(* for the model checker and the proofs alike.                             *)
(***************************************************************************)
EXTENDS CustomerOperations

CONSTANTS
    Creations, Changes, None, MaxFaults, MaxCrashes,        \* of the registries
    Messages, Topics, NoTopic, MaxRecords, MaxRequirements, \* of the conversations
    Runs, Ids, NoId, Steps, MaxMissions,                    \* of the mission director
    Cycles, Incidents, NoIncident, Threshold, MaxFailures,  \* of the monitoring
    MaxRestarts                                             \* of the last three

ASSUME PartsAssumption ==
    /\ Creations \cap Changes = {} /\ None \notin Changes
    /\ NoTopic \notin Topics /\ {MaxRecords, MaxRequirements} \subseteq Nat \ {0}
    /\ Steps \in Seq({Steps[i] : i \in DOMAIN Steps}) \ {<<>>}
    /\ \A i, j \in DOMAIN Steps : Steps[i] = Steps[j] => i = j  \* the scheduler's map of ids
    /\ NoIncident \notin Incidents
    /\ {MaxFaults, MaxCrashes, MaxMissions, MaxFailures, MaxRestarts} \subseteq Nat

VARIABLES
    kind, memory, file, writes, request, external, faults, crashes,
    states, chat, beside, pushedOut, chatFaults, chatRestarts,
    run, missions, lists, missionFile, available, runRestarts,
    incident, monitor, watch, overlapped, orphaned, revived, restarts

accountVars == <<kind, memory, file, writes, request, external, faults, crashes>>
chatVars == <<states, chat, beside, pushedOut, chatFaults, chatRestarts>>
runVars == <<run, missions, lists, missionFile, available, runRestarts>>
monitorVars == <<incident, monitor, watch, overlapped, orphaned, revived, restarts>>

\* The registries of users, keys and projects
Accounts == INSTANCE CustomerAccounts

\* Messages that name projects
Chat == INSTANCE ConversationMemory WITH
    Requests <- Messages, Projects <- Topics, NoProject <- NoTopic,
    file <- states, request <- chat, faults <- chatFaults, restarts <- chatRestarts

\* Runs of missions
Director == INSTANCE MissionDirector WITH
    writes <- lists, file <- missionFile, restarts <- runRestarts

\* Monitoring cycles and incidents
Monitor == INSTANCE ProductionMonitor WITH saved <- monitor, cycle <- watch

\* What a registry acknowledged after a write is in memory and in its file
\* (customer-saas-control-plane-v3.80.js:5-37).
AcknowledgedIsKept == Accounts!AcknowledgedIsKept

\* What was asked of a project stays in its record, the oldest making room for the
\* latest (persistent-project-state-store.js:18-42, project-state-engine.js:80-95).
Remembered == Chat!Remembered

\* The steps of a mission run in the order of their dependencies, each once, and
\* once nothing waits to be written the file says of every mission what memory says
\* (autonomous-mission-director-v4.60.js:6-28, 71-133).
MissionsAsPlanned == Director!StepsInOrder /\ Director!QuietFileAgrees

\* One outage has one incident, and a recovery leaves none
\* (production-monitoring-engine.js:73-129, incident-manager.js:7-33).
OutageHasOneIncident == Monitor!OutageHasOneIncident

-----------------------------------------------------------------------------
(* The five side by side: part says which of them a behaviour is of, and   *)
(* the others rest in an initial state.                                    *)

VARIABLE part

AllInit ==
    /\ part \in {"customer", "accounts", "chat", "director", "monitor"}
    /\ Init /\ Accounts!Init /\ Chat!Init /\ Director!Init /\ Monitor!Init

AllNext ==
    /\ UNCHANGED part
    /\ \/ part = "customer" /\ Next /\ UNCHANGED <<accountVars, chatVars, runVars, monitorVars>>
       \/ part = "accounts" /\ Accounts!Next /\ UNCHANGED <<vars, chatVars, runVars, monitorVars>>
       \/ part = "chat" /\ Chat!Next /\ UNCHANGED <<vars, accountVars, runVars, monitorVars>>
       \/ part = "director" /\ Director!Next /\ UNCHANGED <<vars, accountVars, chatVars, monitorVars>>
       \/ part = "monitor" /\ Monitor!Next /\ UNCHANGED <<vars, accountVars, chatVars, runVars>>

allVars == <<part, vars, accountVars, chatVars, runVars, monitorVars>>
AllSpec == AllInit /\ [][AllNext]_allVars

\* Each of the five has its types, and the director's store and the file of
\* conversations stay within their limits, with one object or record of a kind.
AllTypeOK == TypeOK /\ Accounts!TypeOK /\ Chat!TypeOK /\ Director!TypeOK /\ Monitor!TypeOK

=============================================================================
