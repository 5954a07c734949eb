-------------------------- MODULE ProjectDeployment --------------------------
(***************************************************************************)
(* The autonomous deployment engine of a project                           *)
(* (src/core/autonomous-deployment-engine.js): the state file around a     *)
(* DeploymentController, here the direct one of module Deployment with its *)
(* external endpoint, and the manual rollback.  Nothing orders the calls:  *)
(* each of them reads the file, awaits, and writes what it read, changed.  *)
(* A call deploys a version of its own, with the health check and rollback *)
(* that the engine requires by default.  The history file is left out.     *)
(***************************************************************************)
EXTENDS Deployment, Naturals

CONSTANTS
    NoVersion,
    MaxCrashes     \* ends of the process (a bound)

VARIABLES
    saved,         \* .jora/autonomous-deployment.json
    call,          \* call[v]: where runAutonomousDeployment() of v is, and its copy
    undo,          \* the manual rollback, of which there is one (a bound)
    spoiled,       \* history: versions a manual rollback withdrew without the file saying so
    crashes

vars == <<deploymentVars, saved, call, undo, spoiled, crashes>>

States == {"READY", "DEPLOYING", "DEPLOYED", "ROLLED_BACK", "FAILED"}
\* createDeploymentState(): also what a missing or torn file is read as
Fresh == [state |-> "READY", current |-> NoVersion, deployed |-> NoVersion]
NotCalled == [at |-> "new", copy |-> Fresh]
NoUndo == [at |-> "idle", version |-> NoVersion, copy |-> Fresh]

Init ==
    /\ mode = "direct" /\ DeploymentInit
    /\ saved = Fresh /\ call = [v \in Versions |-> NotCalled] /\ undo = NoUndo
    /\ spoiled = {} /\ crashes = 0

Is(v, place) == call[v].at = place
Goes(v, place) == call' = [call EXCEPT ![v].at = place]
\* writeFile() fails: the old text or a torn one is left
Torn == saved' \in {saved, Fresh}

-----------------------------------------------------------------------------

\* The valid candidate, the adapter and the health check pass; the state is read
Load(v) ==
    /\ Is(v, "new")
    /\ call' = [call EXCEPT ![v] = [at |-> "loaded",
                  copy |-> [saved EXCEPT !.state = "DEPLOYING", !.current = v]]]
    /\ UNCHANGED <<deploymentVars, saved, undo, spoiled, crashes>>

\* The state is saved, and the controller deploys
Begin(v) ==
    /\ Is(v, "loaded")
    /\ saved' = call[v].copy
    /\ Deploy(v) /\ Goes(v, "deploying")
    /\ UNCHANGED <<undo, spoiled, crashes>>

\* The save or the history behind it throws: the call rejects, nothing is deployed
BeginThrows(v) ==
    /\ Is(v, "loaded")
    /\ saved' = call[v].copy \/ Torn
    /\ Goes(v, "threw")
    /\ UNCHANGED <<deploymentVars, undo, spoiled, crashes>>

ControllerStep(v) ==
    /\ \/ AdapterDeploys(v) \/ AdapterThrows(v) \/ HealthPasses(v) \/ HealthFails(v)
       \/ RecordThrows(v) \/ ReportThrows(v) \/ RollsBack(v) \/ RollbackThrows(v)
    /\ UNCHANGED <<saved, call, undo, spoiled, crashes>>

\* Mutant: deployedVersion is the candidate's whatever became of it
FinishedAnyway(v) ==
    LET status == outcome[v]["production"]
    IN  [call[v].copy EXCEPT !.state = IF status = "DEPLOY_FAILED" THEN "FAILED" ELSE status,
                             !.deployed = v]

\* The state that the controller's result makes of the copy
Finished(v) ==
    LET status == outcome[v]["production"]
    IN  [call[v].copy EXCEPT !.state = IF status = "DEPLOY_FAILED" THEN "FAILED" ELSE status,
                             !.deployed = IF status = "DEPLOYED" THEN v ELSE @]

Finish(v) ==
    /\ Is(v, "deploying") /\ at[v] = "ended"
    /\ saved' = Finished(v)
    /\ Goes(v, "done")
    /\ UNCHANGED <<deploymentVars, undo, spoiled, crashes>>

\* The save or the history behind it throws into the catch clause
FinishThrows(v) ==
    /\ Is(v, "deploying") /\ at[v] = "ended"
    /\ saved' = Finished(v) \/ Torn
    /\ Goes(v, "failing")
    /\ UNCHANGED <<deploymentVars, undo, spoiled, crashes>>

\* catch: the copy is saved as FAILED, also when the version is deployed
Catch(v) ==
    /\ Is(v, "failing") \/ (Is(v, "deploying") /\ at[v] = "threw")
    /\ \/ saved' = [call[v].copy EXCEPT !.state = "FAILED"] /\ Goes(v, "done")
       \/ Torn /\ Goes(v, "threw")
    /\ UNCHANGED <<deploymentVars, undo, spoiled, crashes>>

\* rollbackAutonomousDeployment(): the adapter first, the state behind it
Withdraw(v) ==
    /\ undo.at = "idle" /\ undo.version = NoVersion
    /\ at[v] # "idle" \/ call[v].at \in {"done", "failing", "dead"}
    /\ serving' = [serving EXCEPT !["production"] = @ \ {v}]
    /\ undo' = [undo EXCEPT !.at = "withdrawn", !.version = v]
    /\ spoiled' = spoiled \cup {v}
    /\ UNCHANGED <<mode, at, env, outcome, saved, call, crashes>>

LoadUndo ==
    /\ undo.at = "withdrawn"
    /\ undo' = [undo EXCEPT !.at = "loaded", !.copy = [saved EXCEPT !.state = "ROLLED_BACK"]]
    /\ UNCHANGED <<deploymentVars, saved, call, spoiled, crashes>>

\* The file says it now, unless the version's own deployment has yet to save
SaveUndo ==
    /\ undo.at = "loaded"
    /\ saved' = undo.copy
    /\ undo' = [undo EXCEPT !.at = "idle"]
    /\ spoiled' = IF call[undo.version].at = "deploying" THEN spoiled
                  ELSE spoiled \ {undo.version}
    /\ UNCHANGED <<deploymentVars, call, crashes>>

SaveUndoThrows ==
    /\ undo.at = "loaded"
    /\ Torn
    /\ undo' = [undo EXCEPT !.at = "idle"]
    /\ UNCHANGED <<deploymentVars, call, spoiled, crashes>>

\* The process ends; nothing looks for a state left at DEPLOYING
Crash ==
    /\ crashes < MaxCrashes
    /\ crashes' = crashes + 1
    /\ DeploymentCrash
    /\ call' = [v \in Versions |->
         IF call[v].at \in {"loaded", "deploying", "failing"} THEN [call[v] EXCEPT !.at = "dead"]
         ELSE call[v]]
    /\ undo' = [undo EXCEPT !.at = "idle"]
    /\ Torn
    /\ UNCHANGED spoiled

Next ==
    \/ \E v \in Versions :
         \/ Load(v) \/ Begin(v) \/ BeginThrows(v) \/ ControllerStep(v)
         \/ Finish(v) \/ FinishThrows(v) \/ Catch(v) \/ Withdraw(v)
    \/ LoadUndo \/ SaveUndo \/ SaveUndoThrows \/ Crash

Spec == Init /\ [][Next]_vars

-----------------------------------------------------------------------------

\* The state has its type
TypeOK ==
    /\ DeploymentTypeOK
    /\ saved.state \in States /\ {saved.current, saved.deployed} \subseteq Versions \cup {NoVersion}
    /\ \A v \in Versions : call[v].at \in {"new", "loaded", "deploying", "failing", "done", "threw", "dead"}
    /\ undo.at \in {"idle", "withdrawn", "loaded"} /\ spoiled \subseteq Versions

\* What the file calls deployed passed its health check, and while the file says
\* DEPLOYED production serves it, whatever other deployments, manual rollbacks,
\* failed writes and crashes met it; the exception is a version that a manual
\* rollback withdrew before its deployment had saved, or without saving itself
DeployedRecordHolds ==
    saved.deployed # NoVersion =>
        /\ outcome[saved.deployed]["production"] = "DEPLOYED"
        /\ saved.state = "DEPLOYED" => saved.deployed \in serving["production"] \cup spoiled

=============================================================================
