----------------------------- MODULE ProjectParts -----------------------------
(***************************************************************************)
(* What happens to one project, in four specifications that share no       *)
(* state: its build and the work on it (Project), the engines that edit    *)
(* its files, the process that builds it in the background, and its        *)
(* deployment.  The properties of the last three are stated here for the   *)
(* model checker and the proofs alike.                                     *)
(***************************************************************************)
EXTENDS Project

CONSTANTS
    Versions, NoVersion, MaxCrashes,                                \* of the deployments
    Builds, MaxRepairCycles, MaxDeliveries, MaxRounds, MaxDeaths,   \* of the builds
    MaxModifications, MaxFaults                                     \* of the engines

ASSUME PartsAssumption ==
    /\ {MaxRepairCycles, MaxDeaths, MaxFaults} \subseteq Nat
    /\ {MaxDeliveries, MaxRounds} \subseteq Nat \ {0}

VARIABLES
    tree, wanted, signals, editAt, engine, edits, undo, report, modifications,
    editFaults, editBefore, spoiled,
    build, holds, port, alone, deaths,
    mode, serving, deployAt, env, deployed, deployment, call, manual, withdrawn, crashes

engineVars == <<tree, wanted, signals, editAt, engine, edits, undo, report, modifications,
                editFaults, editBefore, spoiled>>
runVars == <<build, holds, port, alone, deaths>>
deployVars == <<mode, serving, deployAt, env, deployed, deployment, call, manual, withdrawn, crashes>>

\* The engines that edit the files of a project
Engines == INSTANCE SourceEngines WITH
    at <- editAt, faults <- editFaults, before <- editBefore

\* The build that a background execution runs
Runs == INSTANCE BuildWorker WITH MaxCycles <- MaxRounds

\* Deployments of the versions of the project
Deployments == INSTANCE ProjectDeployment WITH
    at <- deployAt, outcome <- deployed, saved <- deployment, undo <- manual,
    spoiled <- withdrawn

\* An engine that takes its edits back leaves the files as it found them
\* (feature-evolution-engine.js, architecture-generation-engine.js and the others).
TakenBackLeavesNothing == Engines!TakenBackLeavesNothing

\* A build that answers ACCEPTED passed its checks on the tree it leaves
\* (autonomous-build-pipeline.js).
AnsweredAsVerified == Runs!AnsweredAsVerified

\* What the file calls deployed passed its health check and is served
\* (autonomous-deployment-engine.js).
DeployedRecordHolds == Deployments!DeployedRecordHolds

-----------------------------------------------------------------------------
(* The four side by side: part says which of them a behaviour is of, and   *)
(* the others rest in an initial state.                                    *)

VARIABLE part

AllInit ==
    /\ part \in {"project", "engines", "runs", "deployment"}
    /\ Init /\ Engines!Init /\ Runs!Init /\ Deployments!Init

AllNext ==
    /\ UNCHANGED part
    /\ \/ part = "project" /\ Next /\ UNCHANGED <<engineVars, runVars, deployVars>>
       \/ part = "engines" /\ Engines!Next /\ UNCHANGED <<vars, runVars, deployVars>>
       \/ part = "runs" /\ Runs!Next /\ UNCHANGED <<vars, engineVars, deployVars>>
       \/ part = "deployment" /\ Deployments!Next /\ UNCHANGED <<vars, engineVars, runVars>>

allVars == <<part, vars, engineVars, runVars, deployVars>>
AllSpec == AllInit /\ [][AllNext]_allVars

\* Each of the four has its types: edits are left exactly while they are applied, a
\* build stays within its repairs, deliveries and rounds, and one at most has the port.
AllTypeOK == TypeOK /\ Engines!TypeOK /\ Runs!TypeOK /\ Deployments!TypeOK

=============================================================================
