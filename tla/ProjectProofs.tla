---------------------------- MODULE ProjectProofs ----------------------------
(***************************************************************************)
(* Theorems about what happens to one project: its deployments, for any    *)
(* versions and any number of crashes, the builds of its requests, for any *)
(* builds and budgets, the engines that edit its files, and its own build  *)
(* with the work on what it left, for any features, workers and cycles.    *)
(***************************************************************************)
EXTENDS ProjectParts, FiniteSetTheorems, SequenceTheorems, WellFoundedInduction, TLAPS

-----------------------------------------------------------------------------
(* Deployments                                                             *)

\* A state file, or a copy of it
StateFile == [state : Deployments!States, current : Versions \cup {NoVersion},
              deployed : Versions \cup {NoVersion}]

DeploymentTypes ==
  /\ mode = "direct"
  /\ serving \in [Deployments!Envs -> SUBSET Versions]
  /\ deployAt \in [Versions -> Deployments!Awaits]
  /\ env = [v \in Versions |-> "production"]
  /\ deployed \in [Versions -> [Deployments!Envs -> Deployments!Statuses]]
  /\ deployment \in StateFile
  /\ call \in [Versions -> [at : {"new", "loaded", "deploying", "failing", "done", "threw", "dead"},
                            copy : StateFile]]
  /\ manual \in [at : {"idle", "withdrawn", "loaded"}, version : Versions \cup {NoVersion},
                 copy : StateFile]
  /\ withdrawn \subseteq Versions

IsDeployed(v) == deployed[v]["production"] = "DEPLOYED"
Served == serving["production"] \cup withdrawn

\* What a file, or a copy, names as deployed is.
Truthful(file) == file.deployed # NoVersion => IsDeployed(file.deployed)

\* How far the controller can be in the deployment of a version, by what its
\* call is at.  A version is deployed once: what was found healthy stays so.
VersionInv(v) ==
  /\ call[v].at \in {"new", "loaded"} => deployAt[v] = "idle" /\ ~IsDeployed(v)
  /\ call[v].at # "deploying" => deployAt[v] \in {"idle", "ended", "threw"}
  /\ IsDeployed(v) => deployAt[v] \in {"idle", "ended"}
  /\ deployAt[v] = "checking" => v \in Served
  /\ call[v].at = "deploying" /\ IsDeployed(v) => v \in Served
  /\ deployAt[v] = "ended" => deployed[v]["production"] # "none"

DeploymentInv ==
  /\ DeploymentTypes
  /\ \A v \in Versions : VersionInv(v)
  /\ Truthful(deployment)
  /\ Truthful(manual.copy) /\ manual.copy.state # "DEPLOYED"
  /\ \A v \in Versions : Truthful(call[v].copy) /\ call[v].copy.state # "DEPLOYED"
  /\ deployment.deployed # NoVersion /\ deployment.state = "DEPLOYED" =>
       deployment.deployed \in Served

\* A step of the controller: it may take a version out of production, or call it
\* deployed, only while the call of that version waits for it.
LEMMA ControllerKeeps ==
  ASSUME DeploymentInv, NEW v \in Versions, Deployments!ControllerStep(v)
  PROVE  DeploymentInv'
  <1> USE DEF Deployments!Envs, Deployments!Awaits, Deployments!Statuses
  <1>1. /\ DeploymentTypes
        /\ UNCHANGED <<deployment, call, manual, withdrawn>>
        /\ VersionInv(v) /\ env[v] = "production"
    BY DEF DeploymentInv, DeploymentTypes, Deployments!ControllerStep
  <1>2. ASSUME NEW status \in Deployments!Statuses, Deployments!Returns(v, status)
        PROVE  /\ mode' = "direct" /\ env' = env
               /\ deployAt' = [deployAt EXCEPT ![v] = "ended"]
               /\ deployed' = [deployed EXCEPT ![v]["production"] = status]
    BY <1>1, <1>2 DEF Deployments!Returns, Deployments!GoesToProduction, Deployments!Await,
       DeploymentTypes
  <1>3. /\ mode' = "direct" /\ env' = env
        /\ \E nextAt \in Deployments!Awaits : deployAt' = [deployAt EXCEPT ![v] = nextAt]
        /\ \/ deployed' = deployed
           \/ \E status \in Deployments!Statuses :
                deployed' = [deployed EXCEPT ![v]["production"] = status]
        /\ \/ serving' = serving
           \/ serving' = [serving EXCEPT !["production"] = @ \cup {v}]
           \/ serving' = [serving EXCEPT !["production"] = @ \ {v}]
    BY <1>1, <1>2 DEF Deployments!ControllerStep, Deployments!AdapterDeploys,
       Deployments!AdapterThrows, Deployments!HealthPasses, Deployments!HealthFails,
       Deployments!RecordThrows, Deployments!ReportThrows, Deployments!RollsBack,
       Deployments!RollbackThrows, Deployments!Await, Deployments!EndpointDeploys,
       Deployments!EndpointWithdraws, DeploymentTypes
  <1>4. DeploymentTypes'
    <2>1. serving' \in [Deployments!Envs -> SUBSET Versions]
      BY <1>1, <1>3 DEF DeploymentTypes
    <2>2. deployAt' \in [Versions -> Deployments!Awaits]
      BY <1>1, <1>3 DEF DeploymentTypes
    <2>3. deployed' \in [Versions -> [Deployments!Envs -> Deployments!Statuses]]
      <3>1. CASE deployed' = deployed
        BY <1>1, <3>1 DEF DeploymentTypes
      <3>2. ASSUME NEW status \in Deployments!Statuses,
                   deployed' = [deployed EXCEPT ![v]["production"] = status]
            PROVE  deployed' \in [Versions -> [Deployments!Envs -> Deployments!Statuses]]
        <4> DEFINE row == [deployed[v] EXCEPT !["production"] = status]
        <4>1. deployed' = [deployed EXCEPT ![v] = row]
          BY <3>2
        <4>2. row \in [Deployments!Envs -> Deployments!Statuses]
          BY <1>1 DEF DeploymentTypes
        <4> HIDE DEF row
        <4>3. QED
          BY <1>1, <4>1, <4>2 DEF DeploymentTypes
      <3>3. QED
        BY <1>3, <3>1, <3>2
    <2>4. QED
      BY <1>1, <1>3, <2>1, <2>2, <2>3 DEF DeploymentTypes, StateFile
  <1>5. ~IsDeployed(v) /\ call[v].at = "deploying"
    <2>1. deployAt[v] \in {"deploying", "checking", "undoing", "undoingAgain"}
      BY <1>1 DEF Deployments!ControllerStep, Deployments!AdapterDeploys,
         Deployments!AdapterThrows, Deployments!HealthPasses, Deployments!HealthFails,
         Deployments!RecordThrows, Deployments!ReportThrows, Deployments!RollsBack,
         Deployments!RollbackThrows, DeploymentTypes
    <2>2. QED
      BY <1>1, <2>1 DEF VersionInv
  <1>6. \A u \in Versions \ {v} : (IsDeployed(u)' <=> IsDeployed(u)) /\ deployAt'[u] = deployAt[u]
    BY <1>1, <1>3 DEF DeploymentTypes, IsDeployed
  <1>7. Served \ {v} \subseteq Served'
    BY <1>1, <1>3 DEF DeploymentTypes, Served
  <1>8. /\ IsDeployed(v)' => deployAt'[v] = "ended" /\ v \in Served'
        /\ deployAt'[v] = "checking" => v \in Served'
        /\ deployAt'[v] = "ended" => deployed'[v]["production"] # "none"
    <2>1. CASE Deployments!AdapterDeploys(v)
      BY <1>1, <1>5, <2>1 DEF Deployments!AdapterDeploys, Deployments!EndpointDeploys,
         Deployments!Await, DeploymentTypes, IsDeployed, Served
    <2>2. CASE Deployments!AdapterThrows(v)
      BY <1>1, <1>2, <2>2 DEF Deployments!AdapterThrows, DeploymentTypes, IsDeployed
    <2>3. CASE Deployments!HealthPasses(v)
      BY <1>1, <1>2, <2>3 DEF Deployments!HealthPasses, DeploymentTypes, IsDeployed, VersionInv,
         Served
    <2>4. CASE Deployments!RollsBack(v)
      BY <1>1, <1>2, <2>4 DEF Deployments!RollsBack, DeploymentTypes, IsDeployed
    <2>5. CASE \/ Deployments!HealthFails(v) \/ Deployments!RecordThrows(v)
               \/ Deployments!ReportThrows(v) \/ Deployments!RollbackThrows(v)
      BY <1>1, <1>5, <2>5 DEF Deployments!HealthFails, Deployments!RecordThrows,
         Deployments!ReportThrows, Deployments!RollbackThrows, Deployments!Await,
         DeploymentTypes, IsDeployed
    <2>6. QED
      BY <2>1, <2>2, <2>3, <2>4, <2>5 DEF Deployments!ControllerStep
  <1>9. ASSUME NEW u \in Versions PROVE VersionInv(u)'
    <2>1. CASE u = v
      BY <1>1, <1>5, <1>8, <2>1 DEF VersionInv
    <2>2. CASE u # v
      <3>1. VersionInv(u)
        BY DEF DeploymentInv
      <3>2. QED
        BY <1>1, <1>3, <1>6, <1>7, <2>2, <3>1 DEF VersionInv, DeploymentTypes
    <2>3. QED
      BY <2>1, <2>2
  <1>10. ASSUME NEW file \in StateFile, Truthful(file)
         PROVE  file.deployed # NoVersion => file.deployed # v /\ IsDeployed(file.deployed)'
    BY <1>5, <1>6, <1>10 DEF Truthful, StateFile
  <1>11. Truthful(deployment)' /\ Truthful(manual.copy)'
    BY <1>1, <1>10 DEF DeploymentInv, DeploymentTypes, Truthful
  <1>12. \A u \in Versions : Truthful(call[u].copy)'
    BY <1>1, <1>10 DEF DeploymentInv, DeploymentTypes, Truthful
  <1>13. deployment.deployed # NoVersion /\ deployment.state = "DEPLOYED" =>
           deployment.deployed \in Served'
    BY <1>1, <1>7, <1>10 DEF DeploymentInv, DeploymentTypes
  <1>14. QED
    BY <1>1, <1>4, <1>9, <1>11, <1>12, <1>13 DEF DeploymentInv

\* The calls of runAutonomousDeployment()
CallStep(v) ==
  \/ Deployments!Load(v) \/ Deployments!Begin(v) \/ Deployments!BeginThrows(v)
  \/ Deployments!Finish(v) \/ Deployments!FinishThrows(v) \/ Deployments!Catch(v)

LEMMA CallKeeps ==
  ASSUME DeploymentInv, NEW v \in Versions, CallStep(v)
  PROVE  DeploymentInv'
  <1> USE DEF Deployments!Goes, Deployments!Is
  <1> DEFINE CallPlaces == {"new", "loaded", "deploying", "failing", "done", "threw", "dead"}
             Call == [at : CallPlaces, copy : StateFile]
             File(file) == file \in StateFile /\ Truthful(file)
             Torn(file) == file \in {deployment, Deployments!Fresh}
  <1>1. /\ DeploymentTypes /\ VersionInv(v)
        /\ call \in [Versions -> Call] /\ call[v] \in Call
        /\ File(deployment) /\ File(call[v].copy) /\ call[v].copy.state # "DEPLOYED"
    BY DEF DeploymentInv, DeploymentTypes
  <1>2. UNCHANGED <<mode, serving, deployed, manual, withdrawn>>
    BY DEF CallStep, Deployments!Load, Deployments!Begin, Deployments!BeginThrows,
       Deployments!Finish, Deployments!FinishThrows, Deployments!Catch, Deployments!Deploy,
       Deployments!deploymentVars
  <1>3. env' = env
    BY <1>1 DEF CallStep, Deployments!Load, Deployments!Begin, Deployments!BeginThrows,
       Deployments!Finish, Deployments!FinishThrows, Deployments!Catch, Deployments!Deploy,
       Deployments!deploymentVars, DeploymentTypes
  \* what a step of a call may leave
  <1>4. ASSUME NEW nextAt \in CallPlaces, NEW copy, File(copy), copy.state # "DEPLOYED",
               call' = [call EXCEPT ![v] = [at |-> nextAt, copy |-> copy]],
               \/ deployAt' = deployAt
               \/ nextAt = "deploying" /\ deployAt' = [deployAt EXCEPT ![v] = "deploying"],
               nextAt \in {"new", "loaded"} => call[v].at \in {"new", "loaded"},
               nextAt # "deploying" => deployAt'[v] \in {"idle", "ended", "threw"},
               nextAt = "deploying" => call[v].at = "loaded",
               File(deployment'),
               deployment'.deployed # NoVersion /\ deployment'.state = "DEPLOYED" =>
                 deployment'.deployed \in Served
        PROVE  DeploymentInv'
    <2>1. Served' = Served /\ \A u \in Versions : IsDeployed(u)' <=> IsDeployed(u)
      BY <1>2 DEF Served, IsDeployed
    <2>2. DeploymentTypes'
      BY <1>1, <1>2, <1>3, <1>4 DEF DeploymentTypes, Deployments!Awaits
    <2>3. /\ call'[v] = [at |-> nextAt, copy |-> copy]
          /\ \A u \in Versions \ {v} : call'[u] = call[u] /\ deployAt'[u] = deployAt[u]
      BY <1>1, <1>4 DEF DeploymentTypes
    <2>4. ASSUME NEW u \in Versions PROVE VersionInv(u)'
      <3>1. CASE u = v
        BY <1>1, <1>2, <1>4, <2>1, <2>3, <3>1 DEF VersionInv, DeploymentTypes
      <3>2. CASE u # v
        BY <1>2, <2>1, <2>3, <3>2 DEF DeploymentInv, VersionInv
      <3>3. QED
        BY <3>1, <3>2
    <2>5. Truthful(deployment)' /\ Truthful(manual.copy)'
      BY <1>2, <1>4 DEF DeploymentInv, Truthful, IsDeployed
    <2>6. ASSUME NEW u \in Versions
          PROVE  Truthful(call[u].copy)' /\ call'[u].copy.state # "DEPLOYED"
      BY <1>2, <1>4, <2>3 DEF DeploymentInv, Truthful, IsDeployed
    <2>7. QED
      BY <1>2, <1>4, <2>1, <2>2, <2>4, <2>5, <2>6 DEF DeploymentInv
  <1>5. ASSUME NEW nextAt \in CallPlaces, Deployments!Goes(v, nextAt)
        PROVE  call' = [call EXCEPT ![v] = [at |-> nextAt, copy |-> call[v].copy]]
    <2>1. [call[v] EXCEPT !.at = nextAt] = [at |-> nextAt, copy |-> call[v].copy]
      BY <1>1
    <2>2. QED
      BY <1>5, <2>1
  <1>6. deployment.deployed # NoVersion /\ deployment.state = "DEPLOYED" =>
          deployment.deployed \in Served
    BY DEF DeploymentInv
  <1>7. ASSUME Torn(deployment')
        PROVE  /\ File(deployment')
               /\ deployment'.deployed # NoVersion /\ deployment'.state = "DEPLOYED" =>
                    deployment'.deployed \in Served
    BY <1>1, <1>6, <1>7 DEF StateFile, Deployments!Fresh, Deployments!States, Truthful
  <1>8. CASE Deployments!Load(v)
    <2> DEFINE copy == [deployment EXCEPT !.state = "DEPLOYING", !.current = v]
    <2>1. File(copy) /\ copy.state # "DEPLOYED"
      BY <1>1 DEF StateFile, Truthful, Deployments!States
    <2>2. /\ call' = [call EXCEPT ![v] = [at |-> "loaded", copy |-> copy]]
          /\ deployAt' = deployAt /\ deployment' = deployment
          /\ call[v].at = "new"
      BY <1>8 DEF Deployments!Load, Deployments!deploymentVars
    <2> HIDE DEF copy
    <2>3. QED
      BY <1>1, <1>4, <1>6, <2>1, <2>2 DEF VersionInv
  <1>9. CASE Deployments!Begin(v)
    <2>1. /\ deployAt' = [deployAt EXCEPT ![v] = "deploying"]
          /\ deployment' = call[v].copy /\ call[v].at = "loaded"
          /\ call' = [call EXCEPT ![v] = [at |-> "deploying", copy |-> call[v].copy]]
      BY <1>5, <1>9 DEF Deployments!Begin, Deployments!Deploy, Deployments!Await
    <2>2. QED
      BY <1>1, <1>4, <2>1
  <1>10. CASE Deployments!BeginThrows(v)
    <2>1. /\ deployAt' = deployAt /\ call[v].at = "loaded"
          /\ deployment' = call[v].copy \/ Torn(deployment')
          /\ call' = [call EXCEPT ![v] = [at |-> "threw", copy |-> call[v].copy]]
      BY <1>5, <1>10 DEF Deployments!BeginThrows, Deployments!Torn, Deployments!deploymentVars
    <2>2. /\ File(deployment')
          /\ deployment'.deployed # NoVersion /\ deployment'.state = "DEPLOYED" =>
               deployment'.deployed \in Served
      BY <1>1, <1>7, <2>1
    <2>3. QED
      BY <1>1, <1>4, <2>1, <2>2 DEF VersionInv
  \* the result of the controller
  <1>11. ASSUME Deployments!Is(v, "deploying"), deployAt[v] = "ended"
         PROVE  /\ File(Deployments!Finished(v))
                /\ Deployments!Finished(v).deployed # NoVersion
                     /\ Deployments!Finished(v).state = "DEPLOYED" =>
                       Deployments!Finished(v).deployed \in Served
    <2>1. deployed[v]["production"] \in Deployments!Statuses \ {"none"}
      BY <1>1, <1>11 DEF DeploymentTypes, VersionInv, Deployments!Envs
    <2>2. QED
      BY <1>1, <1>11, <2>1 DEF Deployments!Finished, Deployments!States, Deployments!Statuses,
         StateFile, Truthful, VersionInv, IsDeployed
  <1>12. CASE Deployments!Finish(v)
    <2>1. /\ deployAt' = deployAt /\ Deployments!Is(v, "deploying") /\ deployAt[v] = "ended"
          /\ deployment' = Deployments!Finished(v)
          /\ call' = [call EXCEPT ![v] = [at |-> "done", copy |-> call[v].copy]]
      BY <1>5, <1>12 DEF Deployments!Finish, Deployments!deploymentVars
    <2>2. QED
      BY <1>1, <1>4, <1>11, <2>1
  <1>13. CASE Deployments!FinishThrows(v)
    <2>1. /\ deployAt' = deployAt /\ Deployments!Is(v, "deploying") /\ deployAt[v] = "ended"
          /\ deployment' = Deployments!Finished(v) \/ Torn(deployment')
          /\ call' = [call EXCEPT ![v] = [at |-> "failing", copy |-> call[v].copy]]
      BY <1>5, <1>13 DEF Deployments!FinishThrows, Deployments!Torn, Deployments!deploymentVars
    <2>2. /\ File(deployment')
          /\ deployment'.deployed # NoVersion /\ deployment'.state = "DEPLOYED" =>
               deployment'.deployed \in Served
      BY <1>7, <1>11, <2>1
    <2>3. QED
      BY <1>1, <1>4, <2>1, <2>2
  <1>14. CASE Deployments!Catch(v)
    <2>1. /\ deployAt' = deployAt /\ deployAt[v] \in {"idle", "ended", "threw"}
          /\ call[v].at \in {"failing", "deploying"}
      BY <1>1, <1>14 DEF Deployments!Catch, Deployments!deploymentVars, VersionInv
    <2>2. \E nextAt \in {"done", "threw"} :
            call' = [call EXCEPT ![v] = [at |-> nextAt, copy |-> call[v].copy]]
      BY <1>5, <1>14 DEF Deployments!Catch
    <2>3. /\ File(deployment')
          /\ deployment'.deployed # NoVersion /\ deployment'.state = "DEPLOYED" =>
               deployment'.deployed \in Served
      <3>1. CASE deployment' = [call[v].copy EXCEPT !.state = "FAILED"]
        BY <1>1, <3>1 DEF StateFile, Truthful, Deployments!States
      <3>2. CASE Torn(deployment')
        BY <1>7, <3>2
      <3>3. QED
        BY <1>14, <3>1, <3>2 DEF Deployments!Catch, Deployments!Torn
    <2>4. QED
      BY <1>1, <1>4, <2>1, <2>2, <2>3
  <1>15. QED
    BY <1>8, <1>9, <1>10, <1>12, <1>13, <1>14 DEF CallStep

\* The manual rollback
UndoStep ==
  \/ \E v \in Versions : Deployments!Withdraw(v)
  \/ Deployments!LoadUndo \/ Deployments!SaveUndo \/ Deployments!SaveUndoThrows

LEMMA UndoKeeps ==
  ASSUME DeploymentInv, UndoStep
  PROVE  DeploymentInv'
  <1> DEFINE Undo == [at : {"idle", "withdrawn", "loaded"}, version : Versions \cup {NoVersion},
                      copy : StateFile]
  <1>1. /\ DeploymentTypes /\ UNCHANGED <<mode, deployAt, env, deployed, call>>
        /\ deployment \in StateFile /\ Truthful(deployment)
        /\ manual \in Undo /\ Truthful(manual.copy) /\ manual.copy.state # "DEPLOYED"
    BY DEF DeploymentInv, DeploymentTypes, UndoStep, Deployments!Withdraw, Deployments!LoadUndo,
       Deployments!SaveUndo, Deployments!SaveUndoThrows, Deployments!deploymentVars
  \* what a step of the rollback may leave
  <1>2. ASSUME serving' \in [Deployments!Envs -> SUBSET Versions], withdrawn' \subseteq Versions,
               manual' \in Undo, Truthful(manual'.copy), manual'.copy.state # "DEPLOYED",
               deployment' \in StateFile, Truthful(deployment'),
               deployment'.deployed # NoVersion /\ deployment'.state = "DEPLOYED" =>
                 deployment'.deployed \in Served',
               \A u \in Versions : call[u].at = "deploying" /\ u \in Served => u \in Served'
        PROVE  DeploymentInv'
    <2>1. DeploymentTypes'
      BY <1>1, <1>2 DEF DeploymentTypes
    <2>2. ASSUME NEW u \in Versions PROVE VersionInv(u)'
      BY <1>1, <1>2 DEF DeploymentInv, VersionInv, IsDeployed
    <2>3. ASSUME NEW u \in Versions
          PROVE  Truthful(call[u].copy)' /\ call'[u].copy.state # "DEPLOYED"
      BY <1>1 DEF DeploymentInv, Truthful, IsDeployed
    <2>4. Truthful(deployment)' /\ Truthful(manual.copy)'
      BY <1>1, <1>2 DEF Truthful, IsDeployed
    <2>5. QED
      BY <1>2, <2>1, <2>2, <2>3, <2>4 DEF DeploymentInv
  <1>3. deployment.deployed # NoVersion /\ deployment.state = "DEPLOYED" =>
          deployment.deployed \in Served
    BY DEF DeploymentInv
  <1>4. ASSUME NEW v \in Versions, Deployments!Withdraw(v) PROVE DeploymentInv'
    <2>1. /\ serving' = [serving EXCEPT !["production"] = @ \ {v}]
          /\ withdrawn' = withdrawn \cup {v} /\ deployment' = deployment
          /\ manual' = [manual EXCEPT !.at = "withdrawn", !.version = v]
      BY <1>4 DEF Deployments!Withdraw
    <2>2. /\ serving' \in [Deployments!Envs -> SUBSET Versions] /\ withdrawn' \subseteq Versions
          /\ Served \subseteq Served'
      BY <1>1, <2>1 DEF DeploymentTypes, Served, Deployments!Envs
    <2>3. manual' \in Undo /\ manual'.copy = manual.copy
      BY <1>1, <2>1
    <2>4. Truthful(manual'.copy) /\ manual'.copy.state # "DEPLOYED"
      BY <1>1, <2>3
    <2>5. QED
      BY <1>1, <1>2, <1>3, <2>1, <2>2, <2>3, <2>4
  <1>5. CASE Deployments!LoadUndo
    <2> DEFINE copy == [deployment EXCEPT !.state = "ROLLED_BACK"]
    <2>1. copy \in StateFile /\ Truthful(copy) /\ copy.state # "DEPLOYED"
      BY <1>1 DEF StateFile, Truthful, Deployments!States
    <2>2. /\ UNCHANGED <<serving, withdrawn, deployment>>
          /\ manual' = [manual EXCEPT !.at = "loaded", !.copy = copy]
      BY <1>5 DEF Deployments!LoadUndo, Deployments!deploymentVars
    <2> HIDE DEF copy
    <2>3. manual' \in Undo /\ manual'.copy = copy
      BY <1>1, <2>1, <2>2
    <2>4. QED
      BY <1>1, <1>2, <1>3, <2>1, <2>2, <2>3 DEF DeploymentTypes, Served
  <1>6. ASSUME manual' = [manual EXCEPT !.at = "idle"]
        PROVE  manual' \in Undo /\ Truthful(manual'.copy) /\ manual'.copy.state # "DEPLOYED"
    BY <1>1, <1>6
  <1>7. CASE Deployments!SaveUndo
    <2>1. /\ serving' = serving /\ withdrawn' \subseteq withdrawn
          /\ deployment' = manual.copy /\ manual' = [manual EXCEPT !.at = "idle"]
          /\ \A u \in withdrawn : call[u].at = "deploying" => u \in withdrawn'
      BY <1>7 DEF Deployments!SaveUndo, Deployments!deploymentVars
    <2>2. manual' \in Undo /\ Truthful(manual'.copy) /\ manual'.copy.state # "DEPLOYED"
      BY <1>6, <2>1
    <2>3. \A u \in Versions : call[u].at = "deploying" /\ u \in Served => u \in Served'
      BY <2>1 DEF Served
    <2>4. deployment' \in StateFile /\ Truthful(deployment') /\ deployment'.state # "DEPLOYED"
      BY <1>1, <2>1
    <2>5. serving' \in [Deployments!Envs -> SUBSET Versions] /\ withdrawn' \subseteq Versions
      BY <1>1, <2>1 DEF DeploymentTypes
    <2>6. QED
      BY <1>2, <2>2, <2>3, <2>4, <2>5
  <1>8. CASE Deployments!SaveUndoThrows
    <2>1. /\ serving' = serving /\ withdrawn' = withdrawn
          /\ deployment' \in {deployment, Deployments!Fresh}
          /\ manual' = [manual EXCEPT !.at = "idle"]
      BY <1>8 DEF Deployments!SaveUndoThrows, Deployments!Torn, Deployments!deploymentVars
    <2>2. manual' \in Undo /\ Truthful(manual'.copy) /\ manual'.copy.state # "DEPLOYED"
      BY <1>6, <2>1
    <2>3. /\ deployment' \in StateFile /\ Truthful(deployment')
          /\ deployment'.deployed # NoVersion /\ deployment'.state = "DEPLOYED" =>
               deployment'.deployed \in Served'
      BY <1>1, <1>3, <2>1 DEF StateFile, Truthful, Served, Deployments!Fresh, Deployments!States
    <2>4. QED
      BY <1>1, <1>2, <2>1, <2>2, <2>3 DEF DeploymentTypes, Served
  <1>9. QED
    BY <1>4, <1>5, <1>7, <1>8 DEF UndoStep

LEMMA DeploymentCrashKeeps ==
  ASSUME DeploymentInv, Deployments!Crash
  PROVE  DeploymentInv'
  <1>1. DeploymentTypes
    BY DEF DeploymentInv
  <1>2. /\ deployAt' = [v \in Versions |-> "idle"]
        /\ UNCHANGED <<mode, serving, deployed, withdrawn>>
        /\ deployment' \in {deployment, Deployments!Fresh}
        /\ manual' = [manual EXCEPT !.at = "idle"]
        /\ env' = env
    BY <1>1 DEF Deployments!Crash, Deployments!DeploymentCrash, Deployments!Torn, DeploymentTypes
  <1>3. ASSUME NEW v \in Versions
        PROVE  /\ call'[v].at \in {"new", "done", "threw", "dead"}
               /\ call'[v].at = "new" => call[v].at = "new"
               /\ call'[v].copy = call[v].copy
               /\ call'[v] \in [at : {"new", "loaded", "deploying", "failing", "done", "threw",
                                     "dead"}, copy : StateFile]
    <2> DEFINE Call == [at : {"new", "loaded", "deploying", "failing", "done", "threw", "dead"},
                        copy : StateFile]
    <2>1. call[v] \in Call
      BY <1>1 DEF DeploymentTypes
    <2>2. call'[v] = IF call[v].at \in {"loaded", "deploying", "failing"}
                     THEN [call[v] EXCEPT !.at = "dead"] ELSE call[v]
      BY DEF Deployments!Crash
    <2>3. QED
      BY <2>1, <2>2
  <1>4. /\ manual'.copy = manual.copy
        /\ manual' \in [at : {"idle", "withdrawn", "loaded"}, version : Versions \cup {NoVersion},
                         copy : StateFile]
    BY <1>1, <1>2 DEF DeploymentTypes
  <1>5. DeploymentTypes'
    <2> DEFINE Call == [at : {"new", "loaded", "deploying", "failing", "done", "threw", "dead"},
                        copy : StateFile]
    <2>2. \A v \in Versions : call'[v] \in Call
      BY <1>3
    <2>3. \E f : call' = [v \in Versions |-> f[v]]
      <3>1. call' = [v \in Versions |-> call'[v]]
        BY DEF Deployments!Crash
      <3>2. QED
        BY <3>1
    <2>4. call' \in [Versions -> Call]
      BY <2>2, <2>3
    <2>5. deployment' \in StateFile
      BY <1>1, <1>2 DEF DeploymentTypes, StateFile, Deployments!Fresh, Deployments!States
    <2>6. QED
      BY <1>1, <1>2, <1>4, <2>4, <2>5 DEF DeploymentTypes, Deployments!Awaits
  <1>6. ASSUME NEW v \in Versions PROVE VersionInv(v)'
    <2>1. VersionInv(v) /\ deployAt'[v] = "idle" /\ (IsDeployed(v)' <=> IsDeployed(v))
      BY <1>2 DEF DeploymentInv, IsDeployed
    <2>2. call'[v].at \notin {"loaded", "deploying"} /\ (call'[v].at = "new" => call[v].at = "new")
      BY <1>3
    <2>3. QED
      BY <2>1, <2>2 DEF VersionInv
  <1>7. ASSUME NEW v \in Versions
        PROVE  Truthful(call[v].copy)' /\ call'[v].copy.state # "DEPLOYED"
    <2>1. call'[v].copy = call[v].copy
      BY <1>3
    <2>2. QED
      BY <1>2, <2>1 DEF DeploymentInv, Truthful, IsDeployed
  <1>8. /\ Truthful(deployment)'
        /\ deployment'.deployed # NoVersion /\ deployment'.state = "DEPLOYED" =>
             deployment'.deployed \in Served'
    BY <1>2 DEF DeploymentInv, Truthful, IsDeployed, Served, Deployments!Fresh
  <1>9. Truthful(manual.copy)' /\ manual'.copy.state # "DEPLOYED"
    BY <1>2, <1>4 DEF DeploymentInv, Truthful, IsDeployed
  <1>10. QED
    BY <1>5, <1>6, <1>7, <1>8, <1>9 DEF DeploymentInv

LEMMA DeploymentInitial ==
  ASSUME Deployments!Init
  PROVE  DeploymentInv
  <1> USE DEF Deployments!Init, Deployments!DeploymentInit
  <1>1. Deployments!Fresh \in StateFile /\ Truthful(Deployments!Fresh)
    BY DEF Deployments!Fresh, StateFile, Deployments!States, Truthful
  <1>2. DeploymentTypes
    BY <1>1 DEF DeploymentTypes, Deployments!Envs, Deployments!Awaits, Deployments!Statuses,
       Deployments!NotDeployed, Deployments!NotCalled, Deployments!NoUndo
  <1>3. \A v \in Versions : VersionInv(v)
    BY DEF VersionInv, IsDeployed, Deployments!NotDeployed, Deployments!NotCalled, Deployments!Envs
  <1>4. QED
    BY <1>1, <1>2, <1>3 DEF DeploymentInv, Deployments!NotCalled, Deployments!NoUndo,
       Deployments!Fresh

LEMMA DeploymentSteps ==
  DeploymentInv /\ [Deployments!Next]_(Deployments!vars) => DeploymentInv'
  <1> SUFFICES ASSUME DeploymentInv, [Deployments!Next]_(Deployments!vars)
               PROVE  DeploymentInv'
    OBVIOUS
  <1>1. CASE UNCHANGED Deployments!vars
    <2>1. UNCHANGED <<mode, serving, deployAt, env, deployed, deployment, call, manual, withdrawn>>
      BY <1>1 DEF Deployments!vars, Deployments!deploymentVars
    <2>2. QED
      BY <2>1 DEF DeploymentInv, DeploymentTypes, VersionInv, Truthful, IsDeployed, Served
  <1>2. QED
    BY <1>1, ControllerKeeps, CallKeeps, UndoKeeps, DeploymentCrashKeeps
    DEF Deployments!Next, CallStep, UndoStep

\* What the deployment file calls deployed passed its health check, and while the
\* file says DEPLOYED production serves it, for any versions, deployed and rolled
\* back in any order, and any number of failed writes and crashes
\* (src/core/autonomous-deployment-engine.js, runAutonomousDeployment()).
THEOREM DeployedHolds == Deployments!Spec => []DeployedRecordHolds
  <1>1. DeploymentInv => DeployedRecordHolds
    BY DEF DeploymentInv, DeployedRecordHolds, Deployments!DeployedRecordHolds, Truthful, IsDeployed, Served
  <1>2. QED
    BY <1>1, DeploymentInitial, DeploymentSteps, PTL DEF Deployments!Spec

-----------------------------------------------------------------------------
(* Builds                                                                  *)

\* The row of a build
Run == [at : Runs!Places, stage : {"testing", "runtime", "interaction"}, again : BOOLEAN,
        repairs : Nat, ok : SUBSET Runs!Checks, ready : BOOLEAN, delivery : Nat, cycle : Nat,
        verified : SUBSET Runs!Checks]

RunsTypes ==
  /\ build \in [Builds -> Run]
  /\ holds \in [Builds -> SUBSET Runs!Checks]
  /\ alone \in [Builds -> BOOLEAN]

Verifiers == {"tests", "runtime", "interaction"}

\* How far a build that has the workspace to itself may be, by the checks that
\* hold for the files as they are
AsChecked(run, held) ==
  /\ run.at \in {"start", "probe"} => "tests" \in held
  /\ run.at \in {"launch", "browse"} => {"tests", "runtime"} \subseteq held
  /\ run.at = "review" /\ Verifiers \subseteq run.ok => Verifiers \subseteq held
  /\ run.at \in {"council", "promote", "compact"} /\ run.ready =>
       "security" \in run.ok /\ held = Runs!Checks
  /\ run.at = "answered" /\ run.ready => run.verified = Runs!Checks

RunsInv ==
  /\ RunsTypes
  /\ \A b \in Builds : alone[b] =>
       /\ AsChecked(build[b], holds[b])
       /\ Runs!UnderWay(b) => \A d \in Builds \ {b} : ~Runs!UnderWay(d)

\* A step of a build that is under way disturbs no build that is alone: what
\* it makes of its own row has to be checked.
LEMMA RunKeeps ==
  ASSUME RunsInv, NEW b \in Builds, Runs!UnderWay(b),
         NEW run \in Run, build' = [build EXCEPT ![b] = run],
         holds' \in [Builds -> SUBSET Runs!Checks], alone' = alone,
         alone[b] => AsChecked(run, holds'[b])
  PROVE  RunsInv'
  <1>1. RunsTypes'
    BY DEF RunsInv, RunsTypes
  <1>2. build'[b] = run /\ \A c \in Builds \ {b} : build'[c] = build[c]
    BY DEF RunsInv, RunsTypes
  <1>3. \A c \in Builds \ {b} : Runs!UnderWay(c)' <=> Runs!UnderWay(c)
    BY <1>2 DEF Runs!UnderWay
  <1>4. ASSUME NEW c \in Builds, alone[c]
        PROVE  /\ AsChecked(build'[c], holds'[c])
               /\ Runs!UnderWay(c)' => \A d \in Builds \ {c} : ~Runs!UnderWay(d)'
    <2>1. CASE c = b
      BY <1>2, <1>3, <1>4, <2>1 DEF RunsInv
    <2>2. CASE c # b
      <3>1. ~Runs!UnderWay(c) /\ ~Runs!UnderWay(c)' /\ AsChecked(build[c], holds[c])
        BY <1>3, <1>4, <2>2 DEF RunsInv
      <3>2. QED
        BY <1>2, <2>2, <3>1 DEF AsChecked, Runs!UnderWay, Runs!Finished
    <2>3. QED
      BY <2>1, <2>2
  <1>5. QED
    BY <1>1, <1>4 DEF RunsInv

LEMMA StartKeeps ==
  ASSUME RunsInv, NEW b \in Builds, Runs!Start(b)
  PROVE  RunsInv'
  <1> USE DEF Runs!Start
  <1> DEFINE run == [build[b] EXCEPT !.at = "generate"]
  <1>1. build[b] \in Run /\ run \in Run
    BY DEF RunsInv, RunsTypes, Run, Runs!Places
  <1>2. /\ build' = [build EXCEPT ![b] = run]
        /\ build'[b] = run /\ \A c \in Builds \ {b} : build'[c] = build[c]
    BY DEF RunsInv, RunsTypes, Runs!Goto
  <1>3. RunsTypes'
    BY <1>1, <1>2 DEF RunsInv, RunsTypes, Runs!TreeChanges
  <1>4. run.at = "generate"
    BY <1>1 DEF Run
  <1> HIDE DEF run
  <1>5. ASSUME NEW c \in Builds, alone'[c]
        PROVE  /\ AsChecked(build'[c], holds'[c])
               /\ Runs!UnderWay(c)' => \A d \in Builds \ {c} : ~Runs!UnderWay(d)'
    <2>1. CASE c = b
      BY <1>2, <1>4, <1>5, <2>1 DEF AsChecked, Runs!UnderWay
    <2>2. CASE c # b
      <3>1. alone[c] /\ ~Runs!UnderWay(c)
        BY <1>5, <2>2
      <3>2. AsChecked(build[c], holds[c])
        BY <3>1 DEF RunsInv
      <3>3. QED
        BY <1>2, <2>2, <3>1, <3>2 DEF AsChecked, Runs!UnderWay, Runs!Finished
    <2>3. QED
      BY <2>1, <2>2
  <1>6. QED
    BY <1>3, <1>5 DEF RunsInv

RunStep(b) ==
  \/ Runs!Generate(b) \/ Runs!Write(b) \/ Runs!Test(b) \/ Runs!StartApplication(b)
  \/ Runs!Probe(b) \/ Runs!Launch(b) \/ Runs!Browse(b) \/ Runs!Review(b) \/ Runs!Council(b)
  \/ Runs!Promote(b) \/ Runs!Compact(b) \/ Runs!Die(b)

LEMMA BuildStepKeeps ==
  ASSUME RunsInv, NEW b \in Builds, RunStep(b)
  PROVE  RunsInv'
  <1> DEFINE old == build[b]
             Becomes(run) == run \in Run /\ build' = [build EXCEPT ![b] = run]
  <1>1. /\ old \in Run /\ holds \in [Builds -> SUBSET Runs!Checks]
        /\ alone[b] => AsChecked(old, holds[b])
    BY DEF RunsInv, RunsTypes
  <1>2. alone' = alone /\ Runs!UnderWay(b)
    BY DEF RunStep, Runs!Generate, Runs!Write, Runs!Test, Runs!StartApplication, Runs!Probe,
       Runs!Launch, Runs!Browse, Runs!Review, Runs!Council, Runs!Promote, Runs!Compact,
       Runs!Die, Runs!UnderWay, Runs!Finished
  <1>3. ASSUME NEW run, Becomes(run), holds' \in [Builds -> SUBSET Runs!Checks],
               alone[b] => AsChecked(run, holds'[b])
        PROVE  RunsInv'
    BY <1>2, <1>3, RunKeeps
  \* places that require nothing
  <1>4. ASSUME NEW run, Becomes(run), holds' \in [Builds -> SUBSET Runs!Checks],
               run.at \in {"generate", "write", "test", "failed", "dead"}
        PROVE  RunsInv'
    <2>1. AsChecked(run, holds'[b])
      BY <1>4 DEF AsChecked
    <2>2. QED
      BY <1>3, <1>4, <2>1
  <1>5. ASSUME NEW nextAt \in Runs!Places, Runs!Goto(b, nextAt)
        PROVE  Becomes([old EXCEPT !.at = nextAt]) /\ [old EXCEPT !.at = nextAt].at = nextAt
    BY <1>1, <1>5 DEF Runs!Goto, Run
  <1>6. CASE \/ Runs!Generate(b) \/ Runs!Write(b) \/ Runs!Die(b)
    <2>1. holds' \in [Builds -> SUBSET Runs!Checks]
      BY <1>1, <1>6 DEF Runs!Generate, Runs!Write, Runs!Die, Runs!TreeChanges
    <2>2. \E nextAt \in {"generate", "write", "test", "failed", "dead"} : Runs!Goto(b, nextAt)
      BY <1>6 DEF Runs!Generate, Runs!Write, Runs!Die, Runs!Throw
    <2>3. PICK nextAt \in {"generate", "write", "test", "failed", "dead"} : Runs!Goto(b, nextAt)
      BY <2>2
    <2>4. nextAt \in Runs!Places
      BY DEF Runs!Places
    <2> DEFINE run == [old EXCEPT !.at = nextAt]
    <2>5. Becomes(run) /\ run.at \in {"generate", "write", "test", "failed", "dead"}
      BY <1>5, <2>3, <2>4
    <2> HIDE DEF run
    <2>6. QED
      BY <1>4, <2>1, <2>5
  <1>7. /\ "tests" \in Runs!Checks /\ "runtime" \in Runs!Checks
        /\ "interaction" \in Runs!Checks /\ "security" \in Runs!Checks
    BY DEF Runs!Checks
  \* a failed check goes back to the model, if there is budget for a repair
  <1>8. ASSUME NEW s \in {"testing", "runtime", "interaction"}, NEW ok \in SUBSET Runs!Checks,
               build' = [build EXCEPT ![b] = Runs!Repairing(b, s, ok)],
               holds' \in [Builds -> SUBSET Runs!Checks]
        PROVE  RunsInv'
    <2>1. (s # "testing") \in BOOLEAN /\ old.repairs + 1 \in Nat
      BY <1>1 DEF Run
    <2>2. PICK again \in BOOLEAN, repairs \in Nat :
            Runs!Repairing(b, s, ok) = [old EXCEPT !.at = "generate", !.stage = s, !.ok = ok,
                                                   !.repairs = repairs, !.again = again]
      BY <2>1 DEF Runs!Repairing
    <2> DEFINE run == [old EXCEPT !.at = "generate", !.stage = s, !.ok = ok,
                                  !.repairs = repairs, !.again = again]
    <2>3. run \in Run /\ run.at = "generate"
      BY <1>1 DEF Run, Runs!Places
    <2>4. build' = [build EXCEPT ![b] = run]
      BY <1>8, <2>2
    <2> HIDE DEF run
    <2>5. QED
      BY <1>4, <1>8, <2>3, <2>4
  \* any other outcome of a check goes on somewhere
  <1>9. ASSUME NEW run \in Run, build' = [build EXCEPT ![b] = run],
               holds' \in [Builds -> SUBSET Runs!Checks],
               \/ run.at \in {"start", "probe"} /\ (alone[b] => "tests" \in holds'[b])
               \/ run.at \in {"launch", "browse"} /\ (alone[b] => {"tests", "runtime"} \subseteq holds'[b])
               \/ /\ run.at = "review"
                  /\ Verifiers \subseteq run.ok => (alone[b] => Verifiers \subseteq holds'[b])
        PROVE  RunsInv'
    <2>1. alone[b] => AsChecked(run, holds'[b])
      BY <1>9 DEF AsChecked
    <2>2. QED
      BY <1>3, <1>9, <2>1
  <1>10. ASSUME Runs!Test(b) PROVE RunsInv'
    <2> DEFINE Ok(passed) == Runs!Outcome(b, "tests", passed)
               s == IF old.stage = "testing" THEN "runtime" ELSE old.stage
               On(passed) == [old EXCEPT !.at = IF passed THEN "start" ELSE "review",
                                         !.ok = Ok(passed), !.stage = s]
               Row(passed) == IF ~passed /\ ~old.again /\ Runs!Repairs(b)
                              THEN Runs!Repairing(b, "testing", Ok(passed)) ELSE On(passed)
    <2>1. \E passed \in BOOLEAN : /\ Runs!Checked(b, "tests", passed)
                                  /\ build' = [build EXCEPT ![b] = Row(passed)]
      BY <1>10 DEF Runs!Test, Runs!AfterTests
    <2>2. Row(TRUE) = On(TRUE) /\ Row(FALSE) \in {Runs!Repairing(b, "testing", Ok(FALSE)), On(FALSE)}
      OBVIOUS
    <2>3. Ok(TRUE) \in SUBSET Runs!Checks /\ Ok(FALSE) \in SUBSET Runs!Checks /\ "tests" \notin Ok(FALSE)
      BY <1>1, <1>7 DEF Runs!Outcome, Run
    <2>4. s \in {"testing", "runtime", "interaction"}
      BY <1>1 DEF Run
    <2> HIDE DEF Ok, s
    <2>5. /\ On(TRUE) \in Run /\ On(TRUE).at = "start"
          /\ On(FALSE) \in Run /\ On(FALSE).at = "review" /\ On(FALSE).ok = Ok(FALSE)
      BY <1>1, <2>3, <2>4 DEF Run, Runs!Places
    <2> HIDE DEF On, Row
    <2>6. CASE Runs!Checked(b, "tests", TRUE) /\ build' = [build EXCEPT ![b] = Row(TRUE)]
      <3>1. holds' \in [Builds -> SUBSET Runs!Checks] /\ "tests" \in holds'[b]
        BY <1>1, <1>7, <2>6 DEF Runs!Checked
      <3>2. QED
        BY <1>9, <2>2, <2>5, <2>6, <3>1
    <2>7. CASE Runs!Checked(b, "tests", FALSE) /\ build' = [build EXCEPT ![b] = Row(FALSE)]
      <3>1. holds' \in [Builds -> SUBSET Runs!Checks]
        BY <1>1, <1>7, <2>7 DEF Runs!Checked
      <3>2. CASE build' = [build EXCEPT ![b] = Runs!Repairing(b, "testing", Ok(FALSE))]
        BY <1>8, <2>3, <3>1, <3>2
      <3>3. CASE build' = [build EXCEPT ![b] = On(FALSE)]
        BY <1>9, <2>3, <2>5, <3>1, <3>3 DEF Verifiers
      <3>4. QED
        BY <2>2, <2>7, <3>2, <3>3
    <2>8. QED
      BY <2>1, <2>6, <2>7
  \* the verifiers' answers
  <1>11. ASSUME Runs!Served(b, FALSE), holds' \in [Builds -> SUBSET Runs!Checks] PROVE RunsInv'
    <2> DEFINE ok == Runs!Outcome(b, "runtime", FALSE)
               on == [old EXCEPT !.at = "review", !.ok = ok]
    <2>1. \/ build' = [build EXCEPT ![b] = Runs!Repairing(b, "runtime", ok)]
          \/ build' = [build EXCEPT ![b] = on]
      BY <1>11 DEF Runs!Served
    <2>2. ok \in SUBSET Runs!Checks /\ "runtime" \notin ok
      BY <1>1 DEF Runs!Outcome, Run
    <2> HIDE DEF ok
    <2>3. on \in Run /\ on.at = "review" /\ on.ok = ok
      BY <1>1, <2>2 DEF Run, Runs!Places
    <2> HIDE DEF on
    <2>4. CASE build' = [build EXCEPT ![b] = Runs!Repairing(b, "runtime", ok)]
      BY <1>8, <1>11, <2>2, <2>4
    <2>5. CASE build' = [build EXCEPT ![b] = on]
      BY <1>9, <1>11, <2>2, <2>3, <2>5 DEF Verifiers
    <2>6. QED
      BY <2>1, <2>4, <2>5
  <1>12. ASSUME Runs!Served(b, TRUE), holds' \in [Builds -> SUBSET Runs!Checks],
                alone[b] => {"tests", "runtime"} \subseteq holds'[b]
         PROVE  RunsInv'
    <2> DEFINE ok == Runs!Outcome(b, "runtime", TRUE)
               again == old.again /\ old.stage = "interaction"
               on == [old EXCEPT !.at = "launch", !.ok = ok, !.stage = "interaction",
                                 !.again = again]
    <2>1. build' = [build EXCEPT ![b] = on]
      BY <1>12 DEF Runs!Served
    <2>2. ok \in SUBSET Runs!Checks /\ again \in BOOLEAN
      BY <1>1 DEF Runs!Outcome, Run, Runs!Checks
    <2> HIDE DEF ok, again
    <2>3. on \in Run /\ on.at = "launch"
      BY <1>1, <2>2 DEF Run, Runs!Places
    <2> HIDE DEF on
    <2>4. QED
      BY <1>9, <1>12, <2>1, <2>3
  <1>13. ASSUME Runs!Browsed(b, FALSE), holds' \in [Builds -> SUBSET Runs!Checks] PROVE RunsInv'
    <2> DEFINE ok == Runs!Outcome(b, "interaction", FALSE)
               on == [old EXCEPT !.at = "review", !.ok = ok]
    <2>1. \/ build' = [build EXCEPT ![b] = Runs!Repairing(b, "interaction", ok)]
          \/ build' = [build EXCEPT ![b] = on]
      BY <1>13 DEF Runs!Browsed
    <2>2. ok \in SUBSET Runs!Checks /\ "interaction" \notin ok
      BY <1>1 DEF Runs!Outcome, Run
    <2> HIDE DEF ok
    <2>3. on \in Run /\ on.at = "review" /\ on.ok = ok
      BY <1>1, <2>2 DEF Run, Runs!Places
    <2> HIDE DEF on
    <2>4. CASE build' = [build EXCEPT ![b] = Runs!Repairing(b, "interaction", ok)]
      BY <1>8, <1>13, <2>2, <2>4
    <2>5. CASE build' = [build EXCEPT ![b] = on]
      BY <1>9, <1>13, <2>2, <2>3, <2>5 DEF Verifiers
    <2>6. QED
      BY <2>1, <2>4, <2>5
  <1>14. ASSUME Runs!Browsed(b, TRUE), holds' \in [Builds -> SUBSET Runs!Checks],
                alone[b] => Verifiers \subseteq holds'[b]
         PROVE  RunsInv'
    <2> DEFINE ok == Runs!Outcome(b, "interaction", TRUE)
               on == [old EXCEPT !.at = "review", !.ok = ok]
    <2>1. build' = [build EXCEPT ![b] = on]
      BY <1>14 DEF Runs!Browsed
    <2>2. ok \in SUBSET Runs!Checks
      BY <1>1 DEF Runs!Outcome, Run, Runs!Checks
    <2> HIDE DEF ok
    <2>3. on \in Run /\ on.at = "review" /\ on.ok = ok
      BY <1>1, <2>2 DEF Run, Runs!Places
    <2> HIDE DEF on
    <2>4. QED
      BY <1>9, <1>14, <2>1, <2>3
  \* an application that was started, or that was not
  <1>15. ASSUME NEW nextAt \in {"probe", "browse"}, Runs!Goto(b, nextAt), holds' = holds,
                alone[b] => /\ nextAt = "probe" => "tests" \in holds[b]
                            /\ nextAt = "browse" => {"tests", "runtime"} \subseteq holds[b]
         PROVE  RunsInv'
    <2> DEFINE on == [old EXCEPT !.at = nextAt]
    <2>1. nextAt \in Runs!Places
      BY DEF Runs!Places
    <2>2. Becomes(on) /\ on.at = nextAt
      BY <1>5, <1>15, <2>1
    <2> HIDE DEF on
    <2>3. QED
      BY <1>1, <1>9, <1>15, <2>2
  <1>16. ASSUME NEW c \in Runs!Checks, Runs!Checked(b, c, TRUE)
         PROVE  holds' \in [Builds -> SUBSET Runs!Checks] /\ holds'[b] = holds[b] \cup {c}
    BY <1>1, <1>16 DEF Runs!Checked
  <1>17. ASSUME NEW c \in Runs!Checks, Runs!Checked(b, c, FALSE)
         PROVE  holds' \in [Builds -> SUBSET Runs!Checks]
    BY <1>1, <1>17 DEF Runs!Checked
  <1>18. CASE Runs!StartApplication(b)
    <2>1. /\ old.at = "start"
          /\ \/ Runs!Goto(b, "probe") /\ holds' = holds
             \/ Runs!Served(b, FALSE) /\ Runs!Checked(b, "runtime", FALSE)
      BY <1>18 DEF Runs!StartApplication
    <2>2. alone[b] => "tests" \in holds[b]
      BY <1>1, <2>1 DEF AsChecked
    <2>3. QED
      BY <1>7, <1>11, <1>15, <1>17, <2>1, <2>2
  <1>19. CASE Runs!Probe(b)
    <2>1. /\ old.at = "probe"
          /\ \/ Runs!Served(b, TRUE) /\ Runs!Checked(b, "runtime", TRUE)
             \/ Runs!Served(b, FALSE) /\ Runs!Checked(b, "runtime", FALSE)
      BY <1>19 DEF Runs!Probe
    <2>2. alone[b] => "tests" \in holds[b]
      BY <1>1, <2>1 DEF AsChecked
    <2>3. CASE Runs!Served(b, TRUE) /\ Runs!Checked(b, "runtime", TRUE)
      <3>1. holds' \in [Builds -> SUBSET Runs!Checks] /\ holds'[b] = holds[b] \cup {"runtime"}
        BY <1>7, <1>16, <2>3
      <3>2. alone[b] => {"tests", "runtime"} \subseteq holds'[b]
        BY <2>2, <3>1
      <3>3. QED
        BY <1>12, <2>3, <3>1, <3>2
    <2>4. CASE Runs!Served(b, FALSE) /\ Runs!Checked(b, "runtime", FALSE)
      BY <1>7, <1>11, <1>17, <2>4
    <2>5. QED
      BY <2>1, <2>3, <2>4
  <1>20. CASE Runs!Launch(b)
    <2>1. /\ old.at = "launch"
          /\ \/ Runs!Goto(b, "browse") /\ holds' = holds
             \/ Runs!Browsed(b, FALSE) /\ Runs!Checked(b, "interaction", FALSE)
      BY <1>20 DEF Runs!Launch
    <2>2. alone[b] => {"tests", "runtime"} \subseteq holds[b]
      BY <1>1, <2>1 DEF AsChecked
    <2>3. QED
      BY <1>7, <1>13, <1>15, <1>17, <2>1, <2>2
  <1>21. CASE Runs!Browse(b)
    <2>1. /\ old.at = "browse"
          /\ \/ Runs!Browsed(b, TRUE) /\ Runs!Checked(b, "interaction", TRUE)
             \/ Runs!Browsed(b, FALSE) /\ Runs!Checked(b, "interaction", FALSE)
      BY <1>21 DEF Runs!Browse
    <2>2. alone[b] => {"tests", "runtime"} \subseteq holds[b]
      BY <1>1, <2>1 DEF AsChecked
    <2>3. CASE Runs!Browsed(b, TRUE) /\ Runs!Checked(b, "interaction", TRUE)
      <3>1. holds' \in [Builds -> SUBSET Runs!Checks] /\ holds'[b] = holds[b] \cup {"interaction"}
        BY <1>7, <1>16, <2>3
      <3>2. alone[b] => Verifiers \subseteq holds'[b]
        BY <2>2, <3>1 DEF Verifiers
      <3>3. QED
        BY <1>14, <2>3, <3>1, <3>2
    <2>4. CASE Runs!Browsed(b, FALSE) /\ Runs!Checked(b, "interaction", FALSE)
      BY <1>7, <1>13, <1>17, <2>4
    <2>5. QED
      BY <2>1, <2>3, <2>4
  \* the next delivery, or the next round of the controller
  <1>22. ASSUME NEW cycle \in Nat, NEW delivery \in Nat, holds' \in [Builds -> SUBSET Runs!Checks],
                build' = [build EXCEPT ![b] = Runs!Delivering(b, cycle, delivery)]
         PROVE  RunsInv'
    <2> DEFINE run == Runs!Delivering(b, cycle, delivery)
    <2>1. run \in Run /\ run.at = "generate"
      BY DEF Runs!Delivering, Runs!NewBuild, Run, Runs!Places
    <2> HIDE DEF run
    <2>2. build' = [build EXCEPT ![b] = run]
      BY <1>22 DEF run
    <2>3. QED
      BY <1>4, <1>22, <2>1, <2>2
  <1>23. ASSUME NEW ready \in BOOLEAN, holds' \in [Builds -> SUBSET Runs!Checks],
                build' = [build EXCEPT ![b] = Runs!NextCycle(b, ready)],
                alone[b] /\ ready => "security" \in old.ok /\ holds'[b] = Runs!Checks
         PROVE  RunsInv'
    <2> DEFINE run == [old EXCEPT !.at = "compact", !.ready = ready]
    <2>1. \/ build' = [build EXCEPT ![b] = Runs!Delivering(b, old.cycle + 1, 1)]
          \/ build' = [build EXCEPT ![b] = run]
      BY <1>23 DEF Runs!NextCycle
    <2>2. old.cycle + 1 \in Nat /\ 1 \in Nat
      BY <1>1 DEF Run
    <2>3. /\ run \in Run /\ run.at = "compact" /\ run.ok = old.ok
          /\ run.ready = ready
      BY <1>1 DEF Run, Runs!Places
    <2> HIDE DEF run
    <2>4. alone[b] => AsChecked(run, holds'[b])
      BY <1>23, <2>3 DEF AsChecked
    <2>5. QED
      BY <1>3, <1>22, <1>23, <2>1, <2>2, <2>3, <2>4
  <1>24. ASSUME Runs!Review(b) PROVE RunsInv'
    <2> DEFINE Ok(secure) == Runs!Outcome(b, "security", secure)
               Ready(secure) == Runs!Passed(Ok(secure))
               On(secure) == [old EXCEPT !.at = "council", !.ready = Ready(secure), !.ok = Ok(secure)]
               Row(secure) ==
                 CASE Ready(secure) \/ old.delivery = 0 -> On(secure)
                   [] ~Ready(secure) /\ old.delivery \in 1 .. MaxDeliveries - 1 ->
                        Runs!Delivering(b, old.cycle, old.delivery + 1)
                   [] OTHER -> Runs!NextCycle(b, FALSE)
    <2>1. \E secure \in BOOLEAN : /\ Runs!Checked(b, "security", secure)
                                  /\ build' = [build EXCEPT ![b] = Row(secure)]
      BY <1>24 DEF Runs!Review
    <2>2. \A secure \in BOOLEAN :
            Row(secure) \in {On(secure), Runs!Delivering(b, old.cycle, old.delivery + 1),
                             Runs!NextCycle(b, FALSE)}
      OBVIOUS
    <2>3. /\ Ok(TRUE) \in SUBSET Runs!Checks /\ Ok(FALSE) \in SUBSET Runs!Checks
          /\ "security" \in Ok(TRUE) /\ (Verifiers \subseteq Ok(TRUE) => Verifiers \subseteq old.ok)
          /\ Ready(TRUE) \in BOOLEAN /\ Ready(FALSE) = FALSE
          /\ Ready(TRUE) => Verifiers \subseteq Ok(TRUE)
      BY <1>1, <1>7 DEF Runs!Outcome, Runs!Passed, Run, Verifiers
    <2> HIDE DEF Ok, Ready
    <2>4. /\ On(TRUE) \in Run /\ On(TRUE).at = "council" /\ On(TRUE).ok = Ok(TRUE)
          /\ On(TRUE).ready = Ready(TRUE)
      BY <1>1, <2>3 DEF Run, Runs!Places
    <2>5. On(FALSE) \in Run /\ On(FALSE).at = "council" /\ On(FALSE).ready = FALSE
      BY <1>1, <2>3 DEF Run, Runs!Places
    <2> HIDE DEF On, Row
    <2>6. ASSUME holds' \in [Builds -> SUBSET Runs!Checks],
                 \/ build' = [build EXCEPT ![b] = Runs!Delivering(b, old.cycle, old.delivery + 1)]
                 \/ build' = [build EXCEPT ![b] = Runs!NextCycle(b, FALSE)]
          PROVE  RunsInv'
      <3>1. old.cycle \in Nat /\ old.delivery + 1 \in Nat
        BY <1>1 DEF Run
      <3>2. CASE build' = [build EXCEPT ![b] = Runs!NextCycle(b, FALSE)]
        BY <1>23, <2>6, <3>2
      <3>3. CASE build' = [build EXCEPT ![b] = Runs!Delivering(b, old.cycle, old.delivery + 1)]
        BY <1>22, <2>6, <3>1, <3>3
      <3>4. QED
        BY <2>6, <3>2, <3>3
    <2>7. CASE Runs!Checked(b, "security", TRUE) /\ build' = [build EXCEPT ![b] = Row(TRUE)]
      <3>1. /\ holds' \in [Builds -> SUBSET Runs!Checks]
            /\ holds'[b] = holds[b] \cup {"security"} /\ holds'[b] \subseteq Runs!Checks
        BY <1>1, <1>7, <1>16, <2>7
      <3>2. CASE build' = [build EXCEPT ![b] = On(TRUE)]
        <4>1. old.at = "review"
          BY <1>24 DEF Runs!Review
        <4>2. alone[b] /\ Ready(TRUE) => Verifiers \subseteq holds[b]
          BY <1>1, <2>3, <4>1 DEF AsChecked
        <4>3. alone[b] /\ Ready(TRUE) => holds'[b] = Runs!Checks
          BY <3>1, <4>2 DEF Verifiers, Runs!Checks
        <4>4. alone[b] => AsChecked(On(TRUE), holds'[b])
          BY <2>3, <2>4, <4>3 DEF AsChecked
        <4>5. QED
          BY <1>3, <2>4, <3>1, <3>2, <4>4
      <3>3. QED
        BY <2>2, <2>6, <2>7, <3>1, <3>2
    <2>8. CASE Runs!Checked(b, "security", FALSE) /\ build' = [build EXCEPT ![b] = Row(FALSE)]
      <3>1. holds' \in [Builds -> SUBSET Runs!Checks]
        BY <1>7, <1>17, <2>8
      <3>2. CASE build' = [build EXCEPT ![b] = On(FALSE)]
        <4>1. alone[b] => AsChecked(On(FALSE), holds'[b])
          BY <2>5 DEF AsChecked
        <4>2. QED
          BY <1>3, <2>5, <3>1, <3>2, <4>1
      <3>3. QED
        BY <2>2, <2>6, <2>8, <3>1, <3>2
    <2>9. QED
      BY <2>1, <2>7, <2>8
  \* the controller's places, and the answer
  <1>25. ASSUME NEW run \in Run, build' = [build EXCEPT ![b] = run],
                run.at \in {"promote", "compact"}, run.ok = old.ok,
                holds' \in [Builds -> SUBSET Runs!Checks],
                alone[b] /\ run.ready => "security" \in old.ok /\ holds'[b] = Runs!Checks
         PROVE  RunsInv'
    <2>1. alone[b] => AsChecked(run, holds'[b])
      BY <1>25 DEF AsChecked
    <2>2. QED
      BY <1>3, <1>25, <2>1
  <1>26. ASSUME NEW nextAt \in {"promote", "compact"}, holds' \in [Builds -> SUBSET Runs!Checks],
                build' = [build EXCEPT ![b] = [old EXCEPT !.at = nextAt]],
                alone[b] /\ old.ready => "security" \in old.ok /\ holds'[b] = Runs!Checks
         PROVE  RunsInv'
    <2> DEFINE run == [old EXCEPT !.at = nextAt]
    <2>1. run \in Run /\ run.at = nextAt /\ run.ok = old.ok /\ run.ready = old.ready
      BY <1>1 DEF Run, Runs!Places
    <2> HIDE DEF run
    <2>2. build' = [build EXCEPT ![b] = run]
      BY <1>26 DEF run
    <2>3. QED
      BY <1>25, <1>26, <2>1, <2>2
  <1>27. ASSUME Runs!Council(b) PROVE RunsInv'
    <2> DEFINE Row(secure) == IF secure THEN [old EXCEPT !.at = "promote"]
                              ELSE Runs!NextCycle(b, old.ready)
               halted == [old EXCEPT !.at = "compact", !.ready = FALSE]
    <2>1. \/ \E secure \in Runs!Verdicts(b) :
               build' = [build EXCEPT ![b] = Row(secure)] /\ Runs!Checked(b, "security", secure)
          \/ build' = [build EXCEPT ![b].at = "compact", ![b].ready = FALSE] /\ holds' = holds
      BY <1>27 DEF Runs!Council
    <2>2. \A secure \in Runs!Verdicts(b) :
            secure \in BOOLEAN /\ (alone[b] => secure = ("security" \in old.ok))
      <3> DEFINE found == "security" \in old.ok
      <3>1. found \in BOOLEAN
        OBVIOUS
      <3>2. Runs!Verdicts(b) = IF alone[b] THEN {found} ELSE BOOLEAN
        BY DEF Runs!Verdicts
      <3> HIDE DEF found
      <3>3. \A secure \in Runs!Verdicts(b) :
              secure \in BOOLEAN /\ (alone[b] => secure = found)
        BY <3>1, <3>2
      <3>4. QED
        BY <3>3 DEF found
    <2>3. Row(TRUE) = [old EXCEPT !.at = "promote"] /\ Row(FALSE) = Runs!NextCycle(b, old.ready)
      OBVIOUS
    <2> HIDE DEF Row
    <2>4. alone[b] /\ old.ready => "security" \in old.ok /\ holds[b] = Runs!Checks
      BY <1>1, <1>27 DEF Runs!Council, AsChecked
    <2>5. CASE build' = [build EXCEPT ![b] = Row(TRUE)] /\ Runs!Checked(b, "security", TRUE)
      <3>1. holds' \in [Builds -> SUBSET Runs!Checks] /\ holds'[b] = holds[b] \cup {"security"}
        BY <1>7, <1>16, <2>5
      <3>2. alone[b] /\ old.ready => "security" \in old.ok /\ holds'[b] = Runs!Checks
        BY <1>7, <2>4, <3>1
      <3>3. QED
        BY <1>26, <2>3, <2>5, <3>1, <3>2
    <2>6. CASE /\ build' = [build EXCEPT ![b] = Row(FALSE)] /\ Runs!Checked(b, "security", FALSE)
               /\ alone[b] => "security" \notin old.ok
      <3>1. holds' \in [Builds -> SUBSET Runs!Checks] /\ old.ready \in BOOLEAN
        BY <1>1, <1>7, <1>17, <2>6 DEF Run
      <3>2. QED
        BY <1>23, <2>3, <2>4, <2>6, <3>1
    <2>7. CASE build' = [build EXCEPT ![b].at = "compact", ![b].ready = FALSE] /\ holds' = holds
      <3>1. build' = [build EXCEPT ![b] = halted]
        BY <2>7 DEF RunsInv, RunsTypes
      <3>2. halted \in Run /\ halted.at = "compact" /\ halted.ok = old.ok /\ halted.ready = FALSE
        BY <1>1 DEF Run, Runs!Places
      <3> HIDE DEF halted
      <3>3. QED
        BY <1>1, <1>25, <2>7, <3>1, <3>2
    <2>8. QED
      BY <2>1, <2>2, <2>5, <2>6, <2>7
  <1>28. ASSUME Runs!Promote(b) PROVE RunsInv'
    <2>1. /\ old.at = "promote" /\ holds' = holds
          /\ \/ build' = [build EXCEPT ![b] = Runs!NextCycle(b, old.ready)]
             \/ Runs!Goto(b, "compact")
             \/ Runs!Goto(b, "failed")
      BY <1>28 DEF Runs!Promote, Runs!Throw
    <2>2. alone[b] /\ old.ready => "security" \in old.ok /\ holds'[b] = Runs!Checks
      BY <1>1, <2>1 DEF AsChecked
    <2>3. CASE build' = [build EXCEPT ![b] = Runs!NextCycle(b, old.ready)]
      <3>1. old.ready \in BOOLEAN
        BY <1>1 DEF Run
      <3>2. QED
        BY <1>1, <1>23, <2>1, <2>2, <2>3, <3>1
    <2>4. CASE Runs!Goto(b, "compact")
      <3>1. build' = [build EXCEPT ![b] = [old EXCEPT !.at = "compact"]]
        BY <2>4 DEF Runs!Goto
      <3>2. QED
        BY <1>1, <1>26, <2>1, <2>2, <3>1
    <2>5. CASE Runs!Goto(b, "failed")
      <3> DEFINE run == [old EXCEPT !.at = "failed"]
      <3>1. "failed" \in Runs!Places
        BY DEF Runs!Places
      <3>2. Becomes(run) /\ run.at = "failed"
        BY <1>5, <2>5, <3>1
      <3> HIDE DEF run
      <3>3. QED
        BY <1>1, <1>4, <2>1, <3>2
    <2>6. QED
      BY <2>1, <2>3, <2>4, <2>5
  <1>29. CASE Runs!Compact(b)
    <2> DEFINE run == [old EXCEPT !.at = "answered", !.verified = holds[b]]
    <2>1. old.at = "compact" /\ holds' = holds /\ build' = [build EXCEPT ![b] = run]
      BY <1>29 DEF Runs!Compact, RunsInv, RunsTypes
    <2>2. /\ run \in Run /\ run.at = "answered" /\ run.verified = holds[b]
          /\ run.ready = old.ready
      BY <1>1 DEF Run, Runs!Places
    <2> HIDE DEF run
    <2>3. alone[b] => AsChecked(run, holds'[b])
      BY <1>1, <2>1, <2>2 DEF AsChecked
    <2>4. QED
      BY <1>1, <1>3, <2>1, <2>2, <2>3
  <1>30. QED
    BY <1>6, <1>10, <1>18, <1>19, <1>20, <1>21, <1>24, <1>27, <1>28, <1>29 DEF RunStep

LEMMA RunsInitial ==
  ASSUME Runs!Init
  PROVE  RunsInv
  <1>1. Runs!NewBuild \in Run /\ Runs!NewBuild.at = "new"
    BY DEF Runs!NewBuild, Run, Runs!Places, Runs!Checks
  <1>2. RunsTypes
    BY <1>1 DEF Runs!Init, RunsTypes
  <1>3. ASSUME NEW b \in Builds PROVE AsChecked(build[b], holds[b]) /\ ~Runs!UnderWay(b)
    BY <1>1 DEF Runs!Init, AsChecked, Runs!UnderWay
  <1>4. QED
    BY <1>2, <1>3 DEF RunsInv

LEMMA RunsSteps ==
  RunsInv /\ [Runs!Next]_(Runs!vars) => RunsInv'
  <1> SUFFICES ASSUME RunsInv, [Runs!Next]_(Runs!vars)
               PROVE  RunsInv'
    OBVIOUS
  <1>1. CASE UNCHANGED Runs!vars
    <2>1. UNCHANGED <<build, holds, alone>>
      BY <1>1 DEF Runs!vars
    <2>2. QED
      BY <2>1 DEF RunsInv, RunsTypes, Runs!UnderWay
  <1>2. QED
    BY <1>1, StartKeeps, BuildStepKeeps DEF Runs!Next, RunStep

\* A build that answers "ready for production" and had the workspace to itself
\* answers with files on which each of its checks was made, for any builds,
\* budgets and rounds of repair (src/core/autonomous-build-pipeline.js,
\* evaluateProject(); src/core/jora-async-worker.js, compactResult()).
THEOREM AnswersVerified == Runs!Spec => []AnsweredAsVerified
  <1>1. RunsInv => AnsweredAsVerified
    BY DEF AnsweredAsVerified, RunsInv, AsChecked, Runs!AnsweredAsVerified
  <1>2. QED
    BY <1>1, RunsInitial, RunsSteps, PTL DEF Runs!Spec

-----------------------------------------------------------------------------
(* The engines that edit the files                                         *)

Contents == [there : BOOLEAN, torn : BOOLEAN, marks : SUBSET Engines!Marks]
Edit == [op : {"create", "patch", "write"}, file : Engines!Files,
         needs : Engines!Marks \cup {"none"}, marks : SUBSET Engines!Marks, optional : BOOLEAN]

\* The edits an engine plans: only the one that writes over files holds on to
\* them before it begins, and it has two.
EditOf(e) == {edit \in Edit : IF e = "implementation" THEN edit.file \in {"html", "featureTest"}
                              ELSE edit.op \in {"create", "patch"}}

EngineTypes ==
  /\ tree \in [Engines!Files -> Contents] /\ editBefore \in [Engines!Files -> Contents]
  /\ editAt \in {"idle", "apply", "test", "rollback"}
  /\ engine \in Engines!Engines \cup {"none"}
  /\ edits \in Seq(EditOf(engine)) /\ (editAt = "apply" => edits # <<>>)
  /\ undo \in SUBSET [file : Engines!Files, old : Contents]
  /\ spoiled \in SUBSET Engines!Files

\* The one file that is taken back to what it may not have been
LostTest(f) == engine = "implementation" /\ f = "featureTest"
IsTaken(f) == \E u \in undo : u.file = f

\* What a call could still take back, were it to fail: each file is as it was,
\* or remembered as it was, or was spoiled.
Restorable ==
  /\ \A f \in Engines!Files :
       \/ tree[f] = editBefore[f]
       \/ f \in spoiled
       \/ IsTaken(f)
       \/ LostTest(f) /\ ~tree[f].there
  /\ \A u \in undo : \/ u.old = editBefore[u.file]
                     \/ LostTest(u.file) /\ ~u.old.there

\* While the edits are applied: nothing is spoiled yet, and a file that is
\* remembered was written, or is one of the two held from the beginning.
Applying ==
  /\ spoiled = {}
  /\ IF engine = "implementation" THEN IsTaken("html") /\ IsTaken("featureTest")
     ELSE \A u \in undo : tree[u.file].there

EnginesInv ==
  /\ EngineTypes
  /\ editAt # "idle" => report = "none"
  /\ editAt = "rollback" => engine # "source"
  /\ editAt # "idle" /\ engine # "source" => Restorable
  /\ editAt = "apply" /\ engine # "source" => Applying
  /\ Engines!TakenBackLeavesNothing

LEMMA PlansFit ==
  ASSUME EngineTypes, NEW e \in Engines!Engines, NEW steps \in Engines!Plans(e)
  PROVE  steps \in Seq(EditOf(e))
  <1>1. ASSUME NEW S, NEW condition, NEW edit \in S
        PROVE  Engines!Only(condition, edit) \in Seq(S)
    BY DEF Engines!Only
  <1>2. ASSUME NEW S, NEW s \in Seq(S), NEW t \in Seq(S) PROVE s \o t \in Seq(S)
    OBVIOUS
  <1>3. ASSUME NEW f \in Engines!Files, NEW marks \in SUBSET Engines!Marks, e # "implementation"
        PROVE  Engines!Create(f, marks) \in EditOf(e)
    BY <1>3 DEF Engines!Create, EditOf, Edit
  <1>4. ASSUME NEW f \in Engines!Files, NEW marks \in SUBSET Engines!Marks,
               NEW need \in Engines!Marks \cup {"none"}, NEW optional \in BOOLEAN,
               e = "implementation" => f = "html"
        PROVE  Engines!Patch(f, need, marks, optional) \in EditOf(e)
    BY <1>4 DEF Engines!Patch, EditOf, Edit
  <1>5. /\ \A f \in {"html", "server", "data", "api", "feature", "featureTest"} : f \in Engines!Files
        /\ \A mark \in {"feature", "needle", "broken", "route", "contract", "exports"} :
             mark \in Engines!Marks
        /\ \A f \in Engines!Files : tree[f].marks \in SUBSET Engines!Marks
    BY DEF Engines!Files, Engines!Marks, EngineTypes, Contents
  <1>6. CASE e = "source"
    BY <1>1, <1>4, <1>5, <1>6 DEF Engines!Plans, Engines!SourcePlan
  <1>7. CASE e = "evolution"
    BY <1>1, <1>3, <1>5, <1>7 DEF Engines!Plans, Engines!EvolutionPlan
  <1>8. CASE e = "implementation"
    <2>1. Engines!Write("featureTest") \in EditOf(e)
      BY <1>5, <1>8 DEF Engines!Write, EditOf, Edit
    <2>2. Engines!Patch("html", "none", tree["html"].marks \cup {"feature"}, FALSE) \in EditOf(e)
      BY <1>4, <1>5
    <2>3. Engines!ImplementationPlan \in Seq(EditOf(e))
      <3> DEFINE page == Engines!Patch("html", "none", tree["html"].marks \cup {"feature"}, FALSE)
                 test == Engines!Write("featureTest")
      <3>1. page \in EditOf(e) /\ test \in EditOf(e)
        BY <2>1, <2>2
      <3>2. Engines!ImplementationPlan \in {<<page, test>>, <<>>}
        BY DEF Engines!ImplementationPlan
      <3> HIDE DEF page, test
      <3>3. <<page, test>> \in Seq(EditOf(e)) /\ <<>> \in Seq(EditOf(e))
        BY <3>1
      <3>4. QED
        BY <3>2, <3>3, Zenon
    <2>4. QED
      BY <1>8, <2>3 DEF Engines!Plans
  <1>9. CASE e = "integration"
    <2>1. /\ Engines!Create("data", {}) \in EditOf(e) /\ Engines!Create("api", {}) \in EditOf(e)
          /\ Engines!Patch("server", "needle", tree["server"].marks \cup {"route"}, FALSE)
               \in EditOf(e)
      BY <1>3, <1>4, <1>5, <1>9
    <2>2. Engines!IntegrationPlan \in Seq(EditOf(e))
      BY <1>1, <1>2, <2>1 DEF Engines!IntegrationPlan
    <2>3. QED
      BY <1>9, <2>2 DEF Engines!Plans
  <1>10. CASE e = "generation"
    <2>1. /\ Engines!Create("data", {}) \in EditOf(e)
          /\ Engines!Create("api", {"exports"}) \in EditOf(e)
          /\ Engines!Patch("server", "needle",
               (tree["server"].marks \ {"needle"}) \cup {"contract"}, FALSE) \in EditOf(e)
      BY <1>3, <1>4, <1>5, <1>10
    <2>2. Engines!GenerationPlan \in Seq(EditOf(e))
      BY <1>1, <1>2, <2>1 DEF Engines!GenerationPlan
    <2>3. QED
      BY <1>10, <2>2 DEF Engines!Plans
  <1>11. CASE e = "architecture"
    <2>1. /\ Engines!Patch("html", "broken", {"needle"}, TRUE) \in EditOf(e)
          /\ Engines!Patch("server", "broken", {"needle"}, TRUE) \in EditOf(e)
      BY <1>4, <1>5, <1>11
    <2>2. \A c : Engines!ArchitecturePlan(c) \in Seq(EditOf(e))
      BY <1>1, <1>2, <2>1 DEF Engines!ArchitecturePlan
    <2>3. QED
      BY <1>11, <2>2 DEF Engines!Plans
  <1>12. QED
    BY <1>6, <1>7, <1>8, <1>9, <1>10, <1>11 DEF Engines!Engines

LEMMA EngineInitial ==
  ASSUME Engines!Init
  PROVE  EnginesInv
  <1>1. tree \in [Engines!Files -> Contents]
    <2>1. \A marks \in SUBSET Engines!Marks : Engines!File(marks) \in Contents
      BY DEF Engines!File, Contents
    <2>2. Engines!Missing \in Contents
      BY DEF Engines!Missing, Contents
    <2>3. QED
      BY <2>1, <2>2 DEF Engines!Init, Engines!Files, Engines!Marks
  <1>2. QED
    BY <1>1 DEF Engines!Init, EnginesInv, EngineTypes, Engines!TakenBackLeavesNothing

\* A call that ends without having taken everything back
LEMMA EngineReturns ==
  ASSUME EngineTypes, NEW status \in {"NOTHING_TO_DO", "KEPT", "NOT_REPAIRED", "THROWN"},
         Engines!Return(status),
         tree' \in [Engines!Files -> Contents], editBefore' \in [Engines!Files -> Contents],
         engine' \in Engines!Engines \cup {"none"}, spoiled' \in SUBSET Engines!Files
  PROVE  EnginesInv'
  <1>1. editAt' = "idle" /\ report' = status /\ edits' = <<>> /\ undo' = {}
    BY DEF Engines!Return
  <1>2. <<>> \in Seq(EditOf(engine'))
    OBVIOUS
  <1>3. EngineTypes'
    BY <1>1, <1>2 DEF EngineTypes, EditOf
  <1>4. QED
    BY <1>1, <1>3 DEF EnginesInv, Engines!TakenBackLeavesNothing

LEMMA CallKeepsEngines ==
  ASSUME EnginesInv, NEW e \in Engines!Engines, Engines!Call(e)
  PROVE  EnginesInv'
  <1>1. /\ EngineTypes
        /\ engine' = e /\ editBefore' = tree /\ spoiled' = {} /\ tree' = tree
    BY DEF EnginesInv, Engines!Call
  <1>2. PICK steps \in Engines!Plans(e) :
          IF steps = <<>> THEN Engines!Return("NOTHING_TO_DO")
          ELSE /\ editAt' = "apply" /\ edits' = steps /\ undo' = Engines!FirstUndo(e)
               /\ report' = "none"
    BY DEF Engines!Call
  <1>3. CASE steps = <<>>
    <2>1. /\ tree' \in [Engines!Files -> Contents] /\ editBefore' \in [Engines!Files -> Contents]
          /\ engine' \in Engines!Engines \cup {"none"} /\ spoiled' \in SUBSET Engines!Files
      BY <1>1 DEF EngineTypes
    <2>2. QED
      BY <1>1, <1>2, <1>3, <2>1, EngineReturns
  <1>4. CASE steps # <<>>
    <2>1. steps \in Seq(EditOf(e))
      BY <1>1, PlansFit
    <2>2. /\ editAt' = "apply" /\ edits' = steps /\ undo' = Engines!FirstUndo(e)
          /\ report' = "none"
      BY <1>2, <1>4
    <2>3. /\ "html" \in Engines!Files /\ "featureTest" \in Engines!Files
          /\ tree["html"] \in Contents /\ Engines!Missing \in Contents /\ ~Engines!Missing.there
      BY <1>1 DEF EngineTypes, Engines!Files, Engines!Missing, Contents
    <2> DEFINE page == [file |-> "html", old |-> tree["html"]]
               test == [file |-> "featureTest", old |-> Engines!Missing]
    <2>4. /\ page \in [file : Engines!Files, old : Contents] /\ page.file = "html"
          /\ page.old = tree["html"]
          /\ test \in [file : Engines!Files, old : Contents] /\ test.file = "featureTest"
          /\ ~test.old.there
      BY <2>3
    <2>5. undo' = IF e = "implementation" THEN {page, test} ELSE {}
      BY <2>2 DEF Engines!FirstUndo
    <2> HIDE DEF page, test
    <2>6. EngineTypes'
      BY <1>1, <1>4, <2>1, <2>2, <2>4, <2>5 DEF EngineTypes
    <2>7. Restorable'
      BY <1>1, <2>4, <2>5 DEF Restorable, LostTest
    <2>8. Applying'
      BY <1>1, <2>4, <2>5 DEF Applying, IsTaken
    <2>9. QED
      BY <2>2, <2>6, <2>7, <2>8 DEF EnginesInv, Engines!TakenBackLeavesNothing
  <1>5. QED
    BY <1>3, <1>4

\* What is remembered for an edit that is neither skipped nor refused, with the
\* file written or spoiled
LEMMA RememberedKeeps ==
  ASSUME EnginesInv, editAt = "apply", NEW edit \in EditOf(engine),
         ~Engines!Skipped(edit), engine # "source",
         NEW written \in BOOLEAN, undo' = Engines!Remembered(edit, written),
         \E content \in Contents :
           \/ tree' = [tree EXCEPT ![edit.file] = content] /\ (written \/ edit.file \in spoiled')
           \/ ~written /\ tree' = tree,
         engine' = engine, editBefore' = editBefore, spoiled \subseteq spoiled'
  PROVE  /\ undo' \in SUBSET [file : Engines!Files, old : Contents]
         /\ Restorable'
         /\ undo \subseteq undo'
         /\ \A u \in undo' : u \in undo \/ u.file = edit.file
  <1> DEFINE f == edit.file
  <1>1. /\ EngineTypes /\ Restorable /\ Applying
        /\ f \in Engines!Files /\ edit \in Edit
    BY DEF EnginesInv, EditOf, Edit
  <1>2. \A g \in Engines!Files \ {f} : tree'[g] = tree[g]
    BY <1>1 DEF EngineTypes
  <1>3. Engines!Taken = {u.file : u \in undo} /\ (f \in Engines!Taken <=> IsTaken(f))
    BY DEF Engines!Taken, IsTaken
  <1>4. CASE engine = "implementation"
    <2>1. undo' = undo /\ IsTaken(f)
      <3>1. undo' = undo
        BY <1>4 DEF Engines!Remembered
      <3>2. f \in {"html", "featureTest"} /\ IsTaken("html") /\ IsTaken("featureTest")
        BY <1>1, <1>4 DEF EditOf, Applying
      <3>3. QED
        BY <3>1, <3>2
    <2>2. QED
      BY <1>1, <1>2, <2>1 DEF EngineTypes, Restorable, IsTaken, LostTest
  <1>5. CASE engine # "implementation"
    <2>1. edit.op \in {"create", "patch"}
      BY <1>5 DEF EditOf
    <2> DEFINE mine == Engines!Undone(f)
    <2>2. /\ mine \in [file : Engines!Files, old : Contents]
          /\ mine.file = f /\ mine.old = tree[f]
      BY <1>1 DEF Engines!Undone, EngineTypes
    <2> HIDE DEF mine
    <2>3. ~IsTaken(f) => tree[f] = editBefore[f]
      BY <1>1, <1>5 DEF Restorable, Applying, LostTest
    <2>4. edit.op = "create" => ~IsTaken(f)
      BY <1>1, <1>5 DEF Engines!Skipped, Engines!There, Applying, IsTaken
    <2>5. \/ undo' = undo /\ (IsTaken(f) \/ (~written /\ edit.op = "create"))
          \/ undo' = undo \cup {mine} /\ ~IsTaken(f)
      <3>1. CASE edit.op = "patch"
        BY <1>3, <1>5, <3>1 DEF Engines!Remembered, mine
      <3>2. CASE edit.op = "create"
        BY <1>5, <2>4, <3>2 DEF Engines!Remembered, mine
      <3>3. QED
        BY <2>1, <3>1, <3>2
    <2>6. CASE undo' = undo \cup {mine} /\ ~IsTaken(f)
      <3>1. \A g \in Engines!Files : IsTaken(g)' <=> IsTaken(g) \/ g = f
        BY <2>2, <2>6 DEF IsTaken
      <3>2. QED
        BY <1>1, <1>2, <2>2, <2>3, <2>6, <3>1 DEF EngineTypes, Restorable, LostTest
    <2>7. CASE undo' = undo /\ (IsTaken(f) \/ (~written /\ edit.op = "create"))
      <3>1. \A g \in Engines!Files : IsTaken(g)' <=> IsTaken(g)
        BY <2>7 DEF IsTaken
      <3>2. IsTaken(f) \/ f \in spoiled' \/ tree' = tree
        BY <2>7
      <3>3. QED
        BY <1>1, <1>2, <2>7, <3>1, <3>2 DEF EngineTypes, Restorable, LostTest
    <2>8. QED
      BY <2>5, <2>6, <2>7
  <1>6. QED
    BY <1>4, <1>5

\* After an edit: the next one, the tests, or the catch clause
LEMMA NextEditKeeps ==
  ASSUME EnginesInv, editAt = "apply", NEW taken, Engines!NextEdit(taken),
         tree' \in [Engines!Files -> Contents],
         engine' = engine, editBefore' = editBefore, spoiled' = spoiled,
         taken \in SUBSET [file : Engines!Files, old : Contents],
         engine # "source" => Restorable' /\ Applying'
  PROVE  EnginesInv'
  <1>1. EngineTypes /\ report = "none"
    BY DEF EnginesInv
  <1>2. /\ undo' = taken /\ report' = report /\ edits' = Tail(edits)
        /\ IF edits' = <<>> THEN editAt' \in {"rollback", "test"} ELSE editAt' = editAt
        /\ editAt' = "rollback" => engine = "architecture"
    BY DEF Engines!NextEdit
  <1>3. edits' \in Seq(EditOf(engine))
    <2> DEFINE S == EditOf(engine)
    <2>1. edits \in Seq(S) /\ edits # <<>>
      BY <1>1 DEF EngineTypes
    <2> HIDE DEF S
    <2>2. Tail(edits) \in Seq(S)
      BY <2>1
    <2>3. QED
      BY <1>2, <2>2 DEF S
  <1>4. EngineTypes'
    BY <1>1, <1>2, <1>3 DEF EngineTypes, EditOf
  <1>5. QED
    BY <1>1, <1>2, <1>4 DEF EnginesInv, Engines!TakenBackLeavesNothing

LEMMA GiveUpKeeps ==
  ASSUME EnginesInv, editAt = "apply", NEW taken, Engines!GiveUp(taken),
         tree' \in [Engines!Files -> Contents], spoiled' \in SUBSET Engines!Files,
         engine' = engine, editBefore' = editBefore,
         engine # "source" =>
           /\ taken \in SUBSET [file : Engines!Files, old : Contents]
           /\ undo' = taken => Restorable'
  PROVE  EnginesInv'
  <1>1. EngineTypes /\ report = "none"
    BY DEF EnginesInv
  <1>2. CASE engine = "source"
    BY <1>1, <1>2, EngineReturns DEF Engines!GiveUp, EngineTypes
  <1>3. CASE engine # "source"
    <2>1. /\ editAt' = "rollback" /\ edits' = <<>> /\ undo' = taken /\ report' = report
      BY <1>3 DEF Engines!GiveUp
    <2>2. EngineTypes'
      BY <1>1, <1>3, <2>1 DEF EngineTypes, EditOf
    <2>3. QED
      BY <1>1, <1>3, <2>1, <2>2 DEF EnginesInv, Engines!TakenBackLeavesNothing
  <1>4. QED
    BY <1>2, <1>3

LEMMA ApplyKeeps ==
  ASSUME EnginesInv, Engines!Apply \/ Engines!ApplyFails
  PROVE  EnginesInv'
  <1>1. /\ EngineTypes /\ editAt = "apply" /\ (engine # "source" => Restorable /\ Applying)
        /\ engine' = engine /\ editBefore' = editBefore
    BY DEF EnginesInv, Engines!Apply, Engines!ApplyFails
  <1> DEFINE edit == Head(edits)
             KeptPaths == [file : Engines!Files, old : Contents]
  <1>2. edit \in EditOf(engine)
    <2> DEFINE S == EditOf(engine)
    <2>1. edits \in Seq(S) /\ edits # <<>>
      BY <1>1 DEF EngineTypes
    <2> HIDE DEF S
    <2>2. Head(edits) \in S
      BY <2>1
    <2>3. QED
      BY <2>2 DEF S
  <1>3. /\ edit.file \in Engines!Files /\ edit.marks \in SUBSET Engines!Marks
        /\ tree \in [Engines!Files -> Contents] /\ undo \in SUBSET KeptPaths
    BY <1>1, <1>2 DEF EditOf, Edit, EngineTypes
  <1>4. /\ Engines!File(edit.marks) \in Contents /\ Engines!File(edit.marks).there
        /\ Engines!Torn \in Contents
    BY <1>3 DEF Engines!File, Engines!Torn, Contents
  <1> HIDE DEF edit
  <1>5. CASE Engines!Apply
    <2>1. /\ spoiled' = spoiled
          /\ IF Engines!Skipped(edit) THEN Engines!NextEdit(undo) /\ tree' = tree
             ELSE IF Engines!Refused(edit) THEN Engines!GiveUp(undo) /\ tree' = tree
             ELSE /\ tree' = [tree EXCEPT ![edit.file] = Engines!File(edit.marks)]
                  /\ Engines!NextEdit(Engines!Remembered(edit, TRUE))
      BY <1>5 DEF Engines!Apply, edit
    <2>2. ASSUME undo' = undo, tree' = tree
          PROVE  engine # "source" => Restorable' /\ Applying'
      BY <1>1, <2>1, <2>2 DEF Restorable, Applying, IsTaken, LostTest
    <2>3. CASE Engines!Skipped(edit)
      <3>1. undo' = undo /\ Engines!NextEdit(undo)
        BY <2>1, <2>3 DEF Engines!NextEdit
      <3>2. QED
        BY <1>1, <1>3, <2>1, <2>2, <2>3, <3>1, NextEditKeeps
    <2>4. CASE ~Engines!Skipped(edit) /\ Engines!Refused(edit)
      <3>1. spoiled' \in SUBSET Engines!Files
        BY <1>1, <2>1 DEF EngineTypes
      <3>2. QED
        BY <1>1, <1>3, <2>1, <2>2, <2>4, <3>1, GiveUpKeeps
    <2>5. CASE ~Engines!Skipped(edit) /\ ~Engines!Refused(edit)
      <3> DEFINE taken == Engines!Remembered(edit, TRUE)
      <3>1. /\ tree' = [tree EXCEPT ![edit.file] = Engines!File(edit.marks)]
            /\ Engines!NextEdit(taken) /\ undo' = taken
        BY <2>1, <2>5 DEF Engines!NextEdit
      <3>2. tree' \in [Engines!Files -> Contents]
        BY <1>3, <1>4, <3>1
      <3>3. CASE engine = "source"
        <4>1. taken = undo
          BY <3>3 DEF Engines!Remembered
        <4>2. QED
          BY <1>1, <1>3, <2>1, <3>1, <3>2, <3>3, <4>1, NextEditKeeps
      <3>4. CASE engine # "source"
        <4>1. /\ taken \in SUBSET KeptPaths /\ Restorable' /\ undo \subseteq undo'
              /\ \A u \in undo' : u \in undo \/ u.file = edit.file
          BY <1>1, <1>2, <1>4, <2>1, <2>5, <3>1, <3>4, RememberedKeeps
        <4>2. \A g \in Engines!Files : tree[g].there => tree'[g].there
          BY <1>3, <1>4, <3>1
        <4>3. tree'[edit.file].there
          BY <1>3, <1>4, <3>1
        <4>4. \A u \in undo' : u.file \in Engines!Files
          BY <3>1, <4>1
        <4>5. Applying'
          BY <1>1, <2>1, <3>4, <4>1, <4>2, <4>3, <4>4 DEF Applying, IsTaken
        <4>6. QED
          BY <1>1, <2>1, <3>1, <3>2, <4>1, <4>5, NextEditKeeps
      <3>5. QED
        BY <3>3, <3>4
    <2>6. QED
      BY <2>3, <2>4, <2>5
  <1>6. CASE Engines!ApplyFails
    <2> DEFINE taken == Engines!Remembered(edit, FALSE)
    <2>1. /\ ~Engines!Skipped(edit)
          /\ \/ /\ tree' = [tree EXCEPT ![edit.file] = Engines!Torn]
                /\ spoiled' = spoiled \cup {edit.file}
             \/ tree' = tree /\ spoiled' = spoiled
          /\ Engines!GiveUp(taken)
      BY <1>6 DEF Engines!ApplyFails, edit
    <2>2. tree' \in [Engines!Files -> Contents] /\ spoiled' \in SUBSET Engines!Files
      BY <1>1, <1>3, <1>4, <2>1 DEF EngineTypes
    <2>3. CASE engine = "source"
      BY <1>1, <2>1, <2>2, <2>3, GiveUpKeeps
    <2>4. CASE engine # "source"
      <3>1. undo' = taken
        BY <2>1, <2>4 DEF Engines!GiveUp
      <3>2. spoiled \subseteq spoiled' /\ FALSE \in BOOLEAN
        BY <2>1
      <3>3. \E content \in Contents :
              \/ tree' = [tree EXCEPT ![edit.file] = content] /\ (FALSE \/ edit.file \in spoiled')
              \/ ~FALSE /\ tree' = tree
        BY <1>4, <2>1
      <3>4. taken \in SUBSET KeptPaths /\ Restorable'
        BY <1>1, <1>2, <2>1, <2>4, <3>1, <3>2, <3>3, RememberedKeeps
      <3>5. QED
        BY <1>1, <2>1, <2>2, <2>4, <3>4, GiveUpKeeps
    <2>5. QED
      BY <2>3, <2>4
  <1>7. QED
    BY <1>5, <1>6

\* The tests, and the way back
LEMMA RollbackKeeps ==
  ASSUME EnginesInv,
         \/ Engines!Test \/ Engines!Restore \/ Engines!RestoreFails \/ Engines!RolledBack
  PROVE  EnginesInv'
  <1>1. /\ EngineTypes /\ engine' = engine /\ editBefore' = editBefore
        /\ tree \in [Engines!Files -> Contents] /\ editBefore \in [Engines!Files -> Contents]
        /\ spoiled \in SUBSET Engines!Files /\ engine \in Engines!Engines \cup {"none"}
    BY DEF EnginesInv, EngineTypes, Engines!Test, Engines!Restore, Engines!RestoreFails,
       Engines!RolledBack
  <1>2. CASE Engines!Test
    <2>1. /\ tree' = tree /\ spoiled' = spoiled /\ editAt = "test"
          /\ \/ Engines!Return("KEPT")
             \/ engine = "source" /\ Engines!Return("NOT_REPAIRED")
             \/ /\ engine # "source" /\ editAt' = "rollback" /\ edits' = <<>>
                /\ undo' = undo /\ report' = report
      BY <1>2 DEF Engines!Test
    <2>2. CASE Engines!Return("KEPT") \/ Engines!Return("NOT_REPAIRED")
      BY <1>1, <2>1, <2>2, EngineReturns
    <2>3. CASE /\ engine # "source" /\ editAt' = "rollback" /\ edits' = <<>>
               /\ undo' = undo /\ report' = report
      <3>1. EngineTypes'
        BY <1>1, <2>1, <2>3 DEF EngineTypes, EditOf
      <3>2. Restorable'
        BY <1>1, <2>1, <2>3 DEF EnginesInv, Restorable, IsTaken, LostTest
      <3>3. QED
        BY <1>1, <2>1, <2>3, <3>1, <3>2 DEF EnginesInv, Engines!TakenBackLeavesNothing
    <2>4. QED
      BY <2>1, <2>2, <2>3
  \* on the way back: a file less to take back
  <1>3. ASSUME editAt = "rollback", NEW u \in undo, undo' = undo \ {u},
               editAt' = editAt, report' = report, edits' = edits,
               tree' \in [Engines!Files -> Contents], spoiled' \in SUBSET Engines!Files,
               \A g \in Engines!Files \ {u.file} : tree'[g] = tree[g],
               spoiled \subseteq spoiled', tree'[u.file] = u.old \/ u.file \in spoiled'
        PROVE  EnginesInv'
    <2>1. EngineTypes'
      BY <1>1, <1>3 DEF EngineTypes, EditOf
    <2>2. Restorable /\ engine # "source" /\ report = "none"
      BY <1>3 DEF EnginesInv
    <2>3. \A g \in Engines!Files : IsTaken(g) => IsTaken(g)' \/ g = u.file
      BY <1>3 DEF IsTaken
    <2>4. Restorable'
      BY <1>1, <1>3, <2>2, <2>3 DEF Restorable, LostTest
    <2>5. QED
      BY <1>1, <1>3, <2>1, <2>2, <2>4 DEF EnginesInv, Engines!TakenBackLeavesNothing
  <1>4. \A u \in undo : u.file \in Engines!Files /\ u.old \in Contents
    BY <1>1 DEF EngineTypes
  <1>5. CASE Engines!Restore
    <2>1. PICK u \in undo : tree' = [tree EXCEPT ![u.file] = u.old] /\ undo' = undo \ {u}
      BY <1>5 DEF Engines!Restore
    <2>2. /\ editAt = "rollback" /\ editAt' = editAt /\ report' = report /\ edits' = edits
          /\ spoiled' = spoiled
      BY <1>5 DEF Engines!Restore
    <2>3. /\ tree' \in [Engines!Files -> Contents] /\ tree'[u.file] = u.old
          /\ \A g \in Engines!Files \ {u.file} : tree'[g] = tree[g]
      BY <1>1, <1>4, <2>1
    <2>4. QED
      BY <1>1, <1>3, <2>1, <2>2, <2>3
  <1>6. CASE Engines!RestoreFails
    <2>1. Engines!Torn \in Contents
      BY DEF Engines!Torn, Contents
    <2>2. PICK u \in undo :
            /\ \/ tree' = [tree EXCEPT ![u.file] = Engines!Torn] \/ tree' = tree
            /\ spoiled' = spoiled \cup {u.file}
            /\ \/ Engines!Return("THROWN")
               \/ undo' = undo \ {u} /\ editAt' = editAt /\ edits' = edits /\ report' = report
      BY <1>6 DEF Engines!RestoreFails
    <2>3. /\ tree' \in [Engines!Files -> Contents] /\ spoiled' \in SUBSET Engines!Files
          /\ \A g \in Engines!Files \ {u.file} : tree'[g] = tree[g]
          /\ editAt = "rollback"
      BY <1>1, <1>4, <1>6, <2>1, <2>2 DEF Engines!RestoreFails
    <2>4. CASE Engines!Return("THROWN")
      BY <1>1, <2>3, <2>4, EngineReturns
    <2>5. CASE undo' = undo \ {u} /\ editAt' = editAt /\ edits' = edits /\ report' = report
      BY <1>3, <2>2, <2>3, <2>5
    <2>6. QED
      BY <2>2, <2>4, <2>5
  <1>7. CASE Engines!RolledBack
    <2>1. /\ editAt = "rollback" /\ undo = {} /\ tree' = tree /\ spoiled' = spoiled
          /\ editAt' = "idle" /\ report' = "ROLLED_BACK" /\ edits' = <<>> /\ undo' = {}
      BY <1>7 DEF Engines!RolledBack, Engines!Return
    <2>2. EngineTypes'
      BY <1>1, <2>1 DEF EngineTypes, EditOf
    <2>3. Restorable
      BY <2>1 DEF EnginesInv
    <2>4. Engines!TakenBackLeavesNothing'
      BY <1>1, <2>1, <2>3 DEF Restorable, IsTaken, LostTest, Engines!TakenBackLeavesNothing,
         Engines!There
    <2>5. QED
      BY <2>1, <2>2, <2>4 DEF EnginesInv
  <1>8. QED
    BY <1>2, <1>5, <1>6, <1>7

LEMMA EngineSteps ==
  EnginesInv /\ [Engines!Next]_(Engines!vars) => EnginesInv'
  <1> SUFFICES ASSUME EnginesInv, [Engines!Next]_(Engines!vars)
               PROVE  EnginesInv'
    OBVIOUS
  <1>1. CASE UNCHANGED Engines!vars
    <2>1. UNCHANGED <<tree, editAt, engine, edits, undo, report, editBefore, spoiled>>
      BY <1>1 DEF Engines!vars
    <2>2. QED
      BY <2>1 DEF EnginesInv, EngineTypes, EditOf, Restorable, Applying, IsTaken, LostTest,
         Engines!TakenBackLeavesNothing, Engines!There
  <1>2. QED
    BY <1>1, CallKeepsEngines, ApplyKeeps, RollbackKeeps DEF Engines!Next

\* What an engine reports as rolled back it has taken back: every file is what it
\* was when the engine was called, but for files that a failed write left torn
\* and the feature test that implementation removes, for any number of calls and
\* failures (src/core/, the rollback of the five engines that plan edits).
THEOREM TakenBack == Engines!Spec => []TakenBackLeavesNothing
  <1>1. EnginesInv => TakenBackLeavesNothing
    BY DEF TakenBackLeavesNothing, EnginesInv
  <1>2. QED
    BY <1>1, EngineInitial, EngineSteps, PTL DEF Engines!Spec

-----------------------------------------------------------------------------
(* The build of the project                                                *)

\* Stages between the initialization of the missions and the end of the build
Building == Stages \ {"idle", "materialize", "missions", "failing", "over"}

\* Missions 1 .. m are completed, the next one is at most begun
Prefix(status, m) ==
  /\ status \in [Ids -> MissionStatuses]
  /\ \A i \in Ids :
       /\ i <= m => status[i] = "completed"
       /\ i = m + 1 => status[i] \in {"planned", "ready", "running"}
       /\ i > m + 1 => status[i] = "planned"

\* and the current mission is the next one
Upto(m) == Prefix(plan.status, m) /\ plan.current = IF m < Last THEN m + 1 ELSE Last

Completes(k, i) == todo[k].op = "complete" /\ todo[k].id = i

\* The calls to come complete missions from m + 1 on, one by one
Lined(m) ==
  \A l \in DOMAIN todo :
    /\ todo[l].op = "complete" => todo[l].id # 0
    /\ todo[l].id # 0 =>
         /\ todo[l].id > m
         /\ \A i \in m + 1 .. todo[l].id - 1 : \E k \in 1 .. l - 1 : Completes(k, i)
         /\ \A k \in 1 .. l - 1 : todo[k].op = "complete" => todo[k].id < todo[l].id

\* How many missions the stage has behind it, or has in the calls to come
CoreKept == {"choose", "restructuring", "retest", "browserRepair", "failed", "features"}
Reach ==
  IF at = "tests" THEN 0
  ELSE IF at \in CoreKept \/ (at \in {"preview", "browser", "interactions"} /\ place = "restructured")
  THEN Core
  ELSE IF at = "verification" THEN Core + Features
  ELSE IF at = "promotion" \/ (at = "delivery" /\ outcome # "PROMOTED") THEN Verification
  ELSE IF at = "delivery" THEN Delivery ELSE 2
Behind(m) == \A i \in 1 .. Reach : i <= m \/ \E k \in DOMAIN todo : Completes(k, i)

\* The stages at which a preview runs, and those at which the tests passed on
\* the files, but for what a repair left
Shown == {"browser", "interactions", "intelligence", "evolution", "integration", "architecture",
          "choose", "retest", "browserRepair", "failed", "features", "verification", "promotion"}
Judged == {"preview", "browser", "interactions", "intelligence", "evolution", "implementation",
           "integration", "architecture", "choose", "restructuring", "retest", "features",
           "verification", "promotion", "delivery"}

BuildTypes ==
  /\ at \in Stages /\ place \in Places /\ todo \in Seq(Calls) /\ attempt \in 0 .. MaxAttempts
  /\ tested \in BOOLEAN /\ workspaceTests \in BOOLEAN /\ verified \in BOOLEAN
  /\ targeted \in BOOLEAN /\ leftover \in BOOLEAN
  /\ browser \in Answers /\ interactions \in Answers /\ previews \in 0 .. 1
  /\ outcome \in {"none", "PROMOTED", "NOT_PROMOTED", "FAILED", "died"}

StageInv ==
  /\ BuildTypes
  /\ at \notin Building => todo = <<>>
  /\ at \in Shown => previews = 1
  /\ at \notin Shown \cup {"failing", "over"} => previews = 0
  /\ at \in Judged => tested \/ leftover
  /\ at \notin {"delivery", "failing", "over"} => outcome = "none"

InLine ==
  /\ at \in {"idle", "materialize", "missions"} => plan = NoPlan
  /\ at = "tests" => todo = <<>> /\ Upto(0)
  /\ at \in Building => \E m \in 0 .. Last : Upto(m) /\ Lined(m) /\ Behind(m)
  /\ at = "failing" => plan = NoPlan \/ \E m \in 0 .. Last : Upto(m)

\* Until the features are completed together, none of them is
Early == Building \ {"verification", "promotion", "delivery"}
FeaturesOpen ==
  /\ \A i \in FeatureMissions : plan.status[i] # "completed"
  /\ \A k \in DOMAIN todo : todo[k].op = "complete" => todo[k].id \in 1 .. Core

Typed(p) == p.status \in [Ids -> MissionStatuses] /\ p.current \in 0 .. Last

\* What holds of the missions also when the build could not read them
PlanInv ==
  /\ misread \in BOOLEAN
  /\ at # "over" => plan = NoPlan \/ Typed(plan)
  /\ at \in Building => plan # NoPlan
  /\ at \in Early => FeaturesOpen

BuildInv == StageInv /\ PlanInv /\ (misread \/ InLine)

LEMMA MinIs ==
  ASSUME NEW S \in SUBSET Nat, NEW x \in S, \A y \in S : x <= y
  PROVE  Min(S) = x
<1> DEFINE IsMin(z) == z \in S /\ \A y \in S : z <= y
<1>1. Min(S) = CHOOSE z \in S : \A y \in S : z <= y
  BY DEF Min
<1>2. IsMin(x)
  OBVIOUS
<1>3. IsMin(Min(S))
  BY <1>1, <1>2
<1>4. Min(S) \in Nat /\ x \in Nat /\ Min(S) <= x /\ x <= Min(S)
  BY <1>3
<1> QED  BY <1>4

LEMMA IdsFacts == /\ Last \in Nat /\ Last = Features + 5 /\ Ids = 1 .. Last /\ Core = 3
                  /\ Verification = Features + 4 /\ Delivery = Last /\ Features \in Nat
                  /\ FeatureMissions = 4 .. 3 + Features
BY FeaturesAssumption DEF Last, Ids, Core, Verification, Delivery, FeatureMissions

\* The mission selected is the one after the completed ones, if it has not begun.
LEMMA SelectNextIs ==
  ASSUME NEW m \in 0 .. Last, NEW status, Prefix(status, m)
  PROVE  SelectNext(status) = IF m < Last /\ status[m + 1] # "running" THEN m + 1 ELSE 0
<1>1. DOMAIN status = 1 .. Last /\ Last \in Nat /\ Last > 0
  BY IdsFacts DEF Prefix
<1>2. \A i \in DOMAIN status : i \in ReadyMissions(status) <=> i = m + 1 /\ status[i] # "running"
  BY <1>1, IdsFacts DEF ReadyMissions, Prefix
<1>3. ReadyMissions(status) \subseteq DOMAIN status
  BY DEF ReadyMissions
<1>4. CASE m < Last /\ status[m + 1] # "running"
  <2>1. ReadyMissions(status) = {m + 1}
    BY <1>1, <1>2, <1>3, <1>4
  <2>2. Min({m + 1}) = m + 1
    BY MinIs, <1>1
  <2> QED  BY <2>1, <2>2, <1>4 DEF SelectNext, First
<1>5. CASE ~(m < Last /\ status[m + 1] # "running")
  <2>1. ReadyMissions(status) = {}
    BY <1>1, <1>2, <1>3, <1>5
  <2> QED  BY <2>1, <1>5 DEF SelectNext, First
<1> QED  BY <1>4, <1>5

\* The current mission is the one a call names, or else the one before.
LEMMA CurrentNamed ==
  ASSUME NEW change, change.current \in Nat, NEW previous \in Nat
  PROVE  /\ change.current # 0 => CurrentOf(change, previous) = change.current
         /\ change.current = 0 /\ previous # 0 => CurrentOf(change, previous) = previous
<1> DEFINE candidates == <<change.current, previous, In(change.status, {"running"}),
                           In(change.status, {"ready"})>>
           named == {k \in 1 .. 4 : candidates[k] # 0}
<1>1. candidates[1] = change.current /\ candidates[2] = previous
  OBVIOUS
<1>2. CurrentOf(change, previous) = IF named = {} THEN 0 ELSE candidates[Min(named)]
  BY DEF CurrentOf
<1>3. change.current # 0 => 1 \in named /\ \A y \in named : 1 <= y
  BY <1>1
<1>4. change.current = 0 /\ previous # 0 => 2 \in named /\ \A y \in named : 2 <= y
  BY <1>1
<1>5. named \in SUBSET Nat
  OBVIOUS
<1> HIDE DEF candidates, named
<1>6. change.current # 0 => Min(named) = 1
  BY <1>3, <1>5, MinIs
<1>7. change.current = 0 /\ previous # 0 => Min(named) = 2
  BY <1>4, <1>5, MinIs
<1> QED  BY <1>1, <1>2, <1>3, <1>4, <1>6, <1>7

\* A file that could be read keeps its current mission if the call names none.
LEMMA RewritesIs ==
  ASSUME NEW change, Rewrites(change), ~misread'
  PROVE  plan' = [status |-> change.status, current |-> CurrentOf(change, plan.current)]
BY DEF Rewrites, Reads, Record, Loads

LEMMA StartInLine ==
  ASSUME NEW m \in 0 .. Last, m < Last, Upto(m), Rewrites(Starting(plan.status, m + 1)), ~misread'
  PROVE  Upto(m)'
<1> DEFINE new == [plan.status EXCEPT ![m + 1] = "running"]
<1>1. Starting(plan.status, m + 1).current = m + 1 /\ Starting(plan.status, m + 1).status = new
  BY DEF Starting
<1>2. Prefix(new, m)
  BY IdsFacts DEF Upto, Prefix, MissionStatuses
<1>3. plan.current \in Nat /\ m + 1 \in Nat /\ m + 1 # 0
  BY IdsFacts DEF Upto
<1>4. CurrentOf(Starting(plan.status, m + 1), plan.current) = m + 1
  BY <1>1, <1>3, CurrentNamed
<1>5. plan'.status = new /\ plan'.current = m + 1
  BY <1>1, <1>4, RewritesIs
<1> QED  BY <1>2, <1>5 DEF Upto

LEMMA CompleteKeeps ==
  ASSUME NEW m \in 0 .. Last, m < Last, Upto(m), Rewrites(Completing(plan.status, m + 1)), ~misread'
  PROVE  Upto(m + 1)'
<1> DEFINE new == [plan.status EXCEPT ![m + 1] = "completed"]
<1>1. Completing(plan.status, m + 1).current = SelectNext(new) /\ Completing(plan.status, m + 1).status = new
  BY DEF Completing
<1>2. Prefix(new, m + 1)
  BY IdsFacts DEF Upto, Prefix, MissionStatuses
<1>3. plan.current = m + 1 /\ m + 1 \in 0 .. Last /\ m + 1 # 0
  BY IdsFacts DEF Upto
<1>4. m + 1 < Last => new[m + 2] # "running"
  BY <1>3, IdsFacts DEF Upto, Prefix
<1>5. SelectNext(new) = IF m + 1 < Last THEN m + 2 ELSE 0
  <2> HIDE DEF new
  <2>1. SelectNext(new) = IF m + 1 < Last /\ new[m + 1 + 1] # "running" THEN m + 1 + 1 ELSE 0
    BY <1>2, <1>3, SelectNextIs
  <2>2. m + 1 + 1 = m + 2
    BY <1>3
  <2> QED  BY <1>4, <2>1, <2>2
<1>6. CurrentOf(Completing(plan.status, m + 1), plan.current) = IF m + 1 < Last THEN m + 2 ELSE m + 1
  BY <1>1, <1>3, <1>5, CurrentNamed, IdsFacts
<1>7. plan'.status = new /\ plan'.current = IF m + 1 < Last THEN m + 2 ELSE m + 1
  BY <1>1, <1>6, RewritesIs
<1> QED  BY <1>2, <1>3, <1>7, IdsFacts DEF Upto

\* What is left of the calls after the first, once it has done its work.
LEMMA LinedOn ==
  ASSUME NEW m \in 0 .. Last, todo \in Seq(Calls), todo # <<>>, todo' = Tail(todo),
         Lined(m), Behind(m), UNCHANGED <<at, place, outcome>>, NEW n,
         IF todo[1].op = "complete" THEN todo[1].id = m + 1 /\ n = m + 1 ELSE n = m
  PROVE  Lined(n)' /\ Behind(n)'
<1>1. /\ DOMAIN todo = 1 .. Len(todo) /\ Len(todo) \in Nat
      /\ DOMAIN todo' = 1 .. Len(todo) - 1
      /\ \A l \in 1 .. Len(todo) - 1 : todo'[l] = todo[l + 1]
      /\ \A l \in DOMAIN todo : todo[l].id \in Nat
  <2>1. \A l \in 1 .. Len(todo) : todo[l] \in Calls
    OBVIOUS
  <2>2. \A l \in 1 .. Len(todo) : todo[l].id \in Nat
    BY <2>1, IdsFacts DEF Calls
  <2>3. Len(todo) \in Nat /\ Len(todo) # 0 /\ DOMAIN todo = 1 .. Len(todo)
    OBVIOUS
  <2>4. /\ DOMAIN Tail(todo) = 1 .. Len(todo) - 1
        /\ \A l \in 1 .. Len(todo) - 1 : Tail(todo)[l] = todo[l + 1]
    BY <2>3
  <2> QED  BY <2>2, <2>3, <2>4
<1>2. \A k \in DOMAIN todo, i \in Nat : Completes(k, i) /\ i # m + 1 => k # 1
  BY DEF Completes
<1>3. m \in Nat /\ n \in Nat /\ m <= n /\ (n = m \/ n = m + 1)
  BY IdsFacts
<1>4. \A k \in DOMAIN todo : \A i : k # 1 /\ Completes(k, i) => k - 1 \in DOMAIN todo' /\ Completes(k - 1, i)'
  BY <1>1 DEF Completes
<1>5. ASSUME NEW l \in DOMAIN todo'
      PROVE  /\ todo'[l].op = "complete" => todo'[l].id # 0
             /\ todo'[l].id # 0 =>
                  /\ todo'[l].id > n
                  /\ \A i \in n + 1 .. todo'[l].id - 1 : \E k \in 1 .. l - 1 : Completes(k, i)'
                  /\ \A k \in 1 .. l - 1 : todo'[k].op = "complete" => todo'[k].id < todo'[l].id
  <2>1. l + 1 \in DOMAIN todo /\ todo'[l] = todo[l + 1] /\ l \in Nat /\ l >= 1 /\ todo[l + 1].id \in Nat
    BY <1>1
  <2>2. todo'[l].op = "complete" => todo'[l].id # 0
    BY <2>1 DEF Lined
  <2>3. todo'[l].id # 0 => todo'[l].id > n
    <3>1. todo[l + 1].id # 0 => todo[l + 1].id > m
      BY <2>1 DEF Lined
    <3>2. todo[l + 1].id # 0 /\ todo[1].op = "complete" => todo[1].id < todo[l + 1].id
      <4>1. 1 \in 1 .. (l + 1) - 1
        BY <2>1
      <4> QED  BY <2>1, <4>1 DEF Lined
    <3> QED  BY <2>1, <3>1, <3>2, <1>3
  <2>4. ASSUME todo'[l].id # 0, NEW i \in n + 1 .. todo'[l].id - 1
        PROVE  \E k \in 1 .. l - 1 : Completes(k, i)'
    <3>1. i \in Nat /\ i \in m + 1 .. todo[l + 1].id - 1
      BY <1>3, <2>1
    <3>2. PICK k \in 1 .. (l + 1) - 1 : Completes(k, i)
      BY <2>1, <2>4, <3>1 DEF Lined
    <3>3. k \in DOMAIN todo /\ k # 1
      <4>1. k \in DOMAIN todo
        BY <1>1, <2>1, <3>2
      <4>2. CASE n = m + 1
        BY <1>2, <1>3, <3>1, <3>2, <4>1, <4>2
      <4>3. CASE n = m
        <5>1. todo[1].op # "complete"
          BY <4>3, <1>3
        <5> QED  BY <5>1, <3>2 DEF Completes
      <4> QED  BY <4>2, <4>3, <1>3
    <3>4. k - 1 \in 1 .. l - 1 /\ Completes(k - 1, i)'
      BY <1>4, <2>1, <3>2, <3>3
    <3> QED  BY <3>4
  <2>5. ASSUME todo'[l].id # 0, NEW k \in 1 .. l - 1, todo'[k].op = "complete"
        PROVE  todo'[k].id < todo'[l].id
    <3>1. k + 1 \in 1 .. (l + 1) - 1 /\ todo'[k] = todo[k + 1]
      BY <1>1, <2>1
    <3> QED  BY <2>1, <2>5, <3>1 DEF Lined
  <2> QED  BY <2>2, <2>3, <2>4, <2>5
<1>6. Lined(n)'
  BY <1>5 DEF Lined
<1>7. Reach' = Reach
  BY DEF Reach
<1>8. ASSUME NEW i \in 1 .. Reach, ~(i <= n)
      PROVE  \E k \in DOMAIN todo' : Completes(k, i)'
  <2>1. Reach \in Nat
    BY IdsFacts DEF Reach
  <2>2. PICK k \in DOMAIN todo : Completes(k, i)
    BY <1>3, <1>8, <2>1 DEF Behind
  <2>3. k # 1
    <3>1. CASE n = m + 1
      BY <1>2, <1>3, <1>8, <2>1, <2>2, <3>1
    <3>2. CASE n = m
      <4>1. todo[1].op # "complete"
        BY <3>2, <1>3
      <4> QED  BY <4>1, <2>2 DEF Completes
    <3> QED  BY <3>1, <3>2, <1>3
  <2> QED  BY <1>4, <2>2, <2>3
<1>9. Behind(n)'
  <2>1. \A i \in 1 .. Reach : i <= n \/ \E k \in DOMAIN todo' : Completes(k, i)'
    BY <1>8
  <2> QED  BY <1>7, <2>1 DEF Behind
<1> QED  BY <1>6, <1>9

\* A call of the mission manager takes the missions one step further.
LEMMA CallInLine ==
  ASSUME BuildTypes, CallMissions, ~misread', NEW m \in 0 .. Last, Upto(m), Lined(m), Behind(m)
  PROVE  \E n \in 0 .. Last : (Upto(n) /\ Lined(n) /\ Behind(n))'
<1> DEFINE head == todo[1]
<1>1. /\ todo \in Seq(Calls) /\ todo # <<>> /\ todo' = Tail(todo) /\ Head(todo) = head
      /\ 1 \in DOMAIN todo /\ head \in Calls /\ UNCHANGED <<at, place, outcome>>
  <2>1. todo \in Seq(Calls) /\ todo # <<>>
    BY DEF BuildTypes, CallMissions
  <2> QED  BY <2>1 DEF CallMissions
<1>2. head.op \in {"start", "complete"} /\ head.id \in 0 .. Last /\ m \in Nat /\ Last \in Nat
  BY <1>1, IdsFacts DEF Calls
<1>3. head.id # 0 => head.id = m + 1 /\ m < Last
  <2>1. head.id # 0 =>
           /\ head.id > m
           /\ \A i \in m + 1 .. head.id - 1 : \E k \in 1 .. 1 - 1 : Completes(k, i)
    BY <1>1 DEF Lined
  <2>2. ASSUME head.id # 0, head.id # m + 1
        PROVE  FALSE
    <3>1. m + 1 \in m + 1 .. head.id - 1
      BY <1>2, <2>1, <2>2
    <3> QED  BY <2>1, <2>2, <3>1
  <2> QED  BY <1>2, <2>1, <2>2
<1>4. head.op = "complete" => head.id # 0
  BY <1>1 DEF Lined
<1>5. CASE head.op = "complete"
  <2>1. Rewrites(Completing(plan.status, m + 1))
    BY <1>1, <1>3, <1>4, <1>5 DEF CallMissions
  <2>2. Upto(m + 1)'
    BY <1>3, <1>4, <1>5, <2>1, CompleteKeeps
  <2>3. Lined(m + 1)' /\ Behind(m + 1)'
    BY <1>1, <1>3, <1>4, <1>5, LinedOn
  <2>4. m + 1 \in 0 .. Last
    BY <1>2, <1>3, <1>4, <1>5
  <2> QED  BY <2>2, <2>3, <2>4
<1>6. CASE head.op = "start"
  <2>1. Lined(m)' /\ Behind(m)'
    BY <1>1, <1>6, LinedOn
  <2>2. SelectNext(plan.status) = 0 \/ (SelectNext(plan.status) = m + 1 /\ m < Last)
    BY SelectNextIs DEF Upto
  <2>3. \/ UNCHANGED plan
        \/ m < Last /\ Rewrites(Starting(plan.status, m + 1))
    BY <1>1, <1>3, <1>6, <2>2 DEF CallMissions
  <2>4. Upto(m)'
    <3>1. CASE UNCHANGED plan
      BY <3>1 DEF Upto, Prefix
    <3> QED  BY <2>3, <3>1, StartInLine
  <2> QED  BY <2>1, <2>4
<1> QED  BY <1>2, <1>5, <1>6

Advanced == \E m \in 0 .. Last : Upto(m) /\ Lined(m) /\ Behind(m)

\* A stage without calls before and after it, that has nothing more behind it
LEMMA QuietStep ==
  ASSUME Advanced, todo = <<>>, todo' = <<>>, UNCHANGED plan, Reach' <= Reach
  PROVE  Advanced'
<1>1. PICK m \in 0 .. Last : Upto(m) /\ Lined(m) /\ Behind(m)
  BY DEF Advanced
<1>2. Reach \in Nat /\ Reach' \in Nat
  BY IdsFacts DEF Reach
<1>3. Upto(m)'
  BY <1>1 DEF Upto, Prefix
<1>4. Lined(m)'
  BY DEF Lined
<1>5. \A i \in 1 .. Reach : i <= m
  BY <1>1 DEF Behind
<1>6. Behind(m)'
  BY <1>2, <1>5 DEF Behind
<1> QED  BY <1>3, <1>4, <1>6 DEF Advanced

\* A step that calls no mission manager, to a stage with no more behind it or to
\* the catch clause
LEMMA MovesKeep ==
  ASSUME InLine, at \in Building, UNCHANGED plan,
         \/ at' = "failing"
         \/ /\ at' \in Building \ {"tests"} /\ Reach' <= Reach
            /\ todo = <<>> /\ todo' = <<>>
  PROVE  InLine'
<1>1. Advanced
  BY DEF InLine, Advanced
<1>2. CASE at' = "failing"
  <2>1. \E m \in 0 .. Last : Upto(m)'
    BY <1>1 DEF Advanced, Upto, Prefix
  <2> QED  BY <1>2, <2>1 DEF InLine, Building
<1>3. CASE at' # "failing"
  <2>1. Advanced'
    BY <1>1, <1>3, QuietStep
  <2> QED  BY <1>3, <2>1 DEF InLine, Building, Advanced
<1> QED  BY <1>2, <1>3

\* A mission is completed by the call for it, and started before if need be.
LEMMA OneMore ==
  ASSUME Advanced, todo = <<>>, UNCHANGED plan, at' \in Building \ {"tests"},
         NEW i \in Ids, i <= Reach + 1, Reach' <= i,
         \/ todo' = <<>> /\ (plan.status[i] = "completed" \/ Reach' <= Reach)
         \/ todo' = <<[op |-> "complete", id |-> i]>> /\ plan.status[i] # "completed"
         \/ /\ todo' = <<[op |-> "start", id |-> i], [op |-> "complete", id |-> i]>>
            /\ plan.status[i] # "completed"
  PROVE  InLine'
<1>1. PICK m \in 0 .. Last : Upto(m) /\ Lined(m) /\ Behind(m)
  BY DEF Advanced
<1>2. Reach \in Nat /\ Reach' \in Nat /\ i \in Nat /\ i > 0 /\ m \in Nat /\ Last \in Nat
  BY IdsFacts DEF Reach
<1>3. Reach <= m
  <2>1. Reach # 0 => Reach \in 1 .. Reach
    BY <1>2
  <2> QED  BY <1>1, <1>2, <2>1 DEF Behind
<1>4. Upto(m)'
  BY <1>1 DEF Upto, Prefix
<1>5. plan.status[i] # "completed" => i = m + 1
  BY <1>1, <1>2, <1>3 DEF Upto, Prefix
<1>6. plan.status[i] = "completed" => i <= m
  BY <1>1, <1>2 DEF Upto, Prefix
<1>7. Lined(m)' /\ Behind(m)'
  <2>1. CASE todo' = <<>>
    <3>1. Reach' <= m
      BY <1>2, <1>3, <1>5, <1>6, <2>1
    <3> QED  BY <1>2, <2>1, <3>1 DEF Lined, Behind
  <2>2. CASE todo' = <<[op |-> "complete", id |-> i]>> /\ plan.status[i] # "completed"
    <3>1. DOMAIN todo' = {1} /\ todo'[1].op = "complete" /\ todo'[1].id = m + 1
      BY <1>5, <2>2
    <3> QED  BY <1>2, <1>5, <2>2, <3>1 DEF Lined, Behind, Completes
  <2>3. CASE /\ todo' = <<[op |-> "start", id |-> i], [op |-> "complete", id |-> i]>>
             /\ plan.status[i] # "completed"
    <3>1. /\ DOMAIN todo' = {1, 2} /\ todo'[1].op = "start" /\ todo'[1].id = m + 1
          /\ todo'[2].op = "complete" /\ todo'[2].id = m + 1
      BY <1>5, <2>3
    <3> QED  BY <1>2, <1>5, <2>3, <3>1 DEF Lined, Behind, Completes
  <2> QED  BY <2>1, <2>2, <2>3
<1> QED  BY <1>4, <1>7 DEF InLine, Building

\* The first two missions are completed together.
LEMMA TestKeeps ==
  ASSUME InLine, Test
  PROVE  InLine'
<1>1. Upto(0) /\ UNCHANGED <<plan, outcome, place>> /\ at' = "workspace"
  BY DEF InLine, Test, At, Goto, projectVars
<1>2. /\ DOMAIN todo' = 1 .. 4
      /\ todo'[1].op = "start" /\ todo'[1].id = 0 /\ todo'[2].op = "complete" /\ todo'[2].id = 1
      /\ todo'[3].op = "start" /\ todo'[3].id = 0 /\ todo'[4].op = "complete" /\ todo'[4].id = 2
  BY DEF Test
<1>3. Upto(0)' /\ 0 \in 0 .. Last
  BY <1>1, IdsFacts DEF Upto, Prefix
<1>4. Lined(0)'
  BY <1>2 DEF Lined, Completes
<1>5. Reach' = 2
  BY <1>1 DEF Reach, CoreKept
<1>6. Behind(0)'
  BY <1>2, <1>5 DEF Behind, Completes
<1> QED  BY <1>1, <1>3, <1>4, <1>6 DEF InLine, Building

\* The rank of a number in an interval
LEMMA Rank ==
  ASSUME NEW a \in Nat, NEW b \in Nat, NEW i \in a + 1 .. b
  PROVE  Cardinality({j \in a + 1 .. b : j <= i}) = i - a
<1>1. {j \in a + 1 .. b : j <= i} = a + 1 .. i
  OBVIOUS
<1>2. a + 1 \in Int /\ i \in Int /\ ~(a + 1 > i) /\ i - (a + 1) + 1 = i - a
  OBVIOUS
<1>3. Cardinality(a + 1 .. i) = i - a
  BY <1>2, FS_Interval
<1> HIDE DEF Cardinality
<1> QED  BY <1>1, <1>3

OpenAfter(m) == {i \in FeatureMissions : i > m}
OpenIn(loaded) == {i \in FeatureMissions : loaded # NoPlan /\ loaded.status[i] # "completed"}
CallsFor(open) ==
  [k \in 1 .. Cardinality(open) |->
     [op |-> "complete", id |-> CHOOSE i \in open : Cardinality({j \in open : j <= i}) = k]]

LEMMA CallsForOpen ==
  ASSUME CompleteFeatures
  PROVE  \E loaded \in Loads : Reads(loaded) /\ todo' = CallsFor(OpenIn(loaded))
BY DEF CompleteFeatures, CallsFor, OpenIn

\* The calls for the features complete the open ones in order.
LEMMA FeatureCalls ==
  ASSUME NEW m \in 0 .. Last, Core <= m, NEW calls, calls = CallsFor(OpenAfter(m))
  PROVE  \E n \in Nat : /\ calls = [k \in 1 .. n |-> [op |-> "complete", id |-> m + k]]
                        /\ n > 0 => n + m = Core + Features
                        /\ n = 0 => m >= Core + Features
                        /\ calls \in Seq(Calls)
<1> DEFINE open == OpenAfter(m)
           n == Cardinality(open)
           c == Core + Features
<1>1. m \in Nat /\ c \in Nat /\ c < Last
  BY IdsFacts
<1>2. open = m + 1 .. c
  BY <1>1, IdsFacts DEF OpenAfter
<1>3. n = IF m + 1 > c THEN 0 ELSE c - m
  <2>1. m + 1 \in Int /\ c \in Int
    BY <1>1
  <2> HIDE DEF c
  <2>2. Cardinality(m + 1 .. c) = IF m + 1 > c THEN 0 ELSE c - (m + 1) + 1
    BY <2>1, FS_Interval
  <2>3. n = Cardinality(m + 1 .. c)
    BY <1>2
  <2>4. c - (m + 1) + 1 = c - m
    BY <1>1
  <2> HIDE DEF n
  <2> QED  BY <2>2, <2>3, <2>4
<1>4. calls = [k \in 1 .. n |-> [op |-> "complete",
                id |-> CHOOSE i \in open : Cardinality({j \in open : j <= i}) = k]]
  BY DEF CallsFor
<1> HIDE DEF open
<1>5. ASSUME NEW k \in 1 .. n
      PROVE  (CHOOSE i \in open : Cardinality({j \in open : j <= i}) = k) = m + k
  <2>1. \A i \in open : Cardinality({j \in open : j <= i}) = i - m
    BY <1>1, <1>2, Rank
  <2>2. m + k \in open /\ k \in Nat
    BY <1>1, <1>2, <1>3
  <2>3. \A i \in open : i \in Nat
    BY <1>1, <1>2
  <2>4. Cardinality({j \in open : j <= m + k}) = k
    BY <1>1, <2>1, <2>2
  <2>5. \A i \in open : Cardinality({j \in open : j <= i}) = k => i = m + k
    BY <1>1, <2>1, <2>2, <2>3
  <2> HIDE DEF n
  <2> QED  BY <2>2, <2>4, <2>5
<1> HIDE DEF n
<1>6. calls = [k \in 1 .. n |-> [op |-> "complete", id |-> m + k]]
  BY <1>4, <1>5
<1>7. n \in Nat /\ (n > 0 => n + m = c) /\ (n = 0 => m >= c)
  BY <1>1, <1>3
<1>8. calls \in Seq(Calls)
  <2>1. \A k \in 1 .. n : [op |-> "complete", id |-> m + k] \in Calls
    <3> SUFFICES ASSUME NEW k \in 1 .. n
                 PROVE  [op |-> "complete", id |-> m + k] \in Calls
      OBVIOUS
    <3>1. m + k \in 0 .. Last
      BY <1>1, <1>7, IdsFacts
    <3> QED  BY <3>1 DEF Calls
  <2>2. calls \in [1 .. n -> Calls]
    BY <1>6, <2>1
  <2> QED  BY <1>7, <2>2, SeqDef
<1> QED  BY <1>6, <1>7, <1>8

LEMMA FeaturesKeep ==
  ASSUME InLine, CompleteFeatures, ~misread'
  PROVE  InLine'
<1>1. UNCHANGED <<plan, place, outcome>> /\ at = "features" /\ todo = <<>> /\ at' = "verification"
  BY DEF CompleteFeatures, At, Goto
<1>2. Reach = 3 /\ Reach' = Core + Features
  BY <1>1, IdsFacts DEF Reach, CoreKept
<1>3. PICK m \in 0 .. Last : Upto(m) /\ Behind(m)
  BY <1>1 DEF InLine, Building, Stages
<1>4. m \in Nat /\ m >= 3 /\ Last \in Nat
  <2>1. 3 \in 1 .. Reach
    BY <1>2
  <2> QED  BY <1>1, <1>3, <2>1, IdsFacts DEF Behind
<1>5. PICK n \in Nat : /\ todo' = [k \in 1 .. n |-> [op |-> "complete", id |-> m + k]]
                       /\ n > 0 => n + m = Core + Features
                       /\ n = 0 => m >= Core + Features
  <2>1. PICK loaded \in Loads : Reads(loaded) /\ todo' = CallsFor(OpenIn(loaded))
    BY CallsForOpen
  <2>2. loaded = plan
    BY <2>1 DEF Reads
  <2>3. OpenIn(plan) = OpenAfter(m)
    <3>1. plan # NoPlan
      BY <1>3, IdsFacts DEF Upto, Prefix, NoPlan
    <3> QED  BY <1>3, <1>4, <3>1, IdsFacts DEF OpenIn, OpenAfter, Upto, Prefix
  <2> DEFINE calls == todo'
  <2>4. calls = CallsFor(OpenAfter(m)) /\ Core <= m
    BY <1>4, <2>1, <2>2, <2>3, IdsFacts
  <2> HIDE DEF calls
  <2>5. \E n \in Nat : /\ calls = [k \in 1 .. n |-> [op |-> "complete", id |-> m + k]]
                       /\ n > 0 => n + m = Core + Features
                       /\ n = 0 => m >= Core + Features
    BY <2>4, FeatureCalls
  <2> QED  BY <2>5 DEF calls
<1>6. /\ DOMAIN todo' = 1 .. n
      /\ \A k \in 1 .. n : todo'[k].op = "complete" /\ todo'[k].id = m + k
  BY <1>5
<1>8. Upto(m)'
  BY <1>1, <1>3 DEF Upto, Prefix
<1>9. Lined(m)'
  <2> SUFFICES ASSUME NEW l \in 1 .. n
               PROVE  /\ todo'[l].id # 0 /\ todo'[l].id > m
                      /\ \A i \in m + 1 .. todo'[l].id - 1 : \E k \in 1 .. l - 1 : Completes(k, i)'
                      /\ \A k \in 1 .. l - 1 : todo'[k].id < todo'[l].id
    BY <1>6 DEF Lined
  <2>1. ASSUME NEW i \in m + 1 .. todo'[l].id - 1
        PROVE  \E k \in 1 .. l - 1 : Completes(k, i)'
    <3>1. i - m \in 1 .. l - 1 /\ i - m \in 1 .. n /\ m + (i - m) = i
      BY <1>4, <1>6
    <3>2. Completes(i - m, i)'
      BY <1>6, <3>1 DEF Completes
    <3> QED  BY <3>1, <3>2
  <2>2. \A k \in 1 .. l - 1 : todo'[k].id < todo'[l].id
    BY <1>4, <1>6
  <2> QED  BY <1>4, <1>6, <2>1, <2>2
<1>10. Behind(m)'
  <2> SUFFICES ASSUME NEW i \in 1 .. Core + Features, ~(i <= m)
               PROVE  \E k \in DOMAIN todo' : Completes(k, i)'
    BY <1>2 DEF Behind
  <2>1. i - m \in 1 .. n /\ m + (i - m) = i
    BY <1>4, <1>5, IdsFacts
  <2> QED  BY <1>6, <2>1 DEF Completes
<1> QED  BY <1>1, <1>8, <1>9, <1>10 DEF InLine, Building

\* The calls for the features are calls, also when the file could not be read.
LEMMA FeatureCallsTyped ==
  ASSUME PlanInv, CompleteFeatures
  PROVE  todo' \in Seq(Calls)
<1>1. PICK loaded \in Loads : todo' = CallsFor(OpenIn(loaded))
  BY CallsForOpen
<1>2. at = "features"
  BY DEF CompleteFeatures, At
<1>3. FeaturesOpen
  BY <1>2 DEF PlanInv, Early, Building, Stages
<1>4. PICK m \in 0 .. Last : Core <= m /\ OpenIn(loaded) = OpenAfter(m)
  <2>1. CASE loaded = NoPlan
    <3>1. OpenIn(loaded) = OpenAfter(Core + Features) /\ Core + Features \in 0 .. Last
      BY <2>1, IdsFacts DEF OpenIn, OpenAfter
    <3> QED  BY <3>1, IdsFacts
  <2>2. CASE loaded # NoPlan
    <3>1. OpenIn(loaded) = OpenAfter(Core) /\ Core \in 0 .. Last
      BY <1>3, <2>2, IdsFacts DEF FeaturesOpen, Loads, OpenIn, OpenAfter
    <3> QED  BY <3>1, IdsFacts
  <2> QED  BY <2>1, <2>2
<1> DEFINE calls == todo'
<1>5. calls = CallsFor(OpenAfter(m))
  BY <1>1, <1>4
<1> HIDE DEF calls
<1>6. calls \in Seq(Calls)
  BY <1>4, <1>5, FeatureCalls
<1> QED  BY <1>6 DEF calls

\* The missions begin with the first one ready.
LEMMA InitialMissions ==
  ASSUME InLine, InitializeMissions, ~misread'
  PROVE  InLine'
<1> DEFINE change == [status |-> Decomposed, current |-> 0]
           candidates == <<change.current, plan.current, In(change.status, {"running"}),
                           In(change.status, {"ready"})>>
           named == {k \in 1 .. 4 : candidates[k] # 0}
<1>1. plan.current = 0 /\ todo = <<>> /\ todo' = <<>> /\ at' = "tests"
  BY DEF InLine, InitializeMissions, At, Goto, NoPlan
<1>2. Last \in Nat /\ Last > 1 /\ DOMAIN Decomposed = 1 .. Last
  BY IdsFacts DEF Decomposed
<1>3. Prefix(Decomposed, 0)
  BY IdsFacts DEF Prefix, Decomposed, MissionStatuses
<1>4. In(Decomposed, {"running"}) = 0
  <2>1. {i \in DOMAIN Decomposed : Decomposed[i] \in {"running"}} = {}
    BY <1>2 DEF Decomposed, Ids
  <2> QED  BY <2>1 DEF In, First
<1>5. In(Decomposed, {"ready"}) = 1
  <2>1. {i \in DOMAIN Decomposed : Decomposed[i] \in {"ready"}} = {1}
    BY <1>2 DEF Decomposed, Ids
  <2>2. Min({1}) = 1
    BY MinIs
  <2> QED  BY <2>1, <2>2 DEF In, First
<1>6. named = {4} /\ candidates[4] = 1
  BY <1>1, <1>4, <1>5
<1>7. Min({4}) = 4
  BY MinIs
<1>8. CurrentOf(change, plan.current) = IF named = {} THEN 0 ELSE candidates[Min(named)]
  BY DEF CurrentOf
<1>9. CurrentOf(change, plan.current) = 1
  <2> HIDE DEF candidates, named
  <2> QED  BY <1>6, <1>7, <1>8
<1>10. plan' = [status |-> Decomposed, current |-> 1]
  <2>1. Rewrites(change)
    BY DEF InitializeMissions
  <2> HIDE DEF change
  <2>2. plan' = [status |-> change.status, current |-> CurrentOf(change, plan.current)]
    BY <2>1, RewritesIs
  <2> QED  BY <1>9, <2>2 DEF change
<1>11. Upto(0)'
  BY <1>2, <1>3, <1>10 DEF Upto, Prefix
<1>12. Lined(0)' /\ Behind(0)' /\ 0 \in 0 .. Last
  <2>1. Reach' = 0
    BY <1>1 DEF Reach
  <2> QED  BY <1>1, <1>2, <2>1 DEF Lined, Behind
<1> QED  BY <1>1, <1>11, <1>12 DEF InLine, Building

\* Every step of the build keeps the types and what its stage says of the
\* preview and of the tests.
LEMMA StageKeeps ==
  ASSUME BuildInv, BuildStep
  PROVE  StageInv'
<1> USE DEF StageInv, BuildTypes, Building, Shown, Judged, Stages, Places, Answers, At, Goto, Throw, Over, resultVars
<1>0. StageInv /\ PlanInv
  BY DEF BuildInv
<1>1. /\ [op |-> "start", id |-> 0] \in Calls
      /\ \A i \in Ids : /\ [op |-> "start", id |-> i] \in Calls
                      /\ [op |-> "complete", id |-> i] \in Calls
  BY IdsFacts DEF Calls
<1>2. {1, 2, Core, Verification, Delivery} \subseteq Ids /\ MaxAttempts \in Nat
  BY IdsFacts, AttemptsAssumption
<1>3. CASE Begin
  BY <1>0, <1>2, <1>3 DEF Begin
<1>4. CASE InitializeMissions
  BY <1>0, <1>2, <1>4 DEF InitializeMissions
<1>5. CASE Test
  <2>1. todo' \in Seq(Calls)
    <3>1. \A i \in {1, 2} : [op |-> "complete", id |-> i] \in Calls
      BY <1>1, <1>2
    <3> QED  BY <1>1, <3>1, <1>5 DEF Test
  <2> QED  BY <1>0, <2>1, <1>5 DEF Test
<1>6. CASE CallMissions
  BY <1>0, <1>2, <1>6 DEF CallMissions
<1>7. CASE WorkspaceDone
  BY <1>0, <1>2, <1>7 DEF WorkspaceDone
<1>8. CASE Repair
  <2>1. /\ at' \in Stages /\ place' \in Places /\ todo' \in Seq(Calls) /\ attempt' \in 0 .. MaxAttempts
    BY <1>0, <1>2, <1>8 DEF Repair
  <2>2. tested' \in BOOLEAN /\ leftover' \in BOOLEAN
    BY <1>0, <1>2, <1>8 DEF Repair
  <2>3. workspaceTests' \in BOOLEAN /\ verified' \in BOOLEAN /\ targeted' \in BOOLEAN
    BY <1>0, <1>2, <1>8 DEF Repair
  <2>4. /\ browser' \in Answers /\ interactions' \in Answers /\ previews' \in 0 .. 1
        /\ outcome' \in {"none", "PROMOTED", "NOT_PROMOTED", "FAILED", "died"}
    BY <1>0, <1>2, <1>8 DEF Repair
  <2>5. /\ at' \notin Building => todo' = <<>>
        /\ at' \in Shown => previews' = 1
        /\ at' \notin Shown \cup {"failing", "over"} => previews' = 0
        /\ at' \notin {"delivery", "failing", "over"} => outcome' = "none"
    BY <1>0, <1>2, <1>8 DEF Repair
  <2>6. at' \in Judged => tested' \/ leftover'
    BY <1>0, <1>2, <1>8 DEF Repair
  <2> QED  BY <2>1, <2>2, <2>3, <2>4, <2>5, <2>6
<1>9. CASE StartPreview
  BY <1>0, <1>2, <1>9 DEF StartPreview, AfterPreview
<1>10. CASE VerifyBrowser
  BY <1>0, <1>2, <1>10 DEF VerifyBrowser, AfterPreview, BrowserMustPass
<1>11. CASE RunInteractions
  BY <1>0, <1>2, <1>11 DEF RunInteractions, AfterPreview
<1>12. CASE Diagnose
  BY <1>0, <1>2, <1>12 DEF Diagnose
<1>13. CASE Reason
  <2>1. /\ at' \in Stages /\ place' \in Places /\ todo' \in Seq(Calls) /\ attempt' \in 0 .. MaxAttempts
    BY <1>0, <1>2, <1>13 DEF Reason
  <2>2. tested' \in BOOLEAN /\ leftover' \in BOOLEAN
    BY <1>0, <1>2, <1>13 DEF Reason
  <2>3. workspaceTests' \in BOOLEAN /\ verified' \in BOOLEAN /\ targeted' \in BOOLEAN
    BY <1>0, <1>2, <1>13 DEF Reason
  <2>4. /\ browser' \in Answers /\ interactions' \in Answers /\ previews' \in 0 .. 1
        /\ outcome' \in {"none", "PROMOTED", "NOT_PROMOTED", "FAILED", "died"}
    BY <1>0, <1>2, <1>13 DEF Reason
  <2>5. /\ at' \notin Building => todo' = <<>>
        /\ at' \in Shown => previews' = 1
        /\ at' \notin Shown \cup {"failing", "over"} => previews' = 0
        /\ at' \notin {"delivery", "failing", "over"} => outcome' = "none"
    BY <1>0, <1>2, <1>13 DEF Reason
  <2>6. at' \in Judged => tested' \/ leftover'
    BY <1>0, <1>2, <1>13 DEF Reason
  <2> QED  BY <2>1, <2>2, <2>3, <2>4, <2>5, <2>6
<1>14. CASE Evolve
  BY <1>0, <1>2, <1>14 DEF Evolve, Engine
<1>15. CASE Implement
  BY <1>0, <1>2, <1>15 DEF Implement, Extend, Engine
<1>16. CASE Integrate
  BY <1>0, <1>2, <1>16 DEF Integrate, Extend, Engine
<1>17. CASE GenerateArchitecture
  <2>0. <<[op |-> "complete", id |-> Core]>> \in Seq(Calls) /\ <<>> \in Seq(Calls)
    <3>1. [op |-> "complete", id |-> Core] \in Calls
      BY <1>1, <1>2
    <3> HIDE DEF Calls, Core
    <3> QED  BY <3>1
  <2>1. /\ at' \in Stages /\ place' \in Places /\ todo' \in Seq(Calls) /\ attempt' \in 0 .. MaxAttempts
    BY <1>0, <2>0, <1>2, <1>17 DEF GenerateArchitecture, Engine
  <2>2. tested' \in BOOLEAN /\ leftover' \in BOOLEAN
    BY <1>0, <2>0, <1>2, <1>17 DEF GenerateArchitecture, Engine
  <2>3. workspaceTests' \in BOOLEAN /\ verified' \in BOOLEAN /\ targeted' \in BOOLEAN
    BY <1>0, <2>0, <1>2, <1>17 DEF GenerateArchitecture, Engine
  <2>4. /\ browser' \in Answers /\ interactions' \in Answers /\ previews' \in 0 .. 1
        /\ outcome' \in {"none", "PROMOTED", "NOT_PROMOTED", "FAILED", "died"}
    BY <1>0, <2>0, <1>2, <1>17 DEF GenerateArchitecture, Engine
  <2>5. /\ at' \notin Building => todo' = <<>>
        /\ at' \in Shown => previews' = 1
        /\ at' \notin Shown \cup {"failing", "over"} => previews' = 0
        /\ at' \notin {"delivery", "failing", "over"} => outcome' = "none"
    BY <1>0, <2>0, <1>2, <1>17 DEF GenerateArchitecture, Engine
  <2>6. at' \in Judged => tested' \/ leftover'
    BY <1>0, <2>0, <1>2, <1>17 DEF GenerateArchitecture, Engine
  <2> QED  BY <2>1, <2>2, <2>3, <2>4, <2>5, <2>6
<1>18. CASE ChooseRepair
  BY <1>0, <1>2, <1>18 DEF ChooseRepair
<1>19. CASE Restructure
  BY <1>0, <1>2, <1>19 DEF Restructure, Engine
<1>20. CASE Retest
  BY <1>0, <1>2, <1>20 DEF Retest
<1>21. CASE RepairBrowser
  <2>1. /\ at' \in Stages /\ place' \in Places /\ todo' \in Seq(Calls) /\ attempt' \in 0 .. MaxAttempts
    BY <1>0, <1>2, <1>21 DEF RepairBrowser
  <2>2. tested' \in BOOLEAN /\ leftover' \in BOOLEAN
    BY <1>0, <1>2, <1>21 DEF RepairBrowser
  <2>3. workspaceTests' \in BOOLEAN /\ verified' \in BOOLEAN /\ targeted' \in BOOLEAN
    BY <1>0, <1>2, <1>21 DEF RepairBrowser
  <2>4. /\ browser' \in Answers /\ interactions' \in Answers /\ previews' \in 0 .. 1
        /\ outcome' \in {"none", "PROMOTED", "NOT_PROMOTED", "FAILED", "died"}
    BY <1>0, <1>2, <1>21 DEF RepairBrowser
  <2>5. /\ at' \notin Building => todo' = <<>>
        /\ at' \in Shown => previews' = 1
        /\ at' \notin Shown \cup {"failing", "over"} => previews' = 0
        /\ at' \notin {"delivery", "failing", "over"} => outcome' = "none"
    BY <1>0, <1>2, <1>21 DEF RepairBrowser
  <2>6. at' \in Judged => tested' \/ leftover'
    BY <1>0, <1>2, <1>21 DEF RepairBrowser
  <2> QED  BY <2>1, <2>2, <2>3, <2>4, <2>5, <2>6
<1>22. CASE GiveUp
  BY <1>0, <1>2, <1>22 DEF GiveUp
<1>23. CASE CompleteFeatures
  <2>1. todo' \in Seq(Calls)
    BY <1>0, <1>23, FeatureCallsTyped
  <2> QED  BY <1>0, <1>23, <2>1 DEF CompleteFeatures
<1>24. CASE CompleteVerification
  BY <1>0, <1>1, <1>2, <1>24 DEF CompleteVerification
<1>25. CASE Decide
  BY <1>0, <1>1, <1>2, <1>25 DEF Decide
<1>26. CASE Return
  <2>1. /\ at' \in Stages /\ place' \in Places /\ todo' \in Seq(Calls) /\ attempt' \in 0 .. MaxAttempts
    BY <1>0, <1>2, <1>26 DEF Return
  <2>2. tested' \in BOOLEAN /\ leftover' \in BOOLEAN
    BY <1>0, <1>2, <1>26 DEF Return
  <2>3. workspaceTests' \in BOOLEAN /\ verified' \in BOOLEAN /\ targeted' \in BOOLEAN
    BY <1>0, <1>2, <1>26 DEF Return
  <2>4. /\ browser' \in Answers /\ interactions' \in Answers /\ previews' \in 0 .. 1
        /\ outcome' \in {"none", "PROMOTED", "NOT_PROMOTED", "FAILED", "died"}
    BY <1>0, <1>2, <1>26 DEF Return
  <2>5. /\ at' \notin Building => todo' = <<>>
        /\ at' \in Shown => previews' = 1
        /\ at' \notin Shown \cup {"failing", "over"} => previews' = 0
        /\ at' \notin {"delivery", "failing", "over"} => outcome' = "none"
    BY <1>0, <1>2, <1>26 DEF Return
  <2>6. at' \in Judged => tested' \/ leftover'
    BY <1>0, <1>2, <1>26 DEF Return
  <2> QED  BY <2>1, <2>2, <2>3, <2>4, <2>5, <2>6
<1>27. CASE Throws
  BY <1>0, <1>2, <1>27 DEF Throws
<1>28. CASE Fail
  <2>1. /\ at' \in Stages /\ place' \in Places /\ todo' \in Seq(Calls) /\ attempt' \in 0 .. MaxAttempts
    BY <1>0, <1>2, <1>28 DEF Fail
  <2>2. tested' \in BOOLEAN /\ leftover' \in BOOLEAN
    BY <1>0, <1>2, <1>28 DEF Fail
  <2>3. workspaceTests' \in BOOLEAN /\ verified' \in BOOLEAN /\ targeted' \in BOOLEAN
    BY <1>0, <1>2, <1>28 DEF Fail
  <2>4. /\ browser' \in Answers /\ interactions' \in Answers /\ previews' \in 0 .. 1
        /\ outcome' \in {"none", "PROMOTED", "NOT_PROMOTED", "FAILED", "died"}
    BY <1>0, <1>2, <1>28 DEF Fail
  <2>5. /\ at' \notin Building => todo' = <<>>
        /\ at' \in Shown => previews' = 1
        /\ at' \notin Shown \cup {"failing", "over"} => previews' = 0
        /\ at' \notin {"delivery", "failing", "over"} => outcome' = "none"
    BY <1>0, <1>2, <1>28 DEF Fail
  <2>6. at' \in Judged => tested' \/ leftover'
    BY <1>0, <1>2, <1>28 DEF Fail
  <2> QED  BY <2>1, <2>2, <2>3, <2>4, <2>5, <2>6
<1>29. CASE Die
  <2>1. /\ at' \in Stages /\ place' \in Places /\ todo' \in Seq(Calls) /\ attempt' \in 0 .. MaxAttempts
    BY <1>0, <1>2, <1>29 DEF Die
  <2>2. tested' \in BOOLEAN /\ leftover' \in BOOLEAN
    BY <1>0, <1>2, <1>29 DEF Die
  <2>3. workspaceTests' \in BOOLEAN /\ verified' \in BOOLEAN /\ targeted' \in BOOLEAN
    BY <1>0, <1>2, <1>29 DEF Die
  <2>4. /\ browser' \in Answers /\ interactions' \in Answers /\ previews' \in 0 .. 1
        /\ outcome' \in {"none", "PROMOTED", "NOT_PROMOTED", "FAILED", "died"}
    BY <1>0, <1>2, <1>29 DEF Die
  <2>5. /\ at' \notin Building => todo' = <<>>
        /\ at' \in Shown => previews' = 1
        /\ at' \notin Shown \cup {"failing", "over"} => previews' = 0
        /\ at' \notin {"delivery", "failing", "over"} => outcome' = "none"
    BY <1>0, <1>2, <1>29 DEF Die
  <2>6. at' \in Judged => tested' \/ leftover'
    BY <1>0, <1>2, <1>29 DEF Die
  <2> QED  BY <2>1, <2>2, <2>3, <2>4, <2>5, <2>6
<1> QED
  BY <1>3, <1>4, <1>5, <1>6, <1>7, <1>8, <1>9, <1>10, <1>11, <1>12, <1>13, <1>14, <1>15, <1>16,
     <1>17, <1>18, <1>19, <1>20, <1>21, <1>22, <1>23, <1>24, <1>25, <1>26, <1>27, <1>28,
     <1>29 DEF BuildStep

\* Every step of the build keeps the missions in line.
LEMMA MissionsKeep ==
  ASSUME StageInv, InLine, BuildStep, ~misread'
  PROVE  InLine'
<1>0. StageInv /\ InLine /\ BuildTypes /\ Reach \in Nat
  BY IdsFacts DEF StageInv, Reach
<1>1. at \in Building => Advanced
  BY <1>0 DEF InLine, Advanced
<1> DEFINE Moves == /\ at \in Building /\ UNCHANGED plan
                    /\ \/ at' = "failing"
                       \/ /\ at' \in Building \ {"tests"} /\ Reach' <= Reach
                          /\ todo = <<>> /\ todo' = <<>>
<1>2. Moves => InLine'
  BY <1>0, MovesKeep
<1>3. CASE Begin
  BY <1>0, <1>3 DEF Begin, InLine, Building, At, Goto
<1>4. CASE InitializeMissions
  BY <1>0, <1>4, InitialMissions
<1>5. CASE Test
  BY <1>0, <1>5, TestKeeps
<1>6. CASE CallMissions
  <2>1. at \in Building /\ at # "tests" /\ UNCHANGED at
    BY <1>0, <1>6 DEF StageInv, InLine, CallMissions
  <2>2. PICK m \in 0 .. Last : Upto(m) /\ Lined(m) /\ Behind(m)
    BY <1>1, <2>1 DEF Advanced
  <2>3. \E k \in 0 .. Last : (Upto(k) /\ Lined(k) /\ Behind(k))'
    BY <1>0, <1>6, <2>2, CallInLine
  <2> QED  BY <2>1, <2>3 DEF InLine, Building
<1>7. CASE WorkspaceDone
  <2>1. Moves
    BY <1>0, <1>7, IdsFacts
    DEF WorkspaceDone, BuildTypes, Places, Building, Stages, At, Goto, Throw, Reach, CoreKept,
        projectVars, resultVars
  <2> QED  BY <1>2, <2>1
<1>8. CASE Repair
  <2>1. Moves
    BY <1>0, <1>8, IdsFacts
    DEF Repair, BuildTypes, Places, Building, Stages, At, Goto, Throw, Reach, CoreKept, projectVars,
        resultVars
  <2> QED  BY <1>2, <2>1
<1>9. CASE StartPreview
  <2>1. Moves
    BY <1>0, <1>9, IdsFacts
    DEF StartPreview, AfterPreview, BuildTypes, Places, Building, Stages, At, Goto, Throw, Reach,
        CoreKept, projectVars, resultVars
  <2> QED  BY <1>2, <2>1
<1>10. CASE VerifyBrowser
  <2>1. Moves
    BY <1>0, <1>10, IdsFacts
    DEF VerifyBrowser, AfterPreview, BrowserMustPass, BuildTypes, Places, Building, Stages, At,
        Goto, Throw, Reach, CoreKept, projectVars, resultVars
  <2> QED  BY <1>2, <2>1
<1>11. CASE RunInteractions
  <2>1. Moves
    BY <1>0, <1>11, IdsFacts
    DEF RunInteractions, AfterPreview, BuildTypes, Places, Building, Stages, At, Goto, Throw, Reach,
        CoreKept, projectVars, resultVars
  <2> QED  BY <1>2, <2>1
<1>12. CASE Diagnose
  <2>1. Moves
    BY <1>0, <1>12, IdsFacts
    DEF Diagnose, BuildTypes, Places, Building, Stages, At, Goto, Throw, Reach, CoreKept,
        projectVars, resultVars
  <2> QED  BY <1>2, <2>1
<1>13. CASE Reason
  <2>1. Moves
    BY <1>0, <1>13, IdsFacts
    DEF Reason, BuildTypes, Places, Building, Stages, At, Goto, Throw, Reach, CoreKept, projectVars,
        resultVars
  <2> QED  BY <1>2, <2>1
<1>14. CASE Evolve
  <2>1. Moves
    BY <1>0, <1>14, IdsFacts
    DEF Evolve, Engine, BuildTypes, Places, Building, Stages, At, Goto, Throw, Reach, CoreKept,
        projectVars, resultVars
  <2> QED  BY <1>2, <2>1
<1>15. CASE Implement
  <2>1. Moves
    BY <1>0, <1>15, IdsFacts
    DEF Implement, Extend, Engine, BuildTypes, Places, Building, Stages, At, Goto, Throw, Reach,
        CoreKept, projectVars, resultVars
  <2> QED  BY <1>2, <2>1
<1>16. CASE Integrate
  <2>1. Moves
    BY <1>0, <1>16, IdsFacts
    DEF Integrate, Extend, Engine, BuildTypes, Places, Building, Stages, At, Goto, Throw, Reach,
        CoreKept, projectVars, resultVars
  <2> QED  BY <1>2, <2>1
<1>17. CASE GenerateArchitecture
  <2>1. /\ at \in Building /\ at' \in Building \ {"tests"} /\ todo = <<>> /\ UNCHANGED plan
        /\ Core \in Ids /\ Core <= Reach + 1 /\ Reach' <= Core
    BY <1>0, <1>17, IdsFacts
    DEF GenerateArchitecture, Engine, Building, Stages, At, Goto, Reach, CoreKept, projectVars,
        resultVars
  <2>3. plan # NoPlan
    BY <1>1, <2>1, IdsFacts DEF Advanced, Upto, NoPlan
  <2>2. \/ todo' = <<>> /\ (plan.status[Core] = "completed" \/ Reach' <= Reach)
        \/ todo' = <<[op |-> "complete", id |-> Core]>> /\ plan.status[Core] # "completed"
        \/ /\ todo' = <<[op |-> "start", id |-> Core], [op |-> "complete", id |-> Core]>>
           /\ plan.status[Core] # "completed"
    BY <1>0, <1>17, <2>3, IdsFacts
    DEF GenerateArchitecture, Engine, At, Goto, Reach, CoreKept, Reads, Loads
  <2> QED  BY <1>1, <2>1, <2>2, OneMore
<1>18. CASE ChooseRepair
  <2>1. Moves
    BY <1>0, <1>18, IdsFacts
    DEF ChooseRepair, BuildTypes, Places, Building, Stages, At, Goto, Throw, Reach, CoreKept,
        projectVars, resultVars
  <2> QED  BY <1>2, <2>1
<1>19. CASE Restructure
  <2>1. Moves
    BY <1>0, <1>19, IdsFacts
    DEF Restructure, Engine, BuildTypes, Places, Building, Stages, At, Goto, Throw, Reach, CoreKept,
        projectVars, resultVars
  <2> QED  BY <1>2, <2>1
<1>20. CASE Retest
  <2>1. Moves
    BY <1>0, <1>20, IdsFacts
    DEF Retest, BuildTypes, Places, Building, Stages, At, Goto, Throw, Reach, CoreKept, projectVars,
        resultVars
  <2> QED  BY <1>2, <2>1
<1>21. CASE RepairBrowser
  <2>1. Moves
    BY <1>0, <1>21, IdsFacts
    DEF RepairBrowser, BuildTypes, Places, Building, Stages, At, Goto, Throw, Reach, CoreKept,
        projectVars, resultVars
  <2> QED  BY <1>2, <2>1
<1>22. CASE GiveUp
  <2>1. Moves
    BY <1>0, <1>22, IdsFacts
    DEF GiveUp, BuildTypes, Places, Building, Stages, At, Goto, Throw, Reach, CoreKept, projectVars,
        resultVars
  <2> QED  BY <1>2, <2>1
<1>23. CASE CompleteFeatures
  BY <1>0, <1>23, FeaturesKeep
<1>24. CASE CompleteVerification
  <2>1. /\ at \in Building /\ at' \in Building \ {"tests"} /\ todo = <<>> /\ UNCHANGED plan
        /\ Verification \in Ids /\ Verification <= Reach + 1 /\ Reach' <= Verification
    BY <1>0, <1>24, IdsFacts
    DEF CompleteVerification, Building, Stages, At, Goto, Reach, CoreKept, projectVars, resultVars
  <2>3. plan # NoPlan
    BY <1>1, <2>1, IdsFacts DEF Advanced, Upto, NoPlan
  <2>2. \/ todo' = <<>> /\ (plan.status[Verification] = "completed" \/ Reach' <= Reach)
        \/ todo' = <<[op |-> "complete", id |-> Verification]>> /\ plan.status[Verification] # "completed"
        \/ /\ todo' = <<[op |-> "start", id |-> Verification], [op |-> "complete", id |-> Verification]>>
           /\ plan.status[Verification] # "completed"
    BY <1>0, <1>24, <2>3, IdsFacts
    DEF CompleteVerification, At, Goto, Reach, CoreKept, Reads, Loads
  <2> QED  BY <1>1, <2>1, <2>2, OneMore
<1>25. CASE Decide
  <2>1. /\ at \in Building /\ at' \in Building \ {"tests"} /\ todo = <<>> /\ UNCHANGED plan
        /\ Delivery \in Ids /\ Delivery <= Reach + 1 /\ Reach' <= Delivery
    BY <1>0, <1>25, IdsFacts
    DEF Decide, Building, Stages, At, Goto, Reach, CoreKept, projectVars, resultVars
  <2>3. plan # NoPlan
    BY <1>1, <2>1, IdsFacts DEF Advanced, Upto, NoPlan
  <2>2. \/ todo' = <<>> /\ (plan.status[Delivery] = "completed" \/ Reach' <= Reach)
        \/ todo' = <<[op |-> "complete", id |-> Delivery]>> /\ plan.status[Delivery] # "completed"
        \/ /\ todo' = <<[op |-> "start", id |-> Delivery], [op |-> "complete", id |-> Delivery]>>
           /\ plan.status[Delivery] # "completed"
    BY <1>0, <1>25, <2>3, IdsFacts
    DEF Decide, At, Goto, Reach, CoreKept, Reads, Loads
  <2> QED  BY <1>1, <2>1, <2>2, OneMore
<1>26. CASE Return
  BY <1>0, <1>26 DEF Return, Over, Goto, InLine, Building
<1>27. CASE Throws
  <2>1. CASE at \in Building
    BY <1>2, <2>1, <1>27 DEF Throws, Throw, Goto, projectVars
  <2>2. CASE at \notin Building
    BY <1>0, <2>2, <1>27 DEF Throws, Throw, Goto, projectVars, InLine, Building, BuildTypes
  <2> QED  BY <2>1, <2>2
<1>28. CASE Fail
  BY <1>0, <1>28 DEF Fail, Over, Goto, InLine, Building
<1>29. CASE Die
  BY <1>0, <1>29 DEF Die, Over, Goto, InLine, Building
<1> QED
  BY <1>3, <1>4, <1>5, <1>6, <1>7, <1>8, <1>9, <1>10, <1>11, <1>12, <1>13, <1>14, <1>15, <1>16,
     <1>17, <1>18, <1>19, <1>20, <1>21, <1>22, <1>23, <1>24, <1>25, <1>26, <1>27, <1>28,
     <1>29 DEF BuildStep

-----------------------------------------------------------------------------
(* The work on what the build left                                         *)

\* A mission file or a change of one about mission f: every mission before it is
\* completed, and none after it was begun.  A build that could not read the
\* missions may leave them in any order.
Fits(status, f) ==
  /\ status \in [Ids -> MissionStatuses]
  /\ misread \/ \A i \in Ids : (i < f => status[i] = "completed") /\ (i > f => status[i] = "planned")
About(i, f) == i \in 0 .. Last /\ (misread \/ i \in {0, f})
FileFits(p, f) == p = NoPlan \/ (Fits(p.status, f) /\ p.current \in 0 .. Last)

WorkerFile == [status : {"none", "RUNNING", "COMPLETED", "STOPPED", "FAILED"}, cycle : 0 .. MaxCycles]
AwayFrom == {"idle", "starting", "write", "failing", "failed"}
Seat == [at : AwayFrom \cup Inner \cup Outer, cycle : 0 .. MaxCycles, mission : 0 .. Last,
         change : [status : {<<>>} \cup [Ids -> MissionStatuses], current : 0 .. Last],
         base : {<<>>} \cup [Ids -> MissionStatuses],
         next : {"idle", "starting"} \cup Inner \cup Outer]

WorkTypes ==
  /\ workerFile \in WorkerFile
  /\ worker \in [Workers -> Seat]
  /\ crashed \in BOOLEAN /\ together \in BOOLEAN /\ undone \in BOOLEAN /\ blind \in BOOLEAN
  /\ modifying \in {"idle", "diff", "snapshot", "apply", "restored", "modified"}
  /\ before.workerFile \in WorkerFile

SeatFits(e, f) ==
  /\ About(e.mission, f)
  /\ e.at = "write" => Fits(e.change.status, f) /\ e.next \in Inner \cup Outer

\* Everything that is written or may be written is about the same mission
OneMission(f) ==
  /\ FileFits(plan, f) /\ FileFits(before.plan, f)
  /\ \A w \in Workers : SeatFits(worker[w], f)

Active(w) == worker[w].at \notin {"idle", "starting"}
NothingBegun == \A i \in DOMAIN plan.status : plan.status[i] \in {"planned", "completed"}

\* A worker that is alone, with files that it could read and that nothing replaced,
\* says RUNNING until it leaves
Alone ==
  /\ \A w \in Workers : Active(w) =>
       /\ workerFile.status = "RUNNING"
       /\ \A v \in Workers \ {w} : worker[v].at = "idle"
  /\ workerFile.status = "COMPLETED" => NothingBegun

StatusInv == RunningHasWorker /\ (together \/ undone \/ blind \/ Alone)

WorkInv ==
  /\ WorkTypes
  /\ at # "over" => /\ modifying = "idle" /\ before = NoSnapshot /\ workerFile.status = "none"
                    /\ \A w \in Workers : worker[w] = Idle
  /\ at = "over" => \E f \in Ids : OneMission(f)
  /\ StatusInv

\* The least number of a set is in it.
LEMMA MinIn ==
  ASSUME NEW S \in SUBSET Nat, S # {}
  PROVE  Min(S) \in S
<1>1. PICK x \in S : \A y \in S : ~(<<y, x>> \in OpToRel(<, Nat))
  <2> HIDE DEF OpToRel
  <2> QED  BY NatLessThanWellFounded, WFMin
<1>2. \A y \in S : x <= y
  <2> SUFFICES ASSUME NEW y \in S, y < x
               PROVE  FALSE
    OBVIOUS
  <2>1. <<y, x>> \in OpToRel(<, Nat)
    BY DEF OpToRel
  <2> QED  BY <1>1, <2>1
<1> QED  BY <1>2, MinIs

LEMMA FirstIn ==
  ASSUME NEW S \in SUBSET Ids
  PROVE  IF S = {} THEN First(S) = 0 ELSE First(S) \in S /\ First(S) # 0
BY MinIn, IdsFacts DEF First

LEMMA SelectNextIn ==
  ASSUME NEW status \in [Ids -> MissionStatuses]
  PROVE  SelectNext(status) \in 0 .. Last
<1>1. ReadyMissions(status) \subseteq Ids
  BY DEF ReadyMissions
<1> QED  BY <1>1, FirstIn, IdsFacts DEF SelectNext

LEMMA InFits ==
  ASSUME NEW f \in Ids, NEW status, Fits(status, f), NEW kinds,
         "planned" \notin kinds, "completed" \notin kinds
  PROVE  /\ About(In(status, kinds), f)
         /\ In(status, kinds) = 0 => \A i \in Ids : status[i] \notin kinds
<1> DEFINE found == {i \in DOMAIN status : status[i] \in kinds}
<1>1. (misread \/ found \subseteq {f}) /\ found \subseteq Ids /\ DOMAIN status = Ids
  BY IdsFacts DEF Fits
<1>2. IF found = {} THEN First(found) = 0 ELSE First(found) \in found /\ First(found) # 0
  BY <1>1, FirstIn
<1> HIDE DEF found
<1>3. First(found) \in 0 .. Last /\ (misread \/ First(found) \in {0, f})
  <2>1. First(found) \in 0 .. Last
    <3>1. found \subseteq Ids
      BY <1>1
    <3>2. First(found) = 0 \/ First(found) \in Ids
      BY <1>2, <3>1
    <3> QED  BY <3>2, IdsFacts
  <2>2. found \subseteq {f} => First(found) \in {0, f}
    BY <1>2
  <2> QED  BY <1>1, <2>1, <2>2
<1>4. First(found) = 0 => found = {}
  BY <1>2
<1> QED  BY <1>1, <1>3, <1>4 DEF In, found, About

\* The worker finds the one mission, or nothing that it could start.
LEMMA CandidateFits ==
  ASSUME NEW f \in Ids, Fits(plan.status, f), plan.current \in 0 .. Last
  PROVE  /\ About(Candidate(plan), f)
         /\ Candidate(plan) = 0 => NothingBegun
<1>1. /\ About(In(plan.status, {"running"}), f)
      /\ In(plan.status, {"running"}) = 0 => \A i \in Ids : plan.status[i] \notin {"running"}
  BY InFits
<1>2. /\ About(In(plan.status, {"ready", "failed"}), f)
      /\ In(plan.status, {"ready", "failed"}) = 0 => \A i \in Ids : plan.status[i] \notin {"ready", "failed"}
  BY InFits
<1>3. plan.current # 0 /\ plan.status[plan.current] \in {"ready", "running", "failed"} => About(plan.current, f)
  BY IdsFacts DEF Fits, About
<1>4. About(Candidate(plan), f)
  BY <1>1, <1>2, <1>3 DEF Candidate
<1>5. ASSUME Candidate(plan) = 0 PROVE NothingBegun
  <2>1. In(plan.status, {"running"}) = 0 /\ In(plan.status, {"ready", "failed"}) = 0
    BY <1>5 DEF Candidate
  <2> QED  BY <1>1, <1>2, <2>1 DEF NothingBegun, Fits, MissionStatuses
<1> QED  BY <1>4, <1>5

\* The current mission of a rewritten file is a mission or none.
LEMMA CurrentIn ==
  ASSUME NEW change, change.status \in [Ids -> MissionStatuses], change.current \in 0 .. Last,
         NEW previous \in 0 .. Last
  PROVE  CurrentOf(change, previous) \in 0 .. Last
<1> DEFINE candidates == <<change.current, previous, In(change.status, {"running"}),
                           In(change.status, {"ready"})>>
           named == {k \in 1 .. 4 : candidates[k] # 0}
<1>1. \A kinds : In(change.status, kinds) \in 0 .. Last
  <2> SUFFICES ASSUME NEW kinds
               PROVE  In(change.status, kinds) \in 0 .. Last
    OBVIOUS
  <2> DEFINE found == {i \in DOMAIN change.status : change.status[i] \in kinds}
  <2>1. found \subseteq Ids
    OBVIOUS
  <2> QED  BY <2>1, FirstIn, IdsFacts DEF In
<1>2. \A k \in 1 .. 4 : candidates[k] \in 0 .. Last
  BY <1>1
<1>3. named # {} => Min(named) \in 1 .. 4
  <2>1. named \in SUBSET Nat
    OBVIOUS
  <2> HIDE DEF candidates
  <2> QED  BY <2>1, MinIn
<1>4. CurrentOf(change, previous) = IF named = {} THEN 0 ELSE candidates[Min(named)]
  BY DEF CurrentOf
<1> HIDE DEF candidates, named
<1> QED  BY <1>2, <1>3, <1>4, IdsFacts

-----------------------------------------------------------------------------
(* The steps of a worker                                                   *)

\* A file that fits, or a change that was made of one
Changes == [status : {<<>>} \cup [Ids -> MissionStatuses], current : 0 .. Last]

LEMMA LoadedFits ==
  ASSUME NEW f \in Ids, FileFits(plan, f), NEW loaded \in Loads
  PROVE  /\ FileFits(loaded, f)
         /\ loaded # NoPlan => loaded = plan /\ Fits(loaded.status, f)
BY DEF Loads, FileFits

\* A file that could not be read is remembered.
Noted == blind' \in BOOLEAN /\ (blind => blind')

LEMMA SeesNotes ==
  ASSUME WorkTypes, NEW loaded \in Loads, Sees(loaded)
  PROVE  Noted /\ (~blind' => loaded = plan)
BY DEF WorkTypes, Sees, Noted

LEMMA SetFits ==
  ASSUME NEW f \in Ids, NEW status, Fits(status, f), NEW i, About(i, f), NEW s \in MissionStatuses
  PROVE  Fits([status EXCEPT ![i] = s], f)
<1>1. /\ [status EXCEPT ![i] = s] \in [Ids -> MissionStatuses]
      /\ misread \/ \A k \in Ids \ {f} : [status EXCEPT ![i] = s][k] = status[k]
  <2>1. status \in [Ids -> MissionStatuses]
    BY DEF Fits
  <2>2. \A k \in Ids : [status EXCEPT ![i] = s][k] = IF k = i THEN s ELSE status[k]
    BY <2>1
  <2>3. 0 \notin Ids
    BY IdsFacts
  <2> QED  BY <2>1, <2>2, <2>3 DEF About
<1> QED  BY <1>1, IdsFacts DEF Fits

\* Each call of the mission manager keeps to the one mission.
LEMMA CallsFit ==
  ASSUME NEW f \in Ids, NEW status, Fits(status, f), NEW i, About(i, f)
  PROVE  \A c \in {Starting(status, i), Completing(status, i), Failing(status, i),
                   Checkpointing(status, i), Resuming(status)} :
           c \in Changes /\ Fits(c.status, f)
<1>0. i \in 0 .. Last /\ status \in [Ids -> MissionStatuses]
  BY IdsFacts DEF Fits, About
<1>1. Starting(status, i) \in Changes /\ Fits(Starting(status, i).status, f)
  <2>1. Fits([status EXCEPT ![i] = "running"], f)
    BY SetFits DEF MissionStatuses
  <2> QED  BY <1>0, <2>1 DEF Starting, Changes, Fits
<1>2. Completing(status, i) \in Changes /\ Fits(Completing(status, i).status, f)
  <2>1. Fits([status EXCEPT ![i] = "completed"], f)
    BY SetFits DEF MissionStatuses
  <2>2. SelectNext([status EXCEPT ![i] = "completed"]) \in 0 .. Last
    BY <2>1, SelectNextIn DEF Fits
  <2> QED  BY <2>1, <2>2 DEF Completing, Changes, Fits
<1>3. Failing(status, i) \in Changes /\ Fits(Failing(status, i).status, f)
  <2>1. Fits([status EXCEPT ![i] = "failed"], f)
    BY SetFits DEF MissionStatuses
  <2> QED  BY <1>0, <2>1 DEF Failing, Changes, Fits
<1>4. Checkpointing(status, i) \in Changes /\ Fits(Checkpointing(status, i).status, f)
  BY <1>0 DEF Checkpointing, Changes
<1>5. Resuming(status) \in Changes /\ Fits(Resuming(status).status, f)
  <2> DEFINE resumed == [k \in DOMAIN status |-> IF k \in Recoverable(status) THEN "ready" ELSE status[k]]
  <2>1. Fits(resumed, f)
    BY <1>0, IdsFacts DEF Fits, Recoverable, MissionStatuses
  <2>2. SelectNext(resumed) \in 0 .. Last
    <3> HIDE DEF resumed
    <3> QED  BY <2>1, SelectNextIn DEF Fits
  <2>3. Resuming(status) = [status |-> resumed, current |-> SelectNext(resumed)]
    BY DEF Resuming
  <2> HIDE DEF resumed
  <2> QED  BY <2>1, <2>2, <2>3 DEF Changes, Fits
<1> QED  BY <1>1, <1>2, <1>3, <1>4, <1>5

\* What a step of worker w does to the files and to the worker
Moved(w, f) ==
  /\ worker' \in [Workers -> Seat] /\ \A v \in Workers \ {w} : worker'[v] = worker[v]
  /\ SeatFits(worker'[w], f)
  /\ workerFile' \in WorkerFile
  /\ crashed' \in BOOLEAN /\ together' \in BOOLEAN /\ undone' \in BOOLEAN /\ Noted
  /\ FileFits(plan', f)

Stays(w) ==
  /\ Active(w) /\ Active(w)'
  /\ workerFile' = workerFile \/ workerFile'.status = "RUNNING"
  /\ undone => undone'
  /\ Noted
  /\ UNCHANGED <<crashed, together>>

Leaves(w) ==
  /\ Active(w) /\ worker'[w].at = "idle"
  /\ workerFile'.status # "RUNNING"
  /\ Noted
  /\ workerFile'.status = "COMPLETED" /\ ~together /\ ~undone /\ ~blind' => NothingBegun
  /\ UNCHANGED <<plan, crashed, together, undone>>

LEMMA StaysKeeps ==
  ASSUME StatusInv, NEW w \in Workers, Stays(w),
         \A v \in Workers \ {w} : worker'[v] = worker[v]
  PROVE  StatusInv'
<1>1. RunningHasWorker'
  BY DEF Stays, Active, RunningHasWorker
<1>2. ASSUME ~together', ~undone', ~blind'
      PROVE  /\ workerFile'.status = "RUNNING"
             /\ \A v \in Workers \ {w} : worker'[v].at = "idle"
  <2>1. ~together /\ ~undone /\ ~blind /\ Active(w)
    BY <1>2 DEF Stays, Noted
  <2>2. workerFile.status = "RUNNING" /\ \A v \in Workers \ {w} : worker[v].at = "idle"
    BY <2>1 DEF StatusInv, Alone
  <2> QED  BY <2>2 DEF Stays
<1> QED  BY <1>1, <1>2 DEF StatusInv, Alone, Active

LEMMA LeavesKeeps ==
  ASSUME StatusInv, NEW w \in Workers, Leaves(w),
         \A v \in Workers \ {w} : worker'[v] = worker[v]
  PROVE  StatusInv'
<1>1. RunningHasWorker'
  BY DEF Leaves, RunningHasWorker
<1>2. ASSUME ~together', ~undone', ~blind', NEW v \in Workers
      PROVE  worker'[v].at = "idle"
  <2>1. ~together /\ ~undone /\ ~blind /\ Active(w)
    BY <1>2 DEF Leaves, Noted
  <2>2. \A u \in Workers \ {w} : worker[u].at = "idle"
    BY <2>1 DEF StatusInv, Alone
  <2> QED  BY <2>2 DEF Leaves
<1>3. NothingBegun' = NothingBegun
  BY DEF NothingBegun, Leaves
<1> QED  BY <1>1, <1>2, <1>3 DEF StatusInv, Alone, Active, Leaves

\* A worker that goes from one place to another keeps everything but its place.
LEMMA Goes ==
  ASSUME WorkTypes, NEW f \in Ids, OneMission(f), NEW w \in Workers,
         NEW stage \in Inner \cup Outer \cup {"failing", "failed"}, Go(w, stage),
         workerFile' \in WorkerFile, workerFile' = workerFile \/ workerFile'.status = "RUNNING",
         together' \in BOOLEAN, Noted, UNCHANGED <<plan, crashed, undone>>
  PROVE  /\ Moved(w, f)
         /\ Active(w)'
         /\ Active(w) /\ together' = together => Stays(w)
<1> DEFINE e == [worker[w] EXCEPT !.at = stage]
<1>1. worker[w] \in Seat /\ SeatFits(worker[w], f)
  BY DEF WorkTypes, OneMission
<1>2. e \in Seat /\ e.at = stage /\ e.mission = worker[w].mission
  BY <1>1 DEF Seat, AwayFrom
<1>3. SeatFits(e, f)
  BY <1>1, <1>2 DEF SeatFits, Inner, Outer
<1>4. worker' = [worker EXCEPT ![w] = e]
  BY DEF Go
<1> HIDE DEF e
<1>5. /\ worker' \in [Workers -> Seat] /\ worker'[w] = e
      /\ \A v \in Workers \ {w} : worker'[v] = worker[v]
  BY <1>2, <1>4 DEF WorkTypes
<1>6. Active(w)'
  BY <1>2, <1>5 DEF Active, Inner, Outer
<1> QED  BY <1>3, <1>5, <1>6 DEF Moved, Stays, WorkTypes, OneMission

\* A worker that has called the mission manager holds a change that fits.
LEMMA CallsManager ==
  ASSUME WorkTypes, NEW f \in Ids, OneMission(f), NEW w \in Workers, Active(w),
         NEW loaded \in Loads, loaded # NoPlan, Noted,
         NEW c \in {Starting(loaded.status, worker[w].mission), Completing(loaded.status, worker[w].mission),
                    Failing(loaded.status, worker[w].mission), Checkpointing(loaded.status, worker[w].mission),
                    Resuming(loaded.status)},
         NEW next \in Inner \cup Outer, Change(w, loaded, c, next),
         UNCHANGED <<plan, workerFile, crashed, together, undone>>
  PROVE  Moved(w, f) /\ Stays(w)
<1> DEFINE e == [worker[w] EXCEPT !.at = "write", !.change = c, !.base = loaded.status, !.next = next]
<1>1. worker[w] \in Seat /\ SeatFits(worker[w], f) /\ About(worker[w].mission, f)
  BY DEF WorkTypes, OneMission, SeatFits
<1>2. Fits(loaded.status, f)
  BY LoadedFits DEF OneMission
<1>3. c \in Changes /\ Fits(c.status, f)
  BY <1>1, <1>2, CallsFit
<1>4. loaded.status \in [Ids -> MissionStatuses]
  BY <1>2 DEF Fits
<1>5. e \in Seat /\ e.at = "write" /\ e.mission = worker[w].mission /\ e.change = c /\ e.next = next
  BY <1>1, <1>3, <1>4 DEF Seat, Changes, AwayFrom
<1>6. SeatFits(e, f)
  BY <1>1, <1>3, <1>5 DEF SeatFits
<1>7. worker' = [worker EXCEPT ![w] = e]
  BY DEF Change
<1> HIDE DEF e
<1>8. /\ worker' \in [Workers -> Seat] /\ worker'[w] = e
      /\ \A v \in Workers \ {w} : worker'[v] = worker[v]
  BY <1>5, <1>7 DEF WorkTypes
<1>9. Active(w)'
  BY <1>5, <1>8 DEF Active
<1> QED  BY <1>6, <1>8, <1>9 DEF Moved, Stays, WorkTypes, OneMission

\* A worker that leaves is idle again.
LEMMA Departs ==
  ASSUME WorkTypes, NEW f \in Ids, OneMission(f), NEW w \in Workers, Leave(w),
         workerFile' \in WorkerFile, crashed' \in BOOLEAN, Noted, UNCHANGED <<plan, together, undone>>
  PROVE  Moved(w, f) /\ worker'[w].at = "idle"
<1>1. Idle \in Seat /\ Idle.at = "idle" /\ Idle.mission = 0
  BY IdsFacts, WorkerAssumption DEF Idle, NoChange, Seat, AwayFrom
<1>2. SeatFits(Idle, f)
  BY <1>1, IdsFacts DEF SeatFits, About
<1>3. worker' = [worker EXCEPT ![w] = Idle]
  BY DEF Leave
<1>4. /\ worker' \in [Workers -> Seat] /\ worker'[w] = Idle
      /\ \A v \in Workers \ {w} : worker'[v] = worker[v]
  BY <1>1, <1>3 DEF WorkTypes
<1> QED  BY <1>1, <1>2, <1>4 DEF Moved, WorkTypes, OneMission

\* A call of the manager on a file that is there and has something to resume.
LEMMA ResumesThen ==
  ASSUME WorkTypes, NEW f \in Ids, OneMission(f), NEW w \in Workers, Active(w),
         NEW loaded \in Loads, NEW next \in Inner \cup Outer, ResumeThen(w, loaded, next), Noted,
         UNCHANGED <<plan, workerFile, crashed, together, undone>>
  PROVE  Moved(w, f) /\ Stays(w)
<1>1. CASE Recoverable(loaded.status) = {}
  BY <1>1, Goes DEF ResumeThen, WorkTypes
<1>2. CASE Recoverable(loaded.status) # {}
  <2>1. loaded # NoPlan
    BY <1>2 DEF NoPlan, Recoverable
  <2> QED  BY <1>2, <2>1, CallsManager DEF ResumeThen
<1> QED  BY <1>1, <1>2

LEMMA NoChangeIn == NoChange \in Changes
BY IdsFacts DEF NoChange, Changes

LEMMA WriteMoves ==
  ASSUME WorkTypes, NEW f \in Ids, OneMission(f), NEW w \in Workers, Write(w)
  PROVE  Moved(w, f) /\ Stays(w)
<1> DEFINE e == [worker[w] EXCEPT !.at = worker[w].next, !.change = NoChange, !.base = <<>>, !.next = "idle"]
<1>1. worker[w] \in Seat /\ SeatFits(worker[w], f) /\ worker[w].at = "write"
  BY DEF WorkTypes, OneMission, Write, Is
<1>2. worker[w].next \in Inner \cup Outer /\ Fits(worker[w].change.status, f)
  BY <1>1 DEF SeatFits
<1>3. e \in Seat /\ e.at = worker[w].next /\ e.mission = worker[w].mission
  BY <1>1, <1>2, NoChangeIn DEF Seat, Changes
<1>4. SeatFits(e, f)
  BY <1>1, <1>2, <1>3 DEF SeatFits, Inner, Outer
<1>5. worker' = [worker EXCEPT ![w] = e]
  BY DEF Write
<1> HIDE DEF e
<1>6. /\ worker' \in [Workers -> Seat] /\ worker'[w] = e
      /\ \A v \in Workers \ {w} : worker'[v] = worker[v]
  BY <1>3, <1>5 DEF WorkTypes
<1>7. Active(w) /\ Active(w)'
  BY <1>1, <1>2, <1>3, <1>6 DEF Active, Inner, Outer
<1>8. PICK previous \in Loads : Sees(previous) /\ Record(worker[w].change, previous)
  BY DEF Write
<1>13. previous.current \in 0 .. Last /\ Noted
  BY <1>8, IdsFacts, SeesNotes DEF OneMission, FileFits, NoPlan, Loads
<1>9. worker[w].change.status \in [Ids -> MissionStatuses] /\ worker[w].change.current \in 0 .. Last
  BY <1>1, <1>2 DEF Fits, Seat
<1>10. CurrentOf(worker[w].change, previous.current) \in 0 .. Last
  BY <1>13, <1>9, CurrentIn
<1>11. FileFits(plan', f)
  BY <1>2, <1>8, <1>10 DEF Record, FileFits
<1>12. /\ workerFile' = workerFile /\ crashed' = crashed /\ together' = together
       /\ undone' \in BOOLEAN /\ (undone => undone')
  BY DEF Write, WorkTypes
<1> QED  BY <1>4, <1>6, <1>7, <1>11, <1>12, <1>13 DEF Moved, Stays, WorkTypes

LEMMA SelectMoves ==
  ASSUME WorkTypes, StatusInv, NEW f \in Ids, OneMission(f), NEW w \in Workers, Select(w)
  PROVE  Moved(w, f) /\ (Stays(w) \/ Leaves(w))
<1>0. Active(w) /\ worker[w] \in Seat /\ SeatFits(worker[w], f)
  BY DEF Select, Is, Active, WorkTypes, OneMission
<1>1. CASE ~Underway(worker[w].cycle)
  <2>1. Noted
    BY <1>1 DEF Select, Noted, WorkTypes
  <2> QED  BY <1>0, <1>1, <2>1, Goes DEF Select, Outer, WorkTypes
<1>2. CASE Underway(worker[w].cycle)
  <2>1. PICK loaded \in Loads :
          LET found == IF loaded = NoPlan THEN 0 ELSE Candidate(loaded)
              cycle == worker[w].cycle + 1
          IN  /\ Sees(loaded)
              /\ IF found = 0
                 THEN SaveStatus("COMPLETED", worker[w].cycle) /\ Leave(w)
                 ELSE /\ SaveStatus("RUNNING", cycle)
                      /\ worker' = [worker EXCEPT ![w] = [@ EXCEPT !.at = "reload", !.cycle = cycle, !.mission = found]]
    BY <1>2 DEF Select
  <2>2. /\ loaded # NoPlan => loaded = plan /\ Fits(plan.status, f) /\ plan.current \in 0 .. Last
        /\ Noted /\ (~blind' => loaded = plan)
    BY <2>1, LoadedFits, SeesNotes DEF OneMission, FileFits
  <2>3. loaded # NoPlan => /\ About(Candidate(plan), f)
                           /\ Candidate(plan) = 0 => NothingBegun
    BY <2>2, CandidateFits
  <2> DEFINE found == IF loaded = NoPlan THEN 0 ELSE Candidate(loaded)
             cycle == worker[w].cycle + 1
  <2>4. About(found, f)
    BY <2>2, <2>3, IdsFacts DEF About
  <2>5. UNCHANGED <<plan, crashed, together, undone>>
    BY DEF Select
  <2>6. CASE found = 0
    <3>1. SaveStatus("COMPLETED", worker[w].cycle) /\ Leave(w)
      BY <2>1, <2>6
    <3>2. workerFile' \in WorkerFile /\ workerFile'.status = "COMPLETED"
      BY <1>0, <3>1 DEF SaveStatus, WorkerFile, Seat
    <3>3. Moved(w, f) /\ worker'[w].at = "idle"
      BY <2>2, <2>5, <3>1, <3>2, Departs DEF WorkTypes
    <3>4. ~blind' => NothingBegun
      BY <2>2, <2>3, <2>6 DEF NothingBegun, NoPlan
    <3> QED  BY <1>0, <2>2, <2>5, <3>2, <3>3, <3>4 DEF Leaves
  <2>7. CASE found # 0
    <3> DEFINE e == [worker[w] EXCEPT !.at = "reload", !.cycle = cycle, !.mission = found]
    <3>1. SaveStatus("RUNNING", cycle) /\ worker' = [worker EXCEPT ![w] = e]
      BY <2>1, <2>7
    <3>2. cycle \in 0 .. MaxCycles
      BY <1>0, <1>2, WorkerAssumption DEF Underway, Seat
    <3>3. found \in 0 .. Last
      BY <2>4 DEF About
    <3> HIDE DEF found, cycle
    <3>4. e \in Seat /\ e.at = "reload" /\ e.mission = found
      BY <1>0, <3>2, <3>3 DEF Seat, Outer
    <3>5. SeatFits(e, f)
      BY <2>4, <3>4 DEF SeatFits
    <3> HIDE DEF e
    <3>6. /\ worker' \in [Workers -> Seat] /\ worker'[w] = e
          /\ \A v \in Workers \ {w} : worker'[v] = worker[v]
      BY <3>1, <3>4 DEF WorkTypes
    <3>7. workerFile' \in WorkerFile /\ workerFile'.status = "RUNNING"
      BY <3>1, <3>2 DEF SaveStatus, WorkerFile
    <3>8. Active(w)'
      BY <3>4, <3>6 DEF Active
    <3> QED  BY <1>0, <2>2, <2>5, <3>5, <3>6, <3>7, <3>8 DEF Moved, Stays, WorkTypes, OneMission
  <2> QED  BY <2>6, <2>7
<1> QED  BY <1>1, <1>2

LEMMA EndCycleMoves ==
  ASSUME WorkTypes, StatusInv, NEW f \in Ids, OneMission(f), NEW w \in Workers, EndCycle(w)
  PROVE  Moved(w, f) /\ (Stays(w) \/ Leaves(w))
<1>0. Active(w) /\ worker[w] \in Seat
  BY DEF EndCycle, Is, Active, WorkTypes
<1>1. PICK loaded \in Loads :
        /\ Sees(loaded)
        /\ IF \A i \in DOMAIN loaded.status : loaded.status[i] = "completed"
           THEN SaveStatus("COMPLETED", worker[w].cycle) /\ Leave(w)
           ELSE Go(w, "select") /\ UNCHANGED workerFile
  BY DEF EndCycle
<1>2. UNCHANGED <<plan, crashed, together, undone>>
  BY DEF EndCycle
<1>5. Noted /\ (~blind' => loaded = plan)
  BY <1>1, SeesNotes
<1>3. CASE \A i \in DOMAIN loaded.status : loaded.status[i] = "completed"
  <2>1. SaveStatus("COMPLETED", worker[w].cycle) /\ Leave(w)
    BY <1>1, <1>3
  <2>2. workerFile' \in WorkerFile /\ workerFile'.status = "COMPLETED"
    BY <1>0, <2>1 DEF SaveStatus, WorkerFile, Seat
  <2>3. Moved(w, f) /\ worker'[w].at = "idle"
    BY <1>2, <1>5, <2>1, <2>2, Departs DEF WorkTypes
  <2>4. ~blind' => NothingBegun
    BY <1>3, <1>5 DEF NothingBegun
  <2> QED  BY <1>0, <1>2, <1>5, <2>2, <2>3, <2>4 DEF Leaves
<1>4. CASE ~(\A i \in DOMAIN loaded.status : loaded.status[i] = "completed")
  BY <1>0, <1>1, <1>2, <1>4, <1>5, Goes DEF Outer, WorkTypes
<1> QED  BY <1>3, <1>4

LEMMA ThrowMoves ==
  ASSUME WorkTypes, NEW f \in Ids, OneMission(f), NEW w \in Workers, WorkerThrows(w)
  PROVE  Moved(w, f) /\ Stays(w)
<1>1. PICK stage \in {"failing", "failed"} :
        worker' = [worker EXCEPT ![w] = [@ EXCEPT !.at = stage, !.change = NoChange, !.base = <<>>, !.next = "idle"]]
  BY DEF WorkerThrows
<1> DEFINE e == [worker[w] EXCEPT !.at = stage, !.change = NoChange, !.base = <<>>, !.next = "idle"]
<1>2. worker[w] \in Seat /\ SeatFits(worker[w], f)
  BY DEF WorkTypes, OneMission
<1>3. e \in Seat /\ e.at = stage /\ e.mission = worker[w].mission
  BY <1>2, NoChangeIn DEF Seat, Changes, AwayFrom
<1>4. SeatFits(e, f)
  BY <1>2, <1>3 DEF SeatFits
<1>5. worker' = [worker EXCEPT ![w] = e]
  BY <1>1
<1> HIDE DEF e
<1>6. /\ worker' \in [Workers -> Seat] /\ worker'[w] = e
      /\ \A v \in Workers \ {w} : worker'[v] = worker[v]
  BY <1>3, <1>5 DEF WorkTypes
<1>7. Active(w) /\ Active(w)'
  <2>1. Active(w)
    BY DEF WorkerThrows, Is, Active, Inner, Outer
  <2> QED  BY <1>3, <1>6, <2>1 DEF Active
<1>8. UNCHANGED <<plan, workerFile, crashed, together, undone>> /\ Noted
  BY DEF WorkerThrows, Noted, WorkTypes
<1> QED  BY <1>4, <1>6, <1>7, <1>8 DEF Moved, Stays, WorkTypes, OneMission

LEMMA LoadMoves ==
  ASSUME WorkTypes, StatusInv, NEW f \in Ids, OneMission(f), NEW w \in Workers, Load(w)
  PROVE  Moved(w, f) /\ StatusInv'
<1>10. PICK cycle \in {workerFile.cycle, 0} :
         /\ \/ workerFile.status # "RUNNING" /\ UNCHANGED blind
            \/ blind' = TRUE
         /\ worker' = [worker EXCEPT ![w].at = "starting", ![w].cycle = cycle]
  BY DEF Load
<1> DEFINE e == [worker[w] EXCEPT !.at = "starting", !.cycle = cycle]
<1>1. worker[w] \in Seat /\ SeatFits(worker[w], f) /\ workerFile \in WorkerFile /\ Noted
  BY <1>10 DEF WorkTypes, OneMission, Noted
<1>11. cycle \in 0 .. MaxCycles
  BY <1>1, <1>10, WorkerAssumption DEF WorkerFile
<1>2. e \in Seat /\ e.at = "starting" /\ e.mission = worker[w].mission
  BY <1>1, <1>11 DEF Seat, AwayFrom
<1>3. SeatFits(e, f)
  BY <1>1, <1>2 DEF SeatFits
<1>4. worker' = [worker EXCEPT ![w] = e]
  BY <1>10
<1> HIDE DEF e
<1>5. /\ worker' \in [Workers -> Seat] /\ worker'[w] = e
      /\ \A v \in Workers \ {w} : worker'[v] = worker[v]
  BY <1>2, <1>4 DEF WorkTypes
<1>6. UNCHANGED <<plan, workerFile, crashed, together, undone>> /\ worker[w].at = "idle"
  BY DEF Load, Is
<1>7. RunningHasWorker'
  BY <1>5, <1>6 DEF RunningHasWorker, StatusInv
<1>8. \A v \in Workers : Active(v)' => Active(v)
  BY <1>2, <1>5 DEF Active
<1>9. NothingBegun' = NothingBegun
  BY <1>6 DEF NothingBegun
<1>12. CASE blind'
  BY <1>1, <1>3, <1>5, <1>6, <1>7, <1>12 DEF Moved, WorkTypes, OneMission, StatusInv
<1>13. CASE ~blind'
  <2>1. workerFile.status # "RUNNING" /\ ~blind
    BY <1>10, <1>13
  <2>2. together \/ undone \/ Alone
    BY <2>1 DEF StatusInv
  <2>3. together' \/ undone' \/ Alone'
    BY <1>5, <1>6, <1>8, <1>9, <2>1, <2>2 DEF Alone
  <2> QED  BY <1>1, <1>3, <1>5, <1>6, <1>7, <2>3 DEF Moved, WorkTypes, OneMission, StatusInv
<1> QED  BY <1>12, <1>13

LEMMA StartMoves ==
  ASSUME WorkTypes, StatusInv, NEW f \in Ids, OneMission(f), NEW w \in Workers, Start(w)
  PROVE  Moved(w, f) /\ StatusInv'
<1>1. worker[w] \in Seat
  BY DEF WorkTypes
<1>2. workerFile' \in WorkerFile /\ workerFile'.status = "RUNNING"
  BY <1>1 DEF Start, SaveStatus, WorkerFile, Seat
<1>3. /\ UNCHANGED <<plan, crashed, undone>> /\ Go(w, "resume") /\ together' \in BOOLEAN
      /\ Noted
  BY DEF Start, WorkTypes, Noted
<1>4. Moved(w, f) /\ Active(w)'
  BY <1>2, <1>3, Goes DEF Outer
<1>5. RunningHasWorker'
  BY <1>4 DEF RunningHasWorker, Active
<1>6. ~together' => \A v \in Workers \ {w} : worker'[v].at = "idle"
  BY <1>4 DEF Start, Is, Moved
<1> QED  BY <1>2, <1>4, <1>5, <1>6 DEF StatusInv, Alone, Active

LEMMA CrashMoves ==
  ASSUME WorkTypes, StatusInv, NEW f \in Ids, OneMission(f), NEW w \in Workers, Crash(w)
  PROVE  Moved(w, f) /\ StatusInv'
<1>1. UNCHANGED <<plan, workerFile, together, undone, blind>> /\ crashed' = TRUE /\ Leave(w) /\ Noted
  BY DEF Crash, Noted, WorkTypes
<1>2. Moved(w, f) /\ worker'[w].at = "idle"
  BY <1>1, Departs DEF WorkTypes
<1>3. RunningHasWorker'
  BY <1>1 DEF RunningHasWorker
<1>4. \A v \in Workers : worker'[v].at = worker[v].at \/ worker'[v].at = "idle"
  BY <1>2 DEF Moved
<1>5. NothingBegun' = NothingBegun
  BY <1>1 DEF NothingBegun
<1> QED  BY <1>1, <1>2, <1>3, <1>4, <1>5 DEF StatusInv, Alone, Active

\* Every step of a worker keeps the work in order.
LEMMA WorkerKeeps ==
  ASSUME WorkInv, at = "over", WorkerStep, UNCHANGED <<at, modifying, before, misread>>
  PROVE  WorkInv'
<1>0. WorkTypes /\ StatusInv
  BY DEF WorkInv
<1>1. PICK f \in Ids : OneMission(f)
  BY DEF WorkInv
<1>2. PICK w \in Workers :
        \/ Load(w) \/ Start(w) \/ Resume(w) \/ Write(w) \/ Select(w) \/ Reload(w)
        \/ StartMission(w) \/ Execute(w) \/ CompleteMission(w) \/ FailMission(w) \/ NoteError(w)
        \/ EndCycle(w) \/ Stop(w) \/ WorkerThrows(w) \/ FailWorker(w) \/ Crash(w)
  BY DEF WorkerStep
<1>3. SUFFICES Moved(w, f) /\ (Stays(w) \/ Leaves(w) \/ StatusInv')
  <2>1. StatusInv'
    BY <1>0, <1>3, StaysKeeps, LeavesKeeps DEF Moved
  <2>2. OneMission(f)'
    BY <1>1, <1>3 DEF OneMission, Moved, FileFits, SeatFits, Fits, About
  <2>3. WorkTypes'
    BY <1>0, <1>3 DEF WorkTypes, Moved, Noted
  <2> QED  BY <2>1, <2>2, <2>3 DEF WorkInv
<1>4. worker[w] \in Seat /\ workerFile \in WorkerFile
  BY <1>0 DEF WorkTypes
<1>5. CASE Load(w)
  BY <1>0, <1>1, <1>5, LoadMoves
<1>6. CASE Start(w)
  BY <1>0, <1>1, <1>6, StartMoves
<1>7. CASE Resume(w)
  <2>1. Active(w) /\ UNCHANGED <<plan, workerFile, crashed, together, undone>>
    BY <1>7 DEF Resume, Is, Active
  <2>2. PICK loaded \in Loads : Sees(loaded) /\ ResumeThen(w, loaded, "select")
    BY <1>7 DEF Resume
  <2>3. Noted
    BY <1>0, <2>2, SeesNotes
  <2> QED  BY <1>0, <1>1, <2>1, <2>2, <2>3, ResumesThen DEF Outer
<1>8. CASE Write(w)
  BY <1>0, <1>1, <1>8, WriteMoves
<1>9. CASE Select(w)
  BY <1>0, <1>1, <1>9, SelectMoves
<1>10. CASE Reload(w)
  <2>1. Active(w) /\ UNCHANGED <<plan, workerFile, crashed, together, undone>>
    BY <1>10 DEF Reload, Is, Active
  <2>2. PICK loaded \in Loads : Sees(loaded) /\ (ResumeThen(w, loaded, "active") \/ Go(w, "active"))
    BY <1>10 DEF Reload
  <2>3. Noted
    BY <1>0, <2>2, SeesNotes
  <2> QED  BY <1>0, <1>1, <1>4, <2>1, <2>2, <2>3, ResumesThen, Goes DEF Outer, WorkTypes
<1>11. CASE StartMission(w)
  <2>1. Active(w) /\ UNCHANGED <<plan, workerFile, crashed, together, undone>>
    BY <1>11 DEF StartMission, Is, Active
  <2>2. PICK loaded \in Loads :
          /\ Sees(loaded) \/ blind' = TRUE
          /\ \/ Go(w, "select") \/ Go(w, "execute")
             \/ loaded # NoPlan /\ Change(w, loaded, Starting(loaded.status, worker[w].mission), "execute")
    <3>1. plan \in Loads
      BY DEF Loads
    <3> QED  BY <1>11, <3>1 DEF StartMission
  <2>3. Noted
    BY <1>0, <2>2, SeesNotes DEF Noted
  <2> QED  BY <2>3, <1>0, <1>1, <1>4, <2>1, <2>2, CallsManager, Goes DEF Inner, Outer, WorkTypes
<1>12. CASE Execute(w)
  <2>1. Active(w) /\ UNCHANGED <<plan, workerFile, crashed, together, undone>>
    BY <1>12 DEF Execute, Is, Active
  <2>2. PICK loaded \in Loads, next \in {"completing", "after"} :
          /\ Sees(loaded)
          /\ \/ Go(w, next)
             \/ loaded # NoPlan /\ Change(w, loaded, Checkpointing(loaded.status, worker[w].mission), next)
    BY <1>12 DEF Execute
  <2>3. Noted
    BY <1>0, <2>2, SeesNotes
  <2> QED  BY <2>3, <1>0, <1>1, <1>4, <2>1, <2>2, CallsManager, Goes DEF Inner, Outer, WorkTypes
<1>13. CASE CompleteMission(w)
  <2>1. Active(w) /\ UNCHANGED <<plan, workerFile, crashed, together, undone>>
    BY <1>13 DEF CompleteMission, Is, Active
  <2>2. PICK loaded \in Loads :
          /\ Sees(loaded)
          /\ \/ Go(w, "failing")
             \/ loaded # NoPlan /\ Change(w, loaded, Completing(loaded.status, worker[w].mission), "after")
    BY <1>13 DEF CompleteMission
  <2>3. Noted
    BY <1>0, <2>2, SeesNotes
  <2> QED  BY <2>3, <1>0, <1>1, <1>4, <2>1, <2>2, CallsManager, Goes DEF Outer, WorkTypes
<1>14. CASE FailMission(w)
  <2>1. Active(w) /\ UNCHANGED <<plan, workerFile, crashed, together, undone>>
    BY <1>14 DEF FailMission, Is, Active
  <2>2. PICK loaded \in Loads :
          /\ Sees(loaded)
          /\ \/ Go(w, "failed")
             \/ loaded # NoPlan /\ Change(w, loaded, Failing(loaded.status, worker[w].mission), "noting")
    BY <1>14 DEF FailMission
  <2>3. Noted
    BY <1>0, <2>2, SeesNotes
  <2> QED  BY <2>3, <1>0, <1>1, <1>4, <2>1, <2>2, CallsManager, Goes DEF Outer, WorkTypes
<1>15. CASE NoteError(w)
  <2>1. Active(w) /\ UNCHANGED <<plan, crashed, together, undone>> /\ Go(w, "after") /\ Noted
    BY <1>0, <1>15 DEF NoteError, Is, Active, Noted, WorkTypes
  <2>2. workerFile' \in WorkerFile /\ workerFile'.status = "RUNNING"
    BY <1>4, <1>15 DEF NoteError, SaveStatus, WorkerFile, Seat
  <2> QED  BY <1>0, <1>1, <2>1, <2>2, Goes DEF Outer, WorkTypes
<1>16. CASE EndCycle(w)
  BY <1>0, <1>1, <1>16, EndCycleMoves
<1>17. CASE Stop(w)
  <2>1. Active(w) /\ UNCHANGED <<plan, crashed, together, undone>> /\ Leave(w) /\ Noted
    BY <1>0, <1>17 DEF Stop, Is, Active, Noted, WorkTypes
  <2>2. workerFile' \in WorkerFile /\ workerFile'.status = "STOPPED"
    BY <1>4, <1>17 DEF Stop, SaveStatus, WorkerFile, Seat
  <2> QED  BY <1>0, <1>1, <2>1, <2>2, Departs DEF Leaves, WorkTypes
<1>18. CASE WorkerThrows(w)
  BY <1>0, <1>1, <1>18, ThrowMoves
<1>19. CASE FailWorker(w)
  <2>1. Active(w) /\ UNCHANGED <<plan, crashed, together, undone>> /\ Leave(w) /\ Noted
    BY <1>0, <1>19 DEF FailWorker, Is, Active, Noted, WorkTypes
  <2>2. workerFile' \in WorkerFile /\ workerFile'.status = "FAILED"
    BY <1>4, <1>19 DEF FailWorker, SaveStatus, WorkerFile, Seat
  <2> QED  BY <1>0, <1>1, <2>1, <2>2, Departs DEF Leaves, WorkTypes
<1>20. CASE Crash(w)
  BY <1>0, <1>1, <1>20, CrashMoves
<1> QED
  BY <1>2, <1>5, <1>6, <1>7, <1>8, <1>9, <1>10, <1>11, <1>12, <1>13, <1>14, <1>15, <1>16, <1>17,
     <1>18, <1>19, <1>20

-----------------------------------------------------------------------------
(* From the build to the work                                              *)

\* The build ends where it returns, fails or dies, and never goes on.
LEMMA Ends ==
  ASSUME StageInv, BuildStep
  PROVE  at # "over" /\ (at' = "over" => Begin \/ Return \/ Fail \/ Die)
<1>0. BuildTypes /\ (at = "over" => todo = <<>>)
  BY DEF StageInv, Building
<1>1. CASE Begin
  BY <1>0, <1>1 DEF Begin, At, Goto, Throw
<1>2. CASE InitializeMissions
  BY <1>0, <1>2 DEF InitializeMissions, At, Goto, Throw
<1>3. CASE Test
  BY <1>0, <1>3 DEF Test, At, Goto, Throw
<1>4. CASE CallMissions
  BY <1>0, <1>4 DEF CallMissions, At, Goto, Throw
<1>5. CASE WorkspaceDone
  BY <1>0, <1>5 DEF WorkspaceDone, At, Goto, Throw
<1>6. CASE Repair
  BY <1>0, <1>6 DEF Repair, At, Goto, Throw
<1>7. CASE StartPreview
  BY <1>0, <1>7 DEF StartPreview, AfterPreview, Places, BuildTypes, At, Goto, Throw
<1>8. CASE VerifyBrowser
  BY <1>0, <1>8 DEF VerifyBrowser, AfterPreview, Places, BuildTypes, At, Goto, Throw
<1>9. CASE RunInteractions
  BY <1>0, <1>9 DEF RunInteractions, AfterPreview, Places, BuildTypes, At, Goto, Throw
<1>10. CASE Diagnose
  BY <1>0, <1>10 DEF Diagnose, At, Goto, Throw
<1>11. CASE Reason
  BY <1>0, <1>11 DEF Reason, At, Goto, Throw
<1>12. CASE Evolve
  BY <1>0, <1>12 DEF Evolve, At, Goto, Throw
<1>13. CASE Implement
  BY <1>0, <1>13 DEF Implement, Extend, At, Goto, Throw
<1>14. CASE Integrate
  BY <1>0, <1>14 DEF Integrate, Extend, At, Goto, Throw
<1>15. CASE GenerateArchitecture
  BY <1>0, <1>15 DEF GenerateArchitecture, At, Goto, Throw
<1>16. CASE ChooseRepair
  BY <1>0, <1>16 DEF ChooseRepair, At, Goto, Throw
<1>17. CASE Restructure
  BY <1>0, <1>17 DEF Restructure, At, Goto, Throw
<1>18. CASE Retest
  BY <1>0, <1>18 DEF Retest, At, Goto, Throw
<1>19. CASE RepairBrowser
  BY <1>0, <1>19 DEF RepairBrowser, At, Goto, Throw
<1>20. CASE GiveUp
  BY <1>0, <1>20 DEF GiveUp, At, Goto, Throw
<1>21. CASE CompleteFeatures
  BY <1>0, <1>21 DEF CompleteFeatures, At, Goto, Throw
<1>22. CASE CompleteVerification
  BY <1>0, <1>22 DEF CompleteVerification, At, Goto, Throw
<1>23. CASE Decide
  BY <1>0, <1>23 DEF Decide, At, Goto, Throw
<1>24. CASE Return
  BY <1>0, <1>24 DEF Return, At, Goto, Throw
<1>25. CASE Throws
  BY <1>0, <1>25 DEF Throws, At, Goto, Throw
<1>26. CASE Fail
  BY <1>0, <1>26 DEF Fail, At, Goto, Throw
<1>27. CASE Die
  BY <1>0, <1>27 DEF Die, At, Goto, Throw
<1> QED  BY <1>1, <1>2, <1>3, <1>4, <1>5, <1>6, <1>7, <1>8, <1>9, <1>10, <1>11, <1>12, <1>13, <1>14,
     <1>15, <1>16, <1>17, <1>18, <1>19, <1>20, <1>21, <1>22, <1>23, <1>24, <1>25, <1>26, <1>27 DEF BuildStep

\* A rewritten file has the statuses of the change, and a mission or none as the
\* current one.
LEMMA RewritesTyped ==
  ASSUME PlanInv, at # "over", NEW change, change.status \in [Ids -> MissionStatuses],
         change.current \in 0 .. Last, Rewrites(change)
  PROVE  plan'.status = change.status /\ plan'.current \in 0 .. Last /\ plan' # NoPlan
<1>1. PICK previous \in Loads : Reads(previous) /\ Record(change, previous)
  BY DEF Rewrites
<1>2. previous.current \in 0 .. Last
  BY IdsFacts DEF Loads, NoPlan, PlanInv, Typed
<1>3. CurrentOf(change, previous.current) \in 0 .. Last
  BY <1>2, CurrentIn
<1>4. plan'.status = change.status /\ plan'.current \in 0 .. Last
  BY <1>1, <1>3 DEF Record
<1>5. DOMAIN change.status = Ids /\ 1 \in Ids
  BY IdsFacts
<1>6. 1 \in DOMAIN plan'.status
  BY <1>4, <1>5
<1>7. DOMAIN NoPlan.status = {}
  BY DEF NoPlan
<1>8. plan' # NoPlan
  BY <1>6, <1>7
<1> QED  BY <1>4, <1>8

\* The build remembers a read that failed.
LEMMA MisreadKept ==
  ASSUME misread \in BOOLEAN, BuildStep
  PROVE  misread' \in BOOLEAN /\ (misread => misread')
<1>1. ASSUME NEW loaded, Reads(loaded) PROVE misread' \in BOOLEAN /\ (misread => misread')
  BY <1>1 DEF Reads
<1>2. ASSUME NEW change, Rewrites(change) PROVE misread' \in BOOLEAN /\ (misread => misread')
  BY <1>1, <1>2 DEF Rewrites
<1>3. CASE InitializeMissions \/ CallMissions \/ GenerateArchitecture \/ CompleteFeatures
           \/ CompleteVerification \/ Decide \/ Fail
  <2>1. \/ UNCHANGED misread \/ misread' = TRUE
        \/ \E loaded \in Loads : Reads(loaded)
        \/ \E i : Rewrites(Completing(plan.status, i)) \/ Rewrites(Starting(plan.status, i))
                    \/ Rewrites(Failing(plan.status, i))
        \/ Rewrites([status |-> Decomposed, current |-> 0])
    BY <1>3 DEF InitializeMissions, CallMissions, GenerateArchitecture, CompleteFeatures,
                CompleteVerification, Decide, Fail
  <2> QED  BY <1>1, <1>2, <2>1
<1>4. CASE ~(InitializeMissions \/ CallMissions \/ GenerateArchitecture \/ CompleteFeatures
             \/ CompleteVerification \/ Decide \/ Fail)
  <2>1. UNCHANGED misread
    BY <1>4 DEF BuildStep, Begin, Test, WorkspaceDone, Repair, StartPreview, VerifyBrowser,
         RunInteractions, Diagnose, Reason, Evolve, Implement, Integrate, ChooseRepair, Restructure,
         Retest, RepairBrowser, GiveUp, Return, Throws, Die, projectVars
  <2> QED  BY <2>1
<1> QED  BY <1>3, <1>4

\* A step that leaves the missions as they are, and adds calls for the first
\* missions at most
LEMMA PlanRests ==
  ASSUME PlanInv, at # "over", UNCHANGED plan, misread' \in BOOLEAN,
         at' \in Building => at \in Building,
         at' \in Early => /\ at \in Early
                         /\ \A k \in DOMAIN todo' : todo'[k].op = "complete" => todo'[k].id \in 1 .. Core
  PROVE  PlanInv'
BY DEF PlanInv, FeaturesOpen, Typed

\* What a call of the mission manager makes of the missions.
LEMMA CallKeepsPlan ==
  ASSUME StageInv, PlanInv, CallMissions, misread' \in BOOLEAN
  PROVE  PlanInv'
<1> DEFINE head == todo[1]
           i == IF head.id = 0 THEN SelectNext(plan.status) ELSE head.id
<1>1. /\ todo \in Seq(Calls) /\ todo # <<>> /\ todo' = Tail(todo) /\ Head(todo) = head
      /\ 1 \in DOMAIN todo /\ head \in Calls /\ UNCHANGED at
  <2>1. todo \in Seq(Calls) /\ todo # <<>>
    BY DEF StageInv, BuildTypes, CallMissions
  <2> QED  BY <2>1 DEF CallMissions
<1>2. at \in Building /\ at # "over"
  BY <1>1 DEF StageInv, Building
<1>3. plan.status \in [Ids -> MissionStatuses] /\ plan # NoPlan
  BY <1>2 DEF PlanInv, Typed
<1>4. head.op \in {"start", "complete"} /\ head.id \in 0 .. Last /\ i \in 0 .. Last
  BY <1>1, <1>3, SelectNextIn DEF Calls
<1>5. /\ DOMAIN todo = 1 .. Len(todo) /\ DOMAIN todo' = 1 .. Len(todo) - 1 /\ Len(todo) \in Nat
      /\ \A k \in 1 .. Len(todo) - 1 : todo'[k] = todo[k + 1]
  <2>1. Len(todo) \in Nat /\ Len(todo) # 0 /\ DOMAIN todo = 1 .. Len(todo)
    BY <1>1
  <2>2. /\ DOMAIN Tail(todo) = 1 .. Len(todo) - 1
        /\ \A k \in 1 .. Len(todo) - 1 : Tail(todo)[k] = todo[k + 1]
    BY <1>1, <2>1
  <2> QED  BY <1>1, <2>1, <2>2
<1>6. FeaturesOpen => \A k \in DOMAIN todo' : todo'[k].op = "complete" => todo'[k].id \in 1 .. Core
  <2> SUFFICES ASSUME FeaturesOpen, NEW k \in DOMAIN todo', todo'[k].op = "complete"
               PROVE  todo'[k].id \in 1 .. Core
    OBVIOUS
  <2>1. k + 1 \in DOMAIN todo /\ todo'[k] = todo[k + 1]
    BY <1>5
  <2> QED  BY <2>1 DEF FeaturesOpen
<1>7. CASE UNCHANGED plan
  <2>1. at \in Early => FeaturesOpen
    BY DEF PlanInv
  <2> QED  BY <1>1, <1>2, <1>6, <1>7, <2>1, PlanRests
<1>8. ASSUME NEW s \in MissionStatuses, NEW change,
             change.status = [plan.status EXCEPT ![i] = s], change.current \in 0 .. Last,
             Rewrites(change), FeaturesOpen => s # "completed" \/ i \in 1 .. Core
      PROVE  PlanInv'
  <2>1. change.status \in [Ids -> MissionStatuses]
    BY <1>3, <1>8
  <2>2. plan'.status = change.status /\ plan'.current \in 0 .. Last /\ plan' # NoPlan
    BY <1>2, <1>8, <2>1, RewritesTyped
  <2>3. FeaturesOpen => \A j \in FeatureMissions : plan'.status[j] # "completed"
    <3> SUFFICES ASSUME FeaturesOpen, NEW j \in FeatureMissions
                 PROVE  plan'.status[j] # "completed"
      OBVIOUS
    <3>1. j \in Ids /\ j \notin 1 .. Core /\ plan.status[j] # "completed"
      BY IdsFacts DEF FeaturesOpen
    <3>2. plan'.status[j] = IF j = i THEN s ELSE plan.status[j]
      BY <1>3, <1>8, <2>2, <3>1
    <3> QED  BY <1>8, <3>1, <3>2
  <2>4. at \in Early => FeaturesOpen'
    BY <1>6, <2>3 DEF PlanInv, FeaturesOpen
  <2>5. Typed(plan)'
    BY <2>1, <2>2 DEF Typed
  <2> QED  BY <1>1, <2>2, <2>4, <2>5 DEF PlanInv
<1>9. CASE head.op = "complete" /\ Rewrites(Completing(plan.status, i))
  <2> DEFINE change == Completing(plan.status, i)
             new == [plan.status EXCEPT ![i] = "completed"]
  <2>1. new \in [Ids -> MissionStatuses] /\ "completed" \in MissionStatuses
    BY <1>3 DEF MissionStatuses
  <2>2. change.status = new /\ change.current = SelectNext(new)
    BY DEF Completing
  <2>3. change.current \in 0 .. Last
    <3> HIDE DEF new, change
    <3> QED  BY <2>1, <2>2, SelectNextIn
  <2>4. FeaturesOpen => i \in 1 .. Core
    BY <1>1, <1>9, IdsFacts DEF FeaturesOpen
  <2>5. Rewrites(change)
    BY <1>9
  <2> HIDE DEF change, i
  <2> QED  BY <1>8, <2>1, <2>2, <2>3, <2>4, <2>5
<1>10. CASE Rewrites(Starting(plan.status, i))
  <2> DEFINE change == Starting(plan.status, i)
  <2>1. change.status = [plan.status EXCEPT ![i] = "running"] /\ change.current = i
    BY DEF Starting
  <2>2. "running" \in MissionStatuses /\ "running" # "completed"
    BY DEF MissionStatuses
  <2>3. Rewrites(change)
    BY <1>10
  <2> HIDE DEF change, i
  <2> QED  BY <1>4, <1>8, <2>1, <2>2, <2>3
<1>11. \/ UNCHANGED plan
       \/ head.op = "complete" /\ Rewrites(Completing(plan.status, i))
       \/ Rewrites(Starting(plan.status, i))
  BY <1>1 DEF CallMissions
<1> QED  BY <1>7, <1>9, <1>10, <1>11

\* What holds of the missions also when the build could not read them is kept.
LEMMA PlanKeeps ==
  ASSUME StageInv, PlanInv, BuildStep
  PROVE  PlanInv'
<1> USE DEF Building, Early, Stages, At, Goto, Throw, Over
<1>1. misread' \in BOOLEAN /\ BuildTypes /\ at # "over"
  BY MisreadKept, Ends DEF PlanInv, StageInv
<1>2. todo \in Seq(Calls) /\ (at \in Early => FeaturesOpen)
  BY DEF PlanInv, StageInv, BuildTypes
<1>3. CASE CallMissions
  BY <1>1, <1>3, CallKeepsPlan
<1>4. CASE InitializeMissions
  <2> DEFINE change == [status |-> Decomposed, current |-> 0]
  <2>1. /\ change.status = Decomposed /\ change.current = 0 /\ 0 \in 0 .. Last
        /\ Decomposed \in [Ids -> MissionStatuses]
    BY IdsFacts DEF Decomposed, MissionStatuses
  <2>2. Rewrites(change) /\ at' = "tests" /\ todo' = <<>>
    BY <1>4 DEF InitializeMissions
  <2> HIDE DEF change
  <2>3. plan'.status = Decomposed /\ plan'.current \in 0 .. Last /\ plan' # NoPlan
    BY <1>1, <2>1, <2>2, RewritesTyped
  <2>4. Typed(plan)'
    BY <2>1, <2>3 DEF Typed
  <2>5. FeaturesOpen'
    BY <2>2, <2>3, IdsFacts DEF FeaturesOpen, Decomposed
  <2> QED  BY <1>1, <2>3, <2>4, <2>5 DEF PlanInv
<1>5. CASE Begin
  BY <1>1, <1>5, PlanRests DEF Begin
<1>6. CASE Fail \/ Die \/ Return
  BY <1>1, <1>6 DEF Fail, Die, Return, PlanInv
<1>7. CASE Throws
  BY <1>1, <1>7, PlanRests DEF Throws, projectVars
<1>8. CASE Test
  <2>1. UNCHANGED plan /\ at = "tests" /\ at' = "workspace"
    BY <1>8 DEF Test, projectVars
  <2>2. \A k \in DOMAIN todo' : todo'[k].op = "complete" => todo'[k].id \in 1 .. Core
    BY <1>8 DEF Test, Core
  <2> QED  BY <1>1, <2>1, <2>2, PlanRests
<1>9. CASE GenerateArchitecture
  <2>1. UNCHANGED plan /\ at = "architecture" /\ at' = "choose"
    BY <1>9 DEF GenerateArchitecture
  <2>2. todo' = <<>> \/ todo' = <<[op |-> "complete", id |-> Core]>>
    BY <1>9 DEF GenerateArchitecture
  <2>3. \A k \in DOMAIN todo' : todo'[k].op = "complete" => todo'[k].id \in 1 .. Core
    BY <2>2 DEF Core
  <2> QED  BY <1>1, <2>1, <2>3, PlanRests
<1>10. CASE CompleteFeatures
  BY <1>1, <1>10, PlanRests DEF CompleteFeatures
<1>11. CASE CompleteVerification
  BY <1>1, <1>11, PlanRests DEF CompleteVerification
<1>12. CASE Decide
  BY <1>1, <1>12, PlanRests DEF Decide
<1> DEFINE Quiet == UNCHANGED plan /\ todo = <<>> /\ todo' = <<>>
<1>13. ASSUME Quiet, at \in Early, at' \in Early \cup {"failing"} PROVE PlanInv'
  <2>1. \A k \in DOMAIN todo' : todo'[k].op = "complete" => todo'[k].id \in 1 .. Core
    BY <1>13
  <2> QED  BY <1>1, <1>13, <2>1, PlanRests
<1>14. CASE WorkspaceDone \/ Repair
  BY <1>13, <1>14 DEF WorkspaceDone, Repair, projectVars
<1>15. CASE StartPreview
  BY <1>1, <1>13, <1>15 DEF StartPreview, AfterPreview, projectVars
<1>16. CASE VerifyBrowser
  BY <1>1, <1>13, <1>16 DEF VerifyBrowser, AfterPreview, BuildTypes, Places, projectVars
<1>17. CASE RunInteractions
  BY <1>1, <1>13, <1>17 DEF RunInteractions, AfterPreview, BuildTypes, Places, projectVars
<1>18. CASE Diagnose \/ Reason \/ Evolve
  BY <1>13, <1>18 DEF Diagnose, Reason, Evolve, projectVars
<1>19. CASE Implement \/ Integrate
  BY <1>13, <1>19 DEF Implement, Integrate, Extend, projectVars
<1>20. CASE ChooseRepair \/ Restructure \/ Retest
  BY <1>13, <1>20 DEF ChooseRepair, Restructure, Retest, projectVars
<1>21. CASE RepairBrowser \/ GiveUp
  BY <1>13, <1>21 DEF RepairBrowser, GiveUp, projectVars
<1> QED  BY <1>3, <1>4, <1>5, <1>6, <1>7, <1>8, <1>9, <1>10, <1>11, <1>12, <1>14, <1>15, <1>16,
            <1>17, <1>18, <1>19, <1>20, <1>21 DEF BuildStep

\* A build that ends leaves one mission that is worked on.
LEMMA OverBegins ==
  ASSUME BuildInv, WorkInv, BuildStep, UNCHANGED <<workerVars, modificationVars>>
  PROVE  WorkInv'
<1>1. at # "over" /\ (at' = "over" => Begin \/ Return \/ Fail \/ Die)
  BY Ends DEF BuildInv
<1>2. /\ modifying = "idle" /\ before = NoSnapshot /\ workerFile.status = "none"
      /\ \A w \in Workers : worker[w] = Idle
      /\ WorkTypes /\ StatusInv
  BY <1>1 DEF WorkInv
<1>3. UNCHANGED <<workerFile, worker, crashed, together, undone, blind, modifying, before>>
  BY DEF workerVars, modificationVars
<1>4. WorkTypes' /\ StatusInv'
  <2>1. WorkTypes'
    BY <1>2, <1>3 DEF WorkTypes
  <2>2. RunningHasWorker' /\ workerFile'.status # "COMPLETED"
    BY <1>2, <1>3 DEF RunningHasWorker
  <2>3. \A w \in Workers : Active(w)' = Active(w)
    BY <1>3 DEF Active
  <2> QED  BY <1>2, <1>3, <2>1, <2>2, <2>3 DEF StatusInv, Alone
<1>5. ASSUME at' = "over"
      PROVE  \E f \in Ids : OneMission(f)'
  <2>1. Begin \/ Return \/ Fail \/ Die
    BY <1>1, <1>5
  <2>2. \/ UNCHANGED plan
        \/ plan.current # 0 /\ Rewrites(Failing(plan.status, plan.current))
    BY <2>1 DEF Begin, Return, Fail, Die, projectVars
  <2>3. /\ misread \in BOOLEAN /\ misread' \in BOOLEAN /\ (misread => misread')
        /\ plan = NoPlan \/ (plan.status \in [Ids -> MissionStatuses] /\ plan.current \in 0 .. Last)
    BY <1>1, MisreadKept DEF BuildInv, PlanInv, Typed
  <2>4. CASE misread'
    <3>1. plan' = NoPlan \/ (plan'.status \in [Ids -> MissionStatuses] /\ plan'.current \in 0 .. Last)
      <4>1. CASE UNCHANGED plan
        BY <2>3, <4>1
      <4>2. CASE plan.current # 0 /\ Rewrites(Failing(plan.status, plan.current))
        <5> DEFINE c == Failing(plan.status, plan.current)
        <5>1. c.status \in [Ids -> MissionStatuses] /\ c.current \in 0 .. Last
          <6>1. plan # NoPlan
            BY <4>2 DEF NoPlan
          <6>2. plan.status \in [Ids -> MissionStatuses] /\ plan.current \in 0 .. Last
            BY <2>3, <6>1
          <6>3. [plan.status EXCEPT ![plan.current] = "failed"] \in [Ids -> MissionStatuses]
            BY <6>2 DEF MissionStatuses
          <6> QED  BY <6>2, <6>3 DEF Failing
        <5>2. Rewrites(c) /\ PlanInv
          BY <4>2 DEF BuildInv
        <5> HIDE DEF c
        <5> QED  BY <1>1, <5>1, <5>2, RewritesTyped
      <4> QED  BY <2>2, <4>1, <4>2
    <3>2. \A f \in Ids : FileFits(plan, f)'
      BY <2>4, <3>1 DEF FileFits, Fits
    <3> QED  BY <1>2, <1>3, <3>2, IdsFacts DEF OneMission, FileFits, NoSnapshot, SeatFits, Idle, About
  <2>5. CASE ~misread'
    <3>1. InLine /\ ~misread
      BY <2>3, <2>5 DEF BuildInv
    <3>2. plan = NoPlan \/ \E m \in 0 .. Last : Upto(m)
      BY <1>1, <3>1 DEF BuildInv, StageInv, InLine, BuildTypes, Building
    <3>3. PICK f \in Ids : FileFits(plan, f) /\ (plan.current # 0 => plan.current = f /\ Fits(plan.status, f))
      <4>1. CASE plan = NoPlan
        BY <4>1, IdsFacts DEF FileFits, NoPlan
      <4>2. CASE \E m \in 0 .. Last : Upto(m)
        <5>1. PICK m \in 0 .. Last : Upto(m)
          BY <4>2
        <5>2. plan.current \in Ids /\ Fits(plan.status, plan.current)
          BY <5>1, IdsFacts DEF Upto, Prefix, Fits
        <5> QED  BY <5>2, IdsFacts DEF FileFits
      <4> QED  BY <3>2, <4>1, <4>2
    <3>5. FileFits(plan, f)'
      <4>1. CASE UNCHANGED plan
        BY <3>1, <3>3, <4>1 DEF FileFits, Fits
      <4>2. CASE plan.current # 0 /\ Rewrites(Failing(plan.status, plan.current))
        <5> DEFINE c == Failing(plan.status, f)
        <5>1. About(f, f)
          BY IdsFacts DEF About
        <5>2. plan.current = f /\ c \in Changes /\ Fits(c.status, f)
          BY <3>3, <4>2, <5>1, CallsFit
        <5>3. c.status \in [Ids -> MissionStatuses] /\ c.current \in 0 .. Last /\ f \in 0 .. Last
          BY <5>2, IdsFacts DEF Changes, Fits
        <5>4. Rewrites(c)
          BY <4>2, <5>2
        <5> HIDE DEF c
        <5>5. CurrentOf(c, f) \in 0 .. Last
          BY <5>3, CurrentIn
        <5>6. plan' = [status |-> c.status, current |-> CurrentOf(c, f)]
          BY <2>5, <5>2, <5>4, RewritesIs
        <5> QED  BY <3>1, <5>2, <5>5, <5>6 DEF FileFits, Fits
      <4> QED  BY <2>2, <4>1, <4>2
    <3> QED  BY <1>2, <1>3, <3>5, IdsFacts DEF OneMission, FileFits, NoSnapshot, SeatFits, Idle, About
  <2> QED  BY <2>3, <2>4, <2>5
<1>6. ASSUME at' # "over"
      PROVE  /\ modifying' = "idle" /\ before' = NoSnapshot /\ workerFile'.status = "none"
             /\ \A w \in Workers : worker'[w] = Idle
  BY <1>2, <1>3
<1> QED  BY <1>4, <1>5, <1>6 DEF WorkInv

\* A modification of the project puts back what it found.
LEMMA ModificationKeeps ==
  ASSUME WorkInv, ModificationStep, UNCHANGED <<misread, buildVars>>
  PROVE  WorkInv'
<1>1. at = "over" /\ at' = "over"
  BY DEF WorkInv, ModificationStep, Modified, Restore, BeginModification, Diff, Snapshot,
         EndModification, ModificationDies, buildVars
<1>2. WorkTypes /\ StatusInv
  BY DEF WorkInv
<1>3. PICK f \in Ids : OneMission(f)
  BY <1>1 DEF WorkInv
<1>4. FileFits(NoSnapshot.plan, f) /\ NoSnapshot.workerFile \in WorkerFile
  BY WorkerAssumption DEF NoSnapshot, FileFits, WorkerFile
<1>5. SUFFICES OneMission(f)' /\ WorkTypes' /\ StatusInv'
  BY <1>1 DEF WorkInv
<1>6. ASSUME UNCHANGED <<plan, workerVars>>,
             modifying' \in {"idle", "diff", "snapshot", "apply", "restored", "modified"},
             \/ before' = before \/ before' = NoSnapshot
             \/ before' = [plan |-> plan, workerFile |-> workerFile]
      PROVE  OneMission(f)' /\ WorkTypes' /\ StatusInv'
  <2>1. UNCHANGED <<workerFile, worker, crashed, together, undone, blind>>
    BY <1>6 DEF workerVars
  <2>2. before'.workerFile \in WorkerFile /\ FileFits(before'.plan, f)
    BY <1>2, <1>3, <1>4, <1>6 DEF WorkTypes, OneMission
  <2>5. OneMission(f)'
    BY <1>3, <1>6, <2>1, <2>2 DEF OneMission, FileFits, Fits, SeatFits, About
  <2>3. StatusInv'
    BY <1>2, <1>6, <2>1 DEF StatusInv, Alone, RunningHasWorker, Active, NothingBegun
  <2>4. WorkTypes'
    BY <1>2, <1>6, <2>1, <2>2 DEF WorkTypes
  <2> QED  BY <2>3, <2>4, <2>5
<1>7. CASE Modified
  BY <1>6, <1>7 DEF Modified, projectVars
<1>8. CASE Restore
  <2>1. /\ plan' = before.plan /\ workerFile' = before.workerFile /\ before' = NoSnapshot
        /\ modifying' = "restored" /\ UNCHANGED <<worker, crashed, together, blind>>
        /\ undone' \in BOOLEAN
        /\ ~undone' => ~undone /\ plan' = plan /\ workerFile' = workerFile
    BY <1>2, <1>8 DEF Restore, WorkTypes
  <2>2. OneMission(f)'
    BY <1>3, <1>4, <2>1 DEF OneMission, FileFits, Fits, SeatFits, About
  <2>3. WorkTypes'
    BY <1>2, <1>4, <2>1 DEF WorkTypes
  <2>4. CASE undone'
    <3>1. RunningHasWorker'
      BY <2>4 DEF RunningHasWorker
    <3> QED  BY <2>2, <2>3, <2>4, <3>1 DEF StatusInv
  <2>5. CASE ~undone'
    <3>1. ~undone /\ plan' = plan /\ workerFile' = workerFile /\ UNCHANGED <<worker, crashed, together, blind>>
      BY <2>1, <2>5
    <3>2. RunningHasWorker'
      BY <1>2, <2>5, <3>1 DEF StatusInv, RunningHasWorker
    <3>3. NothingBegun' = NothingBegun /\ \A w \in Workers : Active(w)' = Active(w)
      BY <3>1 DEF NothingBegun, Active
    <3>4. Alone' = Alone
      BY <3>1, <3>3 DEF Alone
    <3>5. together' = together /\ blind' = blind
      BY <3>1
    <3> QED  BY <1>2, <2>2, <2>3, <2>5, <3>1, <3>2, <3>4, <3>5 DEF StatusInv
  <2> QED  BY <2>4, <2>5
<1>9. CASE BeginModification /\ UNCHANGED workerVars
  BY <1>6, <1>9 DEF BeginModification
<1>10. CASE Diff /\ UNCHANGED workerVars
  BY <1>6, <1>10 DEF Diff
<1>11. CASE Snapshot /\ UNCHANGED workerVars
  BY <1>6, <1>11 DEF Snapshot, projectVars
<1>12. CASE EndModification /\ UNCHANGED workerVars
  BY <1>6, <1>12 DEF EndModification
<1>13. CASE ModificationDies /\ UNCHANGED workerVars
  BY <1>6, <1>13 DEF ModificationDies, projectVars
<1> QED  BY <1>7, <1>8, <1>9, <1>10, <1>11, <1>12, <1>13 DEF ModificationStep

\* Once the build is over its stage stays, whatever happens to the missions.
LEMMA BuildRests ==
  ASSUME BuildInv, at = "over", UNCHANGED <<misread, buildVars>>
  PROVE  BuildInv'
<1>1. UNCHANGED <<at, place, todo, attempt, tested, workspaceTests, verified, browser,
                  interactions, targeted, previews, leftover, outcome>>
  BY DEF buildVars
<1>2. StageInv'
  BY <1>1 DEF BuildInv, StageInv, BuildTypes
<1>3. InLine' /\ PlanInv'
  BY <1>1 DEF BuildInv, PlanInv, InLine, Building, Early
<1> QED  BY <1>2, <1>3 DEF BuildInv

LEMMA ProjectInitial ==
  ASSUME Init
  PROVE  BuildInv /\ WorkInv
<1>1. StageInv
  <2>1. /\ at = "idle" /\ place = "first" /\ todo = <<>> /\ attempt = 0
        /\ browser = "none" /\ interactions = "none" /\ previews = 0 /\ outcome = "none"
    BY DEF Init, BuildInit
  <2>2. /\ tested \in BOOLEAN /\ workspaceTests \in BOOLEAN /\ verified \in BOOLEAN
        /\ targeted \in BOOLEAN /\ leftover \in BOOLEAN
    BY DEF Init, BuildInit
  <2>3. BuildTypes
    BY <2>1, <2>2, AttemptsAssumption DEF BuildTypes, Stages, Places, Answers
  <2> QED  BY <2>1, <2>3 DEF StageInv, Building, Shown, Judged
<1>2. InLine /\ PlanInv
  BY DEF Init, BuildInit, ProjectInit, InLine, PlanInv, Building, Early
<1>3. worker = [w \in Workers |-> Idle] /\ workerFile = [status |-> "none", cycle |-> 0]
      /\ modifying = "idle" /\ before = NoSnapshot /\ at = "idle"
      /\ crashed = FALSE /\ together = FALSE /\ undone = FALSE /\ blind = FALSE
  BY DEF Init, WorkerInit, BuildInit
<1>4. Idle \in Seat /\ Idle.at = "idle"
  BY IdsFacts, WorkerAssumption DEF Idle, NoChange, Seat, AwayFrom
<1>5. WorkTypes
  <2>1. crashed \in BOOLEAN /\ together \in BOOLEAN /\ undone \in BOOLEAN /\ blind \in BOOLEAN
    BY <1>3
  <2>2. workerFile \in WorkerFile /\ before.workerFile \in WorkerFile
    BY <1>3, WorkerAssumption DEF WorkerFile, NoSnapshot
  <2>3. worker \in [Workers -> Seat]
    BY <1>3, <1>4
  <2> QED  BY <1>3, <2>1, <2>2, <2>3 DEF WorkTypes
<1>6. StatusInv
  BY <1>3, <1>4 DEF StatusInv, Alone, RunningHasWorker, Active
<1> QED  BY <1>1, <1>2, <1>3, <1>5, <1>6 DEF BuildInv, WorkInv

LEMMA ProjectStep ==
  ASSUME BuildInv, WorkInv, [Next]_vars
  PROVE  BuildInv' /\ WorkInv'
<1>1. CASE BuildStep /\ UNCHANGED <<workerVars, modificationVars>>
  <2>1. StageInv /\ PlanInv /\ (misread \/ InLine)
    BY DEF BuildInv
  <2>2. StageInv' /\ PlanInv'
    BY <1>1, <2>1, StageKeeps, PlanKeeps
  <2>3. misread' \in BOOLEAN /\ (misread => misread')
    BY <1>1, <2>1, MisreadKept DEF PlanInv
  <2>4. ~misread' => InLine'
    BY <1>1, <2>1, <2>3, MissionsKeep
  <2> QED  BY <1>1, <2>2, <2>3, <2>4, OverBegins DEF BuildInv
<1>2. CASE at = "over" /\ WorkerStep /\ UNCHANGED <<lifecycle, misread, buildVars, modificationVars>>
  BY <1>2, BuildRests, WorkerKeeps DEF buildVars, modificationVars
<1>3. CASE ModificationStep /\ UNCHANGED <<misread, buildVars>>
  <2>1. at = "over"
    BY <1>3 DEF WorkInv, ModificationStep, Modified, Restore, BeginModification, Diff, Snapshot,
                EndModification, ModificationDies
  <2> QED  BY <1>3, <2>1, BuildRests, ModificationKeeps
<1>4. CASE UNCHANGED vars
  <2>1. /\ UNCHANGED <<plan, misread, workerFile, worker, crashed, together, undone, blind, modifying, before>>
        /\ UNCHANGED <<at, place, todo, attempt, tested, workspaceTests, verified, browser,
                       interactions, targeted, previews, leftover, outcome>>
    BY <1>4 DEF vars, projectVars, buildVars, workerVars, modificationVars
  <2>2. BuildInv'
    BY <2>1 DEF BuildInv, StageInv, PlanInv, FeaturesOpen, Typed, BuildTypes, InLine, Upto, Lined,
                Behind, Reach, Completes
  <2>3. WorkTypes' /\ StatusInv'
    BY <2>1 DEF WorkInv, WorkTypes, StatusInv, Alone, RunningHasWorker, Active, NothingBegun
  <2>4. \A f \in Ids : OneMission(f)' = OneMission(f)
    BY <2>1 DEF OneMission, FileFits, Fits, SeatFits, About
  <2> QED  BY <2>1, <2>2, <2>3, <2>4 DEF WorkInv
<1> QED  BY <1>1, <1>2, <1>3, <1>4 DEF Next

LEMMA ProjectInvariant == Spec => [](BuildInv /\ WorkInv)
<1>1. Init => BuildInv /\ WorkInv
  BY ProjectInitial
<1>2. BuildInv /\ WorkInv /\ [Next]_vars => BuildInv' /\ WorkInv'
  BY ProjectStep
<1> QED  BY <1>1, <1>2, PTL DEF Spec

\* What the invariant says of the files
LEMMA FilesHold ==
  ASSUME BuildInv, WorkInv
  PROVE  WorkIsAccountedFor
<1>1. CompletedInOrder
  <2>1. CASE misread \/ plan = NoPlan
    BY <2>1 DEF CompletedInOrder, NoPlan
  <2>2. CASE \E m \in 0 .. Last : Upto(m)
    BY <2>2, IdsFacts DEF CompletedInOrder, Upto, Prefix
  <2>3. CASE ~misread /\ \E f \in Ids : FileFits(plan, f) /\ plan # NoPlan
    BY <2>3, IdsFacts DEF CompletedInOrder, FileFits, Fits
  <2> QED  BY <2>1, <2>2, <2>3
           DEF BuildInv, StageInv, BuildTypes, InLine, Building, WorkInv, OneMission
<1>2. RunningHasWorker /\ DoneLeavesNothingBegun
  BY DEF WorkInv, StatusInv, Alone, DoneLeavesNothingBegun, NothingBegun
<1> QED  BY <1>1, <1>2 DEF WorkIsAccountedFor

\* The files under .jora account for the work, whatever the workers, the
\* modifications and the deaths of either: missions are completed in order unless
\* the build could not read them; RUNNING is a worker's unless one died or a file
\* was put back; COMPLETED of a worker that was alone and could read its files
\* leaves no mission ready, running or failed.  It may leave planned ones, also one
\* that the manager would offer (autonomous-project-worker.js,
\* mission-manager-engine.js, autonomous-orchestrator.js).
THEOREM WorkAccountedFor == Spec => []WorkIsAccountedFor
<1>1. BuildInv /\ WorkInv => WorkIsAccountedFor
  BY FilesHold
<1> QED  BY <1>1, ProjectInvariant, PTL

\* A build that returns PROMOTED has every mission completed, unless it could not
\* read the missions, the lifecycle promoted, no preview left and tests that passed
\* on its files, or the remains of a repair that gave up (autonomous-orchestrator.js).
THEOREM PromotedFinished == Spec => PromotedIsFinished
<1>1. ASSUME BuildInv, WorkInv, [Next]_vars, at # "over", at' = "over", outcome' = "PROMOTED"
      PROVE  Finished
  <2>1. BuildStep
    <3>1. ~UNCHANGED buildVars
      BY <1>1 DEF buildVars
    <3> QED  BY <1>1, <3>1 DEF Next, vars
  <2>2. Return
    <3>1. Begin \/ Return \/ Fail \/ Die
      BY <1>1, <2>1, Ends DEF BuildInv
    <3> QED  BY <1>1, <3>1 DEF Begin, Fail, Die, Goto
  <2>3. at = "delivery" /\ todo = <<>> /\ outcome = "PROMOTED" /\ UNCHANGED <<plan, previews>>
        /\ lifecycle' = "promoted"
    BY <1>1, <2>2 DEF Return, At, Transition
  <2>4. previews = 0 /\ (tested \/ leftover)
    BY <1>1, <2>3 DEF BuildInv, StageInv, Shown, Judged
  <2>5. misread \/ \A i \in Ids : plan.status[i] = "completed"
    <3> SUFFICES ASSUME ~misread
                 PROVE  \A i \in Ids : plan.status[i] = "completed"
      OBVIOUS
    <3>1. PICK m \in 0 .. Last : Upto(m) /\ Behind(m)
      BY <1>1, <2>3 DEF BuildInv, InLine, Building, Stages
    <3>2. Reach = Last
      BY <2>3, IdsFacts DEF Reach, CoreKept
    <3>3. \A i \in Ids : i <= m
      BY <2>3, <3>1, <3>2, IdsFacts DEF Behind
    <3> QED  BY <3>1, <3>3 DEF Upto, Prefix
  <2> QED  BY <2>3, <2>4, <2>5 DEF Finished
<1>2. BuildInv /\ WorkInv /\ [Next]_vars
        => [(at # "over" /\ at' = "over" /\ outcome' = "PROMOTED") => Finished]_<<at, outcome, plan, lifecycle, previews, tested>>
  BY <1>1
<1> QED  BY <1>2, ProjectInvariant, PTL DEF Spec, PromotedIsFinished

-----------------------------------------------------------------------------
(* The types of the parts                                                  *)

LEMMA DeploymentTypesHold == Deployments!Spec => []Deployments!TypeOK
<1>1. DeploymentInv => Deployments!TypeOK
  BY DEF DeploymentInv, DeploymentTypes, StateFile, Deployments!TypeOK, Deployments!DeploymentTypeOK,
         Deployments!Modes, Deployments!Envs
<1> QED  BY <1>1, DeploymentInitial, DeploymentSteps, PTL DEF Deployments!Spec

\* Edits are left only while they are applied, and faults are counted
EditsInv ==
  /\ editAt # "apply" => edits = <<>>
  /\ report \in {"none", "NOTHING_TO_DO", "KEPT", "NOT_REPAIRED", "ROLLED_BACK", "THROWN"}
  /\ editFaults \in 0 .. MaxFaults

LEMMA EditsKept ==
  ASSUME EnginesInv, EditsInv, [Engines!Next]_(Engines!vars)
  PROVE  EditsInv'
<1>0. MaxFaults \in Nat /\ editFaults \in 0 .. MaxFaults
  BY PartsAssumption DEF EditsInv
<1>1. ASSUME Engines!Fault PROVE editFaults' \in 0 .. MaxFaults
  BY <1>0, <1>1 DEF Engines!Fault
<1>2. ASSUME NEW e \in Engines!Engines, Engines!Call(e) PROVE EditsInv'
  <2>1. editFaults' = editFaults
    BY <1>2 DEF Engines!Call
  <2> QED  BY <1>0, <1>2, <2>1 DEF Engines!Call, Engines!Return, EditsInv
<1>3. ASSUME editAt = "apply", NEW taken, Engines!NextEdit(taken), editFaults' = editFaults PROVE EditsInv'
  BY <1>3 DEF Engines!NextEdit, EditsInv
<1>4. ASSUME editAt = "apply", NEW taken, Engines!GiveUp(taken), editFaults' \in 0 .. MaxFaults PROVE EditsInv'
  BY <1>4 DEF Engines!GiveUp, Engines!Return, EditsInv
<1>5. CASE Engines!Apply
  <2>1. editAt = "apply" /\ editFaults' = editFaults
        /\ \/ Engines!NextEdit(undo) \/ Engines!GiveUp(undo)
           \/ Engines!NextEdit(Engines!Remembered(Head(edits), TRUE))
    BY <1>5 DEF Engines!Apply
  <2> QED  BY <1>0, <1>3, <1>4, <2>1
<1>6. CASE Engines!ApplyFails
  <2>1. editAt = "apply" /\ Engines!Fault /\ Engines!GiveUp(Engines!Remembered(Head(edits), FALSE))
    BY <1>6 DEF Engines!ApplyFails
  <2> QED  BY <1>1, <1>4, <2>1
<1>7. CASE Engines!Test
  BY <1>7 DEF Engines!Test, Engines!Return, EditsInv
<1>8. CASE Engines!Restore
  BY <1>8 DEF Engines!Restore, EditsInv
<1>9. CASE Engines!RestoreFails
  <2>1. Engines!Fault
    BY <1>9 DEF Engines!RestoreFails
  <2>2. \/ Engines!Return("THROWN")
        \/ editAt' = editAt /\ edits' = edits /\ report' = report
    BY <1>9 DEF Engines!RestoreFails
  <2> QED  BY <1>1, <2>1, <2>2 DEF Engines!Return, EditsInv
<1>10. CASE Engines!RolledBack
  BY <1>10 DEF Engines!RolledBack, Engines!Return, EditsInv
<1>11. CASE UNCHANGED Engines!vars
  BY <1>11 DEF Engines!vars, EditsInv
<1> QED  BY <1>2, <1>5, <1>6, <1>7, <1>8, <1>9, <1>10, <1>11 DEF Engines!Next

LEMMA EngineTypesHold == Engines!Spec => []Engines!TypeOK
<1>1. Engines!Init => EditsInv
  BY PartsAssumption DEF Engines!Init, EditsInv
<1>2. EnginesInv /\ EditsInv /\ [Engines!Next]_(Engines!vars) => EditsInv'
  BY EditsKept
<1>3. EnginesInv /\ EditsInv => Engines!TypeOK
  BY DEF EnginesInv, EngineTypes, EditsInv, Contents, Engines!TypeOK, Engines!Taken
<1> QED  BY <1>1, <1>2, <1>3, EngineInitial, EngineSteps, PTL DEF Engines!Spec

\* The files have their form, beside what the invariant says of their contents
Formed(p) == p = [status |-> p.status, current |-> p.current]
FormInv == Formed(plan) /\ Formed(before.plan) /\ lifecycle \in LifecycleStates

LEMMA FormKept ==
  ASSUME FormInv, [Next]_vars
  PROVE  FormInv'
<1>1. ASSUME NEW change, \E previous \in Loads : Record(change, previous) PROVE Formed(plan')
  BY <1>1 DEF Record, Formed
<1>10. ASSUME NEW change, Rewrites(change) PROVE Formed(plan')
  BY <1>1, <1>10 DEF Rewrites
<1>2. ASSUME UNCHANGED plan PROVE Formed(plan')
  BY <1>2 DEF FormInv
<1>3. ASSUME UNCHANGED before PROVE Formed(before'.plan)
  BY <1>3 DEF FormInv
<1>4. \A s \in LifecycleStates : Transition(s) => lifecycle' \in LifecycleStates
  BY DEF Transition
<1>5. lifecycle \in LifecycleStates /\ "failed" \in LifecycleStates
  BY DEF FormInv, LifecycleStates
<1>6. CASE BuildStep /\ UNCHANGED <<workerVars, modificationVars>>
  <2>1. Formed(before'.plan)
    BY <1>3, <1>6 DEF modificationVars
  <2>2. Formed(plan')
    BY <1>2, <1>6, <1>10
    DEF BuildStep, Begin, InitializeMissions, Test, CallMissions, WorkspaceDone, Repair,
        StartPreview, VerifyBrowser, RunInteractions, Diagnose, Reason, Evolve, Implement, Integrate,
        GenerateArchitecture, ChooseRepair, Restructure, Retest, RepairBrowser, GiveUp,
        CompleteFeatures, CompleteVerification, Decide, Return, Throws, Fail, Die, projectVars
  <2>3. \/ UNCHANGED lifecycle \/ lifecycle' \in {lifecycle, "failed"}
        \/ \E s \in {"initialized", "active", "verifying", "promoted", "failed"} : Transition(s)
    BY <1>6
    DEF BuildStep, Begin, InitializeMissions, Test, CallMissions, WorkspaceDone, Repair,
        StartPreview, VerifyBrowser, RunInteractions, Diagnose, Reason, Evolve, Implement, Integrate,
        GenerateArchitecture, ChooseRepair, Restructure, Retest, RepairBrowser, GiveUp,
        CompleteFeatures, CompleteVerification, Decide, Return, Throws, Fail, Die, projectVars
  <2>4. lifecycle' \in LifecycleStates
    BY <1>4, <1>5, <2>3 DEF LifecycleStates
  <2> QED  BY <2>1, <2>2, <2>4 DEF FormInv
<1>7. CASE WorkerStep /\ UNCHANGED <<lifecycle, misread, buildVars, modificationVars>>
  <2>1. Formed(before'.plan) /\ lifecycle' \in LifecycleStates
    BY <1>3, <1>5, <1>7 DEF modificationVars
  <2>2. UNCHANGED plan \/ \E w \in Workers : \E previous \in Loads : Record(worker[w].change, previous)
    BY <1>7
    DEF WorkerStep, Load, Start, Resume, Write, Select, Reload, StartMission, Execute,
        CompleteMission, FailMission, NoteError, EndCycle, Stop, WorkerThrows, FailWorker, Crash
  <2> QED  BY <1>1, <1>2, <2>1, <2>2 DEF FormInv
<1>8. CASE ModificationStep
  <2>1. NoSnapshot.plan = NoPlan /\ Formed(NoPlan)
    BY DEF NoSnapshot, NoPlan, Formed
  <2>2. Formed(plan')
    BY <1>8 DEF FormInv, ModificationStep, Modified, Restore, BeginModification, Diff, Snapshot,
                EndModification, ModificationDies, projectVars
  <2>3. before' \in {before, NoSnapshot, [plan |-> plan, workerFile |-> workerFile]}
    BY <1>8 DEF ModificationStep, Modified, Restore, BeginModification, Diff, Snapshot,
                EndModification, ModificationDies
  <2>4. \/ UNCHANGED lifecycle
        \/ \E s \in {"initialized", "active", "modifying", "verifying", "rolled_back"} : Transition(s)
    BY <1>8 DEF ModificationStep, Modified, Restore, BeginModification, Diff, Snapshot,
                EndModification, ModificationDies, projectVars
  <2>5. lifecycle' \in LifecycleStates
    BY <1>4, <1>5, <2>4 DEF LifecycleStates
  <2>6. Formed(before'.plan)
    BY <2>1, <2>3 DEF FormInv
  <2> QED  BY <2>2, <2>5, <2>6 DEF FormInv
<1>9. CASE UNCHANGED vars
  BY <1>2, <1>3, <1>5, <1>9 DEF FormInv, vars, projectVars, modificationVars
<1> QED  BY <1>6, <1>7, <1>8, <1>9 DEF Next

LEMMA ProjectTypesHold == Spec => []TypeOK
<1>1. Init => FormInv
  BY DEF Init, ProjectInit, FormInv, Formed, NoPlan, NoSnapshot, LifecycleStates
<1>2. FormInv /\ [Next]_vars => FormInv'
  BY FormKept
<1>3. BuildInv /\ WorkInv /\ FormInv => TypeOK
  <2> SUFFICES ASSUME BuildInv, WorkInv, FormInv PROVE TypeOK
    OBVIOUS
  <2>1. plan = NoPlan \/ (plan.status \in [Ids -> MissionStatuses] /\ plan.current \in 0 .. Last)
    <3>1. CASE at # "over"
      BY <3>1 DEF BuildInv, PlanInv, Typed
    <3>2. CASE at = "over"
      BY <3>2 DEF WorkInv, OneMission, FileFits, Fits
    <3> QED  BY <3>1, <3>2
  <2>2. PlanTypeOK
    BY <2>1 DEF BuildInv, PlanInv, FormInv, Formed, PlanTypeOK
  <2>3. BuildTypeOK
    BY DEF BuildInv, StageInv, BuildTypes, BuildTypeOK
  <2>4. WorkerTypeOK
    BY DEF WorkInv, WorkTypes, WorkerTypeOK, WorkerFile, Seat, AwayFrom
  <2> QED  BY <2>2, <2>3, <2>4 DEF WorkInv, WorkTypes, TypeOK
<1> QED  BY <1>1, <1>2, <1>3, ProjectInvariant, PTL DEF Spec

\* The row of a build, with its repairs, deliveries and rounds within their limits
RunRow == [at : Runs!Places, stage : {"testing", "runtime", "interaction"}, again : BOOLEAN,
        repairs : 0 .. MaxRepairCycles, ok : SUBSET Runs!Checks, ready : BOOLEAN,
        delivery : 0 .. MaxDeliveries, cycle : 1 .. MaxRounds, verified : SUBSET Runs!Checks]

RowsInv ==
  /\ build \in [Builds -> RunRow]
  /\ holds \in [Builds -> SUBSET Runs!Checks] /\ alone \in [Builds -> BOOLEAN]
  /\ port \in SUBSET Builds /\ \A b, d \in port : b = d
  /\ deaths \in 0 .. MaxDeaths

\* What a step makes of the row of b
LEMMA RowAfter ==
  ASSUME RowsInv, NEW b \in Builds,
         \/ Runs!Start(b) \/ Runs!Generate(b) \/ Runs!Write(b)
         \/ Runs!Test(b) \/ Runs!StartApplication(b) \/ Runs!Probe(b) \/ Runs!Launch(b)
         \/ Runs!Browse(b) \/ Runs!Review(b) \/ Runs!Council(b) \/ Runs!Promote(b)
         \/ Runs!Compact(b) \/ Runs!Die(b)
  PROVE  build' \in [Builds -> RunRow]
<1> DEFINE old == build[b]
<1>1. build \in [Builds -> RunRow] /\ old \in RunRow /\ holds[b] \in SUBSET Runs!Checks
  BY DEF RowsInv
<1>2. /\ MaxRepairCycles \in Nat /\ MaxDeliveries \in Nat \ {0} /\ MaxRounds \in Nat \ {0}
  BY PartsAssumption
<1>3. ASSUME NEW r \in RunRow, build' = [build EXCEPT ![b] = r] PROVE build' \in [Builds -> RunRow]
  BY <1>1, <1>3
<1>4. ASSUME NEW next \in Runs!Places, Runs!Goto(b, next) PROVE build' \in [Builds -> RunRow]
  BY <1>1, <1>4 DEF Runs!Goto, RunRow
<1>5. \A c \in Runs!Checks, ok \in BOOLEAN : Runs!Outcome(b, c, ok) \in SUBSET Runs!Checks
  BY <1>1 DEF Runs!Outcome, RunRow
<1>6. /\ {"generate", "write", "test", "start", "probe", "launch", "browse", "review", "council", "promote",
          "compact", "answered", "failed", "dead"} \subseteq Runs!Places
      /\ {"tests", "runtime", "interaction", "security"} = Runs!Checks
  BY DEF Runs!Places, Runs!Checks
<1>7. ASSUME NEW s \in {"testing", "runtime", "interaction"}, NEW ok \in SUBSET Runs!Checks, Runs!Repairs(b)
      PROVE  Runs!Repairing(b, s, ok) \in RunRow
  <2> DEFINE more == old.repairs + 1
             again == (s # "testing")
  <2>1. more \in 0 .. MaxRepairCycles
    BY <1>1, <1>2, <1>7 DEF Runs!Repairs, RunRow
  <2>2. again \in BOOLEAN
    OBVIOUS
  <2>3. Runs!Repairing(b, s, ok) = [old EXCEPT !.at = "generate", !.stage = s, !.ok = ok, !.repairs = more,
                                               !.again = again]
    BY <1>1 DEF Runs!Repairing, RunRow
  <2> HIDE DEF more, again
  <2> QED  BY <1>1, <1>6, <2>1, <2>2, <2>3 DEF RunRow
<1>8. ASSUME NEW cycle \in 1 .. MaxRounds, NEW delivery \in 0 .. MaxDeliveries
      PROVE  Runs!Delivering(b, cycle, delivery) \in RunRow
  <2>1. 0 \in 0 .. MaxRepairCycles /\ 0 \in 0 .. MaxDeliveries /\ 1 \in 1 .. MaxRounds
    BY <1>2
  <2>2. Runs!NewBuild \in RunRow
    BY <2>1 DEF Runs!NewBuild, RunRow, Runs!Places
  <2> QED  BY <1>6, <2>2 DEF Runs!Delivering, RunRow
<1>9. ASSUME NEW ready \in BOOLEAN PROVE Runs!NextCycle(b, ready) \in RunRow
  <2>1. CASE old.cycle < MaxRounds
    <3>1. old.cycle + 1 \in 1 .. MaxRounds /\ 1 \in 0 .. MaxDeliveries
      BY <1>1, <1>2, <2>1 DEF RunRow
    <3> QED  BY <1>8, <2>1, <3>1 DEF Runs!NextCycle
  <2>2. CASE ~(old.cycle < MaxRounds)
    BY <1>1, <1>6, <2>2 DEF Runs!NextCycle, RunRow
  <2> QED  BY <2>1, <2>2
<1>10. CASE \/ Runs!Start(b) \/ Runs!Generate(b) \/ Runs!Write(b) \/ Runs!Die(b)
  BY <1>4, <1>6, <1>10 DEF Runs!Start, Runs!Generate, Runs!Write, Runs!Die, Runs!Throw
<1>11. CASE Runs!Test(b)
  <2>1. PICK passed \in BOOLEAN :
          build' = [build EXCEPT ![b] =
             IF ~passed /\ ~old.again /\ Runs!Repairs(b)
             THEN Runs!Repairing(b, "testing", Runs!Outcome(b, "tests", passed))
             ELSE [old EXCEPT !.at = IF passed THEN Runs!AfterTests(b) ELSE "review",
                              !.ok = Runs!Outcome(b, "tests", passed),
                              !.stage = IF old.stage = "testing" THEN "runtime" ELSE old.stage]]
    BY <1>1, <1>11 DEF Runs!Test
  <2> DEFINE ok == Runs!Outcome(b, "tests", passed)
             next == IF passed THEN Runs!AfterTests(b) ELSE "review"
             s == IF old.stage = "testing" THEN "runtime" ELSE old.stage
             r == [old EXCEPT !.at = next, !.ok = ok, !.stage = s]
  <2>2. ok \in SUBSET Runs!Checks /\ next \in Runs!Places /\ s \in {"testing", "runtime", "interaction"}
    BY <1>1, <1>5, <1>6 DEF Runs!AfterTests, RunRow
  <2> HIDE DEF ok, next, s
  <2>3. r \in RunRow
    BY <1>1, <2>2 DEF RunRow
  <2> HIDE DEF r
  <2>4. build' = [build EXCEPT ![b] = IF ~passed /\ ~old.again /\ Runs!Repairs(b)
                                      THEN Runs!Repairing(b, "testing", ok) ELSE r]
    BY <2>1 DEF ok, next, s, r
  <2> QED  BY <1>3, <1>7, <2>2, <2>3, <2>4
<1>12. ASSUME NEW ok \in BOOLEAN, Runs!Served(b, ok) PROVE build' \in [Builds -> RunRow]
  <2> DEFINE outcome1 == Runs!Outcome(b, "runtime", ok)
             more == old.again /\ old.stage = "interaction"
             served == [old EXCEPT !.at = "launch", !.ok = outcome1, !.stage = "interaction", !.again = more]
             reviewed == [old EXCEPT !.at = "review", !.ok = outcome1]
  <2>1. outcome1 \in SUBSET Runs!Checks /\ more \in BOOLEAN
    BY <1>1, <1>5, <1>6 DEF RunRow
  <2> HIDE DEF outcome1, more
  <2>2. served \in RunRow /\ reviewed \in RunRow
    BY <1>1, <1>6, <2>1 DEF RunRow
  <2>3. \/ build' = [build EXCEPT ![b] = served]
        \/ build' = [build EXCEPT ![b] = reviewed]
        \/ Runs!Repairs(b) /\ build' = [build EXCEPT ![b] = Runs!Repairing(b, "runtime", outcome1)]
    BY <1>1, <1>12 DEF Runs!Served, outcome1, more
  <2> QED  BY <1>3, <1>7, <2>1, <2>2, <2>3
<1>13. ASSUME NEW ok \in BOOLEAN, Runs!Browsed(b, ok) PROVE build' \in [Builds -> RunRow]
  <2> DEFINE outcome1 == Runs!Outcome(b, "interaction", ok)
             reviewed == [old EXCEPT !.at = "review", !.ok = outcome1]
  <2>1. outcome1 \in SUBSET Runs!Checks
    BY <1>5, <1>6
  <2> HIDE DEF outcome1
  <2>2. reviewed \in RunRow
    BY <1>1, <1>6, <2>1 DEF RunRow
  <2>3. \/ build' = [build EXCEPT ![b] = reviewed]
        \/ Runs!Repairs(b) /\ build' = [build EXCEPT ![b] = Runs!Repairing(b, "interaction", outcome1)]
    BY <1>1, <1>13 DEF Runs!Browsed, outcome1
  <2> QED  BY <1>3, <1>7, <2>1, <2>2, <2>3
<1>14. CASE \/ Runs!StartApplication(b) \/ Runs!Probe(b) \/ Runs!Launch(b) \/ Runs!Browse(b)
  BY <1>4, <1>6, <1>12, <1>13, <1>14
  DEF Runs!StartApplication, Runs!Probe, Runs!Launch, Runs!Browse
<1>15. CASE Runs!Review(b)
  <2>1. PICK secure \in BOOLEAN :
          LET ready == Runs!Passed(Runs!Outcome(b, "security", secure))
          IN  build' = [build EXCEPT ![b] =
                CASE ready \/ old.delivery = 0 -> [old EXCEPT !.at = "council", !.ready = ready,
                                                              !.ok = Runs!Outcome(b, "security", secure)]
                  [] ~ready /\ old.delivery \in 1 .. MaxDeliveries - 1 ->
                       Runs!Delivering(b, old.cycle, old.delivery + 1)
                  [] OTHER -> Runs!NextCycle(b, FALSE)]
    BY <1>1, <1>15 DEF Runs!Review
  <2> DEFINE ok == Runs!Outcome(b, "security", secure)
             ready == Runs!Passed(ok)
             council == [old EXCEPT !.at = "council", !.ready = ready, !.ok = ok]
  <2>2. ok \in SUBSET Runs!Checks
    BY <1>5, <1>6
  <2>3. ready \in BOOLEAN
    BY DEF Runs!Passed
  <2>4. \/ build' = [build EXCEPT ![b] = council]
        \/ /\ old.delivery \in 1 .. MaxDeliveries - 1
           /\ build' = [build EXCEPT ![b] = Runs!Delivering(b, old.cycle, old.delivery + 1)]
        \/ build' = [build EXCEPT ![b] = Runs!NextCycle(b, FALSE)]
    <3> DEFINE one == ready \/ old.delivery = 0
               two == ~ready /\ old.delivery \in 1 .. MaxDeliveries - 1
               again == Runs!Delivering(b, old.cycle, old.delivery + 1)
               round == Runs!NextCycle(b, FALSE)
    <3>1. build' = [build EXCEPT ![b] = CASE one -> council [] two -> again [] OTHER -> round]
      BY <2>1
    <3>2. two => old.delivery \in 1 .. MaxDeliveries - 1
      OBVIOUS
    <3>3. ~(one /\ two)
      OBVIOUS
    <3> HIDE DEF one, two, again, round, council
    <3>4. build' \in {[build EXCEPT ![b] = council], [build EXCEPT ![b] = round]}
          \/ (two /\ build' = [build EXCEPT ![b] = again])
      BY <3>1, <3>3
    <3> QED  BY <3>2, <3>4 DEF again, round
  <2> HIDE DEF ok, ready
  <2>5. council \in RunRow
    BY <1>1, <1>6, <2>2, <2>3 DEF RunRow
  <2> HIDE DEF council
  <2>6. ASSUME old.delivery \in 1 .. MaxDeliveries - 1
        PROVE  old.delivery + 1 \in 0 .. MaxDeliveries /\ old.cycle \in 1 .. MaxRounds
    BY <1>1, <1>2, <2>6 DEF RunRow
  <2> QED  BY <1>3, <1>8, <1>9, <2>4, <2>5, <2>6
<1>16. old.ready \in BOOLEAN
  BY <1>1 DEF RunRow
<1>17. CASE Runs!Council(b)
  <2> DEFINE promoting == [old EXCEPT !.at = "promote"]
             answering == [old EXCEPT !.at = "compact", !.ready = FALSE]
  <2>1. promoting \in RunRow /\ answering \in RunRow
    BY <1>1, <1>6 DEF RunRow
  <2>2. \/ build' = [build EXCEPT ![b] = promoting]
        \/ build' = [build EXCEPT ![b] = Runs!NextCycle(b, old.ready)]
        \/ build' = [build EXCEPT ![b] = answering]
    BY <1>1, <1>17 DEF Runs!Council
  <2> QED  BY <1>3, <1>9, <1>16, <2>1, <2>2
<1>18. CASE Runs!Promote(b)
  <2>1. \/ build' = [build EXCEPT ![b] = Runs!NextCycle(b, old.ready)]
        \/ Runs!Goto(b, "compact") \/ Runs!Goto(b, "failed")
    BY <1>1, <1>18 DEF Runs!Promote, Runs!Throw
  <2> QED  BY <1>3, <1>4, <1>6, <1>9, <1>16, <2>1
<1>19. CASE Runs!Compact(b)
  <2> DEFINE r == [old EXCEPT !.at = "answered", !.verified = holds[b]]
  <2>1. r \in RunRow
    BY <1>1, <1>6 DEF RunRow
  <2>2. build' = [build EXCEPT ![b] = r]
    BY <1>1, <1>19 DEF Runs!Compact
  <2> QED  BY <1>3, <2>1, <2>2
<1> QED  BY <1>10, <1>11, <1>14, <1>15, <1>17, <1>18, <1>19

LEMMA RowsKept ==
  ASSUME RowsInv, [Runs!Next]_(Runs!vars)
  PROVE  RowsInv'
<1>1. CASE UNCHANGED Runs!vars
  BY <1>1 DEF Runs!vars, RowsInv
<1>2. CASE Runs!Next
  <2>1. PICK b \in Builds :
         \/ Runs!Start(b) \/ Runs!Generate(b) \/ Runs!Write(b)
         \/ Runs!Test(b) \/ Runs!StartApplication(b) \/ Runs!Probe(b) \/ Runs!Launch(b)
         \/ Runs!Browse(b) \/ Runs!Review(b) \/ Runs!Council(b) \/ Runs!Promote(b)
         \/ Runs!Compact(b) \/ Runs!Die(b)
    BY <1>2 DEF Runs!Next
  <2>2. build' \in [Builds -> RunRow]
    BY <2>1, RowAfter
  <2>3. \A c \in Runs!Checks, ok \in BOOLEAN : Runs!Checked(b, c, ok) => holds' \in [Builds -> SUBSET Runs!Checks]
    BY DEF RowsInv, Runs!Checked
  <2>4. {"tests", "runtime", "interaction", "security"} = Runs!Checks
    BY DEF Runs!Checks
  <2>5. holds' \in [Builds -> SUBSET Runs!Checks]
    <3>1. \/ holds' = holds \/ Runs!TreeChanges
          \/ \E c \in {"tests", "runtime", "interaction", "security"}, ok \in BOOLEAN : Runs!Checked(b, c, ok)
      <4>1. ASSUME Runs!Start(b) \/ Runs!Generate(b) \/ Runs!Write(b) \/ Runs!Promote(b) \/ Runs!Compact(b)
                   \/ Runs!Die(b)
            PROVE  holds' = holds \/ Runs!TreeChanges
        BY <4>1 DEF Runs!Start, Runs!Generate, Runs!Write, Runs!Promote, Runs!Compact, Runs!Die
      <4>2. ASSUME Runs!Test(b) PROVE \E ok \in BOOLEAN : Runs!Checked(b, "tests", ok)
        BY <4>2 DEF Runs!Test
      <4>3. ASSUME Runs!StartApplication(b) \/ Runs!Probe(b)
            PROVE  holds' = holds \/ \E ok \in BOOLEAN : Runs!Checked(b, "runtime", ok)
        BY <4>3 DEF Runs!StartApplication, Runs!Probe
      <4>4. ASSUME Runs!Launch(b) \/ Runs!Browse(b)
            PROVE  holds' = holds \/ \E ok \in BOOLEAN : Runs!Checked(b, "interaction", ok)
        BY <4>4 DEF Runs!Launch, Runs!Browse
      <4>5. ASSUME Runs!Review(b) PROVE \E ok \in BOOLEAN : Runs!Checked(b, "security", ok)
        BY <4>5 DEF Runs!Review
      <4>6. ASSUME Runs!Council(b)
            PROVE  holds' = holds \/ \E ok \in BOOLEAN : Runs!Checked(b, "security", ok)
        <5>1. Runs!Verdicts(b) \subseteq BOOLEAN
          <6> DEFINE found == "security" \in build[b].ok
          <6>1. found \in BOOLEAN
            OBVIOUS
          <6>2. Runs!Verdicts(b) = IF alone[b] THEN {found} ELSE BOOLEAN
            BY DEF Runs!Verdicts
          <6> HIDE DEF found
          <6> QED  BY <6>1, <6>2
        <5> QED  BY <4>6, <5>1 DEF Runs!Council
      <4> QED  BY <2>1, <4>1, <4>2, <4>3, <4>4, <4>5, <4>6
    <3> QED  BY <2>3, <2>4, <3>1 DEF RowsInv, Runs!TreeChanges
  <2>6. alone' \in [Builds -> BOOLEAN]
    <3>1. alone' = alone \/ Runs!Start(b)
      BY <2>1 DEF Runs!Generate, Runs!Write, Runs!Test, Runs!StartApplication, Runs!Probe,
         Runs!Launch, Runs!Browse, Runs!Review, Runs!Council, Runs!Promote, Runs!Compact, Runs!Die
    <3> QED  BY <3>1 DEF RowsInv, Runs!Start
  <2>7. port' \in SUBSET Builds /\ \A c, d \in port' : c = d
    <3>1. port' = port \/ port' = {b} \/ port' = port \ {b}
      BY <2>1 DEF Runs!Start, Runs!Generate, Runs!Write, Runs!Test, Runs!StartApplication, Runs!Probe,
         Runs!Launch, Runs!Browse, Runs!Review, Runs!Council, Runs!Promote, Runs!Compact, Runs!Die,
         Runs!Runs, Runs!Stops
    <3> QED  BY <3>1 DEF RowsInv
  <2>8. deaths' \in 0 .. MaxDeaths
    <3>1. deaths' = deaths \/ (deaths < MaxDeaths /\ deaths' = deaths + 1)
      BY <2>1 DEF Runs!Start, Runs!Generate, Runs!Write, Runs!Test, Runs!StartApplication, Runs!Probe,
         Runs!Launch, Runs!Browse, Runs!Review, Runs!Council, Runs!Promote, Runs!Compact, Runs!Die
    <3>2. deaths \in 0 .. MaxDeaths /\ MaxDeaths \in Nat
      BY PartsAssumption DEF RowsInv
    <3> QED  BY <3>1, <3>2
  <2> QED  BY <2>2, <2>5, <2>6, <2>7, <2>8 DEF RowsInv
<1> QED  BY <1>1, <1>2

LEMMA RunTypesHold == Runs!Spec => []Runs!TypeOK
<1>1. ASSUME Runs!Init PROVE RowsInv
  <2>1. Runs!NewBuild \in RunRow /\ 0 \in 0 .. MaxDeaths
    BY PartsAssumption DEF Runs!NewBuild, RunRow, Runs!Places, Runs!Checks
  <2> QED  BY <1>1, <2>1 DEF Runs!Init, RowsInv
<1>2. RowsInv /\ [Runs!Next]_(Runs!vars) => RowsInv'
  BY RowsKept
<1>3. RowsInv => Runs!TypeOK
  BY DEF RowsInv, RunRow, Runs!TypeOK
<1> QED  BY <1>1, <1>2, <1>3, PTL DEF Runs!Spec

\* Whichever of the four a behaviour is of: an engine has edits left exactly while it
\* applies them; a build stays within its repairs, deliveries and rounds, and one at
\* most has the port; the mission file is none or has a status of every mission and a
\* current one; a worker and its file keep within the cycles; for any values of the
\* bounds (code-reasoning-engine.js, autonomous-build-pipeline.js, mission-manager-engine.js,
\* autonomous-project-worker.js, autonomous-deployment-engine.js).
THEOREM PartsTypes == AllSpec => []AllTypeOK
<1>1. AllInit => Init /\ Engines!Init /\ Runs!Init /\ Deployments!Init
  BY DEF AllInit
<1>2. [AllNext]_allVars => [Next]_vars
  BY DEF AllNext, allVars
<1>3. [AllNext]_allVars => [Engines!Next]_(Engines!vars)
  BY DEF AllNext, allVars, engineVars, Engines!vars
<1>4. [AllNext]_allVars => [Runs!Next]_(Runs!vars)
  BY DEF AllNext, allVars, runVars, Runs!vars
<1>5. [AllNext]_allVars => [Deployments!Next]_(Deployments!vars)
  BY DEF AllNext, allVars, deployVars, Deployments!vars, Deployments!deploymentVars
<1> QED
  BY <1>1, <1>2, <1>3, <1>4, <1>5, ProjectTypesHold, EngineTypesHold, RunTypesHold, DeploymentTypesHold, PTL
  DEF AllSpec, AllTypeOK, Spec, Engines!Spec, Runs!Spec, Deployments!Spec

=============================================================================
