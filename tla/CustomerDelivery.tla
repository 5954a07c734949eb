-------------------------- MODULE CustomerDelivery --------------------------
(***************************************************************************)
(* CustomerMissionOrchestrator.execute() and the external execution plane  *)
(* it delivers through: control gate, plan, build in the project's one     *)
(* workspace, gates, tests with at most two repairs, publication, webhook  *)
(* deployment, health check, rollback, and the records that are left.      *)
(* Missions of one project run side by side.  Any awaited call may throw;  *)
(* execute() answers every exception with FAILED.                          *)
(***************************************************************************)
EXTENDS CustomerControl, Sequences

VARIABLES
    tree,      \* tree[p]: the files in the working tree of the project
    live,      \* live[p]: what the deployment endpoint serves for the project
    urls       \* rows of the production URL registry, oldest first

deliveryVars == <<tree, live, urls>>

UrlRow == [project : Projects, status : EndStatuses]

DeliveryInit ==
    /\ tree = [p \in Projects |-> NoBuild]
    /\ live = [p \in Projects |-> NoBuild]
    /\ urls = <<>>

UsesTree == {"build", "snapshot", "testing", "repairing"}

\* The mission goes on at `stage` and has written build `cycle` into the
\* working tree of its project; missions that are using the tree are crossed
WriteTree(m, stage, cycle) ==
    LET p == job[m].project
    IN  /\ tree' = [tree EXCEPT ![p] = [by |-> m, cycle |-> cycle]]
        /\ job' = [n \in Missions |->
             IF n = m THEN [job[m] EXCEPT !.stage = stage, !.cycle = cycle]
             ELSE [job[n] EXCEPT !.crossed = @ \/ (job[n].project = p /\ job[n].stage \in UsesTree)]]

\* mission `m` goes on at `stage`
Goto(m, stage) == job' = [job EXCEPT ![m].stage = stage]

\* The call is over and its local variables are gone
Ended(m, status) ==
    [NewJob EXCEPT !.stage = "end", !.status = status, !.project = job[m].project,
                   !.deployed = job[m].deployed]

\* missionManager.transition(id,status); return
EndsAs(m, status) == job' = [job EXCEPT ![m] = Ended(m, status)]

\* control gate: preflight, checkpoint, ledger event
Gate(m) ==
    /\ job[m].stage = "gate"
    /\ Goto(m, "planning") \/ EndsAs(m, "BLOCKED")
    /\ UNCHANGED <<controlVars, deliveryVars>>

\* specification, architecture and task graph; a project without a
\* repository of its own has nothing to build
Plan(m) ==
    /\ job[m].stage = "planning"
    /\ \/ job' = [job EXCEPT ![m].stage = "prepare", ![m].status = "PLANNED"]
       \/ EndsAs(m, "READY_FOR_EXECUTION")
    /\ UNCHANGED <<controlVars, deliveryVars>>

\* ensureReady(), prepareCandidate()
Prepare(m) ==
    /\ job[m].stage = "prepare"
    /\ WriteTree(m, "build", 0)
    /\ UNCHANGED <<controlVars, live, urls>>

BuildProject(m) ==
    /\ job[m].stage = "build"
    /\ WriteTree(m, "snapshot", 1)
    /\ UNCHANGED <<controlVars, live, urls>>

\* workspace.snapshot(), then the artifact gate and the build gate
Snapshot(m) ==
    /\ job[m].stage = "snapshot"
    /\ \/ job' = [job EXCEPT ![m].stage = "testing", ![m].files = tree[job[m].project]]
       \/ EndsAs(m, "FAILED")
    /\ UNCHANGED <<controlVars, deliveryVars>>

\* Mutant: a failed test run is not looked at
TestUnchecked(m) ==
    /\ job[m].stage = "testing"
    /\ \E ok \in BOOLEAN :
         job' = [job EXCEPT ![m].stage = "publish", ![m].passed = IF ok THEN tree[job[m].project] ELSE @]
    /\ UNCHANGED <<controlVars, deliveryVars>>

\* runTests() in the working tree; when it passes, the delivery starts with
\* the files of the snapshot
Test(m) ==
    /\ job[m].stage = "testing"
    /\ \/ job' = [job EXCEPT ![m].stage = "publish", ![m].passed = tree[job[m].project]]
       \/ job[m].cycle < 3 /\ Goto(m, "repairing")
       \/ job[m].cycle = 3 /\ EndsAs(m, "FAILED")
    /\ UNCHANGED <<controlVars, deliveryVars>>

RepairBuild(m) ==
    /\ job[m].stage = "repairing"
    /\ WriteTree(m, "testing", job[m].cycle + 1)
    /\ UNCHANGED <<controlVars, live, urls>>

Deliver(m, outcome) == job' = [job EXCEPT ![m].stage = "record", ![m].outcome = outcome]

\* endToEnd(): the candidate is published, its CI has passed and its pull
\* request is open, or one of the three was refused
Publish(m) ==
    /\ job[m].stage = "publish"
    /\ Goto(m, "deploy") \/ Deliver(m, "FAILED")
    /\ UNCHANGED <<controlVars, deliveryVars>>

\* The webhook is called with the published commit; its answer may carry the
\* URL of the deployment.  No status reader is configured, so nothing waits
\* for the deployment to finish.
Deploy(m) ==
    /\ job[m].stage = "deploy"
    /\ \/ /\ live' = [live EXCEPT ![job[m].project] = job[m].files]
          /\ \E url \in BOOLEAN :
               job' = [job EXCEPT ![m].stage = IF url THEN "health" ELSE "record",
                                  ![m].url = url, ![m].deployed = job[m].files,
                                  ![m].outcome = IF url THEN "none" ELSE "DELIVERED"]
       \/ Deliver(m, "FAILED") /\ UNCHANGED live
    /\ UNCHANGED <<controlVars, tree, urls>>

Health(m) ==
    /\ job[m].stage = "health"
    /\ Deliver(m, "DELIVERED") \/ Goto(m, "rollback")
    /\ UNCHANGED <<controlVars, deliveryVars>>

\* Mutant: the status of the rollback is passed on untranslated
RollbackUntranslated(m) ==
    /\ job[m].stage = "rollback"
    /\ Deliver(m, "RELEASE_ROLLBACK_FAILED")
    /\ UNCHANGED <<controlVars, deliveryVars>>

\* The configured rollback moves the branch of the release repository back;
\* nothing is deployed, and ROLLED_BACK is reported whatever it answers
Rollback(m) ==
    /\ job[m].stage = "rollback"
    /\ Deliver(m, "ROLLED_BACK")
    /\ UNCHANGED <<controlVars, deliveryVars>>

\* recordProductionUrl(), updateDelivery(), the version record
RecordUrl(m) ==
    /\ job[m].stage = "record"
    /\ urls' = IF job[m].url
               THEN Append(urls, [project |-> job[m].project, status |-> job[m].outcome])
               ELSE urls
    /\ Goto(m, "close")
    /\ UNCHANGED <<controlVars, tree, live>>

Close(m) ==
    /\ job[m].stage = "close"
    /\ EndsAs(m, job[m].outcome)
    /\ UNCHANGED <<controlVars, deliveryVars>>

\* Mutant: the catch clause does not touch the mission
ThrowsUnseen(m) ==
    /\ job[m].stage \notin {"idle", "refused", "ensuring", "billing", "end"}
    /\ job' = [job EXCEPT ![m] = [Ended(m, job[m].status) EXCEPT !.threw = TRUE]]
    /\ UNCHANGED <<controlVars, deliveryVars>>

\* An awaited call throws.  The deployment webhook may have taken effect
\* before its answer was lost or its timeout aborted the call.
Throws(m) ==
    /\ job[m].stage \notin {"idle", "refused", "ensuring", "billing", "end"}
    /\ \E effect \in {FALSE, job[m].stage = "deploy"} :
         /\ live' = IF effect THEN [live EXCEPT ![job[m].project] = job[m].files] ELSE live
         /\ job' = [job EXCEPT ![m] = [Ended(m, "FAILED") EXCEPT !.threw = TRUE,
                                         !.deployed = IF effect THEN job[m].files ELSE @]]
    /\ UNCHANGED <<controlVars, tree, urls>>

DeliveryStep(m) ==
    \/ Gate(m) \/ Plan(m) \/ Prepare(m) \/ BuildProject(m) \/ Snapshot(m)
    \/ Test(m) \/ RepairBuild(m) \/ Publish(m) \/ Deploy(m) \/ Health(m)
    \/ Rollback(m) \/ RecordUrl(m) \/ Close(m) \/ Throws(m)

-----------------------------------------------------------------------------
(* Properties *)

\* What a mission deploys is the tree its tests passed on.  The exceptions are
\* the two ways in which the snapshot goes stale: the mission was repaired
\* after it was taken, or another mission wrote the shared working tree.
DeploysTheTested ==
    \A m \in Missions :
        job'[m].deployed # job[m].deployed =>
            \/ job'[m].deployed = job[m].passed
            \/ job[m].cycle > 1
            \/ job[m].crossed
DeployedWasTested == [][DeploysTheTested]_<<job, live>>

\* What production serves is accounted for: the mission it comes from is still
\* being delivered, or says DELIVERED or ROLLED_BACK; it says FAILED only if a
\* call threw once the deployment had been asked for.
LiveIsAccountedFor ==
    \A p \in Projects : \A m \in Missions :
        (live[p] # NoBuild /\ job[m].deployed = live[p] /\ job[m].stage = "end") =>
            \/ job[m].status \in {"DELIVERED", "ROLLED_BACK"}
            \/ job[m].status = "FAILED" /\ job[m].threw

=============================================================================
