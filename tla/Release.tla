------------------------------- MODULE Release -------------------------------
(***************************************************************************)
(* One process that executes commands: JoraRuntime.execute                 *)
(* (src/core/jora-runtime.js), the repair loop of AutonomousController.run *)
(* (src/core/autonomous-controller.js) and PromotionController.promote     *)
(* (src/core/promotion-controller.js) on the shared Workspace, followed by *)
(* the Deployment of what was promoted.  The operator API starts           *)
(* executions without waiting for earlier ones, so they interleave at      *)
(* every call; a restart ends them all.                                    *)
(*                                                                         *)
(* What a model writes, what a review says and what CI answers is any      *)
(* outcome; of a candidate's evaluation only its benchmark score is kept.  *)
(***************************************************************************)
EXTENDS Workspace, Deployment, FiniteSets

CONSTANTS Scores,       \* benchmark scores that pass the evaluator's minimum
          MaxFaults,    \* bound: calls that throw, operator stops and restarts
          Settings      \* how a process may be configured and used:
                        \* github: a remote repository and its CI gate are set up;
                        \* scoreless: the policy rules accept a result without scores;
                        \* mode: the deployment controller; cycles: maxCycles;
                        \* overlap: how many commands its callers run at once;
                        \* fresh: the context.freshProject they pass;
                        \* scores: the scores their candidates reach;
                        \* faults: the bound on faults under this setting

ASSUME VersionsAreExecutions == Versions = Execs
ASSUME ScoresAreNumbers == Scores \subseteq Nat \ {0}
ASSUME SettingsAreSettings ==
  Settings \subseteq [github: BOOLEAN, scoreless: BOOLEAN, mode: Modes,
                     cycles: 1..MaxCycles, overlap: Nat,
                     fresh: SUBSET BOOLEAN, scores: SUBSET Scores, faults: 0..MaxFaults]
ASSUME FaultsBounded == MaxFaults \in Nat

VARIABLES
  settings,   \* how the process is configured and used
  pc,         \* pc[e]: where execute() of e is
  gov,        \* gov[e]: the governance state of e
  record,     \* record[e]: the status of e in the execution store
  run,        \* run[e]: the local variables of controller.run and promote
  stop,       \* this.stopRequested of the controller
  champion,   \* the champion in memory: its commit, branch and score
  saved,      \* the champion in the state file
  landed,     \* history: landed[e], where e's promotion moved the target
  alone,      \* history: alone[e], no other execution used the workspace
  faults, restarts

executionVars == <<pc, gov, record, run, landed, alone>>
vars == <<workspaceVars, deploymentVars, settings, executionVars, stop, champion, saved, faults, restarts>>

-----------------------------------------------------------------------------
(* Governance.                                                             *)

States == {"REQUESTED", "AUTHORIZED", "PLANNED", "GENERATING", "ISOLATED", "BUILDING",
           "TESTING", "SECURITY_CHECK", "BENCHMARKING", "CANDIDATE", "CI", "PROMOTION_CHECK",
           "PROMOTED", "STAGING", "STAGING_HEALTH", "PRODUCTION", "PRODUCTION_HEALTH",
           "MONITORING", "RECOVERY", "REJECTED", "FAILED", "BLOCKED", "ROLLED_BACK", "COMPLETED"}

Transitions == [s \in States |->
  CASE s = "REQUESTED" -> {"AUTHORIZED", "REJECTED"}
    [] s = "AUTHORIZED" -> {"PLANNED", "REJECTED"}
    [] s = "PLANNED" -> {"GENERATING", "REJECTED"}
    [] s = "GENERATING" -> {"ISOLATED", "FAILED"}
    [] s = "ISOLATED" -> {"BUILDING", "FAILED"}
    [] s = "BUILDING" -> {"TESTING", "FAILED", "BLOCKED"}
    [] s = "TESTING" -> {"SECURITY_CHECK", "FAILED"}
    [] s = "SECURITY_CHECK" -> {"BENCHMARKING", "BLOCKED"}
    [] s = "BENCHMARKING" -> {"CANDIDATE", "BLOCKED"}
    [] s = "CANDIDATE" -> {"CI", "PROMOTION_CHECK", "REJECTED"}
    [] s = "CI" -> {"PROMOTION_CHECK", "REJECTED"}
    [] s = "PROMOTION_CHECK" -> {"PROMOTED", "REJECTED", "BLOCKED"}
    [] s = "PROMOTED" -> {"STAGING", "PRODUCTION", "MONITORING"}
    [] s = "STAGING" -> {"STAGING_HEALTH", "FAILED", "ROLLED_BACK"}
    [] s = "STAGING_HEALTH" -> {"PRODUCTION", "ROLLED_BACK"}
    [] s = "PRODUCTION" -> {"PRODUCTION_HEALTH", "FAILED", "ROLLED_BACK"}
    [] s = "PRODUCTION_HEALTH" -> {"MONITORING", "ROLLED_BACK"}
    [] s = "MONITORING" -> {"RECOVERY", "COMPLETED"}
    [] s = "RECOVERY" -> {"MONITORING", "ROLLED_BACK", "FAILED"}
    [] OTHER -> {}]

\* transition() called for each state of a path in turn, none of which throws.
Allowed(e, path) ==
  \A i \in 1..Len(path) : path[i] \in Transitions[IF i = 1 THEN gov[e] ELSE path[i - 1]]
Govern(e, path) == Allowed(e, path) /\ gov' = [gov EXCEPT ![e] = Last(path)]

-----------------------------------------------------------------------------
Places == {"new", "prepare", "build", "head", "review", "promote", "publish", "ci", "mergeRemote",
           "mergeLocal", "checkout", "merge", "merged", "back", "champion",
           "decide", "deploying", "done", "dead"}
InWorkspace(e) == pc[e] \in Places \ {"new", "decide", "deploying", "done", "dead"}
Active(e) == pc[e] \notin {"new", "done", "dead"}

NoScore == 0
NoChampion == [score |-> NoScore, commit |-> Absent, on |-> Main, alone |-> FALSE]
NoRun == [cycle |-> 0, project |-> "none", score |-> NoScore, champion |-> NoScore, branch |-> Main,
          current |-> Main, reviewed |-> {}, published |-> Absent, promoted |-> Absent]

ScoreOrNone == Scores \cup {NoScore}
Run == [cycle: 0..(MaxCycles + 1), project: {"none", "built", "blocked"}, score: ScoreOrNone,
        champion: ScoreOrNone, branch: Branches, current: Branches, reviewed: Trees,
        published: Seq(Trees), promoted: Seq(Trees)]
\* alone is history: whether its execution had the workspace to itself.
Champion == [score: ScoreOrNone, commit: Seq(Trees), on: Branches, alone: BOOLEAN]

TypeOK ==
  /\ WorkspaceTypeOK
  /\ DeploymentTypeOK
  /\ settings \in Settings
  /\ stop \in BOOLEAN
  /\ pc \in [Execs -> Places]
  /\ gov \in [Execs -> States]
  /\ record \in [Execs -> {"none", "RUNNING", "PROMOTED", "COMPLETED", "FAILED"}]
  /\ run \in [Execs -> Run]
  /\ {champion, saved} \subseteq Champion
  /\ landed \in [Execs -> {"no", "remote", "both"}]
  /\ alone \in [Execs -> BOOLEAN]
  /\ faults \in 0..MaxFaults
  /\ restarts \in 0..MaxRestarts

Init ==
  /\ WorkspaceInit
  /\ DeploymentInit
  /\ settings \in Settings
  /\ mode = settings.mode
  /\ pc = [e \in Execs |-> "new"]
  /\ gov = [e \in Execs |-> "REQUESTED"]
  /\ record = [e \in Execs |-> "none"]
  /\ run = [e \in Execs |-> NoRun]
  /\ stop = FALSE
  /\ champion = NoChampion
  /\ saved = NoChampion
  /\ landed = [e \in Execs |-> "no"]
  /\ alone = [e \in Execs |-> FALSE]
  /\ faults = 0
  /\ restarts = 0

-----------------------------------------------------------------------------
(* execute(), up to the controller.                                        *)

Goto(e, place) == pc' = [pc EXCEPT ![e] = place]
bounds == <<faults, restarts>>
Fault == faults < settings.faults /\ faults' = faults + 1
released == <<stop, champion, saved, deploymentVars, settings, bounds>>

\* create(), planning, and the checkout of the candidate branch.
Accept(e) ==
  /\ pc[e] = "new"
  /\ Cardinality({f \in Execs : Active(f)}) < settings.overlap
  /\ Govern(e, <<"AUTHORIZED", "PLANNED", "GENERATING", "ISOLATED">>)
  /\ record' = [record EXCEPT ![e] = "RUNNING"]
  /\ BranchOff(e)
  /\ alone' = [f \in Execs |-> IF f = e THEN \A g \in Execs : ~InWorkspace(g)
                               ELSE alone[f] /\ ~InWorkspace(f)]
  /\ Goto(e, "prepare")
  /\ UNCHANGED <<released, run, landed>>

\* The rest of the preparation, with or without the files of the base branch
\* (context.freshProject).
Prepare(e) ==
  /\ pc[e] = "prepare"
  /\ \E fresh \in settings.fresh : NameCandidate(e, fresh)
  /\ Govern(e, <<"BUILDING">>)
  /\ Goto(e, "build")
  /\ UNCHANGED <<released, record, run, landed, alone>>

\* builder.build(), the transitions around it, and the start of controller.run:
\* the stop request is cleared and the champion is read once for all cycles.
Build(e) ==
  /\ pc[e] = "build"
  /\ Write(<<e, 0>>)
  /\ Govern(e, <<"TESTING", "SECURITY_CHECK", "BENCHMARKING", "CANDIDATE">>)
  /\ \E project \in {"built", "blocked"} :
       run' = [run EXCEPT ![e].cycle = 1, ![e].project = project, ![e].champion = champion.score]
  /\ stop' = FALSE
  /\ Goto(e, "head")
  /\ UNCHANGED <<champion, saved, deploymentVars, settings, bounds, record, landed, alone>>

-----------------------------------------------------------------------------
(* The repair loop.                                                        *)

inLoop == <<released, gov, record, landed, alone>>

\* cycle<=this.maxCycles&&!this.stopRequested
GoesOn(e) == run[e].cycle <= settings.cycles /\ ~stop

\* Mutant: a blocked cycle is not counted.
NextCycleUncounted(e) ==
  /\ run' = [run EXCEPT ![e].project = "none", ![e].reviewed = {}, ![e].published = Absent]
  /\ Goto(e, "head")

\* Every blocked or rejected cycle: forget the project and try the next one.
NextCycle(e) ==
  /\ run' = [run EXCEPT ![e].cycle = @ + 1, ![e].project = "none", ![e].reviewed = {},
                        ![e].published = Absent]
  /\ Goto(e, "head")

\* delivery.deliver() writes the next build into the same working tree.
Deliver(e) ==
  /\ pc[e] = "head" /\ GoesOn(e) /\ run[e].project = "none"
  /\ Write(<<e, run[e].cycle>>)
  /\ \/ run' = [run EXCEPT ![e].project = "built"] /\ Goto(e, "review")
     \/ NextCycle(e)
  /\ UNCHANGED inLoop

BuildBlocked(e) ==
  /\ pc[e] = "head" /\ GoesOn(e) /\ run[e].project = "blocked"
  /\ NextCycle(e)
  /\ UNCHANGED <<workspaceVars, inLoop>>

\* securityCouncil.review() of the files in the workspace.
Review(e) ==
  /\ \/ pc[e] = "head" /\ GoesOn(e) /\ run[e].project = "built"
     \/ pc[e] = "review"
  /\ \/ run' = [run EXCEPT ![e].reviewed = work] /\ Goto(e, "promote")
     \/ NextCycle(e)
  /\ UNCHANGED <<workspaceVars, inLoop>>

\* Mutant: the champion gate compares with minimumDelta -1.
BeatsChampionNearly(e, score) == score + 1 >= run[e].champion
\* The champion gates: no benchmark below the one the champion had when the
\* run read it.
BeatsChampion(e, score) == score >= run[e].champion

\* promote(), its gates; the policy, the evaluator or the regression analysis
\* may also refuse for other reasons.
Refuse(e) ==
  /\ pc[e] = "promote"
  /\ NextCycle(e)
  /\ UNCHANGED <<workspaceVars, inLoop>>

\* promote(), the local commit, on whatever branch is checked out.
CommitCandidate(e) ==
  /\ pc[e] = "promote"
  /\ CommitWork
  /\ \E score \in settings.scores :
       BeatsChampion(e, score) /\ run' = [run EXCEPT ![e].score = score]
  /\ Goto(e, IF settings.github THEN "publish" ELSE "mergeLocal")
  /\ UNCHANGED inLoop

\* The branch that is published, and then promoted, is whatever
\* this.candidateBranch is after the commit.
PublishCandidate(e) ==
  /\ pc[e] = "publish"
  /\ Publish(cand)
  /\ run' = [run EXCEPT ![e].branch = cand, ![e].published = Published(cand)]
  /\ Goto(e, "ci")
  /\ UNCHANGED inLoop

\* ciGate.review() of the published commit: passed, or failed, or timed out.
CIReview(e) ==
  /\ pc[e] = "ci"
  /\ \/ Goto(e, "mergeRemote") /\ UNCHANGED run
     \/ NextCycle(e)
  /\ UNCHANGED <<workspaceVars, inLoop>>

MergeRemote(e) ==
  /\ pc[e] = "mergeRemote"
  /\ PromoteRemote(run[e].branch)
  /\ landed' = [landed EXCEPT ![e] = "remote"]
  /\ run' = [run EXCEPT ![e].promoted = remote[run[e].branch]]
  /\ Goto(e, "mergeLocal")
  /\ UNCHANGED <<released, gov, record, alone>>

\* promoteCandidate(), the local part: which branch is checked out?
ReadHead(e) ==
  /\ pc[e] = "mergeLocal"
  /\ run' = [run EXCEPT ![e].branch = IF settings.github THEN @ ELSE cand, ![e].current = head]
  /\ Goto(e, IF head = target THEN "merge" ELSE "checkout")
  /\ UNCHANGED <<workspaceVars, inLoop>>

CheckoutTarget(e) ==
  /\ pc[e] = "checkout"
  /\ Checkout(target)
  /\ Goto(e, "merge")
  /\ UNCHANGED <<run, inLoop>>

\* mergeFastForward(); only what is merged into the target has landed there.
MergeLocal(e) ==
  /\ pc[e] = "merge"
  /\ Merge(run[e].branch)
  /\ landed' = [landed EXCEPT ![e] = IF head = target THEN "both" ELSE @]
  /\ Goto(e, "merged")
  /\ UNCHANGED <<released, gov, record, run, alone>>

\* Its answer: the commit of what is checked out by then.  Without GitHub that
\* is the promoted commit.
ReadMerged(e) ==
  /\ pc[e] = "merged"
  /\ run' = [run EXCEPT ![e].promoted = IF settings.github THEN @ ELSE local[head]]
  /\ Goto(e, IF run[e].current = target THEN "champion" ELSE "back")
  /\ UNCHANGED <<workspaceVars, inLoop>>

CheckoutBack(e) ==
  /\ pc[e] = "back"
  /\ Checkout(run[e].current)
  /\ Goto(e, "champion")
  /\ UNCHANGED <<run, inLoop>>

\* Mutant: the champion is recorded for the main branch by name.
NewChampionOnMain(e) ==
  [score |-> run[e].score, on |-> Main, commit |-> run[e].promoted, alone |-> alone[e]]
\* The candidate with the commit the promotion answered.
NewChampion(e) ==
  [score |-> run[e].score, on |-> target, commit |-> run[e].promoted, alone |-> alone[e]]

\* championStore.promote(), and with it the end of controller.run.
PromoteChampion(e) ==
  /\ pc[e] = "champion"
  /\ champion' = NewChampion(e)
  /\ saved' = champion'
  /\ Goto(e, "decide")
  /\ run' = [run EXCEPT ![e] = NoRun]
  /\ UNCHANGED <<workspaceVars, stop, deploymentVars, settings, bounds, gov, record, landed, alone>>

-----------------------------------------------------------------------------
(* execute(), after the controller.                                        *)

\* finish() and the end of execute(): its local state is gone.
End(e, status) ==
  /\ record' = [record EXCEPT ![e] = status]
  /\ run' = [run EXCEPT ![e] = NoRun]
  /\ Goto(e, "done")

atRest == <<workspaceVars, stop, champion, saved, settings, landed, alone>>

\* The loop ends without a promotion: STOPPED or NOT_PROMOTED.
GiveUp(e) ==
  /\ pc[e] = "head" /\ ~GoesOn(e)
  /\ Govern(e, <<"PROMOTION_CHECK", "REJECTED">>)
  /\ End(e, "COMPLETED")
  /\ UNCHANGED <<atRest, deploymentVars, bounds>>

\* The policy engine denies EXECUTE to the tenant of e, in the first cycle: the
\* loop is left and the result is NOT_PROMOTED.
PolicyBlocks(e) ==
  /\ pc[e] = "head" /\ GoesOn(e) /\ run[e].cycle = 1
  /\ Govern(e, <<"PROMOTION_CHECK", "REJECTED">>)
  /\ End(e, "COMPLETED")
  /\ UNCHANGED <<atRest, deploymentVars, bounds>>

\* policyEngine.enforce() sees the controller's result, which has no scores.
PolicyDenies(e) ==
  /\ pc[e] = "decide" /\ ~settings.scoreless
  /\ Govern(e, <<"PROMOTION_CHECK">>)
  /\ End(e, "FAILED")
  /\ UNCHANGED <<atRest, deploymentVars, bounds>>

FinishPromoted(e) ==
  /\ pc[e] = "decide" /\ settings.scoreless /\ mode = "none"
  /\ Govern(e, <<"PROMOTION_CHECK", "PROMOTED", "MONITORING">>)
  /\ End(e, "PROMOTED")
  /\ UNCHANGED <<atRest, deploymentVars, bounds>>

StartDeployment(e) ==
  /\ pc[e] = "decide" /\ settings.scoreless
  /\ Deploy(e)
  /\ Govern(e, <<"PROMOTION_CHECK", "PROMOTED">>)
  /\ Goto(e, "deploying")
  /\ UNCHANGED <<atRest, bounds, record, run>>

DeploymentStep(e) ==
  /\ pc[e] = "deploying"
  /\ \/ AdapterDeploys(e) \/ HealthPasses(e) \/ HealthFails(e) \/ RollsBack(e)
  /\ UNCHANGED <<atRest, bounds, pc, gov, record, run>>

DeploymentFault(e) ==
  /\ pc[e] = "deploying"
  /\ Fault
  /\ AdapterThrows(e) \/ RecordThrows(e) \/ ReportThrows(e) \/ RollbackThrows(e)
  /\ UNCHANGED <<atRest, restarts, pc, gov, record, run>>

\* deploy() returned.  The transitions to PRODUCTION and MONITORING follow, and
\* the one the table does not have throws.
Finish(e) ==
  /\ pc[e] = "deploying" /\ at[e] = "ended"
  /\ IF Allowed(e, <<"PRODUCTION", "MONITORING">>)
     THEN /\ Govern(e, <<"PRODUCTION", "MONITORING">>)
          /\ End(e, IF Result(e) = "DEPLOYED" THEN "PROMOTED" ELSE "COMPLETED")
     ELSE Govern(e, <<"PRODUCTION">>) /\ End(e, "FAILED")
  /\ UNCHANGED <<atRest, deploymentVars, bounds>>

DeployThrew(e) ==
  /\ pc[e] = "deploying" /\ at[e] = "threw"
  /\ End(e, "FAILED")
  /\ UNCHANGED <<atRest, deploymentVars, bounds, gov>>

\* What git or GitHub refuses: a ref that cannot be updated, a merge that is no
\* fast-forward, and to overwrite what was not committed.
Refused(e) ==
  \/ pc[e] = "mergeRemote" /\ ~CanPromoteRemote(run[e].branch)
  \/ pc[e] = "merge" /\ ~CanMerge(run[e].branch)
  \/ pc[e] \in {"checkout", "merge", "back"} /\ Dirty

\* Mutant: the catch clause ends the execution like a rejected one.
MergeThrowsSwallowed(e) ==
  /\ Refused(e)
  /\ End(e, "COMPLETED")
  /\ UNCHANGED <<workspaceVars, released, gov, landed, alone>>

\* The catch clause.  Whatever is checked out stays checked out.
MergeThrows(e) ==
  /\ Refused(e)
  /\ End(e, "FAILED")
  /\ UNCHANGED <<workspaceVars, released, gov, landed, alone>>

\* Any other call fails, also between the git commands of a promotion.
CallThrows(e) ==
  /\ InWorkspace(e) /\ pc[e] # "champion"
  /\ Fault
  /\ End(e, "FAILED")
  /\ UNCHANGED <<atRest, deploymentVars, restarts, gov>>

\* persist() of the champion store throws: the new champion is in memory only.
PersistThrows(e) ==
  /\ pc[e] = "champion"
  /\ Fault
  /\ champion' = NewChampion(e)
  /\ End(e, "FAILED")
  /\ UNCHANGED <<workspaceVars, stop, saved, settings, landed, alone, deploymentVars, restarts, gov>>

-----------------------------------------------------------------------------
(* The operator and the process.                                           *)

Stop ==
  /\ ~stop
  /\ Fault
  /\ stop' = TRUE
  /\ UNCHANGED <<workspaceVars, deploymentVars, settings, executionVars, champion, saved, restarts>>

\* The process dies and is started again: the executions it had are not resumed
\* and their records stay RUNNING; files, branches, champion and endpoint stay.
Restart ==
  /\ restarts < MaxRestarts
  /\ Fault
  /\ restarts' = restarts + 1
  /\ Reopen(restarts + 1)
  /\ DeploymentCrash
  /\ pc' = [e \in Execs |-> IF Active(e) THEN "dead" ELSE pc[e]]
  /\ run' = [e \in Execs |-> NoRun]
  /\ stop' = FALSE
  /\ champion' = saved
  /\ UNCHANGED <<settings, gov, record, landed, alone, saved>>

LoopStep(e) ==
  \/ Deliver(e) \/ BuildBlocked(e) \/ Review(e) \/ Refuse(e) \/ CommitCandidate(e)
  \/ PublishCandidate(e) \/ CIReview(e) \/ MergeRemote(e)
  \/ ReadHead(e) \/ CheckoutTarget(e) \/ MergeLocal(e) \/ ReadMerged(e) \/ CheckoutBack(e)
  \/ PromoteChampion(e)
ExecuteStep(e) ==
  \/ Prepare(e) \/ Build(e) \/ LoopStep(e) \/ GiveUp(e) \/ PolicyBlocks(e) \/ MergeThrows(e) \/ PolicyDenies(e)
  \/ FinishPromoted(e) \/ StartDeployment(e) \/ DeploymentStep(e) \/ Finish(e) \/ DeployThrew(e)

Next ==
  \/ \E e \in Execs : Accept(e) \/ ExecuteStep(e) \/ CallThrows(e) \/ PersistThrows(e)
                       \/ DeploymentFault(e)
  \/ Stop \/ Restart

Spec == Init /\ [][Next]_vars

\* Every call of an execution returns; nothing has to be accepted, stopped,
\* restarted or to fail.
Fairness == \A e \in Execs : WF_vars(ExecuteStep(e))
FairSpec == Spec /\ Fairness

-----------------------------------------------------------------------------
(* Properties *)

\* What an execution merges while it has the workspace to itself is what its
\* security review saw, and on GitHub the commit its CI gate passed.
PromotedAsValidated ==
  \A e \in Execs : pc[e] = "champion" /\ alone[e] =>
    /\ Tip(local[target]) = run[e].reviewed
    /\ settings.github => run[e].promoted = run[e].published

\* The champion, in memory and in its file, is in the history of the branch it
\* was promoted to, through every failed merge, restart and later promotion; one
\* whose merge was taken elsewhere is at least not lost to every branch.
ChampionIsPromoted ==
  \A c \in {champion, saved} : c.score # NoScore =>
    IF settings.github THEN IsPrefix(c.commit, remote[c.on])
    ELSE \E b \in Branches : IsPrefix(c.commit, local[b]) /\ (c.alone => b = c.on)

\* An execution that had the workspace to itself never replaces the champion by
\* one with a lower benchmark score.
ChampionNeverRegresses ==
  [][\A e \in Execs : pc[e] = "champion" /\ pc'[e] = "decide" /\ alone[e]
       => champion'.score >= champion.score]_vars

\* Promotion only ever extends a branch that others build on, however many
\* executions promote at once: no promoted commit is lost.
TargetOnlyGrows ==
  [][/\ IsPrefix(local[target], local'[target])
     /\ IsPrefix(remote[target], remote'[target])]_vars

\* What stands of a promotion that was answered: GitHub's target moved, and for
\* an execution that had the workspace to itself the local one too.  Without
\* GitHub another execution's checkout may have taken the merge elsewhere.
Landed(e) == (settings.github => landed[e] # "no") /\ (alone[e] => landed[e] = "both")

\* PROMOTED is recorded only for what was merged, COMPLETED only for what was not.
RecordTruth ==
  \A e \in Execs : /\ record[e] = "PROMOTED" => Landed(e)
                   /\ record[e] = "COMPLETED" => landed[e] = "no"

\* The endpoint only ever gets versions whose promotion stands, and the production
\* environment of a staged deployment only those that staging reported DEPLOYED.
OnlyStagedServed ==
  \A e \in Execs, n \in Envs : e \in serving[n] =>
    /\ Landed(e)
    /\ n = "production" /\ mode = "staged" => outcome[e]["staging"] = "DEPLOYED"

\* A deployment reported ROLLED_BACK is not served any more, also when the
\* rollback was tried twice.
RolledBackNotServed ==
  \A e \in Execs, n \in Envs : outcome[e][n] = "ROLLED_BACK" => e \notin serving[n]

\* Every execution ends with a final record, unless its process dies.
ExecutionsEnd == \A e \in Execs : Active(e) ~> ~Active(e)

\* "Per-execution isolated candidate branches": what an execution has merged
\* holds no build of an execution that was not promoted itself.
CandidatesIsolated ==
  \A e \in Execs : pc[e] = "champion" =>
    \A build \in Tip(run[e].promoted) : landed[build[1]] # "no"

\* "Promotion and deployment are additionally enforced by JoraRuntime using
\* benchmark, quality, tenant and security policy requirements": what the
\* policy denies is not promoted.
DeniedIsNotPromoted == 
  \A e \in Execs : record[e] = "FAILED" /\ gov[e] = "PROMOTION_CHECK" => landed[e] = "no"
=============================================================================
