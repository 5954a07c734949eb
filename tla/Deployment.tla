----------------------------- MODULE Deployment -----------------------------
(***************************************************************************)
(* DeploymentController and StagedDeploymentController                     *)
(* (src/core/deployment-controller.js, staged-deployment-controller.js)    *)
(* for several deploy() calls at a time.  A version is named by the        *)
(* execution that promoted it.  The deployment endpoint behind             *)
(* HttpDeploymentAdapter is external: it holds what was deployed to it,    *)
(* and a rollback withdraws the version it names.                          *)
(*                                                                         *)
(* A call to the endpoint may fail before or after it took effect (an      *)
(* HTTP error, the abort of _request's timer).                             *)
(***************************************************************************)
CONSTANT Versions

VARIABLES
  mode,      \* which controller is configured: "none", "direct" or "staged"
  serving,   \* serving[n]: the versions the endpoint holds in environment n
  at,        \* at[v]: the await deploy() of v is at
  env,       \* env[v]: the environment it is deploying to
  outcome    \* outcome[v][n]: the status of v's deployment to environment n

deploymentVars == <<mode, serving, at, env, outcome>>

Modes == {"none", "direct", "staged"}
Envs == {"staging", "production"}
Awaits == {"idle", "deploying", "checking", "undoing", "undoingAgain", "ended", "threw"}
Statuses == {"none", "DEPLOYED", "ROLLED_BACK", "DEPLOY_FAILED"}
NotDeployed == [n \in Envs |-> "none"]

DeploymentTypeOK ==
  /\ mode \in Modes
  /\ serving \in [Envs -> SUBSET Versions]
  /\ at \in [Versions -> Awaits]
  /\ env \in [Versions -> Envs]
  /\ outcome \in [Versions -> [Envs -> Statuses]]

DeploymentInit ==
  /\ serving = [n \in Envs |-> {}]
  /\ at = [v \in Versions |-> "idle"]
  /\ env = [v \in Versions |-> "production"]
  /\ outcome = [v \in Versions |-> NotDeployed]

-----------------------------------------------------------------------------
(* The endpoint.                                                           *)

EndpointDeploys(v) == serving' = [serving EXCEPT ![env[v]] = @ \cup {v}]
EndpointWithdraws(v) == serving' = [serving EXCEPT ![env[v]] = @ \ {v}]

-----------------------------------------------------------------------------
(* The controllers.                                                        *)

Await(v, place) == at' = [at EXCEPT ![v] = place]

\* deploy() of the configured controller.
Deploy(v) ==
  /\ at[v] = "idle"
  /\ mode # "none"
  /\ Await(v, "deploying")
  /\ env' = [env EXCEPT ![v] = IF mode = "staged" THEN "staging" ELSE "production"]
  /\ UNCHANGED <<mode, serving, outcome>>

\* Mutant: the production deployment follows whatever staging returned.
GoesToProductionAnyway(v, status) == env[v] = "staging"
GoesToProduction(v, status) == env[v] = "staging" /\ status = "DEPLOYED"

\* A DeploymentController returns; the staged one goes on to production only
\* when staging is DEPLOYED.
Returns(v, status) ==
  /\ outcome' = [outcome EXCEPT ![v][env[v]] = status]
  /\ IF GoesToProduction(v, status)
     THEN Await(v, "deploying") /\ env' = [env EXCEPT ![v] = "production"]
     ELSE Await(v, "ended") /\ UNCHANGED env
  /\ UNCHANGED mode

AdapterDeploys(v) ==
  /\ at[v] = "deploying"
  /\ EndpointDeploys(v)
  /\ Await(v, "checking")
  /\ UNCHANGED <<mode, env, outcome>>

\* adapter.deploy() throws: deployment is undefined, so the catch clause has
\* nothing to roll back, whether or not the endpoint took the version.
AdapterThrows(v) ==
  /\ at[v] = "deploying"
  /\ EndpointDeploys(v) \/ UNCHANGED serving
  /\ Returns(v, "DEPLOY_FAILED")

HealthPasses(v) ==
  /\ at[v] = "checking"
  /\ Returns(v, "DEPLOYED")
  /\ UNCHANGED serving

\* Mutant: the result of the health check is only recorded.
HealthFailureRecorded(v) ==
  /\ at[v] = "checking"
  /\ Returns(v, "ROLLED_BACK")
  /\ UNCHANGED serving

HealthFails(v) ==
  /\ at[v] = "checking"
  /\ Await(v, "undoing")
  /\ UNCHANGED <<mode, serving, env, outcome>>

\* A record of the observability store throws between deployment and result.
RecordThrows(v) ==
  /\ at[v] = "checking"
  /\ Await(v, "undoingAgain")
  /\ UNCHANGED <<mode, serving, env, outcome>>

\* A record outside the try statement throws: DEPLOYMENT_STARTED, DEPLOYMENT_FAILED
\* after a call of the adapter that threw itself, whether or not it took effect,
\* or one of the staged controller's own after its staging or production result.
ReportThrows(v) ==
  /\ \/ at[v] = "deploying" /\ (EndpointDeploys(v) \/ UNCHANGED serving)
     \/ at[v] = "ended" /\ mode = "staged" /\ UNCHANGED serving
  /\ Await(v, "threw")
  /\ UNCHANGED <<mode, env, outcome>>

\* rollback(), from the health gate or from the catch clause.
RollsBack(v) ==
  /\ at[v] \in {"undoing", "undoingAgain"}
  /\ EndpointWithdraws(v)
  /\ Returns(v, "ROLLED_BACK")

\* The health gate's rollback throws into the catch clause, which rolls back
\* again; a throw there leaves deploy().
RollbackThrows(v) ==
  /\ at[v] \in {"undoing", "undoingAgain"}
  /\ EndpointWithdraws(v) \/ UNCHANGED serving
  /\ Await(v, IF at[v] = "undoing" THEN "undoingAgain" ELSE "threw")
  /\ UNCHANGED <<mode, env, outcome>>

\* The status deploy() of the configured controller returns.
Result(v) ==
  CASE mode = "direct" -> outcome[v]["production"]
    [] outcome[v]["staging"] # "DEPLOYED" -> "STAGING_FAILED"
    [] outcome[v]["production"] = "DEPLOYED" -> "DEPLOYED"
    [] OTHER -> "PRODUCTION_FAILED"

\* The process dies; the endpoint keeps what it has.
DeploymentCrash ==
  /\ at' = [v \in Versions |-> "idle"]
  /\ UNCHANGED <<mode, serving, env, outcome>>
=============================================================================
