--------------------------- MODULE CustomerControl ---------------------------
(***************************************************************************)
(* The customer control plane: tenants, projects, quotas, workspaces and   *)
(* the acceptance of a mission by CustomerExecutionRouter.submit(), with   *)
(* the meter and the billing it feeds.  The registries live in the memory  *)
(* of one process; every await of submit() is a step boundary.             *)
(***************************************************************************)
EXTENDS Naturals, FiniteSets

CONSTANTS
    Missions,    \* missions the clients submit
    Projects,
    Tenants,
    TenantOf,    \* TenantOf[p]: the tenant the project belongs to
    Quota,       \* limit of the "missions" metric in the tenant's plan
    NoProject,
    NoBuild

ASSUME CustomerAssumption ==
    /\ TenantOf \in [Projects -> Tenants]
    /\ Quota \in Nat
    /\ NoProject \notin Projects

VARIABLES
    tenant,      \* tenant[t]: "ACTIVE" or "SUSPENDED"
    usage,       \* usage[t]: the metered missions of the tenant
    billed,      \* missions with a billing event
    workspaces,  \* projects with a workspace
    job,         \* job[m]: what the process knows and does about mission m
    overtaken    \* history: missions created after the usage they were admitted on had grown

controlVars == <<tenant, usage, billed, workspaces, overtaken>>

\* A version of a project's files: the mission that built it, and in which
\* cycle (0: the base it starts from)
Build == [by : Missions, cycle : 0 .. 3]

EndStatuses == {"DELIVERED", "ROLLED_BACK", "FAILED", "READY_FOR_EXECUTION", "BLOCKED"}
Statuses == {"none", "QUEUED", "RUNNING", "PLANNED"} \cup EndStatuses
Stages == {"idle", "refused", "ensuring", "billing", "gate", "planning", "prepare", "build",
           "snapshot", "testing", "repairing", "publish", "deploy", "health", "rollback",
           "record", "close", "end"}

Job == [stage : Stages, status : Statuses, project : Projects \cup {NoProject},
        seen : Nat, cycle : 0 .. 3, files : Build \cup {NoBuild}, passed : Build \cup {NoBuild},
        deployed : Build \cup {NoBuild}, url : BOOLEAN, threw : BOOLEAN, crossed : BOOLEAN,
        outcome : EndStatuses \cup {"none"}]

NewJob == [stage |-> "idle", status |-> "none", project |-> NoProject, seen |-> 0, cycle |-> 0,
           files |-> NoBuild, passed |-> NoBuild, deployed |-> NoBuild, url |-> FALSE,
           threw |-> FALSE, crossed |-> FALSE, outcome |-> "none"]

ControlInit ==
    /\ tenant = [t \in Tenants |-> "ACTIVE"]
    /\ usage = [t \in Tenants |-> 0]
    /\ billed = {}
    /\ workspaces = {}
    /\ job = [m \in Missions |-> NewJob]
    /\ overtaken = {}

TenantOfMission(m) == TenantOf[job[m].project]

\* Mutant: off by one
WithinQuotaNearly(current) == current <= Quota

WithinQuota(current) == current + 1 <= Quota

\* CustomerMissionManager.create() and UsageMeter.record(), in one turn
CreateMission(m, p, seen) ==
    LET t == TenantOf[p]
    IN  /\ job' = [job EXCEPT ![m].stage = "billing", ![m].status = "QUEUED",
                              ![m].project = p, ![m].seen = 0]
        /\ usage' = [usage EXCEPT ![t] = @ + 1]
        /\ overtaken' = IF usage[t] = seen THEN overtaken ELSE overtaken \cup {m}

\* submit(): tenant, project and quota are looked at, then the workspace of
\* the project is ensured; only a new one is written to its store
Submit(m, p) ==
    /\ job[m].stage = "idle"
    /\ tenant[TenantOf[p]] = "ACTIVE" /\ WithinQuota(usage[TenantOf[p]])
    /\ IF p \in workspaces
       THEN CreateMission(m, p, usage[TenantOf[p]]) /\ UNCHANGED workspaces
       ELSE /\ job' = [job EXCEPT ![m].stage = "ensuring", ![m].project = p,
                                  ![m].seen = usage[TenantOf[p]]]
            /\ workspaces' = workspaces \cup {p}
            /\ UNCHANGED <<usage, overtaken>>
    /\ UNCHANGED <<tenant, billed>>

SubmitRefused(m, p) ==
    /\ job[m].stage = "idle"
    /\ tenant[TenantOf[p]] # "ACTIVE" \/ ~WithinQuota(usage[TenantOf[p]])
    /\ job' = [job EXCEPT ![m].stage = "refused"]
    /\ UNCHANGED controlVars

Ensured(m) ==
    /\ job[m].stage = "ensuring"
    /\ CreateMission(m, job[m].project, job[m].seen)
    /\ UNCHANGED <<tenant, billed, workspaces>>

\* the workspace cannot be written: it stays registered, the call rejects
EnsureFails(m) ==
    /\ job[m].stage = "ensuring"
    /\ job' = [job EXCEPT ![m].stage = "refused"]
    /\ UNCHANGED controlVars

\* CustomerPolicyGate lets the mission through, and the lifecycle engine runs
\* what is QUEUED
Billed(m) ==
    /\ job[m].stage = "billing" /\ job[m].status = "QUEUED"
    /\ billed' = billed \cup {m}
    /\ job' = [job EXCEPT ![m].stage = "gate", ![m].status = "RUNNING"]
    /\ UNCHANGED <<tenant, usage, workspaces, overtaken>>

\* The billing event is kept but cannot be written, or the policy asks for an
\* approval: the mission exists and counts, and nothing will ever run it
LeftQueued(m) ==
    /\ job[m].stage = "billing"
    /\ billed' = billed \cup {m}
    /\ job' = [job EXCEPT ![m].stage = "end"]
    /\ UNCHANGED <<tenant, usage, workspaces, overtaken>>

Suspend(t) ==
    /\ tenant[t] = "ACTIVE"
    /\ tenant' = [tenant EXCEPT ![t] = "SUSPENDED"]
    /\ UNCHANGED <<usage, billed, workspaces, job, overtaken>>

ControlStep(m) ==
    \/ \E p \in Projects : Submit(m, p) \/ SubmitRefused(m, p)
    \/ Ensured(m) \/ EnsureFails(m) \/ Billed(m) \/ LeftQueued(m)

-----------------------------------------------------------------------------
(* Properties *)

\* A tenant has more metered missions than its quota only by missions that
\* were admitted on a count another submission was about to raise: submit()
\* compares before it awaits the workspace, and counts afterwards.
QuotaOnlyOvertaken ==
    \A t \in Tenants :
        usage[t] <= Quota + Cardinality({m \in overtaken : TenantOfMission(m) = t})

=============================================================================
