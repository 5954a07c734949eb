---------------------------- MODULE CustomerProofs ----------------------------
(***************************************************************************)
(* Theorems about the customer platform, for any missions, projects,       *)
(* tenants, quota and sweeps.                                              *)
(***************************************************************************)
EXTENDS CustomerOperations, FiniteSetTheorems, WellFoundedInduction, TLAPS

(* The life of a mission                                                   *)

\* What the stage of a mission says about the rest of its state: where it has
\* a project, what it has to have been admitted on, which build its tests
\* passed on, and what has become of a build it deployed.
Placed == Stages \ {"idle", "refused"}
AfterDeployment == {"health", "rollback", "record", "close", "end"}

JobInv(m) ==
  /\ job[m].stage \in Placed => job[m].project \in Projects
  /\ job[m].stage = "ensuring" => job[m].seen + 1 <= Quota
  /\ job[m].stage = "snapshot" => job[m].cycle = 1
  /\ job[m].stage = "testing" => job[m].cycle \in 1 .. 3
  /\ job[m].stage = "repairing" => job[m].cycle \in 1 .. 2
  /\ job[m].stage = "testing" =>
       job[m].files = tree[job[m].project] \/ job[m].cycle > 1 \/ job[m].crossed
  /\ job[m].stage \in {"publish", "deploy"} =>
       job[m].files = job[m].passed \/ job[m].cycle > 1 \/ job[m].crossed
  /\ job[m].stage \in {"record", "close"} => job[m].outcome # "none"
  /\ job[m].deployed # NoBuild =>
       /\ job[m].stage \in AfterDeployment
       /\ job[m].stage \in {"record", "close"} => job[m].outcome \in {"DELIVERED", "ROLLED_BACK"}
       /\ job[m].stage = "end" => \/ job[m].status \in {"DELIVERED", "ROLLED_BACK"}
                                  \/ job[m].status = "FAILED" /\ job[m].threw

MissionTypeOK ==
  /\ tenant \in [Tenants -> {"ACTIVE", "SUSPENDED"}]
  /\ usage \in [Tenants -> Nat]
  /\ billed \subseteq Missions /\ overtaken \subseteq Missions
  /\ workspaces \subseteq Projects
  /\ job \in [Missions -> Job]
  /\ tree \in [Projects -> Build \cup {NoBuild}]
  /\ live \in [Projects -> Build \cup {NoBuild}]
  /\ urls \in Seq(UrlRow)

MissionInv == MissionTypeOK /\ \A m \in Missions : JobInv(m)

LEMMA NewJobType == NewJob \in Job
  BY DEF NewJob, Job, Stages, Statuses

LEMMA MissionInit == Init => MissionInv
  <1> SUFFICES ASSUME Init PROVE MissionInv
    OBVIOUS
  <1>1. MissionTypeOK
    BY NewJobType DEF Init, ControlInit, DeliveryInit, MissionTypeOK
  <1>2. ASSUME NEW m \in Missions PROVE JobInv(m)
    BY DEF Init, ControlInit, NewJob, JobInv, Placed, AfterDeployment
  <1>3. QED
    BY <1>1, <1>2 DEF MissionInv

\* A step of one mission: what has to be shown of it, once the others and the
\* types of the rest are seen to.
LEMMA OneMission ==
  ASSUME MissionInv, NEW m \in Missions, NEW j \in Job,
         job' = [job EXCEPT ![m] = j], UNCHANGED tree, JobInv(m)'
  PROVE  job' \in [Missions -> Job] /\ \A n \in Missions : JobInv(n)'
  <1>1. job' \in [Missions -> Job]
    BY DEF MissionInv, MissionTypeOK
  <1>2. ASSUME NEW n \in Missions, n # m PROVE JobInv(n)'
    <2>1. job'[n] = job[n]
      BY <1>2 DEF MissionInv, MissionTypeOK
    <2>2. QED
      BY <2>1 DEF MissionInv, JobInv
  <1>3. QED
    BY <1>1, <1>2

\* A build written into the working tree: the snapshot of every mission that is
\* using the tree is stale from then on.
LEMMA TreeWritten ==
  ASSUME MissionInv, NEW m \in Missions, NEW stage, NEW cycle \in 0 .. 3,
         WriteTree(m, stage, cycle), job[m].project \in Projects, job[m].deployed = NoBuild,
         \/ stage = "build"
         \/ stage = "snapshot" /\ cycle = 1
         \/ stage = "testing" /\ cycle > 1
  PROVE  /\ job' \in [Missions -> Job]
         /\ tree' \in [Projects -> Build \cup {NoBuild}]
         /\ \A n \in Missions : JobInv(n)'
  <1> DEFINE p == job[m].project
  <1>1. tree' \in [Projects -> Build \cup {NoBuild}]
    BY DEF WriteTree, MissionInv, MissionTypeOK, Build
  <1>2. ASSUME NEW n \in Missions PROVE job'[n] \in Job /\ JobInv(n)'
    <2>1. job[n] \in Job /\ job[m] \in Job
      BY DEF MissionInv, MissionTypeOK
    <2>2. CASE n = m
      <3>1. job'[n] = [job[m] EXCEPT !.stage = stage, !.cycle = cycle]
        BY <2>2 DEF WriteTree
      <3>2. stage \in Stages
        BY DEF Stages
      <3>3. job'[n] \in Job
        BY <2>1, <3>1, <3>2 DEF Job
      <3>4. job'[n].stage = stage /\ job'[n].cycle = cycle
        BY <2>1, <3>1 DEF Job
      <3>5. job'[n].project = job[m].project /\ job'[n].deployed = job[m].deployed
        BY <2>1, <3>1 DEF Job
      <3>6. QED
        BY <2>2, <3>3, <3>4, <3>5 DEF JobInv
    <2>3. CASE n # m
      <3>1. job'[n] = [job[n] EXCEPT !.crossed =
                         @ \/ (job[n].project = p /\ job[n].stage \in UsesTree)]
        BY <2>3 DEF WriteTree
      <3> DEFINE x == job[n].crossed \/ (job[n].project = p /\ job[n].stage \in UsesTree)
      <3>2. job'[n] = [job[n] EXCEPT !.crossed = x] /\ x \in BOOLEAN
        BY <2>1, <3>1 DEF Job
      <3>3. /\ job'[n] \in Job
            /\ job'[n].crossed = x
            /\ job'[n].stage = job[n].stage /\ job'[n].project = job[n].project
            /\ job'[n].seen = job[n].seen /\ job'[n].cycle = job[n].cycle
            /\ job'[n].files = job[n].files /\ job'[n].passed = job[n].passed
            /\ job'[n].deployed = job[n].deployed /\ job'[n].outcome = job[n].outcome
            /\ job'[n].status = job[n].status /\ job'[n].threw = job[n].threw
        BY <2>1, <3>2 DEF Job
      <3>4. JobInv(n)
        BY DEF MissionInv
      <3>5. job[n].stage = "testing" => x \/ tree'[job[n].project] = tree[job[n].project]
        BY <3>4 DEF WriteTree, UsesTree, JobInv, Placed, Stages, MissionInv, MissionTypeOK
      <3>6. job[n].stage = "testing" =>
              job'[n].files = tree'[job'[n].project] \/ job'[n].cycle > 1 \/ job'[n].crossed
        BY <3>3, <3>4, <3>5 DEF JobInv
      <3>7. job[n].stage \in {"publish", "deploy"} =>
              job'[n].files = job'[n].passed \/ job'[n].cycle > 1 \/ job'[n].crossed
        BY <3>3, <3>4 DEF JobInv
      <3>8. QED
        BY <3>3, <3>4, <3>6, <3>7 DEF JobInv
    <2>4. QED
      BY <2>2, <2>3
  <1>3. job' \in [Missions -> Job]
    BY <1>2 DEF WriteTree
  <1>4. QED
    BY <1>1, <1>2, <1>3

LEMMA EndedType ==
  ASSUME NEW m, NEW status \in Statuses, job[m] \in Job
  PROVE  /\ Ended(m, status) \in Job
         /\ Ended(m, status).stage = "end" /\ Ended(m, status).status = status
         /\ Ended(m, status).project = job[m].project
         /\ Ended(m, status).deployed = job[m].deployed
  <1> DEFINE j == [NewJob EXCEPT !.stage = "end", !.status = status,
                                 !.project = job[m].project, !.deployed = job[m].deployed]
  <1>1. /\ "end" \in Stages /\ job[m].project \in Projects \cup {NoProject}
        /\ job[m].deployed \in Build \cup {NoBuild}
    BY DEF Job, Stages
  <1>2. j \in Job
    BY <1>1, NewJobType, ZenonT(30) DEF NewJob, Job
  <1>3. /\ j.stage = "end" /\ j.status = status
        /\ j.project = job[m].project /\ j.deployed = job[m].deployed
    BY DEF NewJob
  <1>4. QED
    BY <1>2, <1>3 DEF Ended

\* A mission that is over and was never deployed, or ended as it should have.
LEMMA EndedMission ==
  ASSUME MissionInv, NEW m \in Missions, NEW status \in Statuses, job[m].stage \in Placed,
         EndsAs(m, status), UNCHANGED tree,
         job[m].deployed # NoBuild => status \in {"DELIVERED", "ROLLED_BACK"}
  PROVE  job' \in [Missions -> Job] /\ \A n \in Missions : JobInv(n)'
  <1> DEFINE j == Ended(m, status)
  <1>1. job[m] \in Job /\ JobInv(m)
    BY DEF MissionInv, MissionTypeOK
  <1>2. /\ j \in Job
        /\ j.stage = "end" /\ j.project = job[m].project
        /\ j.deployed = job[m].deployed /\ j.status = status
    BY <1>1, EndedType
  <1>3. job' = [job EXCEPT ![m] = j]
    BY DEF EndsAs
  <1>4. job'[m] = j
    BY <1>3 DEF MissionInv, MissionTypeOK
  <1> HIDE DEF j
  <1>5. JobInv(m)'
    BY <1>1, <1>2, <1>4 DEF JobInv, AfterDeployment
  <1>6. QED
    BY <1>2, <1>3, <1>5, OneMission

\* A mission whose stage changes and that has reached the state for it.
LEMMA MovedMission ==
  ASSUME MissionInv, NEW m \in Missions, NEW stage \in Stages, Goto(m, stage), UNCHANGED tree,
         job[m].stage \in Placed \ AfterDeployment,
         \/ stage \in {"planning", "prepare", "build", "rollback"}
         \/ stage = "repairing" /\ job[m].cycle \in 1 .. 2
         \/ stage = "deploy" /\ job[m].stage = "publish"
  PROVE  job' \in [Missions -> Job] /\ \A n \in Missions : JobInv(n)'
  <1> DEFINE j == [job[m] EXCEPT !.stage = stage]
  <1>1. job[m] \in Job /\ JobInv(m)
    BY DEF MissionInv, MissionTypeOK
  <1>2. j \in Job
    BY <1>1 DEF Job
  <1>3. job' = [job EXCEPT ![m] = j]
    BY DEF Goto
  <1>4. job'[m] = [job[m] EXCEPT !.stage = stage]
    BY <1>3 DEF MissionInv, MissionTypeOK
  <1>5. JobInv(m)'
    BY <1>1, <1>4 DEF JobInv, AfterDeployment, Job, Placed
  <1>6. QED
    BY <1>2, <1>3, <1>5, OneMission

LEMMA ControlKeeps ==
  ASSUME MissionInv, NEW m \in Missions, ControlStep(m), UNCHANGED deliveryVars
  PROVE  MissionInv'
  <1> USE DEF deliveryVars, controlVars
  <1>1. /\ job[m] \in Job /\ JobInv(m)
        /\ job \in [Missions -> Job] /\ usage \in [Tenants -> Nat]
    BY DEF MissionInv, MissionTypeOK
  <1>2. TenantOf \in [Projects -> Tenants] /\ Quota \in Nat
    BY CustomerAssumption
  <1>3. ASSUME NEW p \in Projects, NEW seen, CreateMission(m, p, seen),
               job[m].stage \in {"idle", "ensuring"}
        PROVE  /\ job' \in [Missions -> Job] /\ \A n \in Missions : JobInv(n)'
               /\ usage' \in [Tenants -> Nat] /\ overtaken' \subseteq Missions
    <2> DEFINE j == [job[m] EXCEPT !.stage = "billing", !.status = "QUEUED",
                                   !.project = p, !.seen = 0]
    <2>1. job' = [job EXCEPT ![m] = j]
      BY <1>3 DEF CreateMission
    <2>2. /\ j \in Job /\ j.stage = "billing" /\ j.project = p
          /\ j.deployed = job[m].deployed
      <3>1. "billing" \in Stages /\ "QUEUED" \in Statuses
        BY DEF Stages, Statuses
      <3>2. QED
        BY <1>1, <1>3, <3>1 DEF Job
    <2>3. job'[m] = j
      BY <1>1, <2>1
    <2> HIDE DEF j
    <2>4. JobInv(m)'
      BY <1>1, <1>3, <2>2, <2>3 DEF JobInv, AfterDeployment
    <2>5. job' \in [Missions -> Job] /\ \A n \in Missions : JobInv(n)'
      BY <2>1, <2>2, <2>4, OneMission
    <2>6. usage' \in [Tenants -> Nat] /\ overtaken' \subseteq Missions
      BY <1>1, <1>2, <1>3 DEF CreateMission, MissionInv, MissionTypeOK
    <2>7. QED
      BY <2>5, <2>6
  <1>4. ASSUME NEW p \in Projects, Submit(m, p) PROVE MissionInv'
    <2>1. CASE p \in workspaces
      BY <1>3, <1>4, <2>1 DEF Submit, MissionInv, MissionTypeOK
    <2>2. CASE p \notin workspaces
      <3> DEFINE j == [job[m] EXCEPT !.stage = "ensuring", !.project = p,
                                     !.seen = usage[TenantOf[p]]]
      <3>1. job' = [job EXCEPT ![m] = j]
        BY <1>4, <2>2 DEF Submit
      <3>2. /\ j \in Job /\ j.stage = "ensuring" /\ j.project = p
            /\ j.seen = usage[TenantOf[p]] /\ j.deployed = job[m].deployed
        BY <1>1, <1>2 DEF Job, Stages
      <3>3. job'[m] = j
        BY <1>1, <3>1
      <3>4. job[m].deployed = NoBuild /\ usage[TenantOf[p]] + 1 <= Quota
        BY <1>1, <1>4 DEF Submit, WithinQuota, JobInv, AfterDeployment
      <3> HIDE DEF j
      <3>5. JobInv(m)'
        BY <3>2, <3>3, <3>4 DEF JobInv
      <3>6. job' \in [Missions -> Job] /\ \A n \in Missions : JobInv(n)'
        BY <1>4, <3>1, <3>2, <3>5, OneMission
      <3>7. QED
        BY <1>4, <2>2, <3>6 DEF Submit, MissionInv, MissionTypeOK
    <2>3. QED
      BY <2>1, <2>2
  <1>5. ASSUME NEW stage \in {"refused", "end"}, job' = [job EXCEPT ![m].stage = stage],
               \/ stage = "refused" /\ job[m].stage \in {"idle", "ensuring"}
               \/ stage = "end" /\ job[m].stage = "billing"
        PROVE  job' \in [Missions -> Job] /\ \A n \in Missions : JobInv(n)'
    <2> DEFINE j == [job[m] EXCEPT !.stage = stage]
    <2>1. job' = [job EXCEPT ![m] = j] /\ job'[m] = j
      BY <1>1, <1>5
    <2>2. /\ j \in Job /\ j.stage = stage /\ j.project = job[m].project
          /\ j.deployed = job[m].deployed
      <3>1. stage \in Stages
        BY DEF Stages
      <3>2. QED
        BY <1>1, <3>1 DEF Job
    <2>3. job[m].deployed = NoBuild
      BY <1>1, <1>5 DEF JobInv, AfterDeployment
    <2>4. stage = "end" => job[m].project \in Projects
      BY <1>1, <1>5 DEF JobInv, Placed, Stages
    <2> HIDE DEF j
    <2>5. JobInv(m)'
      BY <2>1, <2>2, <2>3, <2>4 DEF JobInv, Placed
    <2>6. QED
      BY <2>1, <2>2, <2>5, OneMission
  <1>6. ASSUME NEW p \in Projects, SubmitRefused(m, p) PROVE MissionInv'
    BY <1>5, <1>6 DEF SubmitRefused, MissionInv, MissionTypeOK
  <1>7. CASE Ensured(m)
    <2>1. job[m].project \in Projects
      BY <1>1, <1>7 DEF Ensured, JobInv, Placed, Stages
    <2>2. QED
      BY <1>3, <1>7, <2>1 DEF Ensured, MissionInv, MissionTypeOK
  <1>8. CASE EnsureFails(m)
    BY <1>5, <1>8 DEF EnsureFails, MissionInv, MissionTypeOK
  <1>9. CASE Billed(m)
    <2> DEFINE j == [job[m] EXCEPT !.stage = "gate", !.status = "RUNNING"]
    <2>1. job' = [job EXCEPT ![m] = j] /\ job'[m] = j
      BY <1>1, <1>9 DEF Billed
    <2>2. /\ j \in Job /\ j.stage = "gate" /\ j.project = job[m].project
          /\ j.deployed = job[m].deployed
      <3>1. "gate" \in Stages /\ "RUNNING" \in Statuses
        BY DEF Stages, Statuses
      <3>2. QED
        BY <1>1, <3>1 DEF Job
    <2>3. job[m].deployed = NoBuild /\ job[m].project \in Projects
      BY <1>1, <1>9 DEF Billed, JobInv, AfterDeployment, Placed, Stages
    <2> HIDE DEF j
    <2>4. JobInv(m)'
      BY <2>1, <2>2, <2>3 DEF JobInv
    <2>5. job' \in [Missions -> Job] /\ \A n \in Missions : JobInv(n)'
      BY <1>9, <2>1, <2>2, <2>4, OneMission
    <2>6. QED
      BY <1>9, <2>5 DEF Billed, MissionInv, MissionTypeOK
  <1>10. CASE LeftQueued(m)
    BY <1>5, <1>10 DEF LeftQueued, MissionInv, MissionTypeOK
  <1>11. QED
    BY <1>4, <1>6, <1>7, <1>8, <1>9, <1>10 DEF ControlStep

LEMMA DeliveryKeeps ==
  ASSUME MissionInv, NEW m \in Missions, DeliveryStep(m)
  PROVE  MissionInv'
  <1> USE DEF deliveryVars, controlVars
  <1> DEFINE KeepsJobs == job' \in [Missions -> Job] /\ \A n \in Missions : JobInv(n)'
  <1>1. /\ job[m] \in Job /\ JobInv(m)
        /\ job \in [Missions -> Job]
        /\ tree \in [Projects -> Build \cup {NoBuild}]
        /\ live \in [Projects -> Build \cup {NoBuild}]
    BY DEF MissionInv, MissionTypeOK
  <1>2. job[m].stage \in Placed => job[m].project \in Projects
    BY <1>1 DEF JobInv
  <1>3. job[m].stage \notin AfterDeployment => job[m].deployed = NoBuild
    BY <1>1 DEF JobInv
  <1>4. ASSUME KeepsJobs, UNCHANGED <<controlVars, deliveryVars>> PROVE MissionInv'
    BY <1>4 DEF MissionInv, MissionTypeOK
  <1>5. ASSUME NEW outcome \in EndStatuses, Deliver(m, outcome), UNCHANGED tree,
               job[m].stage \in Placed \ {"end"},
               job[m].deployed # NoBuild => outcome \in {"DELIVERED", "ROLLED_BACK"}
        PROVE  KeepsJobs
    <2> DEFINE j == [job[m] EXCEPT !.stage = "record", !.outcome = outcome]
    <2>1. job' = [job EXCEPT ![m] = j] /\ job'[m] = j
      BY <1>1, <1>5 DEF Deliver
    <2>2. /\ j \in Job /\ j.stage = "record" /\ j.project = job[m].project
          /\ j.deployed = job[m].deployed /\ j.outcome = outcome
      BY <1>1 DEF Job, Stages
    <2> HIDE DEF j
    <2>3. JobInv(m)'
      BY <1>2, <1>5, <2>1, <2>2 DEF JobInv, AfterDeployment, EndStatuses
    <2>4. QED
      BY <1>5, <2>1, <2>2, <2>3, OneMission
  <1>6. CASE Gate(m)
    <2>1. job[m].stage \in Placed \ AfterDeployment
      BY <1>6 DEF Gate, Placed, Stages, AfterDeployment
    <2>2. CASE Goto(m, "planning")
      BY <1>4, <1>6, <2>1, <2>2, MovedMission DEF Gate, Stages
    <2>3. CASE EndsAs(m, "BLOCKED")
      BY <1>3, <1>4, <1>6, <2>1, <2>3, EndedMission DEF Gate, Statuses, EndStatuses
    <2>4. QED
      BY <1>6, <2>2, <2>3 DEF Gate
  <1>7. CASE Plan(m)
    <2>1. job[m].stage \in Placed \ AfterDeployment
      BY <1>7 DEF Plan, Placed, Stages, AfterDeployment
    <2>2. CASE job' = [job EXCEPT ![m].stage = "prepare", ![m].status = "PLANNED"]
      <3> DEFINE j == [job[m] EXCEPT !.stage = "prepare", !.status = "PLANNED"]
      <3>1. job' = [job EXCEPT ![m] = j] /\ job'[m] = j
        BY <1>1, <2>2
      <3>2. /\ j \in Job /\ j.stage = "prepare" /\ j.project = job[m].project
            /\ j.deployed = job[m].deployed
        <4>1. "prepare" \in Stages /\ "PLANNED" \in Statuses
          BY DEF Stages, Statuses
        <4>2. QED
          BY <1>1, <4>1 DEF Job
      <3> HIDE DEF j
      <3>3. JobInv(m)'
        BY <1>2, <1>3, <2>1, <3>1, <3>2 DEF JobInv
      <3>4. QED
        BY <1>4, <1>7, <3>1, <3>2, <3>3, OneMission DEF Plan
    <2>3. CASE EndsAs(m, "READY_FOR_EXECUTION")
      BY <1>3, <1>4, <1>7, <2>1, <2>3, EndedMission DEF Plan, Statuses, EndStatuses
    <2>4. QED
      BY <1>7, <2>2, <2>3 DEF Plan
  <1>8. ASSUME NEW stage, NEW cycle \in 0 .. 3, WriteTree(m, stage, cycle),
               UNCHANGED <<controlVars, live, urls>>,
               job[m].stage \in Placed \ AfterDeployment,
               \/ stage = "build"
               \/ stage = "snapshot" /\ cycle = 1
               \/ stage = "testing" /\ cycle > 1
        PROVE  MissionInv'
    BY <1>2, <1>3, <1>8, TreeWritten DEF MissionInv, MissionTypeOK
  <1>9. CASE Prepare(m)
    BY <1>8, <1>9 DEF Prepare, Placed, Stages, AfterDeployment
  <1>10. CASE BuildProject(m)
    BY <1>8, <1>10 DEF BuildProject, Placed, Stages, AfterDeployment
  <1>11. CASE Snapshot(m)
    <2>1. job[m].stage \in Placed \ AfterDeployment /\ job[m].cycle = 1
      BY <1>1, <1>11 DEF Snapshot, JobInv, Placed, Stages, AfterDeployment
    <2>2. CASE job' = [job EXCEPT ![m].stage = "testing", ![m].files = tree[job[m].project]]
      <3> DEFINE j == [job[m] EXCEPT !.stage = "testing", !.files = tree[job[m].project]]
      <3>1. job' = [job EXCEPT ![m] = j] /\ job'[m] = j
        BY <1>1, <2>2
      <3>2. /\ j \in Job /\ j.stage = "testing" /\ j.project = job[m].project
            /\ j.deployed = job[m].deployed /\ j.files = tree[j.project] /\ j.cycle = 1
        BY <1>1, <1>2, <2>1 DEF Job, Stages
      <3> HIDE DEF j
      <3>3. JobInv(m)'
        BY <1>2, <1>3, <1>11, <2>1, <3>1, <3>2 DEF Snapshot, JobInv
      <3>4. QED
        BY <1>4, <1>11, <3>1, <3>2, <3>3, OneMission DEF Snapshot
    <2>3. CASE EndsAs(m, "FAILED")
      BY <1>3, <1>4, <1>11, <2>1, <2>3, EndedMission DEF Snapshot, Statuses, EndStatuses
    <2>4. QED
      BY <1>11, <2>2, <2>3 DEF Snapshot
  <1>12. CASE Test(m)
    <2>1. /\ job[m].stage \in Placed \ AfterDeployment /\ job[m].cycle \in 1 .. 3
          /\ job[m].files = tree[job[m].project] \/ job[m].cycle > 1 \/ job[m].crossed
      BY <1>1, <1>12 DEF Test, JobInv, Placed, Stages, AfterDeployment
    <2>2. CASE job' = [job EXCEPT ![m].stage = "publish", ![m].passed = tree[job[m].project]]
      <3> DEFINE j == [job[m] EXCEPT !.stage = "publish", !.passed = tree[job[m].project]]
      <3>1. job' = [job EXCEPT ![m] = j] /\ job'[m] = j
        BY <1>1, <2>2
      <3>2. /\ j \in Job /\ j.stage = "publish" /\ j.project = job[m].project
            /\ j.deployed = job[m].deployed /\ j.files = job[m].files
            /\ j.passed = tree[job[m].project] /\ j.cycle = job[m].cycle
            /\ j.crossed = job[m].crossed
        BY <1>1, <1>2, <2>1 DEF Job, Stages
      <3> HIDE DEF j
      <3>3. JobInv(m)'
        BY <1>2, <1>3, <2>1, <3>1, <3>2 DEF JobInv
      <3>4. QED
        BY <1>4, <1>12, <3>1, <3>2, <3>3, OneMission DEF Test
    <2>3. CASE job[m].cycle < 3 /\ Goto(m, "repairing")
      BY <1>4, <1>12, <2>1, <2>3, MovedMission DEF Test, Stages
    <2>4. CASE EndsAs(m, "FAILED")
      BY <1>3, <1>4, <1>12, <2>1, <2>4, EndedMission DEF Test, Statuses, EndStatuses
    <2>5. QED
      BY <1>12, <2>2, <2>3, <2>4 DEF Test
  <1>13. CASE RepairBuild(m)
    <2>1. job[m].stage \in Placed \ AfterDeployment /\ job[m].cycle \in 1 .. 2
      BY <1>1, <1>13 DEF RepairBuild, JobInv, Placed, Stages, AfterDeployment
    <2>2. QED
      BY <1>8, <1>13, <2>1 DEF RepairBuild
  <1>14. CASE Publish(m)
    <2>1. job[m].stage \in Placed \ AfterDeployment
      BY <1>14 DEF Publish, Placed, Stages, AfterDeployment
    <2>2. CASE Goto(m, "deploy")
      BY <1>4, <1>14, <2>1, <2>2, MovedMission DEF Publish, Stages
    <2>3. CASE Deliver(m, "FAILED")
      BY <1>3, <1>4, <1>5, <1>14, <2>1, <2>3 DEF Publish, EndStatuses, AfterDeployment
    <2>4. QED
      BY <1>14, <2>2, <2>3 DEF Publish
  <1>15. CASE Deploy(m)
    <2>1. job[m].stage \in Placed \ AfterDeployment
      BY <1>15 DEF Deploy, Placed, Stages, AfterDeployment
    <2>2. CASE Deliver(m, "FAILED") /\ UNCHANGED live
      BY <1>3, <1>4, <1>5, <1>15, <2>1, <2>2 DEF Deploy, EndStatuses, AfterDeployment
    <2>3. ASSUME NEW url \in BOOLEAN, live' = [live EXCEPT ![job[m].project] = job[m].files],
                 job' = [job EXCEPT ![m].stage = IF url THEN "health" ELSE "record",
                                    ![m].url = url, ![m].deployed = job[m].files,
                                    ![m].outcome = IF url THEN "none" ELSE "DELIVERED"]
          PROVE  MissionInv'
      <3> DEFINE stage == IF url THEN "health" ELSE "record"
                 outcome == IF url THEN "none" ELSE "DELIVERED"
                 j == [job[m] EXCEPT !.stage = stage, !.url = url,
                                     !.deployed = job[m].files, !.outcome = outcome]
      <3>1. job' = [job EXCEPT ![m] = j] /\ job'[m] = j
        BY <1>1, <2>3
      <3>2. stage \in Stages /\ outcome \in EndStatuses \cup {"none"}
        BY DEF Stages, EndStatuses
      <3>3. /\ j \in Job /\ j.stage = stage /\ j.project = job[m].project
            /\ j.outcome = outcome
        BY <1>1, <3>2 DEF Job
      <3>4. stage = "health" \/ (stage = "record" /\ outcome = "DELIVERED")
        OBVIOUS
      <3> HIDE DEF j, stage, outcome
      <3>5. JobInv(m)'
        BY <1>2, <2>1, <3>1, <3>3, <3>4 DEF JobInv, AfterDeployment
      <3>6. KeepsJobs
        BY <1>15, <3>1, <3>3, <3>5, OneMission DEF Deploy
      <3>7. live' \in [Projects -> Build \cup {NoBuild}]
        BY <1>1, <2>3 DEF Job
      <3>8. QED
        BY <1>15, <3>6, <3>7 DEF Deploy, MissionInv, MissionTypeOK
    <2>4. QED
      BY <1>15, <2>2, <2>3 DEF Deploy
  <1>16. CASE Health(m)
    <2>1. job[m].stage \in Placed \ {"end"}
      BY <1>16 DEF Health, Placed, Stages
    <2>2. CASE Deliver(m, "DELIVERED")
      BY <1>4, <1>5, <1>16, <2>1, <2>2 DEF Health, EndStatuses
    <2>3. CASE Goto(m, "rollback")
      <3> DEFINE j == [job[m] EXCEPT !.stage = "rollback"]
      <3>1. job' = [job EXCEPT ![m] = j] /\ job'[m] = j
        BY <1>1, <2>3 DEF Goto
      <3>2. /\ j \in Job /\ j.stage = "rollback" /\ j.project = job[m].project
            /\ j.deployed = job[m].deployed
        BY <1>1 DEF Job, Stages
      <3> HIDE DEF j
      <3>3. JobInv(m)'
        BY <1>2, <2>1, <3>1, <3>2 DEF JobInv, AfterDeployment
      <3>4. QED
        BY <1>4, <1>16, <3>1, <3>2, <3>3, OneMission DEF Health
    <2>4. QED
      BY <1>16, <2>2, <2>3 DEF Health
  <1>17. CASE Rollback(m)
    BY <1>4, <1>5, <1>17 DEF Rollback, EndStatuses, Placed, Stages
  <1>18. CASE RecordUrl(m)
    <2>1. job[m].stage \in Placed /\ job[m].outcome \in EndStatuses
      BY <1>1, <1>18 DEF RecordUrl, JobInv, Placed, Stages, Job
    <2> DEFINE j == [job[m] EXCEPT !.stage = "close"]
    <2>2. job' = [job EXCEPT ![m] = j] /\ job'[m] = j
      BY <1>1, <1>18 DEF RecordUrl, Goto
    <2>3. /\ j \in Job /\ j.stage = "close" /\ j.project = job[m].project
          /\ j.deployed = job[m].deployed /\ j.outcome = job[m].outcome
      BY <1>1 DEF Job, Stages
    <2> HIDE DEF j
    <2>4. JobInv(m)'
      BY <1>1, <1>18, <2>1, <2>2, <2>3 DEF RecordUrl, JobInv, AfterDeployment
    <2>5. KeepsJobs
      BY <1>18, <2>2, <2>3, <2>4, OneMission DEF RecordUrl
    <2>6. urls' \in Seq(UrlRow)
      <3>1. [project |-> job[m].project, status |-> job[m].outcome] \in UrlRow
        BY <1>2, <2>1 DEF UrlRow
      <3>2. urls \in Seq(UrlRow)
        BY DEF MissionInv, MissionTypeOK
      <3>3. QED
        BY <1>18, <3>1, <3>2 DEF RecordUrl
    <2>7. QED
      BY <1>18, <2>5, <2>6 DEF RecordUrl, MissionInv, MissionTypeOK
  <1>19. CASE Close(m)
    <2>1. /\ job[m].stage \in Placed /\ job[m].outcome \in Statuses
          /\ job[m].deployed # NoBuild => job[m].outcome \in {"DELIVERED", "ROLLED_BACK"}
      BY <1>1, <1>19 DEF Close, JobInv, Placed, Stages, Job, Statuses
    <2>2. QED
      BY <1>4, <1>19, <2>1, EndedMission DEF Close
  <1>20. CASE Throws(m)
    <2>1. PICK effect \in {FALSE, job[m].stage = "deploy"} :
            /\ live' = IF effect THEN [live EXCEPT ![job[m].project] = job[m].files] ELSE live
            /\ job' = [job EXCEPT ![m] = [Ended(m, "FAILED") EXCEPT !.threw = TRUE,
                                            !.deployed = IF effect THEN job[m].files ELSE @]]
      BY <1>20 DEF Throws
    <2> DEFINE d == IF effect THEN job[m].files ELSE job[m].deployed
               j == [Ended(m, "FAILED") EXCEPT !.threw = TRUE, !.deployed = d]
    <2>2. /\ Ended(m, "FAILED") \in Job
          /\ Ended(m, "FAILED").deployed = job[m].deployed
          /\ Ended(m, "FAILED").project = job[m].project
          /\ Ended(m, "FAILED").stage = "end" /\ Ended(m, "FAILED").status = "FAILED"
      <3>1. "FAILED" \in Statuses
        BY DEF Statuses, EndStatuses
      <3>2. QED
        BY <1>1, <3>1, EndedType
    <2>3. d \in Build \cup {NoBuild}
      BY <1>1 DEF Job
    <2>4. job' = [job EXCEPT ![m] = j]
      BY <2>1, <2>2
    <2> HIDE DEF d
    <2>5. /\ j \in Job /\ j.stage = "end" /\ j.project = job[m].project
          /\ j.status = "FAILED" /\ j.threw
      BY <2>2, <2>3 DEF Job
    <2> HIDE DEF j
    <2>6. job'[m] = j
      BY <1>1, <2>4
    <2>7. job[m].project \in Projects
      BY <1>1, <1>2, <1>20 DEF Throws, Placed, Job
    <2>8. JobInv(m)'
      BY <2>5, <2>6, <2>7 DEF JobInv, AfterDeployment
    <2>9. KeepsJobs
      BY <1>20, <2>4, <2>5, <2>8, OneMission DEF Throws
    <2>10. live' \in [Projects -> Build \cup {NoBuild}]
      BY <1>1, <2>1 DEF Job
    <2>11. QED
      BY <1>20, <2>9, <2>10 DEF Throws, MissionInv, MissionTypeOK
  <1>21. QED
    BY <1>6, <1>7, <1>9, <1>10, <1>11, <1>12, <1>13, <1>14, <1>15, <1>16, <1>17, <1>18,
       <1>19, <1>20 DEF DeliveryStep


\* Only a step of a control, a delivery or a suspension touches the missions;
\* the sweeps look at them.
LEMMA MissionKeeps == MissionInv /\ [Next]_vars => MissionInv'
  <1> SUFFICES ASSUME MissionInv, [Next]_vars PROVE MissionInv'
    OBVIOUS
  <1>1. ASSUME UNCHANGED missionVars PROVE MissionInv'
    BY <1>1 DEF missionVars, controlVars, deliveryVars, MissionInv, MissionTypeOK, JobInv
  <1>2. ASSUME NEW t \in Tenants, Suspend(t), UNCHANGED deliveryVars PROVE MissionInv'
    BY <1>2 DEF Suspend, deliveryVars, MissionInv, MissionTypeOK, JobInv
  <1>3. ASSUME NEW s \in Sweeps, SweepStep(s) PROVE MissionInv'
    BY <1>1, <1>3 DEF SweepStep, SweepStarts, Verify, SweepEnds, Evaluate, Recovered
  <1>4. CASE UNCHANGED vars
    BY <1>1, <1>4 DEF vars, missionVars, controlVars, deliveryVars
  <1>5. QED
    BY <1>2, <1>3, <1>4, ControlKeeps, DeliveryKeeps DEF Next

LEMMA MissionInvariant == Spec => []MissionInv
  <1>1. QED
    BY MissionInit, MissionKeeps, PTL DEF Spec

\* What production serves is accounted for: a mission whose build is live is
\* still being delivered, or says DELIVERED or ROLLED_BACK, or says FAILED
\* because a call of it threw.
THEOREM Accounted == Spec => []LiveIsAccountedFor
  <1>1. MissionInv => LiveIsAccountedFor
    BY DEF MissionInv, JobInv, LiveIsAccountedFor
  <1>2. QED
    BY <1>1, MissionInvariant, PTL

\* A mission deploys the tree its tests passed on, unless it repaired the tree
\* after the snapshot, or another mission of the project wrote it.
THEOREM DeployedTested == Spec => DeployedWasTested
  <1>1. MissionInv /\ [Next]_vars => [DeploysTheTested]_<<job, live>>
    <2> SUFFICES ASSUME MissionInv, Next, NEW m \in Missions,
                        job'[m].deployed # job[m].deployed
                 PROVE  \/ job'[m].deployed = job[m].passed
                        \/ job[m].cycle > 1
                        \/ job[m].crossed
      BY DEF DeploysTheTested, vars
    <2>1. job \in [Missions -> Job] /\ JobInv(m)
      BY DEF MissionInv, MissionTypeOK
    <2>2. ASSUME NEW n \in Missions, n # m, ControlStep(n) \/ DeliveryStep(n)
          PROVE  job'[m].deployed = job[m].deployed
      <3>1. ASSUME NEW stage, NEW cycle, WriteTree(n, stage, cycle)
            PROVE  job'[m].deployed = job[m].deployed
        BY <2>1, <2>2, <3>1 DEF WriteTree, Job
      <3>2. ASSUME job'[m] = job[m] PROVE job'[m].deployed = job[m].deployed
        BY <3>2
      <3>3. CASE ControlStep(n)
        BY <2>1, <2>2, <3>2, <3>3 DEF ControlStep, Submit, SubmitRefused, Ensured, EnsureFails,
           Billed, LeftQueued, CreateMission
      <3>4. CASE DeliveryStep(n)
        BY <2>1, <2>2, <3>1, <3>2, <3>4 DEF DeliveryStep, Gate, Plan, Prepare, BuildProject,
           Snapshot, Test, RepairBuild, Publish, Deploy, Health, Rollback, RecordUrl, Close,
           Throws, Goto, EndsAs, Deliver
      <3>5. QED
        BY <2>2, <3>3, <3>4
    <2>3. job[m] \in Job
      BY <2>1
    <2>4. ASSUME ControlStep(m) PROVE job'[m].deployed = job[m].deployed
      <3>1. ASSUME NEW p, NEW seen, CreateMission(m, p, seen)
            PROVE  job'[m].deployed = job[m].deployed
        BY <2>1, <2>3, <3>1 DEF CreateMission, Job
      <3>2. ASSUME NEW p \in Projects, Submit(m, p) PROVE job'[m].deployed = job[m].deployed
        BY <2>1, <2>3, <3>1, <3>2 DEF Submit, Job
      <3>3. ASSUME NEW p \in Projects, SubmitRefused(m, p)
            PROVE  job'[m].deployed = job[m].deployed
        BY <2>1, <2>3, <3>3 DEF SubmitRefused, Job
      <3>4. CASE EnsureFails(m) \/ LeftQueued(m)
        BY <2>1, <2>3, <3>4 DEF EnsureFails, LeftQueued, Job
      <3>5. CASE Billed(m)
        BY <2>1, <2>3, <3>5 DEF Billed, Job
      <3>6. QED
        BY <2>4, <3>1, <3>2, <3>3, <3>4, <3>5 DEF ControlStep, Ensured
    <2>5. ASSUME DeliveryStep(m), ~Deploy(m), ~Throws(m)
          PROVE  job'[m].deployed = job[m].deployed
      <3>1. ASSUME NEW stage, Goto(m, stage) PROVE job'[m].deployed = job[m].deployed
        BY <2>1, <2>3, <3>1 DEF Goto, Job
      <3>2. ASSUME NEW status, EndsAs(m, status) PROVE job'[m].deployed = job[m].deployed
        BY <2>1, <3>2 DEF EndsAs, Ended, NewJob
      <3>3. ASSUME NEW outcome, Deliver(m, outcome) PROVE job'[m].deployed = job[m].deployed
        BY <2>1, <2>3, <3>3 DEF Deliver, Job
      <3>4. ASSUME NEW stage, NEW cycle, WriteTree(m, stage, cycle)
            PROVE  job'[m].deployed = job[m].deployed
        BY <2>1, <2>3, <3>4 DEF WriteTree, Job
      <3>5. CASE Plan(m)
        BY <2>1, <2>3, <3>2, <3>5 DEF Plan, Job
      <3>6. CASE Snapshot(m)
        BY <2>1, <2>3, <3>2, <3>6 DEF Snapshot, Job
      <3>7. CASE Test(m)
        BY <2>1, <2>3, <3>1, <3>2, <3>7 DEF Test, Job
      <3>8. QED
        BY <2>5, <3>1, <3>2, <3>3, <3>4, <3>5, <3>6, <3>7 DEF DeliveryStep, Gate, Prepare,
           BuildProject, RepairBuild, Publish, Health, Rollback, RecordUrl, Close
    <2>6. ASSUME Deploy(m)
          PROVE  job[m].stage = "deploy" /\ job'[m].deployed \in {job[m].files, job[m].deployed}
      <3>1. CASE Deliver(m, "FAILED")
        BY <2>1, <2>3, <2>6, <3>1 DEF Deploy, Deliver, Job
      <3>2. ASSUME NEW url \in BOOLEAN,
                   job' = [job EXCEPT ![m].stage = IF url THEN "health" ELSE "record",
                                      ![m].url = url, ![m].deployed = job[m].files,
                                      ![m].outcome = IF url THEN "none" ELSE "DELIVERED"]
            PROVE  job'[m].deployed = job[m].files
        BY <2>1, <2>3, <3>2 DEF Job
      <3>3. QED
        BY <2>6, <3>1, <3>2 DEF Deploy
    <2>7. ASSUME Throws(m), job'[m].deployed # job[m].deployed
          PROVE  job[m].stage = "deploy" /\ job'[m].deployed = job[m].files
      <3>1. PICK effect \in {FALSE, job[m].stage = "deploy"} :
              job' = [job EXCEPT ![m] = [Ended(m, "FAILED") EXCEPT !.threw = TRUE,
                                          !.deployed = IF effect THEN job[m].files ELSE @]]
        BY <2>7 DEF Throws
      <3>2. job'[m].deployed = IF effect THEN job[m].files ELSE job[m].deployed
        BY <2>1, <3>1 DEF Ended, NewJob
      <3>3. QED
        BY <2>7, <3>1, <3>2
    <2>8. job[m].stage = "deploy" /\ job'[m].deployed = job[m].files
      <3>1. ASSUME NEW t \in Tenants, Suspend(t) PROVE job' = job
        BY <3>1 DEF Suspend
      <3>2. ASSUME NEW s \in Sweeps, SweepStep(s) PROVE job' = job
        BY <3>2 DEF SweepStep, SweepStarts, Verify, SweepEnds, Evaluate, Recovered, missionVars
      <3>3. QED
        BY <2>2, <2>4, <2>5, <2>6, <2>7, <3>1, <3>2 DEF Next
    <2>9. QED
      BY <2>1, <2>8 DEF JobInv
  <1>2. QED
    BY <1>1, MissionInvariant, PTL DEF Spec, DeployedWasTested

-----------------------------------------------------------------------------
(* The quota                                                               *)

\* A mission that was created stays created, and of its project.
Created(n) == job[n].stage \notin {"idle", "refused", "ensuring"}

QuotaInv ==
  /\ IsFiniteSet(overtaken)
  /\ \A m \in overtaken : Created(m)
  /\ QuotaOnlyOvertaken

LEMMA CreatedStays ==
  ASSUME MissionInv, [Next]_vars, NEW n \in Missions, Created(n)
  PROVE  Created(n)' /\ job'[n].project = job[n].project
  <1>1. /\ job \in [Missions -> Job] /\ job[n] \in Job
    BY DEF MissionInv, MissionTypeOK
  <1> DEFINE Stays == job'[n].project = job[n].project
                      /\ job'[n].stage \notin {"idle", "refused", "ensuring"}
  <1>2. ASSUME job'[n] = job[n] PROVE Stays
    BY <1>2 DEF Created
  <1>3. ASSUME NEW m \in Missions, m # n, ControlStep(m) PROVE Stays
    BY <1>1, <1>2, <1>3 DEF ControlStep, Submit, SubmitRefused, Ensured, EnsureFails, Billed,
       LeftQueued, CreateMission
  <1>4. ASSUME NEW stage, NEW cycle, NEW m \in Missions, m # n, WriteTree(m, stage, cycle)
        PROVE  Stays
    BY <1>1, <1>4 DEF WriteTree, Created, Job
  <1>5. ASSUME NEW m \in Missions, m # n, DeliveryStep(m) PROVE Stays
    BY <1>1, <1>2, <1>4, <1>5 DEF DeliveryStep, Gate, Plan, Prepare, BuildProject, Snapshot,
       Test, RepairBuild, Publish, Deploy, Health, Rollback, RecordUrl, Close, Throws, Goto,
       EndsAs, Deliver
  <1>6. ASSUME ControlStep(n) PROVE Stays
    <2>1. CASE LeftQueued(n)
      BY <1>1, <2>1 DEF LeftQueued, Job
    <2>2. CASE Billed(n)
      BY <1>1, <2>2 DEF Billed, Job
    <2>3. QED
      BY <1>6, <2>1, <2>2 DEF ControlStep, Submit, SubmitRefused, Ensured, EnsureFails, Created
  <1>7. ASSUME DeliveryStep(n) PROVE Stays
    <2>1. ASSUME NEW stage, stage \notin {"idle", "refused", "ensuring"}, Goto(n, stage)
          PROVE  Stays
      BY <1>1, <2>1 DEF Goto, Job
    <2>2. ASSUME NEW status, EndsAs(n, status) PROVE Stays
      BY <1>1, <2>2 DEF EndsAs, Ended, NewJob
    <2>3. ASSUME NEW outcome, Deliver(n, outcome) PROVE Stays
      BY <1>1, <2>3 DEF Deliver, Job
    <2>4. ASSUME NEW stage, stage \notin {"idle", "refused", "ensuring"}, NEW cycle,
                 WriteTree(n, stage, cycle)
          PROVE  Stays
      BY <1>1, <2>4 DEF WriteTree, Job
    <2>5. CASE Plan(n)
      BY <1>1, <2>2, <2>5 DEF Plan, Job
    <2>6. CASE Snapshot(n)
      BY <1>1, <2>2, <2>6 DEF Snapshot, Job
    <2>7. CASE Test(n)
      BY <1>1, <2>1, <2>2, <2>7 DEF Test, Job
    <2>8. CASE Deploy(n)
      <3>1. ASSUME NEW url \in BOOLEAN,
                   job' = [job EXCEPT ![n].stage = IF url THEN "health" ELSE "record",
                                      ![n].url = url, ![n].deployed = job[n].files,
                                      ![n].outcome = IF url THEN "none" ELSE "DELIVERED"]
            PROVE  Stays
        BY <1>1, <3>1 DEF Job
      <3>2. QED
        BY <2>3, <2>8, <3>1 DEF Deploy
    <2>9. CASE Throws(n)
      <3>1. PICK effect \in {FALSE, job[n].stage = "deploy"} :
              job' = [job EXCEPT ![n] = [Ended(n, "FAILED") EXCEPT !.threw = TRUE,
                                          !.deployed = IF effect THEN job[n].files ELSE @]]
        BY <2>9 DEF Throws
      <3>2. QED
        BY <1>1, <3>1 DEF Ended, NewJob
    <2>10. QED
      BY <1>7, <2>1, <2>2, <2>3, <2>4, <2>5, <2>6, <2>7, <2>8, <2>9 DEF DeliveryStep, Gate,
         Prepare, BuildProject, RepairBuild, Publish, Health, Rollback, RecordUrl, Close
  <1>8. ASSUME NEW t \in Tenants, Suspend(t) PROVE Stays
    BY <1>2, <1>8 DEF Suspend
  <1>9. ASSUME NEW s \in Sweeps, SweepStep(s) PROVE Stays
    BY <1>2, <1>9 DEF SweepStep, SweepStarts, Verify, SweepEnds, Evaluate, Recovered, missionVars
  <1>10. ASSUME UNCHANGED vars PROVE Stays
    BY <1>2, <1>10 DEF vars
  <1>11. QED
    BY <1>3, <1>5, <1>6, <1>7, <1>8, <1>9, <1>10 DEF Next, Created

\* Only the creation of a mission touches what is counted.
LEMMA CountedByCreation ==
  ASSUME MissionInv, [Next]_vars
  PROVE  \/ UNCHANGED <<usage, overtaken>>
         \/ \E m \in Missions, p \in Projects, seen \in Nat :
              /\ CreateMission(m, p, seen) /\ ~Created(m)
              /\ seen + 1 <= Quota
  <1> DEFINE Counts ==
        \E m \in Missions, p \in Projects, seen \in Nat :
          /\ CreateMission(m, p, seen) /\ ~Created(m)
          /\ seen + 1 <= Quota
  <1>1. /\ job \in [Missions -> Job] /\ usage \in [Tenants -> Nat]
        /\ TenantOf \in [Projects -> Tenants]
        /\ \A m \in Missions : JobInv(m)
    BY CustomerAssumption DEF MissionInv, MissionTypeOK
  <1>2. ASSUME NEW m \in Missions, NEW p \in Projects, Submit(m, p)
        PROVE  UNCHANGED <<usage, overtaken>> \/ Counts
    BY <1>1, <1>2 DEF Submit, WithinQuota, Created
  <1>3. ASSUME NEW m \in Missions, Ensured(m) PROVE Counts
    <2>1. job[m].project \in Projects /\ job[m].seen \in Nat /\ job[m].seen + 1 <= Quota
      BY <1>1, <1>3 DEF Ensured, JobInv, Placed, Stages, Job
    <2>2. QED
      BY <1>3, <2>1 DEF Ensured, Created
  <1>4. ASSUME NEW m \in Missions, ControlStep(m)
        PROVE  UNCHANGED <<usage, overtaken>> \/ Counts
    BY <1>2, <1>3, <1>4 DEF ControlStep, SubmitRefused, EnsureFails, Billed, LeftQueued,
       controlVars
  <1>5. ASSUME NEW m \in Missions, DeliveryStep(m) PROVE UNCHANGED <<usage, overtaken>>
    BY <1>5 DEF DeliveryStep, Gate, Plan, Prepare, BuildProject, Snapshot, Test, RepairBuild,
       Publish, Deploy, Health, Rollback, RecordUrl, Close, Throws, controlVars
  <1>6. ASSUME NEW t \in Tenants, Suspend(t) PROVE UNCHANGED <<usage, overtaken>>
    BY <1>6 DEF Suspend
  <1>7. ASSUME NEW s \in Sweeps, SweepStep(s) PROVE UNCHANGED <<usage, overtaken>>
    BY <1>7 DEF SweepStep, SweepStarts, Verify, SweepEnds, Evaluate, Recovered, missionVars,
       controlVars
  <1>8. QED
    BY <1>4, <1>5, <1>6, <1>7 DEF Next, vars

LEMMA QuotaKeeps == MissionInv /\ QuotaInv /\ [Next]_vars => QuotaInv'
  <1> SUFFICES ASSUME MissionInv, QuotaInv, [Next]_vars PROVE QuotaInv'
    OBVIOUS
  <1> DEFINE Of(t) == {m \in overtaken : TenantOfMission(m) = t}
  <1>1. /\ job \in [Missions -> Job] /\ usage \in [Tenants -> Nat] /\ Quota \in Nat
        /\ TenantOf \in [Projects -> Tenants] /\ overtaken \subseteq Missions
        /\ IsFiniteSet(overtaken)
    BY CustomerAssumption DEF MissionInv, MissionTypeOK, QuotaInv
  <1>2. \A m \in overtaken : Created(m)' /\ TenantOfMission(m)' = TenantOfMission(m)
    BY <1>1, CreatedStays DEF QuotaInv, TenantOfMission
  <1>3. \A t \in Tenants : /\ IsFiniteSet(Of(t)) /\ Cardinality(Of(t)) \in Nat
                           /\ usage[t] <= Quota + Cardinality(Of(t))
    BY <1>1, FS_Subset, FS_CardinalityType DEF QuotaInv, QuotaOnlyOvertaken
  <1>4. CASE UNCHANGED <<usage, overtaken>>
    <2>1. \A t \in Tenants : Of(t)' = Of(t)
      BY <1>2, <1>4
    <2>2. QED
      BY <1>1, <1>2, <1>3, <1>4, <2>1 DEF QuotaInv, QuotaOnlyOvertaken
  <1>5. ASSUME NEW m \in Missions, NEW p \in Projects, NEW seen \in Nat,
               CreateMission(m, p, seen), ~Created(m), seen + 1 <= Quota
        PROVE  QuotaInv'
    <2> DEFINE u == TenantOf[p]
    <2>1. job'[m].stage = "billing" /\ TenantOfMission(m)' = u /\ m \notin overtaken
      BY <1>1, <1>5 DEF CreateMission, TenantOfMission, QuotaInv, Job
    <2>2. usage'[u] = usage[u] + 1 /\ \A t \in Tenants \ {u} : usage'[t] = usage[t]
      BY <1>1, <1>5 DEF CreateMission
    <2>3. CASE usage[u] = seen
      <3>1. overtaken' = overtaken
        BY <1>5, <2>3 DEF CreateMission
      <3>2. \A t \in Tenants : Of(t)' = Of(t)
        BY <1>2, <3>1
      <3>3. \A t \in Tenants : usage'[t] <= Quota + Cardinality(Of(t))
        BY <1>1, <1>3, <1>5, <2>2, <2>3
      <3>4. QED
        BY <1>1, <1>2, <3>1, <3>2, <3>3 DEF QuotaInv, QuotaOnlyOvertaken
    <2>4. CASE usage[u] # seen
      <3>1. overtaken' = overtaken \cup {m}
        BY <1>5, <2>4 DEF CreateMission
      <3>2. Of(u)' = Of(u) \cup {m} /\ \A t \in Tenants \ {u} : Of(t)' = Of(t)
        BY <1>2, <2>1, <3>1
      <3>3. u \in Tenants
        BY <1>1
      <3>4. Cardinality(Of(u) \cup {m}) = Cardinality(Of(u)) + 1
        BY <1>3, <2>1, <3>3, FS_AddElement
      <3>5. \A t \in Tenants : usage'[t] <= Quota + Cardinality(Of(t)')
        <4>1. usage[u] + 1 <= Quota + (Cardinality(Of(u)) + 1)
          <5> DEFINE c == Cardinality(Of(u))
          <5>1. c \in Nat /\ usage[u] \in Nat /\ usage[u] <= Quota + c
            BY <1>1, <1>3, <3>3
          <5> HIDE DEF c
          <5>2. usage[u] + 1 <= Quota + (c + 1)
            BY <1>1, <5>1
          <5>3. QED
            BY <5>2 DEF c
        <4>2. ASSUME NEW t \in Tenants \ {u} PROVE usage'[t] <= Quota + Cardinality(Of(t)')
          BY <1>3, <2>2, <3>2
        <4>3. QED
          BY <2>2, <3>2, <3>4, <4>1, <4>2
      <3>6. IsFiniteSet(overtaken')
        BY <1>1, <3>1, FS_AddElement
      <3>7. \A n \in overtaken' : Created(n)'
        BY <1>2, <2>1, <3>1 DEF Created
      <3>8. QED
        BY <3>5, <3>6, <3>7 DEF QuotaInv, QuotaOnlyOvertaken
    <2>5. QED
      BY <2>3, <2>4
  <1>6. QED
    BY <1>4, <1>5, CountedByCreation

\* However submissions overlap, a tenant has more metered missions than its
\* quota only by those admitted on a count another one was about to raise.
THEOREM QuotaHolds == Spec => []QuotaOnlyOvertaken
  <1>1. Init => QuotaInv
    <2> SUFFICES ASSUME Init PROVE QuotaInv
      OBVIOUS
    <2>1. overtaken = {} /\ \A t \in Tenants : usage[t] = 0
      BY DEF Init, ControlInit
    <2>2. \A t \in Tenants : {m \in overtaken : TenantOfMission(m) = t} = {}
      BY <2>1
    <2>3. QED
      BY <2>1, <2>2, CustomerAssumption, FS_EmptySet DEF QuotaInv, QuotaOnlyOvertaken
  <1>2. QuotaInv => QuotaOnlyOvertaken
    BY DEF QuotaInv
  <1>3. QED
    BY <1>1, <1>2, MissionInvariant, QuotaKeeps, PTL DEF Spec

-----------------------------------------------------------------------------
(* Incidents and the keys that suppress them                               *)

LEMMA LeastNumber ==
  ASSUME NEW S \in SUBSET Nat, S # {}
  PROVE  Min(S) \in S /\ \A y \in S : Min(S) <= y
  <1>1. PICK x \in S : \A y \in S : ~(<<y, x>> \in OpToRel(<, Nat))
    <2> HIDE DEF OpToRel
    <2>1. QED
      BY NatLessThanWellFounded, WFMin
  <1>2. \A y \in S : x <= y
    <2> SUFFICES ASSUME NEW y \in S, y < x PROVE FALSE
      OBVIOUS
    <2>1. <<y, x>> \in OpToRel(<, Nat)
      BY DEF OpToRel
    <2>2. QED
      BY <1>1, <2>1
  <1>3. QED
    BY <1>2 DEF Min

LEMMA GreatestIndex ==
  ASSUME NEW n \in Nat, NEW S \in SUBSET (1 .. n), S # {}
  PROVE  Max(S) \in S
  <1> DEFINE D == {n - x : x \in S}
  <1>1. D \in SUBSET Nat /\ D # {}
    <2>1. \A x \in S : n - x \in Nat
      OBVIOUS
    <2>2. QED
      BY <2>1
  <1>2. PICK x \in S : Min(D) = n - x
    BY <1>1, LeastNumber
  <1>3. \A y \in S : n - x <= n - y
    BY <1>1, <1>2, LeastNumber
  <1>4. \A y \in S : x >= y
    BY <1>3
  <1>5. QED
    BY <1>4 DEF Max

\* An incident of the project is open.
OpenAt(i, p) == incidents[i].status = "OPEN" /\ incidents[i].project = p

LEMMA FirstOpen ==
  ASSUME NEW p, incidents \in Seq(Incident)
  PROVE  /\ OpenIncident(p) \in 0 .. Len(incidents)
         /\ OpenIncident(p) # 0 <=> \E i \in 1 .. Len(incidents) : OpenAt(i, p)
  <1> DEFINE I == {i \in 1 .. Len(incidents) :
                     incidents[i].status = "OPEN" /\ incidents[i].project = p}
  <1>1. OpenIncident(p) = IF I # {} THEN Min(I) ELSE 0
    BY DEF OpenIncident, SelectInSeq
  <1>2. I \in SUBSET Nat /\ Len(incidents) \in Nat
    OBVIOUS
  <1>3. I # {} => Min(I) \in I
    BY <1>2, LeastNumber
  <1>4. QED
    BY <1>1, <1>2, <1>3 DEF OpenAt

\* What the sweeps rest on: the rows a sweep has to look at exist, so does the
\* incident it recovers, and two incidents of one project are open at once only
\* after one was resolved twice.
IncidentInv ==
  /\ incidents \in Seq(Incident)
  /\ activeKeys \subseteq Projects /\ again \subseteq Projects
  /\ repairs \in 0 .. MaxRepairs
  /\ \A i, j \in 1 .. Len(incidents) :
       i # j /\ OpenAt(i, incidents[j].project) /\ OpenAt(j, incidents[j].project) =>
         incidents[j].project \in again
  /\ \A p \in activeKeys : \E i \in 1 .. Len(incidents) : OpenAt(i, p)
  /\ \A i \in 1 .. Len(incidents) :
       incidents[i].status = "OPEN" => incidents[i].project \in activeKeys \cup again

SweepState == [stage : {"idle", "verify", "found", "recovering"},
               todo : SUBSET Nat, incident : Nat]

Fits(j, rows, raised) ==
  /\ j \in SweepState
  /\ j.todo \subseteq 1 .. rows
  /\ j.incident <= raised
  /\ j.stage \in {"found", "recovering"} => j.todo # {}

SweepInv ==
  /\ sweep \in [Sweeps -> SweepState]
  /\ \A s \in Sweeps : Fits(sweep[s], Len(urls), Len(incidents))

\* Nothing takes a row out of the URL registry.
LEMMA UrlsGrow ==
  ASSUME MissionInv, [Next]_vars
  PROVE  Len(urls) \in Nat /\ Len(urls') \in Nat /\ Len(urls) <= Len(urls')
  <1>1. urls \in Seq(UrlRow)
    BY DEF MissionInv, MissionTypeOK
  <1>2. urls' = urls \/ \E row : urls' = Append(urls, row)
    <2>1. ASSUME NEW m \in Missions, DeliveryStep(m), urls' # urls PROVE RecordUrl(m)
      BY <2>1 DEF DeliveryStep, Gate, Plan, Prepare, BuildProject, Snapshot, Test, RepairBuild,
         Publish, Deploy, Health, Rollback, Close, Throws, deliveryVars
    <2>2. ASSUME NEW s \in Sweeps, SweepStep(s) PROVE urls' = urls
      BY <2>2 DEF SweepStep, SweepStarts, Verify, SweepEnds, Evaluate, Recovered, missionVars,
         deliveryVars
    <2>3. QED
      BY <2>1, <2>2 DEF Next, RecordUrl, vars, deliveryVars
  <1>3. QED
    BY <1>1, <1>2

LEMMA Resolved ==
  ASSUME IncidentInv, NEW k \in 1 .. Len(incidents), Resolve(k), UNCHANGED repairs
  PROVE  IncidentInv' /\ Len(incidents') = Len(incidents)
  <1> DEFINE q == incidents[k].project
  <1>1. /\ incidents \in Seq(Incident) /\ q \in Projects
        /\ \A i \in 1 .. Len(incidents) : incidents[i] \in Incident
    <2>1. incidents \in Seq(Incident)
      BY DEF IncidentInv
    <2>2. \A i \in 1 .. Len(incidents) : incidents[i] \in Incident
      BY <2>1
    <2>3. q \in Projects
      BY <2>2 DEF Incident
    <2>4. QED
      BY <2>1, <2>2, <2>3
  <1>2. /\ incidents' \in Seq(Incident) /\ Len(incidents') = Len(incidents)
        /\ incidents'[k].status = "RECOVERED" /\ incidents'[k].project = q
        /\ \A i \in 1 .. Len(incidents) : i # k => incidents'[i] = incidents[i]
    <2>1. incidents' = [incidents EXCEPT ![k] = [incidents[k] EXCEPT !.status = "RECOVERED"]]
      BY DEF Resolve
    <2>2. [incidents[k] EXCEPT !.status = "RECOVERED"] \in Incident
      BY <1>1 DEF Incident
    <2>3. incidents' \in Seq(Incident) /\ Len(incidents') = Len(incidents)
      BY <1>1, <2>1, <2>2
    <2>4. incidents'[k] = [incidents[k] EXCEPT !.status = "RECOVERED"]
      BY <1>1, <2>1
    <2>5. QED
      BY <1>1, <2>1, <2>3, <2>4 DEF Incident
  <1>3. /\ again \subseteq again' /\ again' \subseteq Projects
        /\ incidents[k].status # "OPEN" => q \in again'
        /\ activeKeys' = activeKeys \ {q}
    BY <1>1 DEF Resolve, IncidentInv
  <1>4. \A i \in 1 .. Len(incidents), p \in Projects : OpenAt(i, p)' <=> OpenAt(i, p) /\ i # k
    BY <1>1, <1>2 DEF OpenAt
  <1>5. \A p \in activeKeys' : \E i \in 1 .. Len(incidents) : OpenAt(i, p)'
    BY <1>1, <1>3, <1>4 DEF IncidentInv, OpenAt
  <1>6. ASSUME NEW i \in 1 .. Len(incidents), incidents'[i].status = "OPEN"
        PROVE  incidents'[i].project \in activeKeys' \cup again'
    <2>1. i # k /\ incidents'[i] = incidents[i] /\ incidents[i].status = "OPEN"
      BY <1>2, <1>6
    <2>2. CASE incidents[i].project # q
      BY <1>3, <2>1, <2>2 DEF IncidentInv
    <2>3. CASE incidents[i].project = q /\ incidents[k].status = "OPEN"
      BY <1>3, <2>1, <2>3 DEF IncidentInv, OpenAt
    <2>4. QED
      BY <1>3, <2>1, <2>2, <2>3
  <1>7. \A i, j \in 1 .. Len(incidents) :
          i # j /\ OpenAt(i, incidents[j].project)' /\ OpenAt(j, incidents[j].project)' =>
            incidents'[j].project \in again'
    BY <1>1, <1>2, <1>3, <1>4 DEF IncidentInv, Incident
  <1>8. QED
    BY <1>1, <1>2, <1>3, <1>5, <1>6, <1>7 DEF IncidentInv, OpenAt

LEMMA Raised ==
  ASSUME IncidentInv, NEW p \in Projects \ activeKeys, repairs' \in 0 .. MaxRepairs,
         incidents' = Append(incidents, [project |-> p, status |-> "OPEN"]),
         activeKeys' = activeKeys \cup {p}, again' = again
  PROVE  IncidentInv' /\ Len(incidents') = Len(incidents) + 1
  <1>1. /\ incidents \in Seq(Incident)
        /\ [project |-> p, status |-> "OPEN"] \in Incident
    BY DEF IncidentInv, Incident
  <1>2. PICK l \in Nat : l = Len(incidents)
    BY <1>1
  <1>3. /\ incidents' \in Seq(Incident) /\ Len(incidents') = l + 1
        /\ incidents'[l + 1] = [project |-> p, status |-> "OPEN"]
        /\ \A i \in 1 .. l : incidents'[i] = incidents[i]
    BY <1>1, <1>2
  <1>4. 1 .. Len(incidents') = (1 .. l) \cup {l + 1} /\ l + 1 \notin 1 .. l
    BY <1>1, <1>3
  <1>5. /\ \A i \in 1 .. l, q \in Projects : OpenAt(i, q)' <=> OpenAt(i, q)
        /\ \A q \in Projects : OpenAt(l + 1, q)' <=> q = p
    BY <1>3 DEF OpenAt
  <1>6. \A i \in 1 .. l : incidents[i].project \in Projects
    <2>1. \A i \in 1 .. l : incidents[i] \in Incident
      BY <1>1, <1>2
    <2>2. QED
      BY <2>1 DEF Incident
  <1>7. \A i \in 1 .. l : OpenAt(i, p) => p \in again
    BY <1>2 DEF IncidentInv, OpenAt
  <1>8. \A i, j \in 1 .. Len(incidents') :
          i # j /\ OpenAt(i, incidents[j].project)' /\ OpenAt(j, incidents[j].project)' =>
            incidents'[j].project \in again'
    <2>1. SUFFICES ASSUME NEW i \in 1 .. Len(incidents'), NEW j \in 1 .. Len(incidents'), i # j,
                          NEW q, q = incidents'[j].project, OpenAt(i, q)', OpenAt(j, q)'
                   PROVE  q \in again
      OBVIOUS
    <2>2. CASE i = l + 1 \/ j = l + 1
      BY <1>3, <1>4, <1>7, <2>1, <2>2 DEF OpenAt
    <2>3. CASE i \in 1 .. l /\ j \in 1 .. l
      <3>1. OpenAt(i, q) /\ OpenAt(j, q) /\ q = incidents[j].project
        BY <1>3, <2>1, <2>3 DEF OpenAt
      <3>2. QED
        BY <1>2, <2>1, <2>3, <3>1 DEF IncidentInv
    <2>4. QED
      BY <1>4, <2>2, <2>3
  <1>9. \A q \in activeKeys' : \E i \in 1 .. Len(incidents') : OpenAt(i, q)'
    BY <1>2, <1>3, <1>4, <1>5 DEF IncidentInv, OpenAt
  <1>10. \A i \in 1 .. Len(incidents') :
          incidents'[i].status = "OPEN" => incidents'[i].project \in activeKeys' \cup again'
    BY <1>2, <1>3, <1>4 DEF IncidentInv
  <1>11. QED
    BY <1>2, <1>3, <1>8, <1>9, <1>10 DEF IncidentInv

\* A step of one sweep that leaves the rows and the incidents at least as they
\* were, and itself in a state it may be in.
LEMMA OneSweep ==
  ASSUME SweepInv, UNCHANGED urls, Len(incidents) \in Nat,
         Len(incidents') \in Nat, Len(incidents) <= Len(incidents'),
         NEW s \in Sweeps, NEW j, sweep' = [sweep EXCEPT ![s] = j],
         Fits(j, Len(urls), Len(incidents'))
  PROVE  SweepInv'
  <1>1. sweep \in [Sweeps -> SweepState] /\ j \in SweepState
    BY DEF SweepInv, Fits
  <1>2. sweep' \in [Sweeps -> SweepState]
    BY <1>1
  <1>3. ASSUME NEW r \in Sweeps PROVE Fits(sweep'[r], Len(urls), Len(incidents'))
    <2>1. CASE r = s
      BY <1>1, <2>1
    <2>2. CASE r # s
      <3>1. sweep'[r] = sweep[r]
        BY <1>1, <2>2
      <3>2. sweep[r].incident \in Nat /\ Fits(sweep[r], Len(urls), Len(incidents))
        BY <1>1 DEF SweepState, SweepInv
      <3>3. QED
        BY <3>1, <3>2 DEF Fits
    <2>3. QED
      BY <2>1, <2>2
  <1>4. QED
    BY <1>2, <1>3 DEF SweepInv

LEMMA SweepKeeps ==
  ASSUME MissionInv, IncidentInv, SweepInv, NEW s \in Sweeps, SweepStep(s)
  PROVE  IncidentInv' /\ SweepInv'
  <1> DEFINE Kept == /\ UNCHANGED urls /\ Len(incidents') \in Nat
                     /\ Len(incidents) <= Len(incidents')
  <1>1. /\ urls \in Seq(UrlRow) /\ urls' = urls /\ Len(urls) \in Nat
        /\ incidents \in Seq(Incident) /\ Len(incidents) \in Nat
        /\ sweep \in [Sweeps -> SweepState]
    <2>1. urls' = urls
      BY DEF SweepStep, SweepStarts, Verify, SweepEnds, Evaluate, Recovered, missionVars,
         deliveryVars
    <2>2. urls \in Seq(UrlRow) /\ incidents \in Seq(Incident) /\ sweep \in [Sweeps -> SweepState]
      BY DEF MissionInv, MissionTypeOK, IncidentInv, SweepInv
    <2>3. QED
      BY <2>1, <2>2
  <1>2. /\ sweep[s] \in SweepState
        /\ sweep[s].todo \subseteq 1 .. Len(urls)
        /\ sweep[s].incident \in 0 .. Len(incidents)
        /\ sweep[s].stage \in {"found", "recovering"} => sweep[s].todo # {}
    <2>1. sweep[s] \in SweepState
      BY <1>1
    <2>2. /\ sweep[s].todo \subseteq 1 .. Len(urls) /\ sweep[s].incident <= Len(incidents)
          /\ sweep[s].stage \in {"found", "recovering"} => sweep[s].todo # {}
      BY DEF SweepInv, Fits
    <2>3. sweep[s].incident \in Nat
      BY <2>1 DEF SweepState
    <2>4. QED
      BY <1>1, <2>1, <2>2, <2>3
  <1>3. ASSUME UNCHANGED <<incidents, activeKeys, repairs, again>> PROVE IncidentInv'
    BY <1>3 DEF IncidentInv, OpenAt
  <1>4. CASE SweepStarts(s)
    <2> DEFINE todo == {i \in DOMAIN urls : urls[i].status # "ROLLED_BACK"}
               j == [sweep[s] EXCEPT !.stage = "verify", !.todo = todo]
    <2>1. todo \subseteq 1 .. Len(urls) /\ todo \in SUBSET Nat
      BY <1>1
    <2>2. sweep' = [sweep EXCEPT ![s] = j]
      BY <1>4 DEF SweepStarts
    <2> HIDE DEF todo
    <2>3. /\ j \in SweepState /\ j.stage = "verify" /\ j.todo = todo
          /\ j.incident = sweep[s].incident
      BY <1>2, <2>1 DEF SweepState
    <2> HIDE DEF j
    <2>4. UNCHANGED <<incidents, activeKeys, repairs, again>>
      BY <1>4 DEF SweepStarts
    <2>5. Kept /\ Fits(j, Len(urls), Len(incidents'))
      BY <1>1, <1>2, <2>1, <2>3, <2>4 DEF Fits
    <2>6. SweepInv'
      BY <1>1, <2>2, <2>5, OneSweep
    <2>7. QED
      BY <1>3, <2>4, <2>6
  <1>5. CASE Verify(s)
    <2>1. UNCHANGED <<incidents, activeKeys, repairs, again>> /\ sweep[s].todo # {}
      BY <1>5 DEF Verify
    <2>2. CASE sweep' = [sweep EXCEPT ![s].todo = @ \ {Target(s)}]
      <3> DEFINE j == [sweep[s] EXCEPT !.todo = @ \ {Target(s)}]
      <3>1. sweep' = [sweep EXCEPT ![s] = j]
        BY <2>2
      <3>2. /\ j \in SweepState /\ j.stage = "verify" /\ j.incident = sweep[s].incident
            /\ j.todo = sweep[s].todo \ {Target(s)}
        BY <1>2, <1>5 DEF SweepState, Verify
      <3> HIDE DEF j
      <3>3. Kept /\ Fits(j, Len(urls), Len(incidents'))
        BY <1>1, <1>2, <2>1, <3>2 DEF Fits
      <3>4. SweepInv'
        BY <1>1, <3>1, <3>3, OneSweep
      <3>5. QED
        BY <1>3, <2>1, <3>4
    <2>3. CASE sweep' = [sweep EXCEPT ![s].stage = "found"]
      <3> DEFINE j == [sweep[s] EXCEPT !.stage = "found"]
      <3>1. sweep' = [sweep EXCEPT ![s] = j]
        BY <2>3
      <3>2. /\ j \in SweepState /\ j.incident = sweep[s].incident
            /\ j.todo = sweep[s].todo
        BY <1>2 DEF SweepState
      <3> HIDE DEF j
      <3>3. Kept /\ Fits(j, Len(urls), Len(incidents'))
        BY <1>1, <1>2, <2>1, <3>2 DEF Fits
      <3>4. SweepInv'
        BY <1>1, <3>1, <3>3, OneSweep
      <3>5. QED
        BY <1>3, <2>1, <3>4
    <2>4. QED
      BY <1>5, <2>2, <2>3 DEF Verify
  <1>6. \A rows, raised \in Nat : Fits(Idle, rows, raised)
    BY DEF Idle, SweepState, Fits
  <1>7. CASE SweepEnds(s)
    <2>1. sweep' = [sweep EXCEPT ![s] = Idle] /\ UNCHANGED <<incidents, activeKeys, repairs, again>>
      BY <1>7 DEF SweepEnds
    <2>2. Kept /\ Fits(Idle, Len(urls), Len(incidents'))
      BY <1>1, <1>6, <2>1
    <2>3. SweepInv'
      BY <1>1, <2>1, <2>2, OneSweep
    <2>4. QED
      BY <1>3, <2>1, <2>3
  <1>8. CASE Evaluate(s)
    <2> DEFINE p == urls[Target(s)].project
    <2>1. p \in Projects
      <3>1. Target(s) \in sweep[s].todo
        BY <1>1, <1>2, <1>8, GreatestIndex DEF Evaluate, Target
      <3>2. urls[Target(s)] \in UrlRow
        BY <1>1, <1>2, <3>1
      <3>3. QED
        BY <3>2 DEF UrlRow
    <2>2. repairs' \in 0 .. MaxRepairs
      BY <1>8, OperationsAssumption DEF Evaluate, IncidentInv
    <2>3. ASSUME Kept, NEW k \in Nat, k <= Len(incidents'),
                 sweep' = [sweep EXCEPT ![s].stage = "recovering", ![s].incident = k]
          PROVE  SweepInv'
      <3> DEFINE j == [sweep[s] EXCEPT !.stage = "recovering", !.incident = k]
      <3>1. sweep' = [sweep EXCEPT ![s] = j]
        BY <1>1, <2>3
      <3>2. /\ j \in SweepState /\ j.incident = k /\ j.todo = sweep[s].todo
        BY <1>2 DEF SweepState
      <3>3. sweep[s].todo # {}
        BY <1>2, <1>8 DEF Evaluate
      <3> HIDE DEF j
      <3>4. Kept /\ Fits(j, Len(urls), Len(incidents'))
        BY <1>1, <1>2, <2>3, <3>2, <3>3 DEF Fits
      <3>5. QED
        BY <1>1, <3>1, <3>4, OneSweep
    <2>4. CASE p \in activeKeys
      <3>1. /\ UNCHANGED <<incidents, activeKeys, again>>
            /\ sweep' = [sweep EXCEPT ![s].stage = "recovering",
                                      ![s].incident = OpenIncident(p)]
        BY <1>8, <2>4 DEF Evaluate
      <3>2. OpenIncident(p) \in 0 .. Len(incidents)
        BY <1>1, FirstOpen
      <3>3. IncidentInv'
        BY <2>2, <3>1 DEF IncidentInv, OpenAt
      <3>4. PICK k \in Nat : k = OpenIncident(p)
        BY <3>2
      <3>5. Kept /\ k <= Len(incidents')
        BY <1>1, <3>1, <3>2, <3>4
      <3>6. sweep' = [sweep EXCEPT ![s].stage = "recovering", ![s].incident = k]
        BY <3>1, <3>4
      <3>7. SweepInv'
        BY <2>3, <3>5, <3>6
      <3>8. QED
        BY <3>3, <3>7
    <2>5. CASE p \notin activeKeys
      <3>1. /\ incidents' = Append(incidents, [project |-> p, status |-> "OPEN"])
            /\ activeKeys' = activeKeys \cup {p} /\ again' = again
            /\ sweep' = [sweep EXCEPT ![s].stage = "recovering",
                                      ![s].incident = Len(incidents) + 1]
        BY <1>8, <2>5 DEF Evaluate
      <3>2. IncidentInv' /\ Len(incidents') = Len(incidents) + 1
        BY <2>1, <2>2, <2>5, <3>1, Raised
      <3>3. PICK k \in Nat : k = Len(incidents) + 1
        BY <1>1
      <3>4. Kept /\ k <= Len(incidents')
        BY <1>1, <3>2, <3>3
      <3>5. sweep' = [sweep EXCEPT ![s].stage = "recovering", ![s].incident = k]
        BY <3>1, <3>3
      <3>6. SweepInv'
        BY <2>3, <3>4, <3>5
      <3>7. QED
        BY <3>2, <3>6
    <2>6. QED
      BY <2>4, <2>5
  <1>9. CASE Recovered(s)
    <2> DEFINE k == sweep[s].incident
    <2>1. PICK outcome \in RecoveryOutcomes :
            /\ IF outcome = "accepted" /\ k # 0
               THEN Resolve(k)
               ELSE UNCHANGED <<incidents, activeKeys, again>>
            /\ sweep' = [sweep EXCEPT ![s] =
                 IF outcome = "throws" THEN Idle
                 ELSE [stage |-> "verify", todo |-> sweep[s].todo \ {Target(s)}, incident |-> 0]]
      BY <1>9 DEF Recovered
    <2>2. IncidentInv' /\ Len(incidents') = Len(incidents)
      <3>1. CASE outcome = "accepted" /\ k # 0
        BY <1>2, <1>9, <2>1, <3>1, Resolved DEF Recovered
      <3>2. CASE ~(outcome = "accepted" /\ k # 0)
        BY <1>3, <1>9, <2>1, <3>2 DEF Recovered
      <3>3. QED
        BY <3>1, <3>2
    <2>3. SweepInv'
      <3>1. CASE outcome = "throws"
        <4>1. sweep' = [sweep EXCEPT ![s] = Idle]
          BY <2>1, <3>1
        <4>2. Kept /\ Fits(Idle, Len(urls), Len(incidents'))
          BY <1>1, <1>6, <2>2
        <4>3. QED
          BY <1>1, <4>1, <4>2, OneSweep
      <3>2. CASE outcome # "throws"
        <4> DEFINE j == [stage |-> "verify", todo |-> sweep[s].todo \ {Target(s)},
                         incident |-> 0]
        <4>1. sweep' = [sweep EXCEPT ![s] = j]
          BY <2>1, <3>2
        <4>2. /\ j \in SweepState /\ j.stage = "verify" /\ j.incident = 0
              /\ j.todo = sweep[s].todo \ {Target(s)}
          BY <1>2 DEF SweepState
        <4> HIDE DEF j
        <4>3. Kept /\ Fits(j, Len(urls), Len(incidents'))
          BY <1>1, <1>2, <2>2, <4>2 DEF Fits
        <4>4. QED
          BY <1>1, <4>1, <4>3, OneSweep
      <3>3. QED
        BY <3>1, <3>2
    <2>4. QED
      BY <2>2, <2>3
  <1>10. QED
    BY <1>4, <1>5, <1>7, <1>8, <1>9 DEF SweepStep

LEMMA OperationsKeep ==
  MissionInv /\ IncidentInv /\ SweepInv /\ [Next]_vars => IncidentInv' /\ SweepInv'
  <1> SUFFICES ASSUME MissionInv, IncidentInv, SweepInv, [Next]_vars
               PROVE  IncidentInv' /\ SweepInv'
    OBVIOUS
  <1>1. CASE \E s \in Sweeps : SweepStep(s)
    BY <1>1, SweepKeeps
  <1>2. CASE UNCHANGED operationsVars
    <2>1. IncidentInv'
      BY <1>2 DEF operationsVars, IncidentInv, OpenAt
    <2>2. \A s \in Sweeps : Fits(sweep[s], Len(urls'), Len(incidents))
      BY UrlsGrow DEF SweepInv, Fits
    <2>3. QED
      BY <1>2, <2>1, <2>2 DEF operationsVars, SweepInv
  <1>3. QED
    BY <1>1, <1>2 DEF Next, vars, operationsVars

LEMMA OperationsInit == Init => IncidentInv /\ SweepInv
  <1> SUFFICES ASSUME Init PROVE IncidentInv /\ SweepInv
    OBVIOUS
  <1>1. /\ incidents = <<>> /\ activeKeys = {} /\ repairs = 0 /\ again = {} /\ urls = <<>>
        /\ sweep = [s \in Sweeps |-> [stage |-> "idle", todo |-> {}, incident |-> 0]]
    BY DEF Init, DeliveryInit, Idle
  <1>2. Len(incidents) = 0 /\ incidents \in Seq(Incident)
    BY <1>1
  <1>3. IncidentInv
    BY <1>1, <1>2, OperationsAssumption DEF IncidentInv
  <1>4. SweepInv
    BY <1>1, <1>2 DEF SweepInv, SweepState, Fits
  <1>5. QED
    BY <1>3, <1>4

LEMMA OperationsInvariant == Spec => [](IncidentInv /\ SweepInv)
  <1>1. QED
    BY OperationsInit, MissionInvariant, OperationsKeep, PTL DEF Spec

\* Every variable of the customer platform keeps its type.
THEOREM TypeCorrect == Spec => []TypeOK
  <1>1. MissionInv /\ IncidentInv /\ SweepInv => TypeOK
    BY DEF MissionInv, MissionTypeOK, IncidentInv, SweepInv, SweepState, TypeOK
  <1>2. QED
    BY <1>1, MissionInvariant, OperationsInvariant, PTL

\* A URL raises no new incident exactly while one of its incidents is open,
\* but for the projects whose older incident two sweeps resolved.
THEOREM Suppressed == Spec => []SuppressedWhileOpen
  <1>1. IncidentInv => SuppressedWhileOpen
    <2> SUFFICES ASSUME IncidentInv, NEW p \in Projects
                 PROVE  /\ p \in activeKeys => OpenIncident(p) # 0
                        /\ OpenIncident(p) # 0 => p \in activeKeys \cup again
      BY DEF SuppressedWhileOpen
    <2>1. OpenIncident(p) # 0 <=> \E i \in 1 .. Len(incidents) : OpenAt(i, p)
      BY FirstOpen DEF IncidentInv
    <2>2. QED
      BY <2>1 DEF IncidentInv, OpenAt
  <1>2. QED
    BY <1>1, OperationsInvariant, PTL

=============================================================================
