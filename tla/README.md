# JORA in TLA+

A verification development for [JORA](../src/README.md), an autonomous software
engineering runtime in JavaScript: TLA+ models of its core, TLC configurations
that check them on small instances, and theorems checked by TLAPS.

Everything below is about the code in `src/src/core/` unless a path says
otherwise. `PROJECT.json` maps every definition that models code to the lines it
models, lists the runs, the mutants that show each property can fail, the
hazards, the findings and the theorems.

    tlc -workers 2 -config WorkerFleet.cfg WorkerFleet.tla     # check a model
    tlapm WorkerFleetProofs.tla                                # check proofs

## The system

JORA takes a natural-language command, plans it, has a model write files into a
git workspace, tests and reviews the result, promotes it by a fast-forward merge
(locally and on GitHub, behind a CI gate), remembers the promoted candidate as
champion, deploys it, and keeps doing so from a durable worker that may run on
several nodes over PostgreSQL.

| Part | State | Operations | Hard behaviour |
|---|---|---|---|
| **Task queue** `postgres-task-queue.js` | rows of `jora_jobs`: status, attempts, lock owner, lock expiry, backoff | `enqueue`, `claim`, `complete`, `fail`, `recoverExpired` | two claimers between SELECT and UPDATE; late answers for a job recovered meanwhile; retry limits |
| **Lease store** `postgres-lease-store.js` | one row of `jora_leases` per namespace: owner, token, expiry | `acquire`, `heartbeat`, `release` | takeover on expiry, late release or heartbeat of an earlier holder |
| **Durable worker** `durable-worker.js`, `json-store.js` | state file, `running`, `jobId`, `stopRequested`, `leaseToken`, timer | `run`, `_heartbeat`, `stop` | heartbeat read-modify-write against run's own writes; crash between any two awaits; lost lease |
| **Recovery** `recovery-orchestrator.js`, `operational-health-monitor.js`, `incident-manager.js` | alerts seen, incidents | `handle`, `checkAndHandle` | recovers jobs while their node may still run |
| **Runtime** `jora-runtime.js`, `governance-state-machine.js`, `policy-engine.js` | governance state and record per execution | `execute`, `stop` | the order of policy, promotion, deployment and record; error paths; executions side by side |
| **Controllers** `autonomous-controller.js`, `promotion-controller.js`, evaluator, selector | `stopRequested`, loop variables | `run`, `promote`, `stop` | bounded repair; stale copy of the champion; gates before and after the commit |
| **Workspace** `workspace-repository.js`, `local-git.js` | branches, HEAD, working tree, `candidateBranch`, `baseBranch` | `prepareCandidate`, `write`, `commit`, `promoteCandidate` | one mutable workspace for all executions; a checkout of one between the git commands of another's promotion; failure between remote and local merge; restart on whatever is checked out |
| **GitHub** `github-rest-repository.js`, `github-ci-gate.js` | remote branches | `publishCandidate`, `promoteBranch`, `review` | refs move between CI and promotion; non-fast-forward refusal |
| **Champion** `champion-store.js` | champion and history in memory and in a file | `load`, `promote`, `rollback` | memory is changed before the file |
| **Deployment** `deployment-controller.js`, `staged-deployment-controller.js`, `http-deployment-adapter.js`, `health-check.js` | none but the endpoint's | `deploy`, `rollback` | a call that fails after it took effect; a rollback tried twice |
| **Background executions** `operator-api.js`, `jora-async-worker.js`, `persistent-execution-store.js`, `postgres-execution-store.js` | a record per request in memory, a child process, a row in the store | `POST`, `GET` and cancel of `/v1/execute/async`; `create`, `append`, `finish`, `update` | messages, exit, error, timer and cancellation in any order; read-modify-write of a shared list; capacity compared before it is used |
| **Background worker** `jora-async-worker.js`, `autonomous-build-pipeline.js`, `autonomous-delivery.js`, `model-project-builder.js` | a workspace, a container on a port | `execute`, `deliver`, `build` | a verdict that outlives the tree it was given on; two workers on one workspace |
| **Execution platform** `execution-platform-v2.js`, `autonomous-control-plane-v2.js` | local queue and its file; idempotency keys and their ledger | `enqueue`, `claim`, `complete`, `fail`; `executeIdempotent` | loads that come late; look-up before and storing after the work |
| **Roadmap** `roadmap-engine.js`, `mission-manager.js`, `autonomous-mission-runner.js` | tasks with status, attempts and dependencies in memory and in a file | `next`, `claim`, `complete`, `fail`, `run`, `stop` | two runs on one roadmap; failed saves; a blocked task that stays on offer |
| **Project** `autonomous-orchestrator.js`, `mission-manager-engine.js`, `project-lifecycle-engine.js`, `autonomous-project-worker.js`, `existing-project-modification-engine.js` | the files under `.jora` of a generated project | build, mission calls, worker cycles, modifications | files read, changed and replaced whole by several processes; statuses that outlive their process |
| **Source engines** `code-reasoning-engine.js`, `architecture-*-engine.js`, `feature-*-engine.js` | the source files of a project | plan, apply, test, take back | edits that fail half way; six ways to undo them |
| **Project deployment and monitoring** `autonomous-deployment-engine.js`, `production-monitoring-engine.js`, `incident-manager.js` | a state file each; incidents | `deploy`, `rollback`, monitoring cycles | overlapping cycles; a crash in DEPLOYING; a write that fails after the effect |
| **Conversations** `persistent-project-state-store.js`, `project-state-engine.js`, `conversation-intelligence-engine.js` | what was asked of each project | `/v1/chat`, `/v1/understand` | two requests that update one record |
| **Mission director** `autonomous-mission-director-v4.60.js`, `agent-swarm-v4.20.js` | missions in memory and in a file | `run` | reused ids, a trimmed list, steps that throw |
| **Customer platform** `customer-*.js`, `autonomous-customer-production-v3.js`, `external-execution-control-plane-v2.js` | tenants, users, keys, projects, quotas, missions, URLs, incidents | registries, `submit`, `execute`, sweeps | quota read before it is used; publication of files that are not the tested ones; overlapping sweeps |
| **Operator API, CLIs** `operator-api.js`, `api-cli.js`, `worker-cli.js` | the records of background executions | HTTP routes | drives all of the above concurrently |
| **The rest**: language understanding, generation templates, council patterns, providers, dashboards | none | pure, or driven by the model | - |

How they interact. `production-runtime.js` composes one process: one workspace,
one controller, one champion store, one runtime, one worker. The operator API
answers every request with its own call of `runtime.execute` or `worker.run`, so
executions interleave at every await. The worker calls missions, missions call
`runtime.execute`. In a distributed deployment several such processes share the
PostgreSQL lease and queue; nothing else is shared between nodes. A health monitor,
which is off unless configured (`runtime-config.js:45`), calls the recovery
orchestrator, which requeues expired jobs when it sees a stale worker or a backlog of
a hundred.

Beside that, the API process forks one worker process per background execution; the
API's records, the local queue, the ledger, the conversations, the customer
registries and the mission director live in the memory of that process with a JSON
file (or a table) each, and the timers of the monitoring run in it. A generated
project is a directory: its build, its worker, its modifications, its deployment
and its monitoring are separate commands that meet in the files under `.jora`.

What makes each part correct: a job is settled once, by the node executing its current
attempt, and eventually, or stranded where only a recovery can reach it; a lease is
never evicted while live; a worker's interrupted cycle is retried, never skipped; what
is merged is what was reviewed and what CI passed; a promoted commit is never lost;
the champion is a promoted commit and never a worse one; what is served was promoted
and passed staging; what was rolled back is not served; the record tells what
happened; everything ends. What was accepted or acknowledged is kept; one key has one
answer; a client is not told one thing and then another; what is answered ACCEPTED,
promoted or called deployed was checked as it is; an engine that reports its edits as
taken back has taken them back; a task waits for its dependencies; one outage has one
incident; a tenant stays within its quota. Several of these hold with exceptions only,
and then the property names them: that is where the interesting part of the code is.

## Modules

    JobLifecycle   <- refined by -  TaskQueue        Workspace   Deployment <- ProjectDeployment
                                       |  EXTENDS        \          /  EXTEND
    WorkerLease  - INSTANCE ->   WorkerFleet              Release
                                                             |
    DurableWorker        Roadmap                          MCRelease

                      ProjectMissions                CustomerControl
                       /  EXTEND   \                      |  EXTENDS
                ProjectBuild   ProjectWorker         CustomerDelivery
                       \  EXTENDS  /                      |  EXTENDS
                         Project                     CustomerOperations

    MCQueues   - EXTENDS Queues         EXTENDS TaskQueue, AsyncExecution,
                                        INSTANCE LocalQueue, ExecutionLedger
    MCProject  - EXTENDS ProjectParts   EXTENDS Project,
                                        INSTANCE SourceEngines, BuildWorker, ProjectDeployment
    MCCustomer - EXTENDS CustomerParts  EXTENDS CustomerOperations,
                                        INSTANCE CustomerAccounts, ConversationMemory,
                                                 MissionDirector, ProductionMonitor

| Module | Models |
|---|---|
| `JobLifecycle` | abstract: what the queue promises to whoever enqueues a job |
| `TaskQueue` | the table and every statement of `PostgresTaskQueue`, for arbitrary callers |
| `WorkerLease` | the lease row and the three statements of `PostgresLeaseStore` |
| `WorkerFleet` | nodes running `DurableWorker.run()` on one lease and one queue, with heartbeats, lost calls, stops, crashes, expiry and recovery |
| `DurableWorker` | `run()` and `_heartbeat()` on the state file, one file operation per step |
| `Roadmap` | `RoadmapEngine`, `MissionManager` and the `AutonomousMissionRunner` that the worker and the API share |
| `Workspace` | the local repository, the working tree and the GitHub branches; each call of the repository object is an operator |
| `Deployment` | `DeploymentController` and `StagedDeploymentController` with the endpoint behind them |
| `Release` | `JoraRuntime.execute`, `AutonomousController.run`, `PromotionController.promote` and the champion, for several executions in one process |
| `AsyncExecution` | the background executions of the API with both stores |
| `BuildWorker` | what the forked worker of a background execution does |
| `LocalQueue`, `ExecutionLedger` | the queue in a file, and `executeIdempotent()` |
| `ProjectMissions` | the two files of a project that its engines share, and the mission manager's calls |
| `ProjectBuild`, `ProjectWorker`, `Project` | `runAutonomousProject()`, `runAutonomousWorker()`, and both with modifications |
| `SourceEngines` | six engines that edit sources as transactions on files |
| `ProjectDeployment`, `ProductionMonitor` | deployment and monitoring of a project, each with its state file |
| `CustomerControl`, `CustomerDelivery`, `CustomerOperations` | submission of a mission, its life, and the sweeps over what it deployed |
| `CustomerAccounts` | the registries behind `/v3/customer` |
| `ConversationMemory`, `MissionDirector` | `/v1/chat` and `/v1/understand`; `MissionDirectorV4.run()` |
| `Queues`, `ProjectParts`, `CustomerParts` | specifications side by side that share no state, with their properties, for the instances and the theorems |
| `MCRelease`, `MCQueues`, `MCProject`, `MCCustomer` | the instances that TLC checks |
| `WorkerFleetProofs`, `DurableWorkerProofs`, `RoadmapProofs` | theorems about the worker layer and the roadmap |
| `ReleaseProofs` | theorems about the release pipeline, with lemmas about the calls of the repository object |
| `QueuesProofs` | theorems about background executions, the local queue and the idempotency ledger, and the types of `Queues` |
| `ProjectProofs` | theorems about the build of a project and the work on it, its deployment, its build in the background and its source engines |
| `CustomerProofs` | theorems about customer missions, quota, deployments and sweeps |
| `CustomerPartsProofs` | theorems about the registries, conversations, the mission director and monitoring |

`Queues`, `ProjectParts` and `CustomerParts` put specifications side by side that
share no variable: `part` says which of them a behaviour is of, and the others rest in an
initial state, where their properties hold. Nothing of the
code composes there; the modules that do compose parts of the code are `WorkerFleet`,
`Release`, `Project` and `CustomerOperations`. The theorems are about the three as they
stand; their `MC` modules add the bounds and symmetries of the runs, and fix where the
parts that rest do so.

### The worker layer

`TaskQueue` keeps `jobs[j]` (the row), `rowLock[j]` (the row lock of an open
claim transaction) and `recoveries[j]` (a counter for the statement of
`AttemptBudget`). `claim()` is a SELECT and an UPDATE in one transaction: two
actions with the row lock between them, and a rollback. The single-statement
claim the class uses without a pool is the case where nothing happens between the
two. Time is abstract: a lock that was set may lapse, and a backoff may end, at
any later moment (`lapsed`, `available`), which covers every clock.

`WorkerFleet` names by `pc[p]` the await node p is at. A step runs from one await to
the next; a database statement takes effect in the step that leaves its await. A call
may be lost before or after it took effect (`AcquireLost`, `ClaimFails`,
`CompleteThrows`, `FailAnswered`, `ReleaseLease`); a claim that commits and then
throws leaves a job running for a node that lives and does not know of it. A heartbeat
is two steps, the statement and the arrival of its answer, so an answer can arrive in
the next run. Abstractions: one heartbeat of a node is in flight at a time; a crash
rolls the open transaction back at once; worker ids are unique, as the documentation
of `JORA_WORKER_ID` asks; the node's own state file is reduced to `fresh`. `Recover`
may come at any time and need never come: what asks for it, a stale state file or a
long queue seen by a health monitor, with its deduplication of alerts and its
cooldown, is left out, and nothing is said of its being called.

`DurableWorker` models that file: every read and write is a step, served in the
order asked for (`ioq`, the lock of `JsonStore`). The heartbeat reads the file and
writes it back, with the run's own operations in between.

### The release pipeline

A build is named by the execution and the cycle that wrote it; a tree is the set of
builds whose files it holds; a commit is the sequence of trees of its history. A
fast-forward is then an extension of a sequence, and *what was merged* is a set one
can compare with *what was reviewed*. Nothing serializes the git commands of two
executions. So `promoteCandidate()` is an action per command that reads or moves HEAD
(`MergeRemote`, `ReadHead`, `CheckoutTarget`, `MergeLocal`, `ReadMerged`,
`CheckoutBack`), and `prepareCandidate()` is the checkout (`BranchOff`) and what
follows it (`NameCandidate`): a checkout in between makes the merge move another
candidate's branch, and the promotion is answered all the same. The other calls of the
repository object move no HEAD, and are one step each. Two executions share `work`
(the working tree), `head` and `cand` (`candidateBranch`), because the code does.
`Reopen` is the start of a new process on the directory: `baseBranch` becomes the
branch it finds checked out.

`Release` has one action per call that `execute`, `run` and `promote` await.
Acceptance, planning and isolation are one step, `Accept`. The transition table
of governance is translated as it is; `Govern(e, path)` is a series of transitions
none of which throws. A candidate's evaluation is reduced to its score, chosen when
the gates let it pass; every other gate may refuse for any reason (`Refuse`,
`Review`, `CIReview`). The catch clause of `execute` is `MergeThrows` (what git
or GitHub refuses: a fast-forward that is none, a ref that cannot be updated, a
checkout over uncommitted files), `CallThrows` (any other awaited call, between two git
commands too), `PersistThrows` (the champion file) and `DeployThrew`.
`settings` says how the process is configured and used: GitHub or local, policy
rules that need scores or not, the kind of deployment, the number of cycles, how
many commands run side by side, and whether they ask for a fresh project.

`Deployment` has an action per await of `deploy()`. The endpoint is external: it holds
what was deployed to it, and a rollback withdraws what it names. A call to it may fail
before or after it took effect; a record of the observability store may throw wherever
it is awaited, also the one that reports such a failure. The health check is taken to
be configured; without one it passes.

Simplifications of the release model: `git add`, `status` and `commit` are one step,
and so are the reset and the checkout of a new candidate; writes of the execution
store do not fail (a failing one would reach the same catch clause); the policy's
DEPLOY decision is the PROMOTE decision, since it sees the same scores; nobody else
pushes to the GitHub branches.

### Background executions, their worker, and the local stores

`AsyncExecution` cuts the POST handler at its awaits, and has an action for each
message, exit, error, timer, cancellation and GET. The JSON store is a queue of
read-modify-writes of the whole list (`store`, with the waiting operations in `ops`);
the PostgreSQL store takes them one statement each in any order (`backend`). A
cancelled or timed-out request frees its place in the capacity although its child may
still be at work: a `SIGTERM` is sent, and the `SIGKILL` behind it never, since
`child.killed` is true by then. `BuildWorker` is the other end: two such children on
one workspace and one port. What a check says is a verdict about the tree as it is;
`holds[b]` keeps, for each build, the checks that are still true of its tree, and any
change of the tree takes them back.

`LocalQueue` has a step per await of `load()` and `save()`; nothing orders two calls,
and both write through one temporary name. `ExecutionLedger` has one key, the guard's
memory in front of the ledger, and a `JsonStore` serving reads and writes in turn.

### Roadmap

Two runs of the one runner: the worker's (`OneCycle`, it starts again after each) and
an operator's mission. A task is executed by the release pipeline; here that is one
step with any answer. `next()` offers the first tasks by priority among those that are
not done or in progress and whose dependencies are done: a `BLOCKED` task among them,
which `claim()` then refuses. A generated task is in the state and in the file, but
after a restart not in the list that `next()` goes through. It may depend on any known
tasks, those generated before it in the same batch included.

### A project

`ProjectMissions` keeps what the engines read and rewrite as a whole. Each call of the
mission manager in `ProjectWorker` is a load and, some awaits later, a save, so that
two workers lose each other's changes; the only exclusion between them is the status
in the worker's file, which a dead worker leaves as RUNNING. Every read of either file
may fail or find it torn, and is then answered null: a worker takes that for no file
(`Sees`, recorded in `blind`) and a build goes on without (`Reads`, `misread`).
`ProjectBuild` follows `runAutonomousProject()` through every stage with its repairs,
previews and catch clause. `Project` puts workers and modifications after the build; a
modification's snapshot contains the `.jora` files, and a rejected one puts them back.

`SourceEngines` keeps of each file whether it is there and which marks the plans look
for. Every engine is a plan (creations and patches), its application one file at a
time, the tests, and its own way of undoing; any file operation may fail.
`ProjectDeployment` reuses `Deployment` for the controller inside the engine.
`ProductionMonitor` follows a cycle through probe, incident, recovery and save; a read of
its state file that fails gives a cycle, or the loop, a fresh state without incidents.

### The customer platform

`CustomerControl` is `submit()` with an action per await: the quota is compared, then
the workspace ensured, the mission created and metered, then billed.
`CustomerDelivery` is `execute()`: one workspace per project, so that `files` of two
missions of one project overlay each other; the snapshot that is published is taken
before the tests and repairs. `CustomerOperations` adds the sweeps. The recovery that
the composition root injects always throws after it has created a mission, because it
names a variable that is not declared there (`production-runtime.js:410`); the model
lets a recovery accept, refuse or throw, since the library is used with other
callbacks too.

`CustomerAccounts` is memory first and a `JsonStore` behind it; `ConversationMemory` a
file of all projects read and written whole, each with its last requirements in order
(`MaxRequirements` for the hundred of the code); `MissionDirector` a Map of live objects
whose writes serialize what the objects are by then.

## Runs

| Run | Question | Distinct states | Result |
|---|---|---|---|
| `queue` | do the stores of pending work keep what they accepted, each on its own: the table, the local queue, the ledger, the background executions? | 1.1 M | all nine properties hold; `JobLifecycle` is implemented by the table |
| `fleet` | two nodes, one lease, crashes, lost calls, expiries | 0.07 M | safety holds; every job settles or is stranded where only a recovery can reach it; a lost lease stops its node |
| `worker_file` | crash, restart and heartbeat on the state file | 0.3 M | no cycle is skipped, interrupted jobs finish |
| `release` | executions side by side and in sequence, five configurations | 0.5 M | all seven properties hold |
| `roadmap` | two runs on one roadmap, a restart, a fault | 0.8 M | dependencies come first; the roadmap settles or is stuck in a way that is named |
| `project` | a project's build, its workers, modifications, engines, background builds and deployments, reads that fail | 2.1 M | all six properties hold |
| `customer_platform` | customer missions and sweeps, registries, conversations, director, monitoring | 1.2 M | all nine properties hold |
| `queue_retries` | the documented retry bound | | violated: see findings |
| `finish_record` | the final record the lifecycle test asserts | | violated |
| `second_start` | the documented refusal of a second worker | | violated |
| `candidate_isolation` | the documented isolation of candidates | | violated |
| `policy_after_merge` | the documented enforcement of policy | | violated |

The properties, and what would break them:

* `LockDiscipline`, `LockNeverStolen` (table): a recovery that forgets the owner, a
  claim that takes lapsed rows, an answer that keeps the lock. `ImplementsLifecycle`:
  a claim of a settled job, a retry beyond the limit.
* `AcceptedIsKept` (local queue): a job whose `enqueue()` returned is in memory and in
  the file. `OneAnswerPerKey` (ledger): calls under one key get one answer within its
  time to live. Both name their exceptions: a load that comes late, two writes under
  one temporary name, two executions that ran beside each other.
* `RunningIsControlled`, `QuietStoreAgrees`, `AnswersStand` (background executions):
  no child runs that is not watched; only requests that raced past the capacity
  check exceed it; a durable store that was not disturbed says, once quiet, how an
  execution ended; what a client was told of its end stands.
* `ClaimIsCurrent`, `SettledByCurrentAttempt` (fleet): a late answer of an older
  attempt must not pass for the current one, although `complete()` compares the owner
  only. They hold because a node forgets its claim before it claims again, and because
  every claim counts an attempt. `LostLeaseStops`: the heartbeat's answer.
* `NoCycleSkipped`, `JobReplacedOnlyWhenFinished`, `JobFinishes` (state file): what a
  heartbeat writes back is old, and may undo the record of a cycle, never count one
  too many.
* `PromotedAsValidated`: an execution that has the workspace to itself merges the
  tree its security review saw and, on GitHub, the commit CI passed. That the
  condition is needed is what `candidate_isolation` shows.
* `ChampionIsPromoted`: on GitHub the champion is in the history of the branch it was
  promoted to, through failed merges, failed writes and restarts. In a local workspace
  it is for an execution that had the workspace to itself; the merge of an overlapping
  one may have gone to another candidate's branch, and then its commit is at least on
  that. `ChampionNeverRegresses`: an execution alone never replaces it by a worse one.
* `RecordTruth`: PROMOTED is recorded only for a promotion that stands (`Landed`: GitHub's
  target moved; the local one, for an execution alone), COMPLETED only where no target
  was moved. `OnlyStagedServed`, `RolledBackNotServed`: what is served was promoted in
  that sense, passed staging, and was not rolled back.
* `DependenciesFirst` (roadmap): a task is worked on or done only after what it depends
  on, unless a failed write took a DONE back or a DONE task was executed again.
* `WorkIsAccountedFor` (project) has three parts. Missions are completed in order, unless
  a build could not read them. RUNNING in the worker's file has a worker, unless one died
  or an old file was put back. COMPLETED, said by a worker alone that could read its files
  and had no write undone, leaves no mission ready, running or failed: *planned* ones may be
  left, whose dependencies are completed and which the manager would offer next, since the
  worker does not look for them (see below, findings). `PromotedIsFinished` (build): the
  lifecycle says promoted, no preview runs, all missions are completed unless the file
  could not be read, and the tests passed on the files as they are, unless a repair loop
  had given up before.
* `TakenBackLeavesNothing` (engines): an engine that reports a roll-back leaves the
  files as they were; `AnsweredAsVerified` (background build): ACCEPTED is answered on
  a tree that each check has seen.
* `DeployedRecordHolds`, `OutageHasOneIncident` (deployment, monitoring of a project).
* `QuotaOnlyOvertaken`, `DeployedWasTested`, `LiveIsAccountedFor`, `SuppressedWhileOpen`
  (customers): quota, publication, outcome and incident key.
* `AcknowledgedIsKept`, `Remembered`, `MissionsAsPlanned`: the registries, the
  conversations and the director's missions, through overlapping writes and restarts.
* `OutageHasOneIncident` names the cycles that threw and the reads that failed
  (`orphaned`); `Remembered` the last `MaxRequirements` requirements of a project, in order.
* `JobsSettleOrStrand`, `LostLeaseStops`, `JobFinishes`, `ExecutionsEnd`, `RoadmapSettles`:
  liveness.

`TerminalIsFinal`, `AttemptBudget`, `AttemptNamesExecution`, `LeaseEvictedOnlyByExpiry`,
`TargetOnlyGrows` and the type invariants of the worker and release layers and of the
roadmap are proved and no longer part of a run.

Many properties of the newer modules have the form *holds, unless*. The clause after
*unless* names an event of the code (a write that failed, a load that came late, two
requests that overlapped), recorded in a variable of the model when it happens; it is
as narrow as TLC lets it be, and is itself a statement about the code: within the model,
nothing else goes wrong.

### Bounds, and why they are enough

* `queue`, the table: two jobs, two callers, attempt limits 1 and 2, two recoveries per
  job. Two of each give every race between two statements, and a job that is dead-
  lettered at once, after a retry, and after a recovery.
* `queue`, the others: two clients and a worker on the local queue, two claims in all, a
  restart, and no further step once a late load has replaced the list in use (the
  exception of the property, already reached). Three calls of one
  key, one evaluation, one expiry, one restart: two that overlap and one that comes
  later. Two requests, capacity 1, one kept record, one progress message and one fault:
  the second request meets the capacity, and trims the record of the first. Requests
  admitted beside each other report no progress, of which the row keeps nothing
  (`Bounded` in `MCQueues`).
* `fleet`: two nodes, one job with two attempts, two recoveries, two faults of any
  kind (crash, lost call, stop, expiry of something in use), so that a fault can
  hit the recovery from a fault. Six tokens suffice since a token is reused only
  when nothing carries it; `Tokens` never blocks a step.
* `worker_file`: one process, two cycles, two jobs, three heartbeats, two crashes.
  The heartbeat bound lets a heartbeat interleave with every pair of steps;
  `second_start` uses two processes.
* `release`: two executions with one or two cycles, so one repair; one or two faults
  (throwing call, stop, restart); one restart; two scores, so one candidate can be
  worse than the champion. The five settings of `MCRelease` are the default wiring on
  GitHub with two executions side by side; a local workspace, two side by side on
  fresh projects, once with a fault and once with a repair; staged deployment behind
  GitHub, one command after the other with repair; direct deployment on a local
  workspace with two faults, so that a rollback fails twice.
* `roadmap`: two planned tasks, one depending on the other, one generated urgent one,
  two at a time, two attempts, two runs, one fault.
* `project`: six missions in a row (one feature), two workers with two cycles, one
  repair attempt per loop, crashes at any step, one modification at a time.
  `OneAtATime` in `MCProject` keeps apart what does not meet or only repeats: work on a
  project whose build leaked a preview (nobody looks at the preview again), a
  modification beside two workers or after the first cycle, and anything after the first
  cycle of two workers, or two background builds, that met. Two faults in an engine's file
  operations, so that the restore can fail too. Two background builds with one repair,
  one delivery and one death; two deployed versions, one crash, one manual roll-back.
* `customer_platform`: two missions of one project and tenant under a quota of 1, two
  sweeps, two incidents, three recoveries, so that one sweep can resolve an incident
  and open a newer one before the other sweep, which had found the first one open,
  resolves it again. `SweepsAfterMissions` explores sweeps after the missions ended,
  of which each registered a URL, since they meet only in the rows of the URL registry,
  which a mission appends in one step; `ThirdOfOneUrl` lets the third recovery be asked
  for where one URL is registered, at which both sweeps look.
  Two creations and two changes of registry rows with one fault and one crash; three
  conversations of which the third comes after another ended (`ThirdComesLater`) and a
  record of two requirements, so that the third pushes out the first; two runs of
  missions that may share an id; two monitoring cycles with two incidents and a
  restart, up to the step in which one recovers an incident that the other has resolved
  (`UntilRevived`): from then on `OutageHasOneIncident` allows for what follows, and
  such a step needs cycles that overlap.

Symmetry is used where TLC checks safety only, for names that no action compares but
by equality.

`CHECK_DEADLOCK FALSE` in every configuration but `WorkerFleet.cfg`: with the bounds used
up, or with all executions ended, those models stop, and the system waits for more work.
The fleet never stops, since a node's worker is started again after it ended.

### Fairness

Only what the runtime gives: weak fairness of each process's own continuations
(Node's event loop runs every settled promise; each awaited call returns or throws),
of timers, of the passing of time for a lock or lease nobody renews, and of starting
the worker again after it ended. Nothing fair is said of faults, stops, crashes,
restarts, heartbeats of the local worker, accepting commands, or of the recovery of
expired jobs: the monitor that asks for it is off by default, and asks only for a stale
worker or a backlog of a hundred (`operational-health-monitor.js:15-22`). So
`JobsSettleOrStrand` does not say that every job settles. A job may also stay RUNNING
behind a lapsed lock with no node that executes it (`Stranded`), where nothing but
`recoverExpired()` takes it up; but no transaction, lease, backoff or lock of a living
node keeps a job waiting for ever.

`Roadmap`: a run goes on with what it began, and the worker starts its next cycle; an
operator's mission need not be started, and stops, faults and restarts are not fair.
`RoadmapSettles` then says that every task becomes done, or some task is stuck for one
of the reasons listed there. The other modules state no fairness and no liveness: what
they would promise is that an awaited call returns.

## Findings

Each is a run whose property states what a document or test of the repository says
and that TLC refutes; `PROJECT.json` quotes the lines.

1. **Retries are not bounded by `max_attempts`** (`queue_retries`):
   `recoverExpired()` requeues whatever the attempts are.
2. **A heartbeat in flight undoes the final state** (`finish_record`): the file
   shows a RUNNING worker after `run()` returned.
3. **Two processes started together both run** (`second_start`): the freshness
   check and the write are two file operations.
4. **Candidates of overlapping executions are not isolated**
   (`candidate_isolation`): one working tree and one `candidateBranch` per process.
5. **The promotion policy is enforced after the merge** (`policy_after_merge`), and
   on a result without scores: in the default wiring every promoted execution is
   recorded FAILED.

Not runs of their own, but worth knowing, and in the models:

* *Release.* A promotion that is deployed always takes the transition PRODUCTION ->
  MONITORING, which the table lacks, so it ends FAILED although it is served, and
  `PROMOTED` is only ever recorded without a deployment controller; a new job started
  after a COMPLETED one inherits its cycle count; a restart takes the branch it finds
  checked out, usually a candidate, for the base of all later promotions. In a local
  workspace a checkout of another execution between the four git commands of a promotion
  (`workspace-repository.js:129-135`) makes it fast-forward the other's candidate branch,
  answer `promoted:true`, and be recorded PROMOTED and champion with its target unmoved.
* *Background executions.* A request that is cancelled or times out frees its place
  while its child may go on working in the shared workspace, although
  `operator-api.js:129-131` speaks of serialized use; a cancellation before the fork
  does not keep the child from being forked; a fork that fails leaves the durable row
  RUNNING.
* *Local queue, ledger.* All writes of the queue use one temporary name; a job that was
  claimed from it when the process died stays RUNNING, since there is no lease.
* *Roadmap.* A `BLOCKED` task stays on offer (`roadmap-engine.js:95`) and its claim is
  refused, so the runner never ends; a task left IN_PROGRESS by a dead process is never
  released; a save that fails after `complete()` makes the runner fail the task that is
  done; generated tasks survive a restart in the file but are not scheduled again, where
  `docs/current-state.md:246` says they are.
* *Project.* The successor of the last completed mission may stay `planned`, and a
  worker then declares the project COMPLETED with work left; the file of a worker that
  died says RUNNING and refuses every later start; a mission file that cannot be read
  is taken for none, so that a worker says COMPLETED with missions ready; the gate of
  a promotion may pass on an earlier verification although the last tests failed
  (`autonomous-orchestrator.js:376-391`, against the comment at 373); previews leak
  where a stage throws.
* *Engines.* The roll-back of an implementation removes
  `test/feature-implementation.test.js` also where it was there before; a file whose
  creation failed half way stays.
* *Background build.* The browser check is given no actions and so never navigates; a
  killed worker leaves its application on port 4173; the generated test of
  `universal-project-generator.js:205-221` has escaped placeholders and does not parse.
* *Deployment, monitoring of a project.* A history write that fails after a successful
  deployment records FAILED; the compaction of the observability store drops
  `incidentId`, so that incidents are not found again after a restart; a monitoring cycle
  that throws after it opened an incident loses it, and one that cannot read the state file
  (`production-monitoring-engine.js:10`, `:86`) forgets all of them, finds the service
  healthy and leaves them open.
* *Customers.* The recovery of the composition root names `customerProduction`, which is
  not declared where it is used (`production-runtime.js:410`), so it throws after creating
  a mission that nobody runs, on every sweep; the snapshot that is published is taken
  before tests and repair, so a repaired delivery ships the files from before the repair;
  a mission whose billing failed stays metered and QUEUED; `_customerPrincipal`
  (`operator-api.js:182`) returns a promise its callers do not await.
* *Registries, conversations, director.* A project is acknowledged before its write, whose
  rejection ends the process; a conversation that names a known project stores a fresh
  state over its record; two requests of one project lose each other's requirements; a
  step of a mission that throws leaves the mission EXECUTING for good.

## Proofs

TLAPS proves the following for every value of the constants: any number of nodes,
jobs, attempts, recoveries, tokens, faults, processes, cycles, executions, settings,
restarts, tasks. The assumptions are the named `ASSUME`s of the modules. Those of the
parts need a word. `PartsAssumption` of `CustomerParts` lets a mission have at least
one step and one of each id, because the planner gives three to a client that lists
none (`autonomous-mission-director-v4.60.js:33`) and the scheduler's Map keeps one of
an id (`:73`). `PartsAssumption` of `ProjectParts` lets a build have at least one
delivery and one round, because a delivery is composed with three repair cycles
(`production-runtime.js:256`) and the controller with four rounds unless configured
otherwise (`:302`). `QueuesAssumption` lets the callers of the queues be finitely
many; all three let the bounds of the models be natural numbers.

**WorkerFleetProofs, the queue.** Type correctness first. `LockDiscipline` is
inductive with the types; `AttemptBudget` is inductive because its second conjunct, a
queued job has a claim left, is what a claim needs. `TerminalIsFinal` and
`LockNeverStolen` follow step by step from `LockDiscipline` (an owner is a worker, so
a settled row is owned by nobody). `ImplementsLifecycle` needs `LockedWasClaimed` (a
row with an owner has been claimed at least once), then every statement maps to a step
of `JobLifecycle` or a stutter.

**WorkerFleetProofs, the fleet.** `PlaceInv` ties the program counter to what the node
remembers (a claim exactly while executing, a token exactly while it has the slot).
With it every step of the fleet is one statement of the queue or none
(`FleetUsesQueue`: the fleet's behaviours are behaviours of `TaskQueue`, so its
theorems carry over). `ClaimInv` strengthens `ClaimIsCurrent` and
`AttemptNamesExecution`: every remembered attempt is at least 1 and at most the
row's, equal to it while the row is locked by that node, and no two nodes remember
the same one. `FleetInv` is the conjunction. `CurrentAttemptSettles` and
`LeasesAreNotEvicted` are action properties proved from it.

**DurableWorkerProofs.** `DataOK` is the part of the type invariant about the file and
its copies. `CycleInv`: every copy of the state anywhere (file, run's memory,
heartbeat's memory) counts executed cycles only. That is why a heartbeat that writes
an old copy back can lose a record and never skip a cycle. `QueueInv`, each of run and
heartbeat waits at most once for the file lock, and waits exactly while it is at a
file operation, gives the rest of the types (`WorkerTypes`). `JobInv`: what is about
to be written carries the job of the file, unless it takes the place of a job that is
over, and a heartbeat that has read the file writes it before the next run reads it;
`JobsAreKept` follows for one process (`OneProcess`). With two the statement is false:
`second_start` shows how the second starts on a file it read before the first wrote
it.

**RoadmapProofs.** `TypeInv` gives `RoadmapTypes`; it has two parts that are no types:
`Counted`, a task that may be claimed has an attempt left, in memory and in the file,
and `HandInv`, a run that works on a task knows which one. For `RoadmapOrder`,
`Ordered` says that the dependencies of a task in progress or done are done, in memory
and in the file, since a restart takes one for the other; `Held`, that a task in a run's
hands is in progress and in no other run's hands. `OrderInv` is their conjunction with
the exceptions of `DependenciesFirst`.

**ReleaseProofs, the pipeline.** `ReleaseInv` is the inductive invariant: `PhaseInv`
(where an execution is against what its promotion has moved on GitHub and what its
record says), `DeployInv` (before its deployment nothing of it is served and no
outcome is recorded; while `deploy()` works on an environment, its outcome there is
still open, and staging is DEPLOYED before production is touched) and `RecordInv`.
Every action is shown to be one of three shapes, a move through the phases (`MoveOf`),
an end (`EndOf`, which has to show that what it records is true) or a step of a
deployment, and the invariant is preserved shape by shape. `RolledBackNotServed`
follows, and the part of `RecordTruth` and `OnlyStagedServed` that is about GitHub's
target (`Stands`); the part about the local target needs `AloneInv`, below.

**ReleaseProofs, the repository.** Lemmas about the calls of the repository object,
for any commits: each is `Sound`, which is to say it keeps the types, the branches
everything starts from (`Rooted`), and every commit of every branch (`BranchesGrow`).
That rests on a fast-forward being an extension (`MergedExtends`,
`PromoteRemoteSound`) and on new branches being new.

**ReleaseProofs, branches and champion.** `BaseInv` joins `ReleaseInv`, the types and
`Rooted` with two facts the calls need: a branch that is about to be created does not
exist yet (`UnmadeInv`), the one a promotion goes back to does (`CurrentInv`), and a
cycle under way is a configured one (`CycleInv`, without which a build would have a
number out of range). Every step of the process is then `Sound` (`StepSound`), which
gives the types and `TargetOnlyGrows`. `HistoryInv` adds that a promotion which was
answered but not yet recorded as champion has its commit in GitHub's target, or on a
local branch, the target for an execution alone (`PromotedInv`), hence
`ChampionIsPromoted`. `OwnInv` is about an execution that has the workspace to itself:
nobody else is inside (`OwnerInv`), its copy of the champion's score is current
(`ScoreInv`), and from the review on the working tree, the committed tree, the
published commit and the merged one are the same, and HEAD is where its promotion put
it (`ContentInv`). So its merge lands in the target (`AloneInv`), which completes
`RecordTruth` and `OnlyStagedServed`. `PromotedAsValidated` and
`ChampionNeverRegresses` follow; both need the premise `alone`, as
`candidate_isolation` shows for the first.

**QueuesProofs, background executions.** `AsyncInv`. Its parts say what is written to the
store and when: an operation that a handler waits for is of the kind it has reached
(`Awaited`), a request has a record exactly from `create()` on (`Recorded`) and no row
before (`Unwritten`), the JSON file is cut to its length (`Cut`). `WithinCapacity` counts
what runs and what is about to run, which is why a request admitted beside another is the
only way over the limit; it needs finitely many requests. `Told` is the one that
`QuietStoreAgrees` and `AnswersStand` need: while no fault and no overlap happened, at
most one operation is in flight, what it writes is what it makes of the rows *as they
are*, and the row of a settled execution agrees with memory unless that operation is
the one that will make it agree.

**QueuesProofs, the local queue.** `LocalInv`. While no load replaced a list in use,
memory has every accepted job (`InMemory`); while no two calls were between `open` and
`rename`, the file has (`OnDisk`), which needs that the temporary file is not the file,
that one call at most is writing and that the text it writes has everything accepted
and its own job (`Saves`). The callers are finitely many, because the model has an inode
for each, one for the file and one to spare: an `open` always finds a free one.

**QueuesProofs, the ledger.** `LedgerInv`. `OneFresh`: one answer at most is within its
time to live, in memory, in the list and in the file together; an execution runs
only while there is none; and an answer that was given can be found again, also by
the next process (`Known`). The exceptions of the property are where each of these
breaks.

**ProjectProofs, the build.** `BuildInv`. `StageInv` ties each stage of the orchestrator
to the preview that runs and the tests that passed. `MissionsInv`: at every stage the
missions `1 .. m` are completed and the next is the current one (`Upto`), the calls still
to come complete those from `m + 1` on one by one (`Lined`), and together they cover what
the stage counts on (`Behind`, `Reach`). Each action either calls no mission manager, or
adds the calls for one more mission, or makes the first of them. `PromotedFinished`
follows at the one stage that returns PROMOTED, which has the delivery mission behind it.
Once a read of the mission file has failed (`misread`), the calls may leave missions out,
and only what holds of the file whatever is in it (`PlanInv`) is left of this.

**ProjectProofs, the work on the project.** `WorkInv`. The build ends with one mission
`f` that is worked on, all before it completed and none after it begun;
`OneMission(f)` says the same of the file, of the snapshot of a modification and of
the change that each worker has yet to write. No worker leaves `f`, since none looks
for a planned mission: that is why the worker never disturbs the order of the
missions, whichever old file is written back and whatever it fails to read, and why a
completed mission never leads to the next. `StatusInv` is about
`autonomous-worker.json`: a worker that is alone and whose file nothing replaced says
RUNNING until it leaves, and leaves COMPLETED only when no mission is ready, running
or failed (`Alone`). A worker that reads null anywhere sets `blind`, which ends that
promise. Each of the worker's sixteen actions stays, leaves, or begins or ends a stay
(`Stays`, `Leaves`), and the invariant is preserved case by case.

**ProjectProofs, deployment.** `DeploymentInv`. `VersionInv` says of each version how far
its call is and what the controller has done; `Truthful`, of the state file and of every
copy a call holds, that what they call deployed passed its health check. The property is
about the file, and the copies are what is written to it next.

**ProjectProofs, builds in the background.** `RunsInv`. `AsChecked` lists, stage by stage,
which checks hold of the files of a build that is alone in its workspace: a repair
empties the set, so the stages after it must be reached through all the checks again. A
build that is not alone promises nothing, and a step of another build can only end that.

**ProjectProofs, source engines.** `EnginesInv`. `Restorable`: a file that differs from
what it was before the engine is remembered in `undo` with its old text, or is one whose
write failed half way, or the feature test the engine does not hold; `Applying` is the
stronger fact while edits are applied. The proof showed that the `Remembered` of this
model had overlapping cases, of which TLC takes the first; it is an IF now.

**CustomerProofs.** `MissionInv` says of each mission, stage by stage, what it has
deployed and what its record says (`JobInv`); `LiveIsAccountedFor` and
`DeployedWasTested` follow. `QuotaInv` adds that the missions admitted on a count about
to be raised are finitely many and created. `IncidentInv` and `SweepInv` tie the key of a
url to its incident and each of two sweeps to what it has found so far, for
`SuppressedWhileOpen`.

**CustomerPartsProofs, the registries.** `AccountsInv`. A row in the file is in memory
in the same or a later form (`Grows`); a request that waits for a write has its row in
memory and in a list that its store still owes (`OwedInv`), so that the write that
answers it puts the row into the file. The store of projects rewrites one list for
all: there, each list owed has the rows of the lists before it and of the file, so no
late write drops a row.

**CustomerPartsProofs, conversations.** `ChatInv`. The file and each copy of it that a
request is about to write have one record of a project at most (`OneEach`). What an
undisturbed request asked is in the file, in every such copy and in what every request
under way has found of that project, but for what a full record has dropped from its
front (`Carried`, `GoesOn`): each writes it back, whatever it adds, until one of the
disturbances that `Remembered` excepts.

**CustomerPartsProofs, the mission director.** The scheduler is a recursive function, whose
values are not given but proved: `StepByStep` says that a sequence of values, each made
from the one before, exists; `InOrderFacts` and `ScheduleFacts` go up along it, and the
schedule of *any* dependencies, cycles among them, has each step at most once and behind
those it depends on (`Planned`). `DirectorInv` then has two halves: a run that waits is
at a step of such a schedule and has done exactly the steps before it (`OnSchedule`); the
Map, every list that waits to be written and the file hold one object of a mission
(`Mapped`, `Filed`), and the last list that waits is of the Map as it is.

**CustomerPartsProofs, monitoring.** `MonitorInv`. Without a revived incident there is one
unresolved incident at most, which is what `open()` finds again. While cycles have not
overlapped, one is under way at most, and the incidents left are named where the next
step looks for them (`Named`): in the file, in the cycle's copy, in its list of
incidents to resolve, or they were orphaned by a cycle that threw or that could not read
the file.

**The types of the parts.** The three theorems `PartsTypes` say that each specification
of `Queues`, `ProjectParts` and `CustomerParts` keeps its types, and with them the bounds
that are no mere types. A step of the whole is a step of one part and a stutter of the
others, so each part's types carry over from its own specification. Where the invariants
above do not imply the types, a second one does:

* *Queues.* A client's job enters a list once, when its call leaves the load, and every
  list that is held, written or in the file has jobs of such clients, once each
  (`OnceInv`): a load over a state in use may lose a job and never doubles one. In the
  ledger every list, in memory, in the file or in a call's hands, is at most as long as
  the number of calls that have appended their record (`ShortLists`), also when a late
  load brings an old list back.
* *Project.* Edits are left only while they are applied (`EditsInv`); the mission file
  keeps its form through every write of an old copy (`FormInv`); a build stays within its
  repairs, deliveries and rounds, and one at most has the port (`RowsInv`).
* *Customer.* The count of failures is within its threshold in the file and in every
  cycle's copy (`Counted`); what is stored of a conversation names its project
  (`StoredInv`); an order that a run of the director follows has all its steps
  (`ScheduleOfAll`, which the types need and `Planned` does not say), and its Map, its
  file and the lists between them stay within the limit (`WholeInv`).

### What is only model-checked, and why

Every safety and action property of the passing runs is proved. Liveness
(`JobsSettleOrStrand`, `LostLeaseStops`, `JobFinishes`, `ExecutionsEnd`,
`RoadmapSettles`) is checked by TLC only: the prover has no ENABLED and no fairness
reasoning. The five properties of the runs that expect a violation are false of the
code, and TLC shows how.

## Not modelled, and why

`PROJECT.json` says of every component what is left out. In short:

* *Pure functions of text and results*: language understanding, templates and prompts,
  what the council's patterns match, the preview and promotion rules. Where their outcome
  steers something, the model takes any outcome.
* *Model output*: plans, generated files, reviews and repairs are the environment's choice.
* *I/O without state of its own*: HTTP routing and formatting, authentication, dashboards
  and summaries, the model gateway, web search, the polling of CI runs, pull requests.
* *Operations that nothing in a modelled flow calls*: `PromotionController.rollback`,
  `rollbackTo`, `ChampionStore.rollback`, `rollbackProduction`, `mergeProjectState`.
* *The health monitor's alerts*: their thresholds, deduplication and cooldown, which decide
  when the recovery of expired jobs is called.
* *Data reduced to what the properties tell apart*: traces, results and reports. So the
  governance state restored from a trace, which looks into that data, is not modelled.
* *Agent teams, `executeMany`, the consensus, the events ledger, `improve()`, the planes
  that only combine results*: they call modelled parts one after another, or append.
* *The legacy key-hash migration of the customer registries.*

## Plan

1. Worker layer and its proofs. *Done.*
2. Release pipeline and the proofs of all its safety properties. *Done.*
3. Background executions with their records and local stores. *Done, proved.*
4. Missions: roadmap, project build, worker and modification. *Done, proved.*
5. Source engines, builds in the background, deployment of a project, monitoring.
   *Done, proved.*
6. Customer platform, registries, conversations, mission director. *Done, proved.*
7. The type invariants that `AllTypeOK` puts together. *Done, proved.*
8. The restoration of a governance state from a trace, and two processes on one list
   of execution records.
