--------------------------- MODULE ProjectMissions ---------------------------
(***************************************************************************)
(* The files under .jora that the engines of a generated project share:    *)
(* project-missions.json, which the mission manager reads and rewrites as  *)
(* a whole, and the state in project-lifecycle.json.  A read that fails,   *)
(* or finds the file while it is written or torn, is answered null.        *)
(***************************************************************************)
EXTENDS Naturals, Sequences, FiniteSetsExt

CONSTANT Features    \* number of features the command asks for

ASSUME FeaturesAssumption == Features \in Nat

VARIABLES
    plan,        \* the mission file: status of every mission, current mission (0: none)
    lifecycle,   \* state of the project's lifecycle; "none" before it is initialized
    misread      \* history: the build read the mission file and was answered null

projectVars == <<plan, lifecycle, misread>>

\* analysis, architecture, core product, one mission a feature, verification,
\* delivery: each depends on the one before it, and priorities fall in this order
Last == Features + 5
Ids == 1 .. Last
Core == 3
FeatureMissions == (Core + 1) .. (Core + Features)
Verification == Last - 1
Delivery == Last

MissionStatuses == {"planned", "ready", "running", "completed", "failed"}
LifecycleStates == {"none", "initialized", "active", "modifying", "verifying", "promoted",
                    "failed", "rolled_back"}

NoPlan == [status |-> <<>>, current |-> 0]
Decomposed == [i \in Ids |-> IF i = 1 THEN "ready" ELSE "planned"]

\* the first of a set of missions, 0 if it is empty
First(ids) == IF ids = {} THEN 0 ELSE Min(ids)
In(status, wanted) == First({i \in DOMAIN status : status[i] \in wanted})

ReadyMissions(status) ==
    {i \in DOMAIN status :
        /\ status[i] \in {"planned", "ready"}
        /\ i = 1 \/ status[i - 1] = "completed"}

SelectNext(status) == First(ReadyMissions(status))

(* What a call of the manager makes of the missions it has loaded: their new   *)
(* status and the mission it names as the current one                          *)
Starting(status, i) == [status |-> [status EXCEPT ![i] = "running"], current |-> i]

Completing(status, i) ==
    LET done == [status EXCEPT ![i] = "completed"]
    IN  [status |-> done, current |-> SelectNext(done)]

Failing(status, i) == [status |-> [status EXCEPT ![i] = "failed"], current |-> i]

Checkpointing(status, i) == [status |-> status, current |-> i]

Recoverable(status) == {i \in DOMAIN status : status[i] \in {"running", "failed"}}

\* failMission() never stores retryable, so every failed mission is recovered
Resuming(status) ==
    LET resumed == [i \in DOMAIN status |-> IF i \in Recoverable(status) THEN "ready" ELSE status[i]]
    IN  [status |-> resumed, current |-> SelectNext(resumed)]

\* The current mission of the rewritten file.  No current mission at all is
\* taken for "keep the one of the file".
CurrentOf(change, previous) ==
    LET candidates == <<change.current, previous, In(change.status, {"running"}),
                        In(change.status, {"ready"})>>
        named == {k \in 1 .. 4 : candidates[k] # 0}
    IN  IF named = {} THEN 0 ELSE candidates[Min(named)]

\* What loadMissionState() may answer: the file, or null
Loads == {plan, NoPlan}

\* recordMissionEvent(): the file has been loaded once more, for its current
\* mission, and is replaced
Record(change, previous) ==
    plan' = [status |-> change.status, current |-> CurrentOf(change, previous.current)]

Transition(state) == lifecycle' = state

PlanTypeOK ==
    /\ plan = NoPlan \/ plan \in [status : [Ids -> MissionStatuses], current : 0 .. Last]
    /\ lifecycle \in LifecycleStates
    /\ misread \in BOOLEAN

ProjectInit ==
    /\ plan = NoPlan
    /\ lifecycle = "none"
    /\ misread = FALSE

-----------------------------------------------------------------------------
(* Properties *)

\* A mission is completed only after the missions it depends on, whoever has
\* resumed, failed, lost or restored which of them in between, and whatever a
\* worker could not read.  Only a build that could not read the file leaves
\* missions out and goes on to the next.
CompletedInOrder ==
    misread \/ \A i \in DOMAIN plan.status :
        (i > 1 /\ plan.status[i] = "completed") => plan.status[i - 1] = "completed"

=============================================================================
