------------------------------- MODULE Roadmap -------------------------------
(***************************************************************************)
(* The roadmap that JORA works on by itself: RoadmapEngine with its state  *)
(* in memory and in a file, MissionManager, and the one AutonomousMission- *)
(* Runner that the cycles of the worker and POST /v1/mission/start share,  *)
(* so that two runs may be under way in one process.  A task is executed   *)
(* by the whole release pipeline, whose answer may be anything.            *)
(***************************************************************************)
EXTENDS Naturals, Sequences, SequencesExt, FiniteSets

CONSTANTS
    Planned,       \* number of tasks of the roadmap; each depends on the one before
    Generated,     \* number of tasks the model may add in all (a bound)
    Urgent,        \* generated tasks the model ranks above the roadmap's own
    Limit,         \* maxTasksPerCycle
    MaxAttempts,   \* maxAttempts
    Runs,          \* calls of AutonomousMissionRunner.run()
    OneCycle,      \* those with maxCycles: 1 (the cycles of the worker)
    MaxFaults      \* failed writes, stops and restarts in all (a bound)

ASSUME RoadmapAssumption ==
    /\ Planned \in Nat /\ Generated \in Nat /\ Limit \in Nat /\ MaxFaults \in Nat
    /\ MaxAttempts \in Nat \ {0}

VARIABLES
    task,           \* task[t]: status, attempts and dependencies in memory
    scheduled,      \* the tasks in the list that next() goes through
    saved,          \* task as it was last written
    run,            \* run[r]: where the run is, the tasks of its cycle, the one it works on
    stopRequested,  \* of the runner, which the runs share
    unsaved,        \* history: a write has failed
    redone,         \* history: a run was given a task that is DONE
    faults

vars == <<task, scheduled, saved, run, stopRequested, unsaved, redone, faults>>

Ids == 1 .. (Planned + Generated)
Own == 1 .. Planned
Idle == [at |-> "idle", work |-> <<>>, id |-> 0]
Saving == {"added", "claimed", "completed", "rejected", "caught"}

TypeOK ==
    /\ {task, saved} \subseteq
                [Ids -> [status : {"none", "BACKLOG", "IN_PROGRESS", "FAILED", "BLOCKED", "DONE"},
                         attempts : 0 .. MaxAttempts, dependencies : SUBSET Ids]]
    /\ Own \subseteq scheduled /\ scheduled \subseteq Ids
    /\ run \in [Runs -> [at : {"idle", "next", "generating", "work", "executing"} \cup Saving,
                        work : SeqOf(Ids, Limit), id : {0} \cup Ids]]
    /\ {stopRequested, unsaved, redone} \subseteq BOOLEAN
    /\ faults \in 0 .. MaxFaults

Task(status, dependencies) == [status |-> status, attempts |-> 0, dependencies |-> dependencies]

Init ==
    /\ task = [t \in Ids |-> IF t \in Own THEN Task("BACKLOG", Own \cap {t - 1}) ELSE Task("none", {})]
    /\ scheduled = Own
    /\ saved = task
    /\ run = [r \in Runs |-> Idle]
    /\ stopRequested = FALSE /\ unsaved = FALSE /\ redone = FALSE
    /\ faults = 0

Is(r, place) == run[r].at = place
Goto(r, place) == run' = [run EXCEPT ![r].at = place]
End(r) == run' = [run EXCEPT ![r] = Idle]
Existing == {t \in Ids : task[t].status # "none"}
\* Mutant: a dependency counts from the moment it is claimed
ReadyOnceClaimed(t) == \A d \in task[t].dependencies : task[d].status \in {"DONE", "IN_PROGRESS"}

Ready(t) == \A d \in task[t].dependencies : task[d].status = "DONE"
Fault == faults < MaxFaults /\ faults' = faults + 1

-----------------------------------------------------------------------------
(* AutonomousMissionRunner and the manager it calls *)

\* a new run takes back a stop meant for the other one
Start(r) ==
    /\ Is(r, "idle")
    /\ Goto(r, "next") /\ stopRequested' = FALSE
    /\ UNCHANGED <<task, scheduled, saved, unsaved, redone, faults>>

\* RoadmapEngine.next(): a blocked task is offered like any other
Offered == {t \in scheduled : task[t].status \notin {"none", "DONE", "IN_PROGRESS"} /\ Ready(t)}
Before(s, t) ==
    \/ s \in Urgent /\ t \notin Urgent
    \/ (s \in Urgent <=> t \in Urgent) /\ s < t
Next_(limit) ==
    {list \in SeqOf(Offered, limit) :
        /\ Len(list) = limit \/ Range(list) = Offered
        /\ \A i, j \in DOMAIN list : i < j => Before(list[i], list[j])
        /\ \A s \in Range(list), t \in Offered \ Range(list) : Before(s, t)}

\* The top of a cycle: work from the roadmap, or from the model when it has none
NextWork(r) ==
    /\ Is(r, "next")
    /\ IF stopRequested THEN End(r)
       ELSE IF Offered = {} THEN Goto(r, "generating")
       ELSE \E list \in Next_(Limit) :
                run' = [run EXCEPT ![r] = [@ EXCEPT !.at = "work", !.work = list]]
    /\ UNCHANGED <<task, scheduled, saved, stopRequested, unsaved, redone, faults>>

\* The model's tasks are added one by one, each with those of the dependencies it
\* names that are known by then, tasks of the same answer included
Generate(r) ==
    /\ Is(r, "generating")
    /\ \/ End(r) /\ UNCHANGED <<task, scheduled>>     \* no task, or an exception
       \/ \E list \in SeqOf(Ids \ Existing, Limit) \ {<<>>} :
            \E named \in [Range(list) -> SUBSET Ids] :
              /\ IsInjective(list) /\ \A i \in 1 .. Len(list) - 1 : list[i] < list[i + 1]
              /\ task' = [t \in Ids |->
                   IF t \in Range(list)
                   THEN Task("BACKLOG", named[t] \cap (Existing \cup {s \in Range(list) : s < t}))
                   ELSE task[t]]
              /\ scheduled' = scheduled \cup Range(list)
              /\ run' = [run EXCEPT ![r] = [@ EXCEPT !.at = "added", !.work = list]]
    /\ UNCHANGED <<saved, stopRequested, unsaved, redone, faults>>

Claimable == {"BACKLOG", "FAILED"}

\* RoadmapEngine.claim() of the next task of the cycle: a finished one is given
\* out again, one that cannot be claimed is passed over
Claim(r) ==
    /\ Is(r, "work") /\ run[r].work # <<>> /\ ~stopRequested
    /\ LET t == Head(run[r].work)
       IN  \/ /\ task[t].status = "DONE"
              /\ run' = [run EXCEPT ![r] = [@ EXCEPT !.at = "executing", !.id = t, !.work = Tail(run[r].work)]]
              /\ redone' = TRUE /\ UNCHANGED task
           \/ /\ task[t].status \in Claimable /\ Ready(t)
              /\ task' = [task EXCEPT ![t].status = "IN_PROGRESS", ![t].attempts = @ + 1]
              /\ run' = [run EXCEPT ![r] = [@ EXCEPT !.at = "claimed", !.id = t, !.work = Tail(run[r].work)]]
              /\ UNCHANGED redone
           \/ /\ task[t].status # "DONE" /\ ~(task[t].status \in Claimable /\ Ready(t))
              /\ run' = [run EXCEPT ![r].work = Tail(run[r].work)]
              /\ UNCHANGED <<task, redone>>
    /\ UNCHANGED <<scheduled, saved, stopRequested, unsaved, faults>>

\* The tasks of the cycle are done, or a stop was requested
EndCycle(r) ==
    /\ Is(r, "work") /\ (run[r].work = <<>> \/ stopRequested)
    /\ IF r \in OneCycle \/ stopRequested THEN End(r) ELSE run' = [run EXCEPT ![r] = [Idle EXCEPT !.at = "next"]]
    /\ UNCHANGED <<task, scheduled, saved, stopRequested, unsaved, redone, faults>>

\* Mutant: the attempts are never used up
FailForEver(t) == [task EXCEPT ![t].status = "FAILED", ![t].attempts = 1]

\* MissionManager.fail(), whatever the task's status
Fail(t) ==
    [task EXCEPT ![t].status = IF task[t].attempts >= MaxAttempts THEN "BLOCKED" ELSE "FAILED"]

\* The runtime's answer: promoted or deployed, anything else, or an exception
Execute(r) ==
    /\ Is(r, "executing")
    /\ LET t == run[r].id
       IN  \/ task' = [task EXCEPT ![t].status = "DONE"] /\ Goto(r, "completed")
           \/ task' = Fail(t) /\ (Goto(r, "rejected") \/ Goto(r, "caught"))
    /\ UNCHANGED <<scheduled, saved, stopRequested, unsaved, redone, faults>>

\* RoadmapEngine.save(): the file gets what memory holds when it is written
Save(r) ==
    /\ run[r].at \in Saving
    /\ saved' = task
    /\ CASE Is(r, "claimed") -> Goto(r, "executing")
         [] OTHER -> run' = [run EXCEPT ![r] = [@ EXCEPT !.at = "work", !.id = 0]]
    /\ UNCHANGED <<task, scheduled, stopRequested, unsaved, redone, faults>>

\* A write fails.  The task that was claimed stays in progress; the catch clause
\* fails the task that was completed; a second exception ends the run.
SaveFails(r) ==
    /\ run[r].at \in Saving /\ Fault
    /\ unsaved' = TRUE
    /\ CASE Is(r, "claimed") -> run' = [run EXCEPT ![r] = [@ EXCEPT !.at = "work", !.id = 0]] /\ UNCHANGED task
         [] run[r].at \in {"completed", "rejected"} -> Goto(r, "caught") /\ task' = Fail(run[r].id)
         [] OTHER -> End(r) /\ UNCHANGED task
    /\ UNCHANGED <<scheduled, saved, stopRequested, redone>>

\* POST /v1/mission/stop
Stop ==
    /\ Fault /\ \E r \in Runs : ~Is(r, "idle")
    /\ stopRequested' = TRUE
    /\ UNCHANGED <<task, scheduled, saved, run, unsaved, redone>>

\* A new process loads the file.  The tasks that were generated are in its state,
\* not in the list of the roadmap.
Restart ==
    /\ Fault
    /\ task' = saved /\ scheduled' = Own
    /\ run' = [r \in Runs |-> Idle] /\ stopRequested' = FALSE
    /\ UNCHANGED <<saved, unsaved, redone>>

Step(r) ==
    \/ NextWork(r) \/ Generate(r) \/ Claim(r) \/ EndCycle(r) \/ Execute(r) \/ Save(r)

Next == Stop \/ Restart \/ \E r \in Runs : Start(r) \/ SaveFails(r) \/ Step(r)

Spec == Init /\ [][Next]_vars

\* The process goes on with what it has begun, and the worker starts its cycles
FairSpec ==
    /\ Spec
    /\ \A r \in Runs : WF_vars(Step(r))
    /\ \A r \in OneCycle : WF_vars(Start(r))

-----------------------------------------------------------------------------
(* Properties *)

\* A task is worked on, and finished, only after the tasks it depends on: the
\* other run may finish, fail and block tasks meanwhile.  The exceptions are a
\* write that failed, which takes a DONE back, and a DONE task that was given
\* out and executed a second time.
DependenciesFirst ==
    unsaved \/ redone \/
    \A t \in Existing : \A d \in task[t].dependencies :
        task[t].status \in {"IN_PROGRESS", "DONE"} => task[d].status = "DONE"

\* A task in nobody's hands that nothing will ever touch again: out of
\* attempts, left in progress by a dead process or a failed write, or
\* generated before a restart.
Stuck(t) ==
    \/ task[t].status = "BLOCKED"
    \/ task[t].status = "IN_PROGRESS" /\ \A r \in Runs : run[r].id # t
    \/ task[t].status \in {"BACKLOG", "FAILED"} /\ t \notin scheduled

\* The roadmap comes to an end: every task is done, or one of them is stuck.
RoadmapSettles ==
    <>[]((\A t \in Existing : task[t].status = "DONE") \/ (\E t \in Existing : Stuck(t)))

=============================================================================
