--------------------------- MODULE MissionDirector ---------------------------
(***************************************************************************)
(* run() of the mission director behind /v1/organization/mission and       *)
(* /v4/missions/run: a plan of steps, the DependencyScheduler, the         *)
(* readiness gate, the swarm that executes one step after the other, and   *)
(* the MissionStateStore with its file.  The store is a Map of live        *)
(* objects: a run changes its object, puts it back with upsert(), and each *)
(* upsert() asks its JsonStore, whose calls are served in turn, for a      *)
(* write of the objects that the Map held, as they are when it is served.  *)
(* The events ledger, which no code reads back, is left out.               *)
(***************************************************************************)
EXTENDS Naturals, Sequences, Functions

CONSTANTS
    Runs,         \* calls of run()
    Ids,          \* mission ids that clients give, for more than one run if they like
    NoId,
    Steps,        \* the steps a client lists, in its order (a sequence)
    MaxMissions,  \* maxMissions of the state store
    MaxRestarts   \* restarts of the process (a bound)

VARIABLES
    run,          \* run[r]: where the run is, and its mission object
    missions,     \* the Map: the runs whose objects it holds, in insertion order
    writes,       \* the lists that wait to be written
    file,         \* the rows of the state file
    available,    \* the agent's flag in the capability registry
    restarts

vars == <<run, missions, writes, file, available, restarts>>

StepIds == Range(Steps)
Statuses == {"none", "PLANNING", "NO_TEAM_AVAILABLE", "NOT_READY", "EXECUTING", "FAILED", "COMPLETED"}
NoRun == [at |-> "new", id |-> NoId, status |-> "none", needs |-> [s \in StepIds |-> {}],
          order |-> <<>>, step |-> 0, routed |-> TRUE, done |-> {}]

Init ==
    /\ run = [r \in Runs |-> NoRun]
    /\ missions = <<>> /\ writes = <<>> /\ file = <<>>
    /\ available = TRUE /\ restarts = 0

-----------------------------------------------------------------------------

\* The filter of schedule(): every dependency is scheduled already
IsReady(s, needs, ordered) == \A d \in needs[s] : d \in ordered

\* The steps of a set, in the order in which the client gave them
InOrder(steps) ==
    LET upTo[i \in 0 .. Len(Steps)] ==
          IF i = 0 THEN <<>>
          ELSE IF Steps[i] \in steps THEN Append(upTo[i - 1], Steps[i]) ELSE upTo[i - 1]
    IN  upTo[Len(Steps)]

\* schedule(): round after round the pending steps that are ready; it stops short of
\* the steps when none is ready
NextRound(ordered, needs) ==
    InOrder({s \in StepIds : s \notin Range(ordered) /\ IsReady(s, needs, Range(ordered))})
Schedule(needs) ==
    LET round[n \in 0 .. Len(Steps)] ==
          IF n = 0 THEN <<>> ELSE round[n - 1] \o NextRound(round[n - 1], needs)
    IN  round[Len(Steps)]

\* upsert() of the store: the record replaces its mission's in place or is the
\* last; the first is deleted when there are too many
Upsert(r, id, kept) ==
    LET same == {i \in DOMAIN kept : run[kept[i]].id = id}
        put == IF same = {} THEN Append(kept, r)
               ELSE [i \in DOMAIN kept |-> IF i \in same THEN r ELSE kept[i]]
    IN  IF Len(put) > MaxMissions THEN Tail(put) ELSE put

\* An upsert() of the changed object and the write it asks for.  Upserts of one
\* turn of the event loop ask for writes of one list: they are one here.
Stores(r, record) ==
    /\ run' = [run EXCEPT ![r] = record]
    /\ missions' = Upsert(r, record.id, missions)
    /\ writes' = Append(writes, missions')

\* The next step is given to the swarm, which routes it at once
Execute(record, step) ==
    [record EXCEPT !.at = "waiting", !.status = "EXECUTING", !.step = step, !.routed = available]

\* run() with no active team to give the mission to
NoTeam(r, id) ==
    /\ run[r].at = "new"
    /\ Stores(r, [NoRun EXCEPT !.at = "answered", !.id = id, !.status = "NO_TEAM_AVAILABLE"])
    /\ UNCHANGED <<file, available, restarts>>

\* run() with a team, up to the first await.  A blank mission makes the planner throw behind
\* the first upsert; steps that wait for each other, or a client that refuses its
\* own approval, are not ready.
Start(r, id, needs, blank, approved) ==
    /\ run[r].at = "new"
    /\ LET order == Schedule(needs)
           ready == Len(order) = Len(Steps) /\ approved
           begun == [NoRun EXCEPT !.id = id, !.needs = needs, !.order = order]
       IN  Stores(r, IF blank THEN [NoRun EXCEPT !.at = "threw", !.id = id, !.status = "PLANNING"]
                     ELSE IF ready THEN Execute(begun, 1)
                     ELSE [NoRun EXCEPT !.at = "answered", !.id = id, !.status = "NOT_READY"])
    /\ UNCHANGED <<file, available, restarts>>

\* Mutant: the failed mission is answered and not stored
StepFailsUnstored(r) ==
    /\ run' = [run EXCEPT ![r].at = "answered", ![r].status = "FAILED"]
    /\ UNCHANGED <<missions, writes>>

\* A step without COMPLETED ends the run
StepFails(r) == Stores(r, [run[r] EXCEPT !.at = "answered", !.status = "FAILED"])

\* execute() of the swarm answers: COMPLETED from the routed agent, whatever its
\* model made of the step, or NO_AGENT_AVAILABLE, which the retry policy does not try again
StepAnswers(r) ==
    /\ run[r].at = "waiting"
    /\ LET finished == run[r].order[run[r].step]
           next == [run[r] EXCEPT !.done = @ \cup {finished}]
       IN  \/ /\ run[r].routed /\ run[r].step < Len(run[r].order)
              /\ Stores(r, Execute(next, run[r].step + 1))
           \/ /\ run[r].routed /\ run[r].step = Len(run[r].order)
              /\ Stores(r, [next EXCEPT !.at = "answered", !.status = "COMPLETED"])
           \/ ~run[r].routed /\ StepFails(r)
    /\ UNCHANGED <<file, available, restarts>>

\* The gateway has no provider for the step's model: run() rejects, and the
\* mission stays as it was stored
StepThrows(r) ==
    /\ run[r].at = "waiting" /\ run[r].routed
    /\ run' = [run EXCEPT ![r].at = "threw"]
    /\ UNCHANGED <<missions, writes, file, available, restarts>>

\* setAvailability() of the capability registry
SetAvailability ==
    /\ available' = ~available
    /\ UNCHANGED <<run, missions, writes, file, restarts>>

Row(r) == [run |-> r, id |-> run[r].id, status |-> run[r].status]
Rows(list) == [i \in DOMAIN list |-> Row(list[i])]

\* The store writes the list whose turn it is
Write ==
    /\ writes # <<>>
    /\ file' = Rows(Head(writes))
    /\ writes' = Tail(writes)
    /\ UNCHANGED <<run, missions, available, restarts>>

\* The process ends, also because a write failed that nobody awaits, and load()
\* reads the file; nothing resumes the missions it holds
Restart ==
    /\ restarts < MaxRestarts
    /\ restarts' = restarts + 1
    /\ missions' = [i \in DOMAIN file |-> file[i].run]
    /\ run' = [r \in Runs |->
         IF run[r].at = "new" THEN run[r]
         ELSE LET rows == {i \in DOMAIN file : file[i].run = r}
              IN  [NoRun EXCEPT !.at = IF run[r].at = "waiting" THEN "died" ELSE run[r].at,
                                !.id = run[r].id,
                                !.status = IF rows = {} THEN "none"
                                           ELSE file[CHOOSE i \in rows : TRUE].status]]
    /\ writes' = <<>> /\ available' = TRUE
    /\ UNCHANGED file

Next ==
    \/ \E r \in Runs, id \in Ids, needs \in [StepIds -> SUBSET StepIds], blank, approved \in BOOLEAN :
         Start(r, id, needs, blank, approved)
    \/ \E r \in Runs, id \in Ids : NoTeam(r, id)
    \/ \E r \in Runs : StepAnswers(r) \/ StepThrows(r)
    \/ SetAvailability \/ Write \/ Restart

Spec == Init /\ [][Next]_vars

-----------------------------------------------------------------------------

\* The state has its type; the Map holds one object of a mission and no more
\* missions than it may
TypeOK ==
    /\ \A r \in Runs :
         /\ run[r].at \in {"new", "waiting", "answered", "threw", "died"}
         /\ run[r].id \in Ids \cup {NoId} /\ run[r].status \in Statuses
         /\ run[r].step \in 0 .. Len(Steps) /\ run[r].done \subseteq StepIds
         /\ run[r].at = "waiting" => Range(run[r].order) = StepIds
    /\ Len(missions) <= MaxMissions
    /\ \A i, j \in DOMAIN missions : run[missions[i]].id = run[missions[j]].id => i = j
    /\ available \in BOOLEAN /\ restarts \in 0 .. MaxRestarts

\* Whatever steps depend on each other, a step is executed when the steps it
\* depends on have completed in the same run, and no step twice (the scheduler and
\* the loop of run() that breaks off at the first step without COMPLETED)
StepsInOrder ==
    \A r \in Runs : run[r].at = "waiting" =>
        LET step == run[r].order[run[r].step]
        IN  run[r].needs[step] \subseteq run[r].done /\ step \notin run[r].done

\* A mission is reported from memory and survives in the file: when no write waits,
\* the file says of every mission in memory what memory says, whichever runs put
\* their objects over each other's and whatever was deleted to make room
QuietFileAgrees == writes = <<>> => file = Rows(missions)

=============================================================================
