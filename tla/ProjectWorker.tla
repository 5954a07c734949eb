---------------------------- MODULE ProjectWorker ----------------------------
(***************************************************************************)
(* runAutonomousWorker() on a project root that a build has left: cycles   *)
(* over the mission file, each with calls of the mission manager that load *)
(* the file and some awaits later replace it.  Several processes may work  *)
(* on one root; the only exclusion is the status in the worker's own file, *)
(* which outlives the process that wrote it.  A read of either file that   *)
(* fails, or finds it torn, is answered null and taken for no file.        *)
(***************************************************************************)
EXTENDS ProjectMissions

CONSTANTS
    Workers,      \* processes that may run a worker on the root
    MaxCycles     \* maxCycles; the cycle number in the file is never reset

ASSUME WorkerAssumption == MaxCycles \in Nat

VARIABLES
    workerFile,   \* autonomous-worker.json: status ("none": no file) and cycle
    worker,       \* worker[w]: where the process is, and what it holds
    crashed,      \* history: a worker ended without its last save
    together,     \* history: two workers were under way at once
    undone,       \* history: a write replaced a file newer than the one it changed
    blind         \* history: a worker read one of the two files and was answered null

workerVars == <<workerFile, worker, crashed, together, undone, blind>>

\* places inside the inner try of a cycle, and outside it
Inner == {"execute", "completing"}
Outer == {"resume", "select", "reload", "active", "after", "noting", "stopping"}

NoChange == [status |-> <<>>, current |-> 0]
Idle == [at |-> "idle", cycle |-> 0, mission |-> 0, change |-> NoChange, base |-> <<>>, next |-> "idle"]

WorkerTypeOK ==
    /\ workerFile \in [status : {"none", "RUNNING", "COMPLETED", "STOPPED", "FAILED"}, cycle : 0 .. MaxCycles]
    /\ \A w \in Workers :
        /\ worker[w].at \in {"idle", "starting", "write", "failing", "failed"} \cup Inner \cup Outer
        /\ worker[w].next \in {"idle", "starting"} \cup Inner \cup Outer
        /\ worker[w].cycle \in 0 .. MaxCycles
        /\ worker[w].mission \in 0 .. Last
    /\ {crashed, together, undone, blind} \subseteq BOOLEAN

WorkerInit ==
    /\ workerFile = [status |-> "none", cycle |-> 0]
    /\ worker = [w \in Workers |-> Idle]
    /\ crashed = FALSE /\ together = FALSE /\ undone = FALSE /\ blind = FALSE

Is(w, place) == worker[w].at = place
Go(w, place) == worker' = [worker EXCEPT ![w].at = place]
Leave(w) == worker' = [worker EXCEPT ![w] = Idle]
SaveStatus(status, cycle) == workerFile' = [status |-> status, cycle |-> cycle]

\* A worker loads the missions
Sees(loaded) ==
    \/ loaded = plan /\ UNCHANGED blind
    \/ loaded = NoPlan /\ blind' = TRUE

\* A call of the mission manager has loaded the file and awaits its write
Change(w, loaded, change, next) ==
    worker' = [worker EXCEPT ![w] = [@ EXCEPT !.at = "write", !.change = change,
                                       !.base = loaded.status, !.next = next]]

\* The status in the file is looked at; a file that cannot be read is no file
Load(w) ==
    /\ Is(w, "idle")
    /\ \E cycle \in {workerFile.cycle, 0} :
         /\ \/ workerFile.status # "RUNNING" /\ cycle = workerFile.cycle /\ UNCHANGED blind
            \/ cycle = 0 /\ blind' = TRUE
         /\ worker' = [worker EXCEPT ![w].at = "starting", ![w].cycle = cycle]
    /\ UNCHANGED <<plan, workerFile, crashed, together, undone>>

\* and written: a second process may have looked at it in between
Start(w) ==
    /\ Is(w, "starting")
    /\ SaveStatus("RUNNING", worker[w].cycle)
    /\ Go(w, "resume")
    /\ together' = (together \/ \E v \in Workers \ {w} : ~Is(v, "idle"))
    /\ UNCHANGED <<plan, crashed, undone, blind>>

ResumeThen(w, loaded, next) ==
    IF Recoverable(loaded.status) = {} THEN Go(w, next)
    ELSE Change(w, loaded, Resuming(loaded.status), next)

Resume(w) ==
    /\ Is(w, "resume")
    /\ \E loaded \in Loads : Sees(loaded) /\ ResumeThen(w, loaded, "select")
    /\ UNCHANGED <<plan, workerFile, crashed, together, undone>>

\* The write of the change under way
Write(w) ==
    /\ Is(w, "write")
    /\ \E previous \in Loads : Sees(previous) /\ Record(worker[w].change, previous)
    /\ undone' = (undone \/ worker[w].base # plan.status)
    /\ worker' = [worker EXCEPT ![w] = [@ EXCEPT !.at = worker[w].next, !.change = NoChange, !.base = <<>>, !.next = "idle"]]
    /\ UNCHANGED <<workerFile, crashed, together>>

\* The mission of the next cycle: the current one, or the first that is running,
\* or the first that is ready or failed; a planned one is not looked for
Candidate(loaded) ==
    LET startable == {"ready", "running", "failed"}
    IN  IF loaded.current # 0 /\ loaded.status[loaded.current] \in startable THEN loaded.current
        ELSE IF In(loaded.status, {"running"}) # 0 THEN In(loaded.status, {"running"})
        ELSE In(loaded.status, {"ready", "failed"})

\* Mutant: one cycle more
UnderwayLonger(cycle) == cycle <= MaxCycles

Underway(cycle) == cycle < MaxCycles

\* The loop goes on, finds no mission, or is out of cycles
Select(w) ==
    /\ Is(w, "select")
    /\ IF ~Underway(worker[w].cycle) THEN Go(w, "stopping") /\ UNCHANGED <<workerFile, blind>>
       ELSE \E loaded \in Loads :
            LET found == IF loaded = NoPlan THEN 0 ELSE Candidate(loaded)
                cycle == worker[w].cycle + 1
            IN  /\ Sees(loaded)
                /\ IF found = 0
                   THEN SaveStatus("COMPLETED", worker[w].cycle) /\ Leave(w)
                   ELSE /\ SaveStatus("RUNNING", cycle)
                        /\ worker' = [worker EXCEPT ![w] = [@ EXCEPT !.at = "reload", !.cycle = cycle, !.mission = found]]
    /\ UNCHANGED <<plan, crashed, together, undone>>

\* a mission that is running or failed makes the manager resume
Reload(w) ==
    /\ Is(w, "reload")
    /\ \E loaded \in Loads :
         /\ Sees(loaded)
         /\ IF loaded # NoPlan /\ loaded.status[worker[w].mission] \in {"failed", "running"}
            THEN ResumeThen(w, loaded, "active") ELSE Go(w, "active")
    /\ UNCHANGED <<plan, workerFile, crashed, together, undone>>

\* The mission is left if it is completed, and started unless it runs.  The
\* manager loads the file once more to start it, and does not if it cannot.
StartMission(w) ==
    /\ Is(w, "active")
    /\ LET i == worker[w].mission
       IN  \/ \E loaded \in Loads :
                /\ Sees(loaded)
                /\ IF loaded = NoPlan \/ loaded.status[i] = "completed" THEN Go(w, "select")
                   ELSE IF loaded.status[i] = "running" THEN Go(w, "execute")
                   ELSE Change(w, loaded, Starting(loaded.status, i), "execute")
           \/ /\ plan # NoPlan /\ plan.status[i] \notin {"completed", "running"}
              /\ Go(w, "execute") /\ blind' = TRUE
    /\ UNCHANGED <<plan, workerFile, crashed, together, undone>>

\* The executor completes the mission or not, and the checkpoint is loaded.
\* Without an executor the mission is not completed.
Execute(w) ==
    /\ Is(w, "execute")
    /\ \E loaded \in Loads, next \in {"completing", "after"} :
         /\ Sees(loaded)
         /\ IF loaded = NoPlan THEN Go(w, next)
            ELSE Change(w, loaded, Checkpointing(loaded.status, worker[w].mission), next)
    /\ UNCHANGED <<plan, workerFile, crashed, together, undone>>

CompleteMission(w) ==
    /\ Is(w, "completing")
    /\ \E loaded \in Loads :
         /\ Sees(loaded)
         /\ IF loaded = NoPlan THEN Go(w, "failing")
            ELSE Change(w, loaded, Completing(loaded.status, worker[w].mission), "after")
    /\ UNCHANGED <<plan, workerFile, crashed, together, undone>>

\* The inner catch clause
FailMission(w) ==
    /\ Is(w, "failing")
    /\ \E loaded \in Loads :
         /\ Sees(loaded)
         /\ IF loaded = NoPlan THEN Go(w, "failed")
            ELSE Change(w, loaded, Failing(loaded.status, worker[w].mission), "noting")
    /\ UNCHANGED <<plan, workerFile, crashed, together, undone>>

NoteError(w) ==
    /\ Is(w, "noting")
    /\ SaveStatus("RUNNING", worker[w].cycle) /\ Go(w, "after")
    /\ UNCHANGED <<plan, crashed, together, undone, blind>>

\* The end of a cycle: no mission is left, or the loop decides
EndCycle(w) ==
    /\ Is(w, "after")
    /\ \E loaded \in Loads :
         /\ Sees(loaded)
         /\ IF \A i \in DOMAIN loaded.status : loaded.status[i] = "completed"
            THEN SaveStatus("COMPLETED", worker[w].cycle) /\ Leave(w)
            ELSE Go(w, "select") /\ UNCHANGED workerFile
    /\ UNCHANGED <<plan, crashed, together, undone>>

Stop(w) ==
    /\ Is(w, "stopping")
    /\ SaveStatus("STOPPED", worker[w].cycle) /\ Leave(w)
    /\ UNCHANGED <<plan, crashed, together, undone, blind>>

\* An exception: of the executor and the calls after it to the inner clause,
\* of anything else to the outer one
WorkerThrows(w) ==
    /\ LET place == IF Is(w, "write") THEN worker[w].next ELSE worker[w].at
           \* the checkpoint and the completion are written inside the inner try
           caught == IF Is(w, "write") THEN place \in {"completing", "after"} ELSE place \in Inner
       IN  /\ place \in Inner \cup Outer \/ Is(w, "failing")
           /\ worker' = [worker EXCEPT ![w] = [@ EXCEPT !.at = IF caught THEN "failing" ELSE "failed",
                                                 !.change = NoChange, !.base = <<>>, !.next = "idle"]]
    /\ UNCHANGED <<plan, workerFile, crashed, together, undone, blind>>

\* Mutant: the outer catch clause returns without a save
FailUnsaved(w) ==
    /\ Is(w, "failed")
    /\ UNCHANGED workerFile /\ Leave(w)
    /\ UNCHANGED <<plan, crashed, together, undone, blind>>

\* The outer catch clause
FailWorker(w) ==
    /\ Is(w, "failed")
    /\ SaveStatus("FAILED", worker[w].cycle) /\ Leave(w)
    /\ UNCHANGED <<plan, crashed, together, undone, blind>>

\* The process dies, or an exception leaves the function: of the history record
\* before the outer try, or of the save in its catch clause
Crash(w) ==
    /\ ~Is(w, "idle")
    /\ Leave(w) /\ crashed' = TRUE
    /\ UNCHANGED <<plan, workerFile, together, undone, blind>>

WorkerStep ==
    \E w \in Workers :
        \/ Load(w) \/ Start(w) \/ Resume(w) \/ Write(w) \/ Select(w) \/ Reload(w)
        \/ StartMission(w) \/ Execute(w) \/ CompleteMission(w) \/ FailMission(w) \/ NoteError(w)
        \/ EndCycle(w) \/ Stop(w) \/ WorkerThrows(w) \/ FailWorker(w) \/ Crash(w)

-----------------------------------------------------------------------------
(* Properties *)

\* The worker file says RUNNING only while a worker is: the next one is refused
\* for good only after a death, or after an older file was put back.
RunningHasWorker ==
    workerFile.status = "RUNNING" =>
        crashed \/ undone \/ \E w \in Workers : worker[w].at \notin {"idle", "starting"}

\* A single worker that could read its files and says COMPLETED leaves no mission
\* that was begun: each is completed, or still planned.  The planned ones may well
\* be left, and the manager would offer the first of them: a worker does not look
\* for a planned mission, and says COMPLETED of a project that is not finished.
DoneLeavesNothingBegun ==
    (workerFile.status = "COMPLETED" /\ ~undone /\ ~together /\ ~blind) =>
        \A i \in DOMAIN plan.status : plan.status[i] \in {"planned", "completed"}

=============================================================================
