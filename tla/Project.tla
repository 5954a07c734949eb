------------------------------- MODULE Project -------------------------------
(***************************************************************************)
(* A generated project from its build to the work on what the build left:  *)
(* the orchestrator, then workers and modifications of the project on the  *)
(* same files.  A modification takes a snapshot of every file it may       *)
(* change, .jora included, and puts it back when the change is rejected.   *)
(***************************************************************************)
EXTENDS ProjectBuild, ProjectWorker

VARIABLES
    modifying,   \* stage of runExistingProjectModificationLoop()
    before       \* its snapshot of the files of this model

modificationVars == <<modifying, before>>
vars == <<projectVars, buildVars, workerVars, modificationVars>>

NoSnapshot == [plan |-> NoPlan, workerFile |-> [status |-> "none", cycle |-> 0]]

TypeOK ==
    /\ PlanTypeOK /\ BuildTypeOK /\ WorkerTypeOK
    /\ modifying \in {"idle", "diff", "snapshot", "apply", "restored", "modified"}

Init ==
    /\ ProjectInit /\ BuildInit /\ WorkerInit
    /\ modifying = "idle" /\ before = NoSnapshot

\* The project is inspected and its lifecycle initialized
BeginModification ==
    /\ at = "over" /\ modifying = "idle"
    /\ modifying' = "diff"
    /\ IF lifecycle = "none" THEN Transition("initialized") ELSE UNCHANGED lifecycle
    /\ UNCHANGED <<plan, before>>

\* nothing is requested that the project does not have, or the change begins
Diff ==
    /\ modifying = "diff"
    /\ \/ Transition("active") /\ modifying' = "idle"
       \/ Transition("modifying") /\ modifying' = "snapshot"
    /\ UNCHANGED <<plan, before>>

Snapshot ==
    /\ modifying = "snapshot"
    /\ modifying' = "apply"
    /\ before' = [plan |-> plan, workerFile |-> workerFile]
    /\ UNCHANGED projectVars

\* The feature engines and the regression tests accept the change, or every
\* file is put back
Modified ==
    /\ modifying = "apply"
    /\ modifying' = "modified" /\ before' = NoSnapshot
    /\ UNCHANGED <<projectVars, workerVars>>

Restore ==
    /\ modifying = "apply"
    /\ modifying' = "restored" /\ before' = NoSnapshot
    /\ plan' = before.plan /\ Transition("modifying")
    /\ workerFile' = before.workerFile
    /\ undone' = (undone \/ plan # before.plan \/ workerFile # before.workerFile)
    /\ UNCHANGED <<worker, crashed, together, blind>>

EndModification ==
    /\ modifying \in {"modified", "restored"}
    /\ Transition(IF modifying = "modified" THEN "verifying" ELSE "rolled_back")
    /\ modifying' = "idle"
    /\ UNCHANGED <<plan, before>>

\* the process dies, or an exception leaves the loop
ModificationDies ==
    /\ modifying # "idle"
    /\ modifying' = "idle" /\ before' = NoSnapshot
    /\ UNCHANGED projectVars

ModificationStep ==
    \/ Modified \/ Restore
    \/ (BeginModification \/ Diff \/ Snapshot \/ EndModification \/ ModificationDies) /\ UNCHANGED workerVars

Next ==
    \/ BuildStep /\ UNCHANGED <<workerVars, modificationVars>>
    \/ at = "over" /\ WorkerStep /\ UNCHANGED <<lifecycle, misread, buildVars, modificationVars>>
    \/ ModificationStep /\ UNCHANGED <<misread, buildVars>>

Spec == Init /\ [][Next]_vars

-----------------------------------------------------------------------------
(* Properties *)

\* The files account for the work on a project, whoever resumed, failed, crashed
\* or was refused: missions are completed in order, a worker file says RUNNING
\* only for a worker, and COMPLETED only when no mission is left begun.  Each has
\* its exceptions: of the first, a build that could not read the missions; of the
\* second, a death or a file put back; of the third, a file that could not be
\* read, a write that undid another, two workers at once.
WorkIsAccountedFor == CompletedInOrder /\ RunningHasWorker /\ DoneLeavesNothingBegun

=============================================================================
