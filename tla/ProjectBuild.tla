----------------------------- MODULE ProjectBuild -----------------------------
(***************************************************************************)
(* runAutonomousProject(): one call takes a command through generation,    *)
(* tests, repairs, live previews, feature and architecture engines to the  *)
(* promotion gate, and keeps the missions and the lifecycle of the project *)
(* in step with it.  A test run, a browser or a preview may give any       *)
(* answer at any time, also two answers for the same files; every step may *)
(* throw, and the process may die.  The checkpoints between the stages     *)
(* name the mission that is current anyway and are left out.               *)
(***************************************************************************)
EXTENDS ProjectMissions

CONSTANT MaxAttempts    \* maxRepairAttempts

ASSUME AttemptsAssumption == MaxAttempts \in Nat \ {0}

VARIABLES
    at,         \* stage of the orchestrator
    place,      \* which of its previews is being looked at
    todo,       \* calls of the mission manager before the next stage
    attempt,    \* attempts of the repair loop under way
    tested,     \* the files of the workspace have passed the workspace tests
    workspaceTests,  \* the last test result the orchestrator holds
    verified,   \* the verification it holds, of the first repair stage or later
    browser, interactions,   \* the last browser results it holds
    targeted,   \* the diagnosis calls for source-targeted repair
    previews,   \* preview processes that run
    leftover,   \* history: a repair loop gave up and left its patches behind
    outcome     \* status of the returned state

buildVars == <<at, place, todo, attempt, tested, workspaceTests, verified, browser,
               interactions, targeted, previews, leftover, outcome>>
resultVars == <<workspaceTests, verified, browser, interactions, targeted>>

Stages == {"idle", "materialize", "missions", "tests", "workspace", "repair", "preview",
           "browser", "interactions", "intelligence", "reasoning", "evolution",
           "implementation", "integration", "architecture", "choose", "restructuring",
           "retest", "browserRepair", "features", "verification", "promotion", "decision",
           "delivery", "failed", "failing", "over"}
Places == {"first", "reasoned", "kept", "implemented", "unimplemented", "integrated",
           "restructured"}
Answers == {"none", "VERIFIED", "FAILED", "UNAVAILABLE"}
Calls == [op : {"start", "complete"}, id : 0 .. Last]

BuildTypeOK ==
    /\ at \in Stages /\ place \in Places
    /\ todo \in Seq(Calls)
    /\ attempt \in 0 .. MaxAttempts
    /\ {tested, workspaceTests, verified, targeted, leftover} \subseteq BOOLEAN
    /\ browser \in Answers /\ interactions \in Answers
    /\ previews \in 0 .. 1
    /\ outcome \in {"none", "PROMOTED", "NOT_PROMOTED", "FAILED", "died"}

BuildInit ==
    /\ at = "idle" /\ place = "first" /\ todo = <<>> /\ attempt = 0
    /\ tested = FALSE /\ workspaceTests = FALSE /\ verified = FALSE
    /\ browser = "none" /\ interactions = "none" /\ targeted = FALSE
    /\ previews = 0 /\ leftover = FALSE /\ outcome = "none"

At(stage) == at = stage /\ todo = <<>>
Goto(stage) == at' = stage

\* an exception of the stage itself: the catch clause takes over
Throw == Goto("failing")

\* The build loads the missions
Reads(loaded) ==
    \/ loaded = plan /\ UNCHANGED misread
    \/ loaded = NoPlan /\ misread' = TRUE

Rewrites(change) == \E previous \in Loads : Reads(previous) /\ Record(change, previous)

\* createOrchestrationState(), the generator and the execution of its plan; the
\* workspace is a new directory, its lifecycle is recorded
Begin ==
    /\ At("idle")
    /\ \/ Goto("missions") /\ Transition("initialized") /\ UNCHANGED outcome
       \/ Goto("over") /\ outcome' = "FAILED" /\ UNCHANGED lifecycle
    /\ UNCHANGED <<plan, misread, place, todo, attempt, tested, previews, leftover, resultVars>>

\* initializeMissionManager() on a directory without missions, a resume that
\* finds nothing to recover, and the first transition
InitializeMissions ==
    /\ At("missions")
    /\ Rewrites([status |-> Decomposed, current |-> 0])
    /\ Transition("active")
    /\ Goto("tests")
    /\ UNCHANGED <<place, todo, attempt, tested, previews, leftover, outcome, resultVars>>

\* the tests of the workspace, then the first two missions
Test ==
    /\ At("tests")
    /\ workspaceTests' \in BOOLEAN
    /\ tested' = workspaceTests'
    /\ todo' = <<[op |-> "start", id |-> 0], [op |-> "complete", id |-> 1],
                 [op |-> "start", id |-> 0], [op |-> "complete", id |-> 2]>>
    /\ Goto("workspace")
    /\ UNCHANGED <<projectVars, place, attempt, previews, leftover, outcome, verified, browser,
                   interactions, targeted>>

\* The next call of the mission manager.  start without an id takes what
\* selectNextMission() finds, and does nothing if it finds nothing, or no file;
\* complete throws without the file.
CallMissions ==
    /\ todo # <<>>
    /\ LET call == Head(todo)
           id == IF call.id = 0 THEN SelectNext(plan.status) ELSE call.id
       IN  IF call.op = "complete" THEN Rewrites(Completing(plan.status, id))
           ELSE IF id # 0 THEN Rewrites(Starting(plan.status, id)) \/ (misread' = TRUE /\ UNCHANGED plan)
           ELSE UNCHANGED <<plan, misread>>
    /\ todo' = Tail(todo)
    /\ UNCHANGED <<lifecycle, at, place, attempt, tested, previews, leftover, outcome, resultVars>>

WorkspaceDone ==
    /\ At("workspace")
    /\ IF workspaceTests THEN Goto("repair") ELSE Throw
    /\ UNCHANGED <<projectVars, place, todo, attempt, tested, previews, leftover, outcome, resultVars>>

\* One round of runFailureDrivenRepair(): tests, then a patch.  When it gives
\* up, the generated files are judged instead of the patched workspace.
Repair ==
    /\ At("repair")
    /\ \/ /\ tested' = TRUE /\ verified' = TRUE /\ attempt' = 0
          /\ Goto("preview") /\ place' = "first" /\ UNCHANGED leftover
       \/ /\ attempt < MaxAttempts       \* failed, and a patch was applied
          /\ attempt' = attempt + 1 /\ tested' = FALSE
          /\ UNCHANGED <<at, place, verified, leftover>>
       \/ /\ verified' \in BOOLEAN       \* failed, and out of patches or attempts
          /\ attempt' = 0 /\ leftover' = (leftover \/ ~tested)
          /\ Goto("preview") /\ place' = "first" /\ UNCHANGED tested
    /\ UNCHANGED <<projectVars, todo, previews, outcome, workspaceTests, browser, interactions,
                   targeted>>

-----------------------------------------------------------------------------
(* A preview, the browser verification and the interaction tests that follow *)

BrowserMustPass == {"first", "kept", "implemented", "integrated"}
InteractionsMustRun == {"first", "implemented"}

AfterPreview ==
    CASE place = "first" -> "intelligence"
      [] place \in {"reasoned", "kept"} -> "evolution"
      [] place \in {"implemented", "unimplemented"} -> "integration"
      [] place = "integrated" -> "architecture"
      [] place = "restructured" -> "retest"

\* startWorkspacePreview(): a server that is not healthy in time is stopped
StartPreview ==
    /\ At("preview")
    /\ \/ /\ previews' = previews + 1
          /\ Goto(IF place = "unimplemented" THEN AfterPreview ELSE "browser")
       \/ Throw /\ UNCHANGED previews
    /\ UNCHANGED <<projectVars, place, todo, attempt, tested, leftover, outcome, resultVars>>

\* Only the first verification stops its preview before it throws
VerifyBrowser ==
    /\ At("browser")
    /\ browser' \in Answers \ {"none"}
    /\ IF browser' = "VERIFIED"
       THEN Goto("interactions") /\ UNCHANGED <<previews, interactions>>
       ELSE IF place \in BrowserMustPass
       THEN /\ Throw /\ previews' = (IF place = "first" THEN previews - 1 ELSE previews)
            /\ UNCHANGED interactions
       ELSE Goto(AfterPreview) /\ interactions' = "FAILED" /\ UNCHANGED previews
    /\ UNCHANGED <<projectVars, place, todo, attempt, tested, leftover, outcome, workspaceTests,
                   verified, targeted>>

RunInteractions ==
    /\ At("interactions")
    /\ interactions' \in Answers \ {"none"}
    /\ IF interactions' = "UNAVAILABLE" /\ place \in InteractionsMustRun
       THEN Throw /\ previews' = (IF place = "first" THEN previews - 1 ELSE previews)
       ELSE Goto(AfterPreview) /\ UNCHANGED previews
    /\ \/ place = "reasoned" /\ interactions' = "VERIFIED" /\ targeted' \in BOOLEAN
       \/ ~(place = "reasoned" /\ interactions' = "VERIFIED") /\ UNCHANGED targeted
    /\ UNCHANGED <<projectVars, place, todo, attempt, tested, leftover, outcome, workspaceTests,
                   verified, browser>>

\* engineering intelligence and code understanding
Diagnose ==
    /\ At("intelligence")
    /\ targeted' \in BOOLEAN
    /\ IF interactions = "FAILED" /\ targeted'
       THEN Goto("reasoning") /\ previews' = previews - 1
       ELSE Goto("evolution") /\ UNCHANGED previews
    /\ UNCHANGED <<projectVars, place, todo, attempt, tested, leftover, outcome, workspaceTests,
                   verified, browser, interactions>>

\* One attempt of runCodeReasoningRepairLoop(): a source patch and the tests.
\* Without a repair its patches stay, and the tests are run once more.
Reason ==
    /\ At("reasoning")
    /\ \/ /\ attempt < MaxAttempts       \* a patch was applied
          /\ \/ /\ tested' = TRUE /\ workspaceTests' = TRUE /\ verified' = TRUE
                /\ attempt' = 0 /\ Goto("preview") /\ place' = "reasoned"
             \/ /\ tested' = FALSE /\ attempt' = attempt + 1
                /\ UNCHANGED <<workspaceTests, verified, at, place>>
          /\ UNCHANGED leftover
       \/ /\ workspaceTests' \in BOOLEAN \* no safe patch, a rejected one, or out of attempts
          /\ tested' = (tested \/ workspaceTests')
          /\ leftover' = (leftover \/ ~tested')
          /\ attempt' = 0 /\ Goto("preview") /\ place' = "kept" /\ UNCHANGED verified
    /\ UNCHANGED <<projectVars, todo, previews, outcome, browser, interactions, targeted>>

-----------------------------------------------------------------------------
(* The engines that extend the project and take their changes back when the  *)
(* tests do not pass on them                                                 *)

\* What the loop of each engine reports.  An engine writes its files, runs the
\* tests and takes the files back if they fail; its plans are always valid.
EvolutionReports == {"NO_FEATURE_DELTA", "FEATURES_EXPANDED", "ROLLED_BACK"}
ImplementationReports == {"NO_FEATURE_IMPLEMENTATION", "FEATURES_IMPLEMENTED", "ROLLED_BACK"}
IntegrationReports == {"NO_INTEGRATION_NEEDED", "FEATURES_INTEGRATED", "ROLLED_BACK"}
GenerationReports == {"NO_GENERATION_NEEDED", "ARCHITECTURE_GENERATED", "ARCHITECTURE_GENERATION_ROLLED_BACK"}
ReasoningReports == {"NO_SAFE_REPAIR", "ARCHITECTURE_REPAIRED", "ARCHITECTURE_ROLLED_BACK"}

Kept == {"FEATURES_EXPANDED", "FEATURES_IMPLEMENTED", "FEATURES_INTEGRATED", "ARCHITECTURE_GENERATED",
         "ARCHITECTURE_REPAIRED"}

\* the old files, or files on which the engine's own test run has passed
Engine(report) == tested' = (tested \/ report \in Kept)

\* runFeatureEvolutionLoop(): whatever its status, the build goes on
Evolve ==
    /\ At("evolution")
    /\ \E report \in EvolutionReports : Engine(report)
    /\ previews' = previews - 1 /\ Goto("implementation")
    /\ UNCHANGED <<projectVars, place, todo, attempt, leftover, outcome, resultVars>>

\* A change that was taken back fails the build; one that was kept is tested
\* once more; then a preview shows the files
Extend(report, changed, unchanged) ==
    /\ Engine(report)
    /\ IF report \in Kept THEN workspaceTests' \in BOOLEAN ELSE UNCHANGED workspaceTests
    /\ IF report = "ROLLED_BACK" \/ (report \in Kept /\ ~workspaceTests')
       THEN Throw /\ UNCHANGED place
       ELSE Goto("preview") /\ place' = (IF report \in Kept THEN changed ELSE unchanged)

\* runFeatureImplementationLoop() and the tests that follow
Implement ==
    /\ At("implementation")
    /\ \E report \in ImplementationReports : Extend(report, "implemented", "unimplemented")
    /\ UNCHANGED <<projectVars, todo, attempt, previews, leftover, outcome, verified, browser,
                   interactions, targeted>>

\* the preview is stopped, runFeatureIntegrationLoop(), the tests that follow
Integrate ==
    /\ At("integration")
    /\ previews' = previews - 1
    /\ \E report \in IntegrationReports : Extend(report, "integrated", "integrated")
    /\ UNCHANGED <<projectVars, todo, attempt, leftover, outcome, verified, browser, interactions,
                   targeted>>

\* runArchitectureGenerationLoop(), whatever its status; the core mission is
\* completed with it
GenerateArchitecture ==
    /\ At("architecture")
    /\ \E report \in GenerationReports : Engine(report)
    /\ \E loaded \in Loads :
         /\ Reads(loaded)
         /\ todo' = IF loaded # NoPlan /\ loaded.status[Core] # "completed"
                    THEN <<[op |-> "complete", id |-> Core]>> ELSE <<>>
    /\ Goto("choose")
    /\ UNCHANGED <<plan, lifecycle, place, attempt, previews, leftover, outcome, resultVars>>

\* failed interactions: architecture reasoning if the failure spans files, then
\* or otherwise browser repair
ChooseRepair ==
    /\ At("choose")
    /\ \/ interactions # "FAILED" /\ Goto("features") /\ UNCHANGED previews
       \/ interactions = "FAILED" /\ Goto("browserRepair") /\ UNCHANGED previews
       \/ interactions = "FAILED" /\ targeted /\ Goto("restructuring") /\ previews' = previews - 1
    /\ UNCHANGED <<projectVars, place, todo, attempt, tested, leftover, outcome, resultVars>>

\* runArchitectureReasoningLoop(): its patches are kept if the tests pass
Restructure ==
    /\ At("restructuring")
    /\ \E report \in ReasoningReports : Engine(report)
    /\ Goto("preview") /\ place' = "restructured"
    /\ UNCHANGED <<projectVars, todo, attempt, previews, leftover, outcome, resultVars>>

Retest ==
    /\ At("retest")
    /\ workspaceTests' \in BOOLEAN
    /\ tested' = (tested \/ workspaceTests')
    /\ Goto(IF interactions = "FAILED" THEN "browserRepair" ELSE "features")
    /\ UNCHANGED <<projectVars, place, todo, attempt, previews, leftover, outcome, verified, browser,
                   interactions, targeted>>

\* One attempt of runBrowserRepairLoop(): patches of the page, tests, a new
\* preview and both browser checks
RepairBrowser ==
    /\ At("browserRepair")
    /\ \/ /\ attempt < MaxAttempts       \* patched; the tests fail on it
          /\ attempt' = attempt + 1 /\ tested' = FALSE
          /\ UNCHANGED <<at, previews, browser, interactions>>
       \/ /\ attempt < MaxAttempts       \* patched, tested, verified again
          /\ tested' = TRUE
          /\ browser' \in Answers \ {"none"} /\ interactions' \in Answers \ {"none"}
          /\ IF browser' = "VERIFIED" /\ interactions' = "VERIFIED"
             THEN Goto("features") /\ attempt' = 0
             ELSE IF "UNAVAILABLE" \in {browser', interactions'}
             THEN Goto("failed") /\ attempt' = 0
             ELSE attempt' = attempt + 1 /\ UNCHANGED at
          /\ UNCHANGED previews
       \/ /\ attempt < MaxAttempts       \* patched and tested; the preview does not start
          /\ tested' = TRUE /\ previews' = previews - 1
          /\ Goto("failing") /\ attempt' = 0
          /\ UNCHANGED <<browser, interactions>>
       \/ /\ Goto("failed") /\ attempt' = 0   \* no patch applies, no browser, or out of attempts
          /\ UNCHANGED <<tested, previews, browser, interactions>>
    /\ UNCHANGED <<projectVars, place, todo, leftover, outcome, workspaceTests, verified, targeted>>

\* browser self-healing failed: its preview is stopped before the exception
GiveUp ==
    /\ At("failed")
    /\ previews' = previews - 1 /\ Throw
    /\ UNCHANGED <<projectVars, place, todo, attempt, tested, leftover, outcome, resultVars>>

-----------------------------------------------------------------------------
(* The end of the build *)

CompleteFeatures ==
    /\ At("features")
    /\ \E loaded \in Loads :
         LET open == {i \in FeatureMissions : loaded # NoPlan /\ loaded.status[i] # "completed"}
         IN  /\ Reads(loaded)
             /\ todo' = [k \in 1 .. Cardinality(open) |->
                          [op |-> "complete",
                           id |-> CHOOSE i \in open : Cardinality({j \in open : j <= i}) = k]]
    /\ Goto("verification")
    /\ UNCHANGED <<plan, lifecycle, place, attempt, tested, previews, leftover, outcome, resultVars>>

CompleteVerification ==
    /\ At("verification")
    /\ \E loaded \in Loads :
         /\ Reads(loaded)
         /\ todo' = IF loaded # NoPlan /\ loaded.status[Verification] # "completed"
                    THEN <<[op |-> "start", id |-> Verification], [op |-> "complete", id |-> Verification]>>
                    ELSE <<>>
    /\ Goto("promotion")
    /\ UNCHANGED <<plan, lifecycle, place, attempt, tested, previews, leftover, outcome, resultVars>>

\* Mutant: a promoted project is not delivered
DecideLate ==
    /\ At("promotion")
    /\ Transition("verifying")
    /\ Goto("delivery") /\ previews' = previews - 1
    /\ outcome' = IF workspaceTests \/ verified THEN "PROMOTED" ELSE "NOT_PROMOTED"
    /\ todo' = <<>>
    /\ UNCHANGED <<plan, misread, place, attempt, tested, leftover, resultVars>>

\* The lifecycle is being verified, then previewAndPromote(): the gate passes
\* on the last workspace tests, or on the verification of an earlier stage.
\* The preview is stopped, and a promoted project delivered.
Decide ==
    /\ At("promotion")
    /\ Transition("verifying")
    /\ Goto("delivery") /\ previews' = previews - 1
    /\ outcome' = IF workspaceTests \/ verified THEN "PROMOTED" ELSE "NOT_PROMOTED"
    /\ \E loaded \in Loads :
         /\ Reads(loaded)
         /\ todo' = IF outcome' = "PROMOTED" /\ loaded # NoPlan /\ loaded.status[Delivery] # "completed"
                    THEN <<[op |-> "start", id |-> Delivery], [op |-> "complete", id |-> Delivery]>>
                    ELSE <<>>
    /\ UNCHANGED <<plan, place, attempt, tested, leftover, resultVars>>

\* What the call leaves when it is over: its results are gone
Over ==
    /\ Goto("over")
    /\ place' = "first" /\ todo' = <<>> /\ attempt' = 0 /\ tested' = FALSE
    /\ workspaceTests' = FALSE /\ verified' = FALSE /\ targeted' = FALSE
    /\ browser' = "none" /\ interactions' = "none" /\ leftover' = FALSE

Return ==
    /\ At("delivery")
    /\ Transition(IF outcome = "PROMOTED" THEN "promoted" ELSE "failed")
    /\ Over
    /\ UNCHANGED <<plan, misread, previews, outcome>>

\* Any awaited call may throw: a file cannot be written, a page is not there
Throws ==
    /\ at \notin {"idle", "failing", "over"}
    /\ Throw /\ todo' = <<>> /\ attempt' = 0
    /\ UNCHANGED <<projectVars, place, tested, previews, leftover, outcome, resultVars>>

\* The catch clause: the lifecycle is failed, and the mission that is the
\* current one, if there is any; either may fail once more
Fail ==
    /\ at = "failing"
    /\ lifecycle' \in {lifecycle, "failed"}
    /\ \/ plan.current # 0 /\ Rewrites(Failing(plan.status, plan.current))
       \/ UNCHANGED <<plan, misread>>
    /\ outcome' = "FAILED"
    /\ Over
    /\ UNCHANGED previews

\* The process dies, and its previews with it or not
Die ==
    /\ at \notin {"idle", "over"}
    /\ outcome' = "died"
    /\ Over
    /\ previews' \in {0, previews}
    /\ UNCHANGED projectVars

BuildStep ==
    \/ Begin \/ InitializeMissions \/ Test \/ CallMissions \/ WorkspaceDone \/ Repair
    \/ StartPreview \/ VerifyBrowser \/ RunInteractions \/ Diagnose \/ Reason
    \/ Evolve \/ Implement \/ Integrate \/ GenerateArchitecture \/ ChooseRepair
    \/ Restructure \/ Retest \/ RepairBrowser \/ GiveUp \/ CompleteFeatures
    \/ CompleteVerification \/ Decide \/ Return \/ Throws \/ Fail \/ Die

-----------------------------------------------------------------------------
(* Properties *)

\* A project that the build returns as PROMOTED is finished everywhere: every
\* mission is completed, the lifecycle says promoted, no preview runs, and the
\* workspace tests have passed on its files as they are.  Two of them may be
\* missed: a mission, when the mission file could not be read, and the tests,
\* when a repair loop had given up and left its patches behind, and the gate
\* passes on the verification of an earlier stage.
Finished ==
    /\ misread \/ \A i \in Ids : plan'.status[i] = "completed"
    /\ lifecycle' = "promoted"
    /\ previews' = 0
    /\ tested \/ leftover
PromotedIsFinished == [][(at # "over" /\ at' = "over" /\ outcome' = "PROMOTED") => Finished]_<<at, outcome, plan, lifecycle, previews, tested>>

=============================================================================
