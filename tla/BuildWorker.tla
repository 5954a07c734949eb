----------------------------- MODULE BuildWorker -----------------------------
(***************************************************************************)
(* What a forked worker process does with a request: execute() of a        *)
(* runtime whose state is fresh, that is the first build by                *)
(* ProductionAgentBuilder, the rounds of the controller with the           *)
(* deliveries of AutonomousDelivery, in each of them ProjectFactory with   *)
(* the AutonomousBuildPipeline, and the answer that compactResult() reads  *)
(* off the workspace.  Two workers run at once when the API has given one  *)
(* up whose process lives on; they share the workspace and the port.       *)
(*                                                                         *)
(* A tree is what the checks of a build were made on: `holds` keeps, for   *)
(* each build, the checks that succeeded on the tree as it is now.         *)
(***************************************************************************)
EXTENDS Naturals

CONSTANTS
    Builds,           \* requests, each with a process of its own
    MaxRepairCycles,  \* maxRepairCycles of the pipeline
    MaxDeliveries,    \* maxRepairCycles of the delivery
    MaxCycles,        \* maxCycles of the controller
    MaxDeaths         \* processes killed (a bound)

VARIABLES
    build,    \* build[b]: where the process is, and its local variables
    holds,    \* holds[b]: history, the checks of b that hold for the present tree
    port,     \* the build whose application occupies the port, if any
    alone,    \* alone[b]: history, no other build was under way beside b
    deaths

vars == <<build, holds, port, alone, deaths>>

Checks == {"tests", "runtime", "interaction", "security"}
Places == {"new", "generate", "write", "test", "start", "probe", "launch", "browse",
           "review", "council", "promote", "compact", "answered", "failed", "dead"}
Finished == {"answered", "failed", "dead"}

NewBuild == [at |-> "new", stage |-> "testing", again |-> FALSE, repairs |-> 0, ok |-> {},
             ready |-> FALSE, delivery |-> 0, cycle |-> 1, verified |-> {}]

TypeOK ==
    /\ build \in [Builds ->
         [at : Places, stage : {"testing", "runtime", "interaction"}, again : BOOLEAN,
          repairs : 0 .. MaxRepairCycles, ok : SUBSET Checks, ready : BOOLEAN,
          delivery : 0 .. MaxDeliveries, cycle : 1 .. MaxCycles, verified : SUBSET Checks]]
    /\ holds \in [Builds -> SUBSET Checks]
    /\ port \in SUBSET Builds /\ \A b, d \in port : b = d
    /\ alone \in [Builds -> BOOLEAN]
    /\ deaths \in 0 .. MaxDeaths

Init ==
    /\ build = [b \in Builds |-> NewBuild]
    /\ holds = [b \in Builds |-> {}]
    /\ port = {}
    /\ alone = [b \in Builds |-> TRUE]
    /\ deaths = 0

UnderWay(b) == build[b].at \notin {"new"} \cup Finished
Goto(b, place) == build' = [build EXCEPT ![b].at = place]

\* Any write to the workspace: what was checked before was checked on another tree.
TreeChanges == holds' = [b \in Builds |-> {}]

\* The outcome of a check c of b, made on the present tree
Checked(b, c, ok) == holds' = [holds EXCEPT ![b] = IF ok THEN @ \cup {c} ELSE @ \ {c}]
Outcome(b, c, ok) == IF ok THEN build[b].ok \cup {c} ELSE build[b].ok \ {c}

-----------------------------------------------------------------------------
(* A build by the model *)

\* The request reaches its process: a fresh state, and a candidate branch
Start(b) ==
    /\ build[b].at = "new"
    /\ Goto(b, "generate")
    /\ alone' = [c \in Builds |-> IF c = b THEN \A d \in Builds : ~UnderWay(d)
                                           ELSE alone[c] /\ ~UnderWay(c)]
    /\ TreeChanges
    /\ UNCHANGED <<port, deaths>>

\* An exception leaves execute(): the process answers that it failed
Throw(b) == Goto(b, "failed")

\* The model answers with files, or with something else
Generate(b) ==
    /\ build[b].at = "generate"
    /\ Goto(b, "write") \/ Throw(b)
    /\ UNCHANGED <<holds, port, alone, deaths>>

\* The files are written one by one, up to one that is not valid
Write(b) ==
    /\ build[b].at = "write"
    /\ Goto(b, "write") \/ Goto(b, "test") \/ Throw(b)
    /\ TreeChanges
    /\ UNCHANGED <<port, alone, deaths>>

-----------------------------------------------------------------------------
(* evaluateProject() *)

\* After a failed check: one more repair, when the budget allows one
Repairs(b) == build[b].repairs < MaxRepairCycles
Repairing(b, s, ok) ==
    [build[b] EXCEPT !.at = "generate", !.stage = s, !.ok = ok, !.repairs = @ + 1,
                     !.again = (s # "testing")]

\* Mutant: what was repaired for the browser is not served again before it
AfterTestsHasty(b) ==
    IF build[b].again /\ build[b].stage = "interaction" THEN "launch" ELSE "start"

\* Tests passed: the application is verified, whatever was verified before
AfterTests(b) == "start"

\* The test runner, after the first build and after every repair.  A failure
\* is repaired, unless it follows the repair of a later check.
Test(b) ==
    /\ build[b].at = "test"
    /\ \E passed \in BOOLEAN :
         LET ok == Outcome(b, "tests", passed)
         IN  /\ build' = [build EXCEPT ![b] =
                  IF ~passed /\ ~@.again /\ Repairs(b) THEN Repairing(b, "testing", ok)
                  ELSE [@ EXCEPT !.at = IF passed THEN AfterTests(b) ELSE "review", !.ok = ok,
                                 !.stage = IF build[b].stage = "testing" THEN "runtime"
                                           ELSE build[b].stage]]
             /\ Checked(b, "tests", passed)
    /\ UNCHANGED <<port, alone, deaths>>

\* docker run -d with the port: it needs the port, and may fail for other reasons
Runs(b) == port = {} /\ port' = {b}

\* docker stop, whose failure is swallowed
Stops(b) == port' \in {port, port \ {b}}

\* The runtime verifier has its answer
Served(b, ok) ==
    LET outcome == Outcome(b, "runtime", ok)
    IN  build' = [build EXCEPT ![b] =
          CASE ok -> [@ EXCEPT !.at = "launch", !.ok = outcome, !.stage = "interaction",
                               !.again = (build[b].again /\ build[b].stage = "interaction")]
            [] ~ok /\ ~@.again /\ Repairs(b) -> Repairing(b, "runtime", outcome)
            [] OTHER -> [@ EXCEPT !.at = "review", !.ok = outcome]]

StartApplication(b) ==
    /\ build[b].at = "start"
    /\ \/ Runs(b) /\ Goto(b, "probe") /\ UNCHANGED holds
       \/ Served(b, FALSE) /\ Checked(b, "runtime", FALSE) /\ UNCHANGED port
    /\ UNCHANGED <<alone, deaths>>

\* GET / of the started application, and the stop in the finally block
Probe(b) ==
    /\ build[b].at = "probe"
    /\ \E ok \in BOOLEAN : Served(b, ok) /\ Checked(b, "runtime", ok)
    /\ Stops(b)
    /\ UNCHANGED <<alone, deaths>>

\* The interaction verifier has its answer
Browsed(b, ok) ==
    LET outcome == Outcome(b, "interaction", ok)
    IN  build' = [build EXCEPT ![b] =
          IF ~ok /\ ~@.again /\ Repairs(b) THEN Repairing(b, "interaction", outcome)
          ELSE [@ EXCEPT !.at = "review", !.ok = outcome]]

\* The browser driver starts the application once more
Launch(b) ==
    /\ build[b].at = "launch"
    /\ \/ Runs(b) /\ Goto(b, "browse") /\ UNCHANGED holds
       \/ Browsed(b, FALSE) /\ Checked(b, "interaction", FALSE) /\ UNCHANGED port
    /\ UNCHANGED <<alone, deaths>>

\* The verifier lists no action, so that the browser opens an empty page and
\* reports no error: all that is checked is that it could be launched.
Browse(b) ==
    /\ build[b].at = "browse"
    /\ \E ok \in BOOLEAN : Browsed(b, ok) /\ Checked(b, "interaction", ok)
    /\ Stops(b)
    /\ UNCHANGED <<alone, deaths>>

-----------------------------------------------------------------------------
(* The report, the deliveries and the controller *)

\* The report: the evaluator's verdict on tests and security, and the last
\* answers of the two verifiers
Passed(ok) == Checks \subseteq ok

\* delivery.deliver() begins a build, and with it an evaluation, anew
Delivering(b, cycle, delivery) ==
    [NewBuild EXCEPT !.at = "generate", !.cycle = cycle, !.delivery = delivery]

\* The controller's next round, if there is one
NextCycle(b, ready) ==
    IF build[b].cycle < MaxCycles THEN Delivering(b, build[b].cycle + 1, 1)
    ELSE [build[b] EXCEPT !.at = "compact", !.ready = ready]

\* The security council reads the workspace; the project goes to the
\* controller, unless it comes from a delivery that has to try again or gives up.
Review(b) ==
    /\ build[b].at = "review"
    /\ \E secure \in BOOLEAN :
         LET ready == Passed(Outcome(b, "security", secure))
         IN  /\ build' = [build EXCEPT ![b] =
                  CASE ready \/ @.delivery = 0 -> [@ EXCEPT !.at = "council", !.ready = ready,
                                                             !.ok = Outcome(b, "security", secure)]
                    [] ~ready /\ @.delivery \in 1 .. MaxDeliveries - 1 ->
                         Delivering(b, @.cycle, @.delivery + 1)
                    [] OTHER -> NextCycle(b, FALSE)]
             /\ Checked(b, "security", secure)
    /\ UNCHANGED <<port, alone, deaths>>

\* The scans of the council give the same verdict on the same tree
Verdicts(b) == IF alone[b] THEN {"security" \in build[b].ok} ELSE BOOLEAN

\* The controller has the council review the project once more, unless the
\* policy lets it execute nothing
Council(b) ==
    /\ build[b].at = "council"
    /\ \/ \E secure \in Verdicts(b) :
            /\ build' = [build EXCEPT ![b] = IF secure THEN [@ EXCEPT !.at = "promote"]
                                                      ELSE NextCycle(b, @.ready)]
            /\ Checked(b, "security", secure)
       \/ /\ build[b].cycle = 1
          /\ build' = [build EXCEPT ![b].at = "compact", ![b].ready = FALSE]
          /\ UNCHANGED holds
    /\ UNCHANGED <<port, alone, deaths>>

\* The promotion gates, then CI; a promotion may be followed by an exception,
\* of the policy for one
Promote(b) ==
    /\ build[b].at = "promote"
    /\ \/ build' = [build EXCEPT ![b] = NextCycle(b, @.ready)]
       \/ build[b].ready /\ Goto(b, "compact")
       \/ Throw(b)
    /\ UNCHANGED <<holds, port, alone, deaths>>

\* compactResult(): the files of the workspace, and productionReady of the
\* project that was evaluated last
Compact(b) ==
    /\ build[b].at = "compact"
    /\ build' = [build EXCEPT ![b].at = "answered", ![b].verified = holds[b]]
    /\ UNCHANGED <<holds, port, alone, deaths>>

\* The API kills the process, its application stays
Die(b) ==
    /\ UnderWay(b) /\ deaths < MaxDeaths
    /\ Goto(b, "dead")
    /\ deaths' = deaths + 1
    /\ UNCHANGED <<holds, port, alone>>

Next ==
    \E b \in Builds :
      \/ Start(b) \/ Generate(b) \/ Write(b)
      \/ Test(b) \/ StartApplication(b) \/ Probe(b) \/ Launch(b) \/ Browse(b)
      \/ Review(b) \/ Council(b) \/ Promote(b) \/ Compact(b) \/ Die(b)

Spec == Init /\ [][Next]_vars

-----------------------------------------------------------------------------
\* A build that had the workspace to itself and answers that its project is
\* ready for production answers with files on which each of its checks was
\* made, and none of them before a later repair.
\* (autonomous-build-pipeline.js:26-139, jora-async-worker.js:48-90)
AnsweredAsVerified ==
    \A b \in Builds :
      build[b].at = "answered" /\ build[b].ready /\ alone[b] => build[b].verified = Checks
=============================================================================
