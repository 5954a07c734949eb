---------------------------- MODULE SourceEngines ----------------------------
(***************************************************************************)
(* The engines that change the files of a project: code reasoning patches  *)
(* a source file and tests it; feature evolution, implementation and       *)
(* integration, architecture generation and architecture reasoning plan    *)
(* creations and patches, apply them one file at a time, run the tests,    *)
(* and take the changes back, each in its own way, when a step fails.      *)
(* Of a file, the model keeps the marks that the plans look for.           *)
(***************************************************************************)
EXTENDS Naturals, Sequences, FiniteSets

CONSTANTS
    MaxModifications,   \* later modifications of the project (a bound)
    MaxFaults           \* file operations that fail (a bound)

Engines == {"source", "evolution", "implementation", "integration", "generation", "architecture"}
Order == <<"none", "source", "evolution", "implementation", "integration", "generation",
           "architecture">>
Before(d, e) == \E i, j \in DOMAIN Order : i < j /\ Order[i] = d /\ Order[j] = e
Modifying == {"evolution", "implementation", "integration"}

Files == {"html", "server", "data", "api", "feature", "featureTest"}
Marks == {"feature", "needle", "broken", "route", "contract", "exports"}
File(marks) == [there |-> TRUE, torn |-> FALSE, marks |-> marks]
Missing == [there |-> FALSE, torn |-> FALSE, marks |-> {}]
Torn == [there |-> TRUE, torn |-> TRUE, marks |-> {}]

VARIABLES
    tree,        \* the files of the project
    wanted,      \* the request names the feature
    signals,     \* contract modules that the blueprint calls for
    at,          \* "idle", "apply", "test" or "rollback"
    engine,      \* the engine at work, or the last one
    edits,       \* edits of its plan still to apply
    undo,        \* what it takes back if it fails: a file and its old content
    report,      \* the status it returned
    modifications, faults,
    before,      \* history: the files when the engine began
    spoiled      \* history: files it wrote or restored in part

vars == <<tree, wanted, signals, at, engine, edits, undo, report, modifications, faults,
          before, spoiled>>

Init ==
    /\ tree \in [html : {File({}), File({"feature"})},
                 server : {File({"needle"}), File({"broken"})},
                 api : {Missing, File({"exports"})},
                 data : {Missing, File({})},
                 feature : {Missing, File({})},
                 featureTest : {Missing, File({})}]
    /\ wanted \in BOOLEAN /\ signals \in SUBSET {"data", "api"}
    /\ at = "idle" /\ engine = "none" /\ edits = <<>> /\ undo = {}
    /\ report = "none" /\ modifications = 0 /\ faults = 0
    /\ before = tree /\ spoiled = {}

There(f) == tree[f].there
Has(f, mark) == mark \in tree[f].marks

-----------------------------------------------------------------------------
(* The plans *)

\* create: only where nothing is; patch: the file must have a mark, which the
\* patch may replace; write: over whatever is there.  An optional patch is
\* skipped where its mark is missing.
Create(f, marks) == [op |-> "create", file |-> f, needs |-> "none", marks |-> marks, optional |-> FALSE]
Patch(f, need, marks, optional) ==
    [op |-> "patch", file |-> f, needs |-> need, marks |-> marks, optional |-> optional]
Write(f) == [op |-> "write", file |-> f, needs |-> "none", marks |-> {}, optional |-> FALSE]

Only(condition, edit) == IF condition THEN <<edit>> ELSE <<>>

\* generateSourceRepairCandidates() of the failing health check
SourcePlan == Only(Has("server", "broken"), Patch("server", "broken", {"needle"}, FALSE))

EvolutionPlan == Only(wanted /\ ~There("feature"), Create("feature", {}))

\* the page and a test of the page; nothing if the page has the feature
ImplementationPlan ==
    IF wanted /\ ~Has("html", "feature")
    THEN <<Patch("html", "none", tree["html"].marks \cup {"feature"}, FALSE), Write("featureTest")>>
    ELSE <<>>

\* both contract modules, and a route before the health route
IntegrationPlan ==
    Only(wanted /\ ~There("data"), Create("data", {}))
    \o Only(wanted /\ ~There("api"), Create("api", {}))
    \o Only(wanted /\ ~Has("server", "route"),
            Patch("server", "needle", tree["server"].marks \cup {"route"}, FALSE))

\* the modules the blueprint calls for; a server beside an API contract is to
\* take its routes from it, whoever wrote the contract
GenerationPlan ==
    Only("data" \in signals /\ ~There("data"), Create("data", {}))
    \o Only("api" \in signals /\ ~There("api"), Create("api", {"exports"}))
    \o Only(There("api"),
            Patch("server", "needle", (tree["server"].marks \ {"needle"}) \cup {"contract"}, FALSE))

\* the same repair over each connected file that needs it
ArchitecturePlan(connected) ==
    Only("html" \in connected, Patch("html", "broken", {"needle"}, TRUE))
    \o Only("server" \in connected, Patch("server", "broken", {"needle"}, TRUE))

Plans(e) ==
    CASE e = "source" -> {SourcePlan}
      [] e = "evolution" -> {EvolutionPlan}
      [] e = "implementation" -> {ImplementationPlan}
      [] e = "integration" -> {IntegrationPlan}
      [] e = "generation" -> {GenerationPlan}
      [] e = "architecture" -> {ArchitecturePlan(c) : c \in SUBSET {"html", "server"}}

\* What an engine takes back before it has written anything: implementation
\* holds the page and removes the test whether it was there or not
FirstUndo(e) ==
    IF e = "implementation" THEN {[file |-> "html", old |-> tree["html"]],
                                  [file |-> "featureTest", old |-> Missing]}
    ELSE {}

-----------------------------------------------------------------------------
(* A call of an engine *)

Return(status) ==
    /\ at' = "idle" /\ report' = status
    /\ edits' = <<>> /\ undo' = {}

\* A build takes the engines in their order, each at most once; a modification
\* of the finished project takes the three feature engines again
Call(e) ==
    /\ at = "idle"
    /\ \/ /\ Before(engine, e)
          /\ modifications > 0 => e \in Modifying
          /\ UNCHANGED modifications
       \/ /\ e = "evolution" /\ engine # "none"
          /\ modifications < MaxModifications /\ modifications' = modifications + 1
    /\ engine' = e /\ before' = tree /\ spoiled' = {}
    /\ \E plan \in Plans(e) :
         IF plan = <<>> THEN Return("NOTHING_TO_DO")
         ELSE at' = "apply" /\ edits' = plan /\ undo' = FirstUndo(e) /\ report' = "none"
    /\ UNCHANGED <<tree, wanted, signals, faults>>

Taken == {u.file : u \in undo}
Undone(f) == [file |-> f, old |-> tree[f]]

\* The engines remember a file they patch before the write, and one they
\* create after it
Remembered(edit, written) ==
    IF /\ engine \notin {"source", "implementation"}
       /\ IF edit.op = "patch" THEN edit.file \notin Taken ELSE written
    THEN undo \cup {Undone(edit.file)}
    ELSE undo

Skipped(edit) ==
    \/ edit.op = "create" /\ There(edit.file)
    \/ edit.optional /\ ~Has(edit.file, edit.needs)
Refused(edit) ==
    /\ edit.op = "patch"
    /\ tree[edit.file].torn \/ (edit.needs # "none" /\ ~Has(edit.file, edit.needs))

\* The catch clause of the engine; code reasoning has none
GiveUp(taken) ==
    IF engine = "source" THEN Return("THROWN")
    ELSE at' = "rollback" /\ edits' = <<>> /\ undo' = taken /\ UNCHANGED report

\* architecture reasoning throws when no patch was applied
NextEdit(taken) ==
    /\ undo' = taken
    /\ UNCHANGED report
    /\ IF Tail(edits) = <<>>
       THEN IF engine = "architecture" /\ taken = {} THEN at' = "rollback" ELSE at' = "test"
       ELSE UNCHANGED at
    /\ edits' = Tail(edits)

Apply ==
    /\ at = "apply"
    /\ LET edit == Head(edits) IN
       IF Skipped(edit) THEN NextEdit(undo) /\ UNCHANGED tree
       ELSE IF Refused(edit) THEN GiveUp(undo) /\ UNCHANGED tree
       ELSE /\ tree' = [tree EXCEPT ![edit.file] = File(edit.marks)]
            /\ NextEdit(Remembered(edit, TRUE))
    /\ UNCHANGED <<wanted, signals, engine, modifications, faults, before, spoiled>>

\* A write that fails, with the file as it was or with part of the new text
Fault == faults < MaxFaults /\ faults' = faults + 1
ApplyFails ==
    /\ at = "apply" /\ Fault
    /\ LET edit == Head(edits) IN
       /\ ~Skipped(edit) /\ ~Refused(edit)
       /\ \E part \in BOOLEAN :
            /\ tree' = IF part THEN [tree EXCEPT ![edit.file] = Torn] ELSE tree
            /\ spoiled' = IF part THEN spoiled \cup {edit.file} ELSE spoiled
       /\ GiveUp(Remembered(edit, FALSE))
    /\ UNCHANGED <<wanted, signals, engine, modifications, before>>

\* The tests load the server, which may import what the API module lacks.
\* Code reasoning leaves a patch that fails, and finds no other one.
Loads == Has("server", "contract") => Has("api", "exports")
Test ==
    /\ at = "test"
    /\ \E passed \in (IF Loads THEN BOOLEAN ELSE {FALSE}) :
         IF passed THEN Return("KEPT")
         ELSE IF engine = "source" THEN Return("NOT_REPAIRED")
         ELSE at' = "rollback" /\ edits' = <<>> /\ UNCHANGED <<undo, report>>
    /\ UNCHANGED <<tree, wanted, signals, engine, modifications, faults, before, spoiled>>

\* implementation writes the page back before it removes the test
InTurn(u) == engine = "implementation" => u.file = "html" \/ "html" \notin Taken

\* Mutant: files that were created stay
RestorePatched ==
    /\ at = "rollback" /\ undo # {}
    /\ \E u \in undo :
         /\ tree' = IF u.old = Missing THEN tree ELSE [tree EXCEPT ![u.file] = u.old]
         /\ undo' = undo \ {u}
    /\ UNCHANGED <<wanted, signals, at, engine, edits, report, modifications, faults, before,
                   spoiled>>

\* One file is written back, or removed
Restore ==
    /\ at = "rollback" /\ undo # {}
    /\ \E u \in undo :
         /\ InTurn(u)
         /\ tree' = [tree EXCEPT ![u.file] = u.old]
         /\ undo' = undo \ {u}
    /\ UNCHANGED <<wanted, signals, at, engine, edits, report, modifications, faults, before,
                   spoiled>>

\* A file that cannot be written back: the engines go on with the next one,
\* but for architecture reasoning and the page of implementation, which throw
RestoreFails ==
    /\ at = "rollback" /\ undo # {} /\ Fault
    /\ \E u \in undo, part \in BOOLEAN :
         /\ InTurn(u)
         /\ tree' = IF part /\ u.old # Missing THEN [tree EXCEPT ![u.file] = Torn] ELSE tree
         /\ spoiled' = spoiled \cup {u.file}
         /\ IF engine = "architecture" \/ (engine = "implementation" /\ u.file = "html")
            THEN Return("THROWN")
            ELSE undo' = undo \ {u} /\ UNCHANGED <<at, edits, report>>
    /\ UNCHANGED <<wanted, signals, engine, modifications, before>>

RolledBack ==
    /\ at = "rollback" /\ undo = {}
    /\ Return("ROLLED_BACK")
    /\ UNCHANGED <<tree, wanted, signals, engine, modifications, faults, before, spoiled>>

Next ==
    \/ \E e \in Engines : Call(e)
    \/ Apply \/ ApplyFails \/ Test \/ Restore \/ RestoreFails \/ RolledBack

Spec == Init /\ [][Next]_vars

-----------------------------------------------------------------------------
(* Properties *)

TypeOK ==
    /\ tree \in [Files -> [there : BOOLEAN, torn : BOOLEAN, marks : SUBSET Marks]]
    /\ at \in {"idle", "apply", "test", "rollback"} /\ engine \in Engines \cup {"none"}
    /\ (at = "apply") = (edits # <<>>)
    /\ report \in {"none", "NOTHING_TO_DO", "KEPT", "NOT_REPAIRED", "ROLLED_BACK",
                   "THROWN"}
    /\ Taken \subseteq Files /\ spoiled \subseteq Files /\ faults \in 0 .. MaxFaults

\* What an engine says it has taken back leaves nothing behind.  Two things
\* stay: a file of which a write or a restore failed half way, and the deletion
\* of an earlier feature test, which implementation removes whether it had
\* written it or not.
TakenBackLeavesNothing ==
    report = "ROLLED_BACK" =>
      \A f \in Files :
        \/ tree[f] = before[f]
        \/ f \in spoiled
        \/ engine = "implementation" /\ f = "featureTest" /\ ~There(f)

=============================================================================
