------------------------------ MODULE MCProject ------------------------------
(***************************************************************************)
(* The instance of ProjectParts that TLC checks.                           *)
(***************************************************************************)
EXTENDS ProjectParts, TLC

\* Where the engines rest: one of their initial states
EnginesRest ==
    /\ ~wanted /\ signals = {}
    /\ \A f \in DOMAIN tree : /\ tree[f].there <=> f \in {"html", "server"}
                              /\ tree[f].marks \subseteq {"needle"}

OneInit == AllInit /\ (part = "engines" \/ EnginesRest)

OneSpec == OneInit /\ [][AllNext]_allVars

-----------------------------------------------------------------------------

\* Bounds: what the build left beside the project's files makes no difference
\* to the work on them, so that work is explored without a leaked preview, and
\* after a build that could read its missions; a project is modified beside one
\* worker at a time, in its first cycle and before two ever met or one could not
\* read a file; and two workers, or two builds, that met, and a worker that could
\* not read a file, are followed to the end of the first cycle.
Under == {w \in Workers : worker[w].at # "idle"}
OneAtATime ==
    /\ (Under # {} \/ modifying # "idle") => previews = 0 /\ ~misread
    /\ modifying = "idle" \/ (~together /\ ~blind /\ Cardinality(Under) <= 1 /\ workerFile.cycle <= 1)
    /\ together \/ blind => \A w \in Workers : worker[w].cycle <= 1
    /\ (\E b \in Workers : ~alone[b]) => \A b \in Workers : build[b].cycle <= 1

\* The two names are interchangeable
WorkerSymmetry == Permutations(Workers)

=============================================================================
