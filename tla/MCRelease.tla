------------------------------ MODULE MCRelease ------------------------------
(* Configurations of the process for the model checker.                     *)
EXTENDS Release

\* What production-runtime.js composes without policy rules, on GitHub, with
\* the operator API running commands side by side.
DefaultOnGitHub ==
  [github |-> TRUE, scoreless |-> FALSE, mode |-> "none",
   cycles |-> 1, overlap |-> 2, fresh |-> {FALSE}, scores |-> {1}, faults |-> 1]
\* A local workspace and rules that ask for no scores, side by side: with faults,
\* or with repairs.
LocalOverlapping ==
  [github |-> FALSE, scoreless |-> TRUE, mode |-> "none", cycles |-> 1,
   overlap |-> 2, fresh |-> {TRUE}, scores |-> {1}, faults |-> 1]
LocalRepairing == [LocalOverlapping EXCEPT !.cycles = 2, !.faults = 0]
\* The worker, one command after the other, with each kind of deployment.
StagedWorker ==
  [github |-> TRUE, scoreless |-> TRUE, mode |-> "staged",
   cycles |-> 2, overlap |-> 1, fresh |-> BOOLEAN, scores |-> Scores, faults |-> 1]
DirectWorker ==
  [github |-> FALSE, scoreless |-> TRUE, mode |-> "direct",
   cycles |-> 1, overlap |-> 1, fresh |-> BOOLEAN, scores |-> Scores, faults |-> 2]

AllSettings == {DefaultOnGitHub, LocalOverlapping, LocalRepairing, StagedWorker, DirectWorker}
\* The documented claims, each without any fault.
Overlapping == {[DefaultOnGitHub EXCEPT !.faults = 0]}
DefaultAlone == {[DefaultOnGitHub EXCEPT !.overlap = 1, !.faults = 0]}
=============================================================================
