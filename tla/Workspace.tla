------------------------------ MODULE Workspace ------------------------------
(***************************************************************************)
(* The git workspace all executions of a process share                     *)
(* (src/core/workspace-repository.js over src/core/local-git.js) and the   *)
(* GitHub repository it publishes to (src/core/github-rest-repository.js). *)
(*                                                                         *)
(* A tree is the set of builds whose files it contains, a commit is the    *)
(* sequence of trees of its history, so a fast-forward is an extension of  *)
(* a sequence.  Nothing serializes the git commands of the calls an        *)
(* execution makes with those of another: promoteCandidate() is one action *)
(* for each command that reads or moves HEAD, prepareCandidate() one for   *)
(* the checkout and one for what follows it.  The other calls move no HEAD *)
(* and are one action each.                                                *)
(***************************************************************************)
EXTENDS Naturals, Sequences, SequencesExt

CONSTANTS Execs,        \* execution ids (unique, so a candidate branch is new)
          MaxCycles,    \* maxCycles of the autonomous controller
          MaxRestarts   \* bound: restarts of the process

ASSUME WorkspaceBounds == MaxCycles \in Nat \ {0} /\ MaxRestarts \in Nat

VARIABLES
  local,     \* local[b]: the commit of local branch b
  head,      \* the branch that is checked out
  work,      \* the files in the working tree
  cand,      \* this.candidateBranch
  base,      \* this.baseBranch
  target,    \* targetBranch of the PromotionController, fixed at startup
  remote     \* remote[b]: the commit of branch b on GitHub

workspaceVars == <<local, head, work, cand, base, target, remote>>

\* Build 0 is JoraRuntime's own, the others are those of the repair cycles.
Builds == Execs \X (0..MaxCycles)
Trees == SUBSET Builds

Main == <<"main", 0>>
Candidate(e) == <<"candidate", e>>
Startup(n) == <<"startup", n>>
Branches == {Main} \cup {Candidate(e) : e \in Execs} \cup {Startup(n) : n \in 0..MaxRestarts}

Absent == <<>>
Tip(commit) == Last(commit)

WorkspaceTypeOK ==
  /\ local \in [Branches -> Seq(Trees)]
  /\ remote \in [Branches -> Seq(Trees)]
  /\ {head, cand, base, target} \subseteq Branches
  /\ work \in Trees

\* An empty repository after ensureReady() and the startup candidate of
\* createProductionJoraRuntime.
WorkspaceInit ==
  /\ local = [b \in Branches |-> IF b \in {Main, Startup(0)} THEN <<{}>> ELSE Absent]
  /\ head = Startup(0)
  /\ work = {}
  /\ cand = Startup(0)
  /\ base = Main
  /\ target = Main
  /\ remote = [b \in Branches |-> IF b = Main THEN <<{}>> ELSE Absent]

-----------------------------------------------------------------------------
\* prepareCandidate(): throw away the working tree and check out a new branch
\* off the base branch.
BranchOff(e) ==
  /\ local' = [local EXCEPT ![Candidate(e)] = local[base]]
  /\ head' = Candidate(e)
  /\ work' = Tip(local[base])
  /\ UNCHANGED <<cand, base, target, remote>>

\* The rest of prepareCandidate(), and of prepareFreshCandidate(): a fresh project
\* starts without the files of the branch, whichever is checked out by then.
NameCandidate(e, fresh) ==
  /\ cand' = Candidate(e)
  /\ work' = IF fresh THEN {} ELSE work
  /\ UNCHANGED <<local, head, base, target, remote>>

\* write(), for the files of one build.
Write(build) ==
  /\ work' = work \cup {build}
  /\ UNCHANGED <<local, head, cand, base, target, remote>>

\* Mutant: git commit -a, which leaves out the files git does not track yet.
CommitTracked ==
  /\ local' = [local EXCEPT ![head] = IF work \cap Tip(@) = Tip(@) THEN @ ELSE Append(@, work \cap Tip(@))]
  /\ UNCHANGED <<head, work, cand, base, target, remote>>

\* git add -A and commit, on whatever branch is checked out.
CommitWork ==
  /\ local' = [local EXCEPT ![head] = IF work = Tip(@) THEN @ ELSE Append(@, work)]
  /\ UNCHANGED <<head, work, cand, base, target, remote>>

\* publishCandidate(): a commit on the remote branch, or on the remote main
\* branch if it does not exist yet; the new tree is laid over the parent's.
Published(branch) ==
  LET parent == IF remote[branch] = Absent THEN remote[Main] ELSE remote[branch]
  IN Append(parent, Tip(parent) \cup work)

Publish(branch) ==
  /\ remote' = [remote EXCEPT ![branch] = Published(branch)]
  /\ UNCHANGED <<local, head, work, cand, base, target>>

\* updateRef without force: refused with 404 for an unknown ref and with 422
\* for anything but a fast-forward.
CanPromoteRemote(branch) ==
  /\ remote[branch] # Absent
  /\ remote[target] # Absent
  /\ IsPrefix(remote[target], remote[branch])

\* promoteBranch().
PromoteRemote(branch) ==
  /\ CanPromoteRemote(branch)
  /\ remote' = [remote EXCEPT ![target] = remote[branch]]
  /\ UNCHANGED <<local, head, work, cand, base, target>>

\* git checkout and git merge move what was not committed along.
Carried(tree, from, to) == (to \ (from \ tree)) \cup (tree \ from)

\* git checkout of a branch that exists.
Checkout(branch) ==
  /\ head' = branch
  /\ work' = Carried(work, Tip(local[head]), Tip(local[branch]))
  /\ UNCHANGED <<local, cand, base, target, remote>>

\* What git checkout and git merge may refuse to overwrite.
Dirty == work # Tip(local[head])

\* git merge --ff-only, into whatever branch is checked out.
CanMerge(branch) == IsPrefix(local[head], local[branch]) \/ IsPrefix(local[branch], local[head])
Merged(branch) == IF IsPrefix(local[head], local[branch]) THEN local[branch] ELSE local[head]

Merge(branch) ==
  /\ CanMerge(branch)
  /\ local' = [local EXCEPT ![head] = Merged(branch)]
  /\ work' = Carried(work, Tip(local[head]), Tip(Merged(branch)))
  /\ UNCHANGED <<head, cand, base, target, remote>>

\* A new process on the same directory: ensureReady() takes the branch it finds
\* checked out for the base branch, and the startup candidate branches off it.
Reopen(n) ==
  /\ base' = head
  /\ target' = head
  /\ local' = [local EXCEPT ![Startup(n)] = local[head]]
  /\ head' = Startup(n)
  /\ cand' = Startup(n)
  /\ work' = Tip(local[head])
  /\ UNCHANGED remote
=============================================================================
