--------------------------- MODULE ReleaseProofs ----------------------------
(***************************************************************************)
(* What each call of the repository object preserves, for any commits:     *)
(* types, the branches everything starts from, and the history of every    *)
(* branch; and theorems about what Release records and serves, about its   *)
(* types, and about the champion in the history of the branches, for any   *)
(* executions, settings, scores, faults and restarts.                      *)
(***************************************************************************)
EXTENDS Release, TLAPS

(* The calls of the repository object                                      *)

Commits == Seq(Trees)

LEMMA PrefixReflexive == ASSUME NEW c \in Commits PROVE IsPrefix(c, c)
BY DEF IsPrefix, Commits

LEMMA PrefixElements ==
  ASSUME NEW c \in Commits, NEW d \in Commits
  PROVE IsPrefix(c, d) <=> Len(c) <= Len(d) /\ \A i \in 1..Len(c) : c[i] = d[i]
<1>1. CASE ~(Len(c) <= Len(d))
  BY <1>1 DEF IsPrefix
<1>2. CASE Len(c) <= Len(d)
  <2> DEFINE s == SubSeq(c, 1, Len(c))
             t == SubSeq(d, 1, Len(c))
  <2>1. /\ Len(c) \in Nat /\ Len(d) \in Nat
        /\ s \in Seq(Trees) /\ Len(s) = Len(c) /\ \A i \in 1..Len(c) : s[i] = c[i]
        /\ t \in Seq(Trees) /\ Len(t) = Len(c) /\ \A i \in 1..Len(c) : t[i] = d[i]
    BY <1>2 DEF Commits
  <2>2. s = t <=> \A i \in 1..Len(c) : c[i] = d[i]
    BY <2>1
  <2>3. QED
    BY <1>2, <2>2 DEF IsPrefix
<1>3. QED
  BY <1>1, <1>2

LEMMA PrefixTransitive ==
  ASSUME NEW c \in Commits, NEW d \in Commits, NEW h \in Commits, IsPrefix(c, d), IsPrefix(d, h)
  PROVE IsPrefix(c, h)
<1>1. Len(c) \in Nat /\ Len(d) \in Nat /\ Len(h) \in Nat
  BY DEF Commits
<1>2. QED
  BY <1>1, PrefixElements

LEMMA AbsentIsPrefix == ASSUME NEW c \in Commits PROVE IsPrefix(Absent, c)
BY DEF IsPrefix, Commits, Absent

LEMMA PrefixOfAppend ==
  ASSUME NEW c \in Commits, NEW t \in Trees
  PROVE Append(c, t) \in Commits /\ Append(c, t) # Absent /\ IsPrefix(c, Append(c, t))
<1> DEFINE d == Append(c, t)
<1>1. /\ d \in Commits /\ Len(d) = Len(c) + 1 /\ Len(c) \in Nat
      /\ \A i \in 1..Len(c) : c[i] = d[i]
  BY DEF Commits
<1> HIDE DEF d
<1>2. IsPrefix(c, d)
  BY <1>1, PrefixElements
<1>3. d # Absent
  BY <1>1 DEF Absent
<1> USE DEF d
<1>4. QED
  BY <1>1, <1>2, <1>3

\* An extension of a commit is a commit, not the absent branch.
LEMMA ExtensionNotAbsent ==
  ASSUME NEW c \in Commits, NEW d \in Commits, c # Absent, IsPrefix(c, d)
  PROVE d # Absent
<1>1. Len(c) \in Nat /\ Len(d) \in Nat /\ Len(c) # 0
  BY DEF Commits, Absent
<1>2. QED
  BY <1>1 DEF IsPrefix, Absent

LEMMA TipIsTree == ASSUME NEW c \in Commits, c # Absent PROVE Tip(c) \in Trees
<1>1. Len(c) \in Nat /\ Len(c) # 0
  BY DEF Commits, Absent
<1>2. QED
  BY <1>1 DEF Commits, Tip, Last

-----------------------------------------------------------------------------
\* The branches every call starts from exist.
Rooted ==
  /\ local[head] # Absent /\ local[target] # Absent
  /\ base = target
  /\ remote[Main] # Absent

\* No branch loses a commit, and no branch but those in created comes up.
BranchesGrow(created) ==
  /\ \A b \in Branches : IsPrefix(local[b], local'[b]) /\ IsPrefix(remote[b], remote'[b])
  /\ \A b \in Branches \ created : local[b] = Absent => local'[b] = Absent

Sound(created) == WorkspaceTypeOK' /\ Rooted' /\ BranchesGrow(created)

\* It is enough to look at the branches that change.
LEMMA OneLocalBranch ==
  ASSUME WorkspaceTypeOK, NEW b \in Branches, NEW c \in Commits,
         local' = [local EXCEPT ![b] = c], IsPrefix(local[b], c), UNCHANGED remote
  PROVE /\ local' \in [Branches -> Commits]
        /\ BranchesGrow({b})
        /\ local[b] # Absent => BranchesGrow({})
<1>1. local \in [Branches -> Commits] /\ remote \in [Branches -> Commits]
  BY DEF WorkspaceTypeOK, Commits
<1>2. QED
  BY <1>1, PrefixReflexive DEF BranchesGrow

LEMMA OneRemoteBranch ==
  ASSUME WorkspaceTypeOK, NEW b \in Branches, NEW c \in Commits,
         remote' = [remote EXCEPT ![b] = c], IsPrefix(remote[b], c), UNCHANGED local
  PROVE remote' \in [Branches -> Commits] /\ BranchesGrow({})
<1>1. local \in [Branches -> Commits] /\ remote \in [Branches -> Commits]
  BY DEF WorkspaceTypeOK, Commits
<1>2. QED
  BY <1>1, PrefixReflexive DEF BranchesGrow

LEMMA StillRooted ==
  ASSUME WorkspaceTypeOK, Rooted, local' \in [Branches -> Commits], remote' \in [Branches -> Commits],
         NEW created, BranchesGrow(created), UNCHANGED <<target, base>>, head' \in Branches,
         local'[head'] # Absent \/ head' \in {head, target}
  PROVE Rooted'
<1>1. /\ local \in [Branches -> Commits] /\ remote \in [Branches -> Commits]
      /\ head \in Branches /\ target \in Branches /\ Main \in Branches
  BY DEF WorkspaceTypeOK, Commits, Branches
<1>2. local'[head] # Absent /\ local'[target] # Absent /\ remote'[Main] # Absent
  BY <1>1, ExtensionNotAbsent DEF Rooted, BranchesGrow
<1>3. QED
  BY <1>1, <1>2 DEF Rooted

LEMMA NothingChanges ==
  ASSUME WorkspaceTypeOK, Rooted, UNCHANGED workspaceVars
  PROVE Sound({})
BY PrefixReflexive DEF WorkspaceTypeOK, Rooted, Sound, BranchesGrow, workspaceVars, Commits
-----------------------------------------------------------------------------
(* The calls.                                                              *)

\* What a type lemma needs of a tree that git carried to another commit.
LEMMA CarriedIsTree ==
  ASSUME NEW tree \in Trees, NEW from \in Trees, NEW to \in Trees
  PROVE Carried(tree, from, to) \in Trees
BY DEF Carried, Trees

LEMMA BranchOffSound ==
  ASSUME WorkspaceTypeOK, Rooted, NEW e \in Execs, local[Candidate(e)] = Absent, BranchOff(e)
  PROVE Sound({Candidate(e)})
<1>1. /\ Candidate(e) \in Branches /\ local[base] \in Commits /\ local[base] # Absent
      /\ base \in Branches
  BY DEF WorkspaceTypeOK, Rooted, Branches, Commits
<1>2. /\ local' \in [Branches -> Commits]
      /\ BranchesGrow({Candidate(e)})
  BY <1>1, OneLocalBranch, AbsentIsPrefix DEF BranchOff
<1>3. local'[head'] = local[base] /\ head' = Candidate(e)
  BY <1>1 DEF BranchOff, WorkspaceTypeOK
<1>4. work' \in Trees
  BY <1>1, TipIsTree DEF BranchOff
<1>5. remote' \in [Branches -> Commits]
  BY DEF BranchOff, WorkspaceTypeOK, Commits
<1>6. Rooted'
  BY <1>1, <1>2, <1>3, <1>5, StillRooted DEF BranchOff
<1>7. WorkspaceTypeOK'
  BY <1>1, <1>2, <1>3, <1>4, <1>5 DEF BranchOff, WorkspaceTypeOK, Commits
<1>8. QED
  BY <1>2, <1>6, <1>7 DEF Sound

LEMMA NameCandidateSound ==
  ASSUME WorkspaceTypeOK, Rooted, NEW e \in Execs, NEW fresh, NameCandidate(e, fresh)
  PROVE Sound({})
<1>1. work' \in Trees /\ cand' \in Branches
  BY DEF NameCandidate, WorkspaceTypeOK, Trees, Branches
<1>2. QED
  BY <1>1, PrefixReflexive DEF NameCandidate, WorkspaceTypeOK, Rooted, Sound, BranchesGrow, Commits

LEMMA WriteSound ==
  ASSUME WorkspaceTypeOK, Rooted, NEW build \in Builds, Write(build)
  PROVE Sound({})
<1>1. work' \in Trees
  BY DEF Write, WorkspaceTypeOK, Trees
<1>2. QED
  BY <1>1, PrefixReflexive DEF Write, WorkspaceTypeOK, Rooted, Sound, BranchesGrow, Commits

LEMMA CommitWorkSound ==
  ASSUME WorkspaceTypeOK, Rooted, CommitWork
  PROVE Sound({})
<1> DEFINE c == IF work = Tip(local[head]) THEN local[head] ELSE Append(local[head], work)
<1>1. local[head] \in Commits /\ head \in Branches /\ work \in Trees /\ local[head] # Absent
  BY DEF WorkspaceTypeOK, Rooted, Commits
<1>2. local' = [local EXCEPT ![head] = c] /\ UNCHANGED remote
  BY DEF CommitWork
<1>3. c \in Commits /\ IsPrefix(local[head], c)
  BY <1>1, PrefixOfAppend, PrefixReflexive
<1> HIDE DEF c
<1>4. local' \in [Branches -> Commits] /\ BranchesGrow({})
  BY <1>1, <1>2, <1>3, OneLocalBranch
<1>5. remote' \in [Branches -> Commits] /\ WorkspaceTypeOK'
  BY <1>4 DEF CommitWork, WorkspaceTypeOK, Commits
<1>6. Rooted'
  BY <1>1, <1>4, <1>5, StillRooted DEF CommitWork
<1>7. QED
  BY <1>4, <1>5, <1>6 DEF Sound

LEMMA PublishSound ==
  ASSUME WorkspaceTypeOK, Rooted, NEW branch \in Branches, Publish(branch)
  PROVE Sound({}) /\ Published(branch) \in Commits /\ remote'[branch] = Published(branch)
<1> DEFINE parent == IF remote[branch] = Absent THEN remote[Main] ELSE remote[branch]
           t == Tip(parent) \cup work
<1>1. /\ remote[branch] \in Commits /\ remote[Main] \in Commits /\ remote[Main] # Absent
      /\ work \in Trees /\ head \in Branches
  BY DEF WorkspaceTypeOK, Rooted, Commits, Branches
<1>2. parent \in Commits /\ parent # Absent /\ t \in Trees
  <2>1. parent \in Commits /\ parent # Absent
    BY <1>1
  <2>2. Tip(parent) \in Trees
    BY <2>1, TipIsTree
  <2>3. QED
    BY <1>1, <2>1, <2>2 DEF Trees
<1>3. IsPrefix(remote[branch], parent)
  BY <1>1, AbsentIsPrefix, PrefixReflexive
<1>4. Published(branch) = Append(parent, t)
  BY DEF Published
<1> HIDE DEF parent, t
<1>5. Published(branch) \in Commits /\ IsPrefix(remote[branch], Published(branch))
  BY <1>1, <1>2, <1>3, <1>4, PrefixOfAppend, PrefixTransitive
<1>6. remote' \in [Branches -> Commits] /\ BranchesGrow({})
  BY <1>5, OneRemoteBranch DEF Publish
<1>7. WorkspaceTypeOK' /\ local' \in [Branches -> Commits]
  BY <1>6 DEF Publish, WorkspaceTypeOK, Commits
<1>8. Rooted'
  BY <1>1, <1>6, <1>7, StillRooted DEF Publish
<1>9. remote'[branch] = Published(branch)
  BY DEF Publish, WorkspaceTypeOK
<1>10. QED
  BY <1>5, <1>6, <1>7, <1>8, <1>9 DEF Sound

LEMMA PromoteRemoteSound ==
  ASSUME WorkspaceTypeOK, Rooted, NEW branch \in Branches, PromoteRemote(branch)
  PROVE Sound({}) /\ remote'[target] = remote[branch]
<1>1. remote[branch] \in Commits /\ target \in Branches /\ head \in Branches
  BY DEF WorkspaceTypeOK, Commits
<1>2. remote' \in [Branches -> Commits] /\ BranchesGrow({})
  BY <1>1, OneRemoteBranch DEF PromoteRemote, CanPromoteRemote
<1>3. WorkspaceTypeOK' /\ local' \in [Branches -> Commits]
  BY <1>2 DEF PromoteRemote, WorkspaceTypeOK, Commits
<1>4. Rooted'
  BY <1>1, <1>2, <1>3, StillRooted DEF PromoteRemote
<1>5. remote'[target] = remote[branch]
  BY <1>1 DEF PromoteRemote, WorkspaceTypeOK
<1>6. QED
  BY <1>2, <1>3, <1>4, <1>5 DEF Sound

\* A fast-forward only ever extends the branch that is checked out.
LEMMA MergedExtends ==
  ASSUME WorkspaceTypeOK, Rooted, NEW branch \in Branches, CanMerge(branch)
  PROVE /\ Merged(branch) \in Commits /\ Merged(branch) # Absent
        /\ IsPrefix(local[head], Merged(branch))
<1>1. local[branch] \in Commits /\ local[head] \in Commits /\ local[head] # Absent
  BY DEF WorkspaceTypeOK, Rooted, Commits
<1>2. Merged(branch) \in Commits /\ IsPrefix(local[head], Merged(branch))
  BY <1>1, PrefixReflexive DEF Merged
<1>3. QED
  BY <1>1, <1>2, ExtensionNotAbsent

LEMMA MergeSound ==
  ASSUME WorkspaceTypeOK, Rooted, NEW branch \in Branches, Merge(branch)
  PROVE Sound({}) /\ local'[head] = Merged(branch)
<1>1. /\ head \in Branches /\ work \in Trees
      /\ local[head] \in Commits /\ local[head] # Absent
  BY DEF WorkspaceTypeOK, Rooted, Commits
<1>2. /\ Merged(branch) \in Commits /\ Merged(branch) # Absent
      /\ IsPrefix(local[head], Merged(branch))
  BY MergedExtends DEF Merge
<1>3. local' \in [Branches -> Commits] /\ BranchesGrow({}) /\ local'[head] = Merged(branch)
  BY <1>1, <1>2, OneLocalBranch DEF Merge, WorkspaceTypeOK
<1>4. work' \in Trees
  BY <1>1, <1>2, TipIsTree, CarriedIsTree DEF Merge
<1>5. WorkspaceTypeOK' /\ remote' \in [Branches -> Commits]
  BY <1>3, <1>4 DEF Merge, WorkspaceTypeOK, Commits
<1>6. Rooted'
  BY <1>1, <1>3, <1>5, StillRooted DEF Merge
<1>7. QED
  BY <1>3, <1>5, <1>6 DEF Sound

LEMMA CheckoutSound ==
  ASSUME WorkspaceTypeOK, Rooted, NEW branch \in Branches, local[branch] # Absent, Checkout(branch)
  PROVE Sound({})
<1>1. /\ head \in Branches /\ work \in Trees
      /\ local[branch] \in Commits
      /\ local[head] \in Commits /\ local[head] # Absent
  BY DEF WorkspaceTypeOK, Rooted, Commits
<1>2. work' \in Trees
  BY <1>1, TipIsTree, CarriedIsTree DEF Checkout
<1>3. WorkspaceTypeOK' /\ Rooted' /\ BranchesGrow({})
  BY <1>2, PrefixReflexive DEF Checkout, WorkspaceTypeOK, Rooted, BranchesGrow, Commits
<1>4. QED
  BY <1>3 DEF Sound

LEMMA ReopenSound ==
  ASSUME WorkspaceTypeOK, Rooted, NEW n \in 0..MaxRestarts, local[Startup(n)] = Absent, Reopen(n)
  PROVE Sound({Startup(n)})
<1>1. /\ Startup(n) \in Branches /\ head \in Branches
      /\ local[head] \in Commits /\ local[head] # Absent
  BY DEF WorkspaceTypeOK, Rooted, Branches, Commits
<1>2. local' \in [Branches -> Commits] /\ BranchesGrow({Startup(n)})
  BY <1>1, OneLocalBranch, AbsentIsPrefix DEF Reopen
<1>3. local'[head'] # Absent /\ local'[target'] # Absent
  BY <1>1 DEF Reopen, WorkspaceTypeOK
<1>4. work' \in Trees
  BY <1>1, TipIsTree DEF Reopen
<1>5. WorkspaceTypeOK'
  BY <1>1, <1>2, <1>4 DEF Reopen, WorkspaceTypeOK, Commits
<1>6. Rooted'
  BY <1>3 DEF Reopen, Rooted
<1>7. QED
  BY <1>2, <1>5, <1>6 DEF Sound

-----------------------------------------------------------------------------
(* Records and deployments                                                 *)

\* The part of the type invariant these proofs need.
ControlOK ==
  /\ pc \in [Execs -> Places]
  /\ record \in [Execs -> {"none", "RUNNING", "PROMOTED", "COMPLETED", "FAILED"}]
  /\ landed \in [Execs -> {"no", "remote", "both"}]
  /\ DeploymentTypeOK

\* Where an execution may be before its promotion has moved any branch, and
\* where it is on the way to the target and beyond.
Before == {"new", "prepare", "build", "head", "review", "promote", "publish", "ci", "mergeRemote"}
Merging == {"checkout", "merge", "merged", "back"}
After == {"mergeLocal", "champion", "decide", "deploying"} \cup Merging

\* On GitHub the target moved first.
Stands(e) == settings.github => landed[e] # "no"

PhaseInv(e) ==
  /\ pc[e] \in Before => landed[e] = "no"
  /\ pc[e] \in After => Stands(e)
  /\ pc[e] # "done" => record[e] \notin {"PROMOTED", "COMPLETED"}
  /\ pc[e] = "deploying" => mode # "none" /\ at[e] # "idle"

\* What deploy() of e has done so far, and in which environment it is at work.
Working(e) == pc[e] = "deploying" /\ at[e] \notin {"ended", "threw"}

DeployInv(e) ==
  /\ pc[e] \notin {"deploying", "done", "dead"} =>
       at[e] = "idle" /\ outcome[e] = NotDeployed /\ \A n \in Envs : e \notin serving[n]
  /\ Working(e) =>
       /\ outcome[e][env[e]] = "none" /\ outcome[e]["production"] = "none"
       /\ mode = "staged" => env[e] = "staging" \/ outcome[e]["staging"] = "DEPLOYED"
  /\ \A n \in Envs : e \in serving[n] =>
       /\ Stands(e)
       /\ n = "production" /\ mode = "staged" => outcome[e]["staging"] = "DEPLOYED"
  /\ \A n \in Envs : outcome[e][n] = "ROLLED_BACK" => e \notin serving[n]

RecordInv(e) ==
  /\ record[e] = "PROMOTED" => Stands(e)
  /\ record[e] = "COMPLETED" => landed[e] = "no"

ReleaseInv == ControlOK /\ \A e \in Execs : PhaseInv(e) /\ DeployInv(e) /\ RecordInv(e)

LEMMA ReleaseInit == Init => ReleaseInv
<1> SUFFICES ASSUME Init PROVE ReleaseInv
  OBVIOUS
<1>1. mode \in Modes
  BY SettingsAreSettings DEF Init
<1>2. ControlOK
  BY <1>1, VersionsAreExecutions DEF Init, DeploymentInit, ControlOK, DeploymentTypeOK, Places, Awaits,
     Envs, Statuses, NotDeployed
<1>3. ASSUME NEW e \in Execs PROVE PhaseInv(e) /\ DeployInv(e) /\ RecordInv(e)
  BY VersionsAreExecutions DEF Init, DeploymentInit, PhaseInv, DeployInv, RecordInv, Before, After,
     Merging, Stands, Working, NotDeployed, Envs
<1>4. QED
  BY <1>2, <1>3 DEF ReleaseInv

-----------------------------------------------------------------------------
(* Steps of an execution that has not begun, or has ended, its deployment. *)

\* The steps that only move an execution through its phases.
Moves(e) ==
  \/ Accept(e) \/ Prepare(e) \/ Build(e) \/ Deliver(e) \/ BuildBlocked(e) \/ Review(e) \/ Refuse(e)
  \/ CommitCandidate(e) \/ PublishCandidate(e) \/ CIReview(e) \/ MergeRemote(e)
  \/ ReadHead(e) \/ CheckoutTarget(e) \/ MergeLocal(e) \/ ReadMerged(e) \/ CheckoutBack(e)
  \/ PromoteChampion(e)

\* Everything a move may do to the variables of these invariants.
MoveOf(e, place, lands) ==
  /\ pc[e] \in Before \cup (After \ {"deploying"})
  /\ place \in (Before \ {"new"}) \cup (After \ {"deploying"})
  /\ pc' = [pc EXCEPT ![e] = place]
  /\ landed' = [landed EXCEPT ![e] = lands]
  /\ lands \in {"no", "remote", "both"}
  /\ place \in Before => lands = "no"
  /\ place \in After /\ settings.github => lands # "no"
  /\ record' \in {record, [record EXCEPT ![e] = "RUNNING"]}
  /\ UNCHANGED <<deploymentVars, settings>>

LEMMA MovesAreMoves ==
  ASSUME NEW e \in Execs, ReleaseInv, Moves(e)
  PROVE \E place, lands : MoveOf(e, place, lands)
<1>1. /\ landed = [landed EXCEPT ![e] = landed[e]] /\ landed[e] \in {"no", "remote", "both"}
      /\ pc[e] \in Before => landed[e] = "no"
      /\ pc[e] \in After /\ settings.github => landed[e] # "no"
  BY DEF ReleaseInv, ControlOK, PhaseInv, Stands
<1>2. ASSUME NEW place, Goto(e, place), UNCHANGED <<landed, deploymentVars, settings>>,
             record' \in {record, [record EXCEPT ![e] = "RUNNING"]},
             \/ pc[e] \in Before /\ place \in Before \ {"new"}
             \/ pc[e] = "promote" /\ place = "mergeLocal" /\ ~settings.github
             \/ pc[e] \in After \ {"deploying"} /\ place \in After \ {"deploying"}
      PROVE MoveOf(e, place, landed[e])
  <2>1. After \cap Before = {}
    BY DEF After, Before, Merging
  <2>2. "promote" \in Before /\ "mergeLocal" \in After
    BY DEF After, Before
  <2>3. QED
    BY <1>1, <1>2, <2>1, <2>2 DEF MoveOf, Goto
<1>3. CASE Accept(e) \/ Prepare(e) \/ Build(e)
  <2>1. \E place \in {"prepare", "build", "head"} : Goto(e, place)
    BY <1>3 DEF Accept, Prepare, Build
  <2>2. /\ UNCHANGED <<landed, deploymentVars, settings>> /\ pc[e] \in Before
        /\ record' \in {record, [record EXCEPT ![e] = "RUNNING"]}
    BY <1>3 DEF Accept, Prepare, Build, released, Before
  <2>3. QED
    BY <1>2, <2>1, <2>2 DEF Before
<1>4. CASE \/ Deliver(e) \/ BuildBlocked(e) \/ Review(e) \/ Refuse(e)
           \/ PublishCandidate(e) \/ CIReview(e)
  <2>1. \E place \in {"head", "review", "promote", "ci", "mergeRemote"} : Goto(e, place)
    BY <1>4 DEF Deliver, BuildBlocked, Review, Refuse, PublishCandidate, CIReview, NextCycle
  <2>2. UNCHANGED <<landed, deploymentVars, settings, record>> /\ pc[e] \in Before
    BY <1>4 DEF Deliver, BuildBlocked, Review, Refuse, PublishCandidate, CIReview, inLoop, released,
       Before
  <2>3. QED
    BY <1>2, <2>1, <2>2 DEF Before
<1>5. CASE CommitCandidate(e)
  <2>1. /\ pc[e] = "promote" /\ Goto(e, IF settings.github THEN "publish" ELSE "mergeLocal")
        /\ UNCHANGED <<landed, deploymentVars, settings, record>>
    BY <1>5 DEF CommitCandidate, inLoop, released
  <2>2. QED
    BY <1>2, <2>1 DEF Before
<1>6. CASE MergeRemote(e)
  <2>1. MoveOf(e, "mergeLocal", "remote")
    BY <1>6 DEF MergeRemote, Goto, released, MoveOf, Before, After, Merging
  <2>2. QED
    BY <2>1
<1>7. CASE ReadHead(e) \/ CheckoutTarget(e) \/ ReadMerged(e) \/ CheckoutBack(e)
  <2>1. /\ pc[e] \in {"mergeLocal"} \cup Merging
        /\ \E place \in Merging \cup {"champion"} : Goto(e, place)
    BY <1>7 DEF ReadHead, CheckoutTarget, ReadMerged, CheckoutBack, Merging
  <2>2. UNCHANGED <<landed, deploymentVars, settings, record>>
    BY <1>7 DEF ReadHead, CheckoutTarget, ReadMerged, CheckoutBack, inLoop, released
  <2>3. QED
    BY <1>2, <2>1, <2>2 DEF After, Merging
<1>8. CASE MergeLocal(e)
  <2> DEFINE lands == IF head = target THEN "both" ELSE landed[e]
  <2>1. /\ pc[e] = "merge" /\ pc' = [pc EXCEPT ![e] = "merged"]
        /\ landed' = [landed EXCEPT ![e] = lands]
        /\ UNCHANGED <<deploymentVars, settings, record>>
    BY <1>8 DEF MergeLocal, Goto, released
  <2>2. lands \in {"no", "remote", "both"} /\ (settings.github => lands # "no")
    BY <1>1, <2>1 DEF After, Merging
  <2>3. MoveOf(e, "merged", lands)
    BY <2>1, <2>2 DEF MoveOf, Before, After, Merging
  <2>4. QED
    BY <2>3
<1>9. CASE PromoteChampion(e)
  <2>1. /\ pc[e] = "champion" /\ Goto(e, "decide")
        /\ UNCHANGED <<landed, deploymentVars, settings, record>>
    BY <1>9 DEF PromoteChampion
  <2>2. QED
    BY <1>2, <2>1 DEF After
<1>10. QED
  BY <1>3, <1>4, <1>5, <1>6, <1>7, <1>8, <1>9 DEF Moves

LEMMA MovesKeep ==
  ASSUME NEW e \in Execs, ReleaseInv, Moves(e)
  PROVE ReleaseInv'
<1>1. PICK place, lands : MoveOf(e, place, lands)
  BY MovesAreMoves
<1>2. place \in Places /\ place \notin {"new", "deploying", "done", "dead"}
  BY <1>1 DEF MoveOf, Before, After, Merging, Places
<1>3. pc[e] \notin {"deploying", "done", "dead"}
  BY <1>1 DEF MoveOf, Before, After, Merging
<1>4. ControlOK'
  BY <1>1, <1>2 DEF MoveOf, ReleaseInv, ControlOK, DeploymentTypeOK, deploymentVars
<1>5. ASSUME NEW f \in Execs PROVE PhaseInv(f)' /\ DeployInv(f)' /\ RecordInv(f)'
  <2>1. PhaseInv(f) /\ DeployInv(f) /\ RecordInv(f)
    BY DEF ReleaseInv
  <2>2. CASE f # e
    <3>1. /\ pc'[f] = pc[f] /\ landed'[f] = landed[f] /\ record'[f] = record[f]
          /\ UNCHANGED <<deploymentVars, settings>>
      BY <1>1, <2>2 DEF MoveOf, ReleaseInv, ControlOK
    <3>2. QED
      BY <2>1, <3>1 DEF PhaseInv, DeployInv, RecordInv, Stands, Working, deploymentVars
  <2>3. CASE f = e
    <3>1. /\ pc'[e] = place /\ landed'[e] = lands /\ record'[e] \in {record[e], "RUNNING"}
          /\ UNCHANGED <<mode, serving, at, env, outcome, settings>>
      BY <1>1 DEF MoveOf, ReleaseInv, ControlOK, deploymentVars
    <3>2. record[e] \notin {"PROMOTED", "COMPLETED"}
      BY <1>3, <2>1, <2>3 DEF PhaseInv
    <3>3. PhaseInv(e)'
      BY <1>1, <1>2, <3>1, <3>2 DEF PhaseInv, Stands, MoveOf
    <3>4. DeployInv(e)'
      BY <1>2, <1>3, <2>1, <2>3, <3>1 DEF DeployInv, Working
    <3>5. RecordInv(e)'
      BY <3>1, <3>2 DEF RecordInv
    <3>6. QED
      BY <2>3, <3>3, <3>4, <3>5
  <2>4. QED
    BY <2>2, <2>3
<1>6. QED
  BY <1>4, <1>5 DEF ReleaseInv

-----------------------------------------------------------------------------
(* Steps that end an execution.                                            *)

Ends(e) ==
  \/ GiveUp(e) \/ PolicyBlocks(e) \/ PolicyDenies(e) \/ FinishPromoted(e) \/ Finish(e)
  \/ DeployThrew(e) \/ MergeThrows(e) \/ CallThrows(e) \/ PersistThrows(e)

\* What an end records has to be true of the execution.
EndOf(e, status) ==
  /\ pc[e] \notin {"new", "done", "dead"}
  /\ pc[e] = "deploying" => at[e] \in {"ended", "threw"}
  /\ pc' = [pc EXCEPT ![e] = "done"]
  /\ record' = [record EXCEPT ![e] = status]
  /\ UNCHANGED <<landed, deploymentVars, settings>>
  /\ status = "PROMOTED" => Stands(e) /\ pc[e] = "decide"
  /\ status = "COMPLETED" => landed[e] = "no"

\* The table has no transition from PRODUCTION to MONITORING.
LEMMA MonitoringUnreachable == ASSUME NEW e PROVE ~Allowed(e, <<"PRODUCTION", "MONITORING">>)
<1> DEFINE path == <<"PRODUCTION", "MONITORING">>
<1>1. Len(path) = 2 /\ path[1] = "PRODUCTION" /\ path[2] = "MONITORING" /\ 2 \in 1..Len(path)
  OBVIOUS
<1>2. "MONITORING" \notin Transitions["PRODUCTION"]
  <2>1. "PRODUCTION" \in States
    BY DEF States
  <2>2. Transitions["PRODUCTION"] = {"PRODUCTION_HEALTH", "FAILED", "ROLLED_BACK"}
    BY <2>1 DEF Transitions
  <2>3. QED
    BY <2>2
<1> HIDE DEF path
<1>3. ~Allowed(e, path)
  BY <1>1, <1>2 DEF Allowed
<1> QED
  BY <1>3 DEF path

LEMMA EndsAreEnds ==
  ASSUME NEW e \in Execs, ReleaseInv, Ends(e)
  PROVE \E status \in {"PROMOTED", "COMPLETED", "FAILED"} : EndOf(e, status)
<1>1. PhaseInv(e)
  BY DEF ReleaseInv
<1>2. CASE GiveUp(e) \/ PolicyBlocks(e)
  <2>1. EndOf(e, "COMPLETED")
    BY <1>1, <1>2 DEF GiveUp, PolicyBlocks, End, Goto, atRest, PhaseInv, Before, EndOf
  <2>2. QED
    BY <2>1
<1>3. CASE FinishPromoted(e)
  <2>1. EndOf(e, "PROMOTED")
    BY <1>1, <1>3 DEF FinishPromoted, End, Goto, atRest, PhaseInv, After, EndOf
  <2>2. QED
    BY <2>1
<1>4. CASE Finish(e)
  <2>1. EndOf(e, "FAILED")
    BY <1>1, <1>4, MonitoringUnreachable DEF Finish, End, Goto, atRest, EndOf
  <2>2. QED
    BY <2>1
<1>5. CASE PolicyDenies(e) \/ DeployThrew(e) \/ MergeThrows(e) \/ CallThrows(e) \/ PersistThrows(e)
  <2>1. EndOf(e, "FAILED")
    BY <1>5 DEF PolicyDenies, DeployThrew, MergeThrows, Refused, CallThrows, PersistThrows, InWorkspace,
       Places, End, Goto, atRest, released, EndOf
  <2>2. QED
    BY <2>1
<1>6. QED
  BY <1>2, <1>3, <1>4, <1>5 DEF Ends

LEMMA EndsKeep ==
  ASSUME NEW e \in Execs, ReleaseInv, Ends(e)
  PROVE ReleaseInv'
<1> PICK status \in {"PROMOTED", "COMPLETED", "FAILED"} : EndOf(e, status)
  BY EndsAreEnds
<1>1. ControlOK'
  BY DEF EndOf, ReleaseInv, ControlOK, DeploymentTypeOK, deploymentVars, Places
<1>2. ASSUME NEW f \in Execs PROVE PhaseInv(f)' /\ DeployInv(f)' /\ RecordInv(f)'
  <2>1. PhaseInv(f) /\ DeployInv(f) /\ RecordInv(f)
    BY DEF ReleaseInv
  <2>2. PhaseInv(f)'
    BY <2>1 DEF EndOf, ReleaseInv, ControlOK, PhaseInv, Stands, deploymentVars, Before, After, Merging
  <2>3. DeployInv(f)'
    BY <2>1 DEF EndOf, ReleaseInv, ControlOK, DeployInv, Stands, deploymentVars, Working
  <2>4. RecordInv(f)'
    BY <2>1 DEF EndOf, ReleaseInv, ControlOK, RecordInv, Stands, deploymentVars
  <2>5. QED
    BY <2>2, <2>3, <2>4
<1>3. QED
  BY <1>1, <1>2 DEF ReleaseInv

-----------------------------------------------------------------------------
(* Steps of a deployment.                                                  *)

Deploys(e) == StartDeployment(e) \/ DeploymentStep(e) \/ DeploymentFault(e)

\* A deployment step changes nothing of another execution's deployment.
LEMMA OthersUntouched ==
  ASSUME NEW e \in Execs, NEW f \in Execs, f # e, ReleaseInv, Deploys(e)
  PROVE /\ at'[f] = at[f] /\ env'[f] = env[f] /\ outcome'[f] = outcome[f]
        /\ \A n \in Envs : f \in serving'[n] <=> f \in serving[n]
        /\ pc'[f] = pc[f] /\ UNCHANGED <<mode, landed, record, settings>>
<1>1. ControlOK
  BY DEF ReleaseInv
<1>2. CASE StartDeployment(e)
  BY <1>1, <1>2, VersionsAreExecutions DEF StartDeployment, Deploy, Await, Goto, atRest, ControlOK,
     DeploymentTypeOK
<1>3. CASE DeploymentStep(e)
  BY <1>1, <1>3, VersionsAreExecutions DEF DeploymentStep, AdapterDeploys, HealthPasses, HealthFails,
     RollsBack, EndpointDeploys, EndpointWithdraws, Returns, Await, atRest, ControlOK, DeploymentTypeOK
<1>4. CASE DeploymentFault(e)
  <2>1. UNCHANGED <<atRest, pc, record>>
    BY <1>4 DEF DeploymentFault
  <2>2. CASE AdapterThrows(e)
    BY <1>1, <2>1, <2>2, VersionsAreExecutions DEF AdapterThrows, EndpointDeploys, Returns, Await, atRest,
       ControlOK, DeploymentTypeOK
  <2>3. CASE RecordThrows(e)
    BY <1>1, <2>1, <2>3, VersionsAreExecutions DEF RecordThrows, Await, atRest, ControlOK, DeploymentTypeOK
  <2>4. CASE ReportThrows(e)
    BY <1>1, <2>1, <2>4, VersionsAreExecutions DEF ReportThrows, EndpointDeploys, Await, atRest, ControlOK, DeploymentTypeOK
  <2>5. CASE RollbackThrows(e)
    BY <1>1, <2>1, <2>5, VersionsAreExecutions DEF RollbackThrows, EndpointWithdraws, Await, atRest,
       ControlOK, DeploymentTypeOK
  <2>6. QED
    BY <1>4, <2>2, <2>3, <2>4, <2>5 DEF DeploymentFault
<1>5. QED
  BY <1>2, <1>3, <1>4 DEF Deploys

\* What a return of a DeploymentController records.
LEMMA ReturnsOutcome ==
  ASSUME NEW v \in Versions, NEW status \in Statuses, DeploymentTypeOK, Returns(v, status)
  PROVE /\ outcome' \in [Versions -> [Envs -> Statuses]]
        /\ outcome'[v][env[v]] = status
        /\ \A n \in Envs : n # env[v] => outcome'[v][n] = outcome[v][n]
<1>1. outcome[v] \in [Envs -> Statuses] /\ env[v] \in Envs
  BY DEF DeploymentTypeOK
<1>2. outcome' = [outcome EXCEPT ![v] = [outcome[v] EXCEPT ![env[v]] = status]]
  BY DEF Returns
<1>3. QED
  BY <1>1, <1>2 DEF DeploymentTypeOK

LEMMA DeploysType ==
  ASSUME NEW e \in Execs, ReleaseInv, Deploys(e)
  PROVE ControlOK'
<1>1. ControlOK /\ e \in Versions
  BY VersionsAreExecutions DEF ReleaseInv
<1>2. CASE StartDeployment(e)
  BY <1>1, <1>2 DEF StartDeployment, Deploy, Await, Goto, atRest, ControlOK, DeploymentTypeOK,
     Places, Awaits, Envs
<1>3. CASE DeploymentStep(e)
  <2>1. serving' \in [Envs -> SUBSET Versions]
    BY <1>1, <1>3 DEF DeploymentStep, AdapterDeploys, HealthPasses, HealthFails, RollsBack,
       EndpointDeploys, EndpointWithdraws, ControlOK, DeploymentTypeOK
  <2>2. at' \in [Versions -> Awaits] /\ env' \in [Versions -> Envs]
    BY <1>1, <1>3 DEF DeploymentStep, AdapterDeploys, HealthPasses, HealthFails, RollsBack, Returns,
       Await, ControlOK, DeploymentTypeOK, Awaits, Envs
  <2>3. outcome' \in [Versions -> [Envs -> Statuses]]
    <3>1. UNCHANGED outcome \/ \E status \in Statuses : Returns(e, status)
      BY <1>3 DEF DeploymentStep, AdapterDeploys, HealthPasses, HealthFails, RollsBack, Statuses
    <3>2. QED
      BY <1>1, <3>1, ReturnsOutcome DEF ControlOK, DeploymentTypeOK
  <2>4. UNCHANGED <<mode, pc, landed, record>>
    BY <1>3 DEF DeploymentStep, AdapterDeploys, HealthPasses, HealthFails, RollsBack, Returns, atRest
  <2>5. QED
    BY <1>1, <2>1, <2>2, <2>3, <2>4 DEF ControlOK, DeploymentTypeOK
<1>4. CASE DeploymentFault(e)
  <2>1. serving' \in [Envs -> SUBSET Versions]
    BY <1>1, <1>4 DEF DeploymentFault, AdapterThrows, RecordThrows, ReportThrows, RollbackThrows,
       EndpointDeploys, EndpointWithdraws, ControlOK, DeploymentTypeOK
  <2>2. at' \in [Versions -> Awaits] /\ env' \in [Versions -> Envs]
    BY <1>1, <1>4 DEF DeploymentFault, AdapterThrows, RecordThrows, ReportThrows, RollbackThrows,
       Returns, Await, ControlOK, DeploymentTypeOK, Awaits, Envs
  <2>3. outcome' \in [Versions -> [Envs -> Statuses]]
    <3>1. UNCHANGED outcome \/ \E status \in Statuses : Returns(e, status)
      BY <1>4 DEF DeploymentFault, AdapterThrows, RecordThrows, ReportThrows, RollbackThrows, Statuses
    <3>2. QED
      BY <1>1, <3>1, ReturnsOutcome DEF ControlOK, DeploymentTypeOK
  <2>4. UNCHANGED <<mode, pc, landed, record>>
    BY <1>4 DEF DeploymentFault, AdapterThrows, RecordThrows, ReportThrows, RollbackThrows, Returns,
       atRest
  <2>5. QED
    BY <1>1, <2>1, <2>2, <2>3, <2>4 DEF ControlOK, DeploymentTypeOK
<1>5. QED
  BY <1>2, <1>3, <1>4 DEF Deploys
\* The deploying execution itself: one lemma for each thing a step can do.
LEMMA DeploysKeepOwn ==
  ASSUME NEW e \in Execs, ReleaseInv, Deploys(e)
  PROVE PhaseInv(e)' /\ DeployInv(e)' /\ RecordInv(e)'
<1>1. /\ ControlOK /\ DeploymentTypeOK /\ e \in Versions
      /\ PhaseInv(e) /\ DeployInv(e)
  BY VersionsAreExecutions DEF ReleaseInv, ControlOK
<1>2. pc[e] \in {"decide", "deploying"} /\ pc'[e] = "deploying" /\ UNCHANGED <<mode, landed, record, settings>>
  BY <1>1 DEF Deploys, StartDeployment, DeploymentStep, DeploymentFault, Deploy, Goto, atRest,
     AdapterDeploys, HealthPasses, HealthFails, RollsBack, AdapterThrows, RecordThrows, ReportThrows,
     RollbackThrows, Returns, ControlOK
<1>3. Stands(e) /\ Stands(e)' /\ record[e] \notin {"PROMOTED", "COMPLETED"}
  BY <1>1, <1>2 DEF PhaseInv, After, Stands
<1>4. RecordInv(e)'
  BY <1>2, <1>3 DEF RecordInv
<1>5. SUFFICES mode # "none" /\ at'[e] # "idle" /\ DeployInv(e)'
  BY <1>1, <1>2, <1>3, <1>4 DEF PhaseInv, Before
<1>6. CASE StartDeployment(e)
  <2>1. /\ mode # "none" /\ at'[e] = "deploying" /\ UNCHANGED <<serving, outcome>>
        /\ env'[e] = IF mode = "staged" THEN "staging" ELSE "production"
        /\ pc[e] = "decide"
    BY <1>1, <1>6 DEF StartDeployment, Deploy, Await, DeploymentTypeOK
  <2>2. outcome[e] = NotDeployed /\ \A n \in Envs : e \notin serving[n]
    BY <1>1, <2>1 DEF DeployInv
  <2>3. \A n \in Envs : outcome[e][n] = "none"
    BY <2>2 DEF NotDeployed
  <2>4. DeployInv(e)'
    BY <1>2, <2>1, <2>2, <2>3 DEF DeployInv, Working, Envs
  <2>5. QED
    BY <2>1, <2>4
<1>7. ASSUME pc[e] = "deploying", at[e] \notin {"ended", "threw"},
             NEW status \in Statuses, Returns(e, status),
             \A n \in Envs : e \in serving'[n] => e \in serving[n] \/ n = env[e],
             status = "ROLLED_BACK" => e \notin serving'[env[e]]
      PROVE mode # "none" /\ at'[e] # "idle" /\ DeployInv(e)'
  <2>1. /\ outcome[e][env[e]] = "none" /\ outcome[e]["production"] = "none"
        /\ mode = "staged" => env[e] = "staging" \/ outcome[e]["staging"] = "DEPLOYED"
    BY <1>1, <1>7 DEF DeployInv, Working
  <2>2. /\ outcome'[e][env[e]] = status
        /\ \A n \in Envs : n # env[e] => outcome'[e][n] = outcome[e][n]
    BY <1>1, <1>7, ReturnsOutcome
  <2>3. env[e] \in Envs
    BY <1>1 DEF DeploymentTypeOK
  <2>4. \/ at'[e] = "ended" /\ env'[e] = env[e]
        \/ /\ at'[e] = "deploying" /\ env'[e] = "production"
           /\ env[e] = "staging" /\ status = "DEPLOYED"
    BY <1>1, <1>7 DEF Returns, GoesToProduction, Await, DeploymentTypeOK
  <2>5. /\ mode # "none"
        /\ \A n \in Envs : e \in serving[n] =>
             (n = "production" /\ mode = "staged" => outcome[e]["staging"] = "DEPLOYED")
        /\ \A n \in Envs : outcome[e][n] = "ROLLED_BACK" => e \notin serving[n]
    BY <1>1, <1>7 DEF PhaseInv, DeployInv
  <2>6. DeployInv(e)'
    BY <1>2, <1>3, <1>7, <2>1, <2>2, <2>3, <2>4, <2>5 DEF DeployInv, Working, Envs
  <2>7. QED
    BY <2>4, <2>5, <2>6
<1>8. ASSUME pc[e] = "deploying", at[e] \notin {"ended", "threw"},
             UNCHANGED <<mode, env, outcome>>, at'[e] # "idle",
             \A n \in Envs : e \in serving'[n] => e \in serving[n] \/ n = env[e]
      PROVE mode # "none" /\ at'[e] # "idle" /\ DeployInv(e)'
  <2>1. DeployInv(e)'
    BY <1>1, <1>2, <1>3, <1>8 DEF DeployInv, Working, Envs
  <2>2. QED
    BY <1>1, <1>8, <2>1 DEF PhaseInv
<1>9. env[e] \in Envs /\ \A n \in Envs : n # env[e] => (EndpointDeploys(e) => serving'[n] = serving[n])
  BY <1>1 DEF DeploymentTypeOK, EndpointDeploys
<1>10. EndpointWithdraws(e) => /\ e \notin serving'[env[e]]
                               /\ \A n \in Envs : e \in serving'[n] => e \in serving[n]
  BY <1>1, <1>9 DEF DeploymentTypeOK, EndpointWithdraws
<1>11. CASE AdapterDeploys(e) /\ pc[e] = "deploying"
  BY <1>1, <1>8, <1>9, <1>11 DEF AdapterDeploys, Await, DeploymentTypeOK
<1>12. CASE HealthPasses(e) /\ pc[e] = "deploying"
  BY <1>7, <1>12 DEF HealthPasses, Statuses
<1>13. CASE (HealthFails(e) \/ RecordThrows(e)) /\ pc[e] = "deploying"
  BY <1>1, <1>8, <1>13 DEF HealthFails, RecordThrows, Await, DeploymentTypeOK
<1>14. CASE RollsBack(e) /\ pc[e] = "deploying"
  BY <1>7, <1>10, <1>14 DEF RollsBack, Statuses
<1>15. CASE AdapterThrows(e) /\ pc[e] = "deploying"
  BY <1>7, <1>9, <1>15 DEF AdapterThrows, Statuses
<1>16. CASE RollbackThrows(e) /\ pc[e] = "deploying"
  BY <1>1, <1>8, <1>10, <1>16 DEF RollbackThrows, Await, DeploymentTypeOK
<1>17. CASE ReportThrows(e) /\ pc[e] = "deploying"
  <2>1. at'[e] = "threw" /\ UNCHANGED <<mode, env, outcome>>
    BY <1>1, <1>17 DEF ReportThrows, Await, DeploymentTypeOK
  <2>2. CASE at[e] = "deploying"
    BY <1>8, <1>9, <1>17, <2>1, <2>2 DEF ReportThrows
  <2>3. CASE UNCHANGED serving
    <3>1. DeployInv(e)'
      BY <1>1, <1>2, <1>3, <1>17, <2>1, <2>3 DEF DeployInv, Working
    <3>2. QED
      BY <1>1, <1>17, <2>1, <3>1 DEF PhaseInv
  <2>4. QED
    BY <1>17, <2>2, <2>3 DEF ReportThrows
<1>18. QED
  BY <1>6, <1>11, <1>12, <1>13, <1>14, <1>15, <1>16, <1>17
     DEF Deploys, DeploymentStep, DeploymentFault
LEMMA DeploysKeep ==
  ASSUME NEW e \in Execs, ReleaseInv, Deploys(e)
  PROVE ReleaseInv'
<1>1. ASSUME NEW f \in Execs PROVE PhaseInv(f)' /\ DeployInv(f)' /\ RecordInv(f)'
  <2>1. CASE f = e
    BY <2>1, DeploysKeepOwn
  <2>2. CASE f # e
    <3>1. /\ at'[f] = at[f] /\ env'[f] = env[f] /\ outcome'[f] = outcome[f]
          /\ \A n \in Envs : f \in serving'[n] <=> f \in serving[n]
          /\ pc'[f] = pc[f] /\ UNCHANGED <<mode, landed, record, settings>>
      BY <2>2, OthersUntouched
    <3>2. PhaseInv(f) /\ DeployInv(f) /\ RecordInv(f)
      BY DEF ReleaseInv
    <3>3. QED
      BY <3>1, <3>2 DEF PhaseInv, DeployInv, RecordInv, Stands, Working
  <2>3. QED
    BY <2>1, <2>2
<1>2. QED
  BY <1>1, DeploysType DEF ReleaseInv

-----------------------------------------------------------------------------
(* The operator and the process.                                           *)

LEMMA RestartKeeps ==
  ASSUME ReleaseInv, Restart
  PROVE ReleaseInv'
<1>1. ControlOK
  BY DEF ReleaseInv
<1>2. /\ pc' = [e \in Execs |-> IF Active(e) THEN "dead" ELSE pc[e]]
      /\ at' = [v \in Versions |-> "idle"]
      /\ UNCHANGED <<record, landed, mode, serving, env, outcome, settings>>
  BY DEF Restart, DeploymentCrash
<1>3. ControlOK'
  BY <1>1, <1>2 DEF ControlOK, DeploymentTypeOK, Places, Awaits
<1>4. ASSUME NEW f \in Execs PROVE PhaseInv(f)' /\ DeployInv(f)' /\ RecordInv(f)'
  <2>1. /\ pc'[f] = IF pc[f] \notin {"new", "done", "dead"} THEN "dead" ELSE pc[f]
        /\ at'[f] = "idle"
    BY <1>2, VersionsAreExecutions DEF Active
  <2>2. PhaseInv(f) /\ DeployInv(f) /\ RecordInv(f)
    BY DEF ReleaseInv
  <2>3. PhaseInv(f)'
    BY <1>2, <2>1, <2>2 DEF PhaseInv, Before, After, Merging
  <2>4. DeployInv(f)'
    BY <1>2, <2>1, <2>2 DEF DeployInv, Stands, Working
  <2>5. RecordInv(f)'
    BY <1>2, <2>2 DEF RecordInv, Stands
  <2>6. QED
    BY <2>3, <2>4, <2>5
<1>5. QED
  BY <1>3, <1>4 DEF ReleaseInv

LEMMA Unchanged ==
  ASSUME ReleaseInv, UNCHANGED <<pc, record, landed, deploymentVars, settings>>
  PROVE ReleaseInv'
BY DEF ReleaseInv, ControlOK, DeploymentTypeOK, PhaseInv, DeployInv, RecordInv, Stands, Working,
   deploymentVars

LEMMA ReleaseStep == ReleaseInv /\ [Next]_vars => ReleaseInv'
<1> SUFFICES ASSUME ReleaseInv, [Next]_vars PROVE ReleaseInv'
  OBVIOUS
<1>1. ASSUME NEW e \in Execs, Moves(e) \/ Ends(e) \/ Deploys(e) PROVE ReleaseInv'
  BY <1>1, MovesKeep, EndsKeep, DeploysKeep
<1>2. CASE \E e \in Execs : \/ Accept(e) \/ ExecuteStep(e) \/ CallThrows(e) \/ PersistThrows(e)
                            \/ DeploymentFault(e)
  <2>1. \E e \in Execs : Moves(e) \/ Ends(e) \/ Deploys(e)
    BY <1>2 DEF ExecuteStep, LoopStep, Moves, Ends, Deploys
  <2>2. QED
    BY <1>1, <2>1
<1>3. CASE Stop
  BY <1>3, Unchanged DEF Stop, executionVars
<1>4. CASE Restart
  BY <1>4, RestartKeeps
<1>5. CASE UNCHANGED vars
  BY <1>5, Unchanged DEF vars, executionVars
<1>6. QED
  BY <1>2, <1>3, <1>4, <1>5 DEF Next

LEMMA ReleaseInvariant == Spec => []ReleaseInv
<1>1. QED
  BY ReleaseInit, ReleaseStep, PTL DEF Spec

-----------------------------------------------------------------------------
\* What DeploymentController reports as ROLLED_BACK is not served any more.
THEOREM RolledBackIsGone == Spec => []RolledBackNotServed
<1>1. ReleaseInv => RolledBackNotServed
  BY DEF ReleaseInv, DeployInv, RolledBackNotServed
<1>2. QED
  BY <1>1, ReleaseInvariant, PTL

-----------------------------------------------------------------------------
(* Types, and the growth of the branches                                   *)

LEMMA ScoresAreNat == \A score \in ScoreOrNone : score \in Nat
<1>1. \A score \in Scores : score \in Nat
  BY ScoresAreNumbers
<1>2. QED
  BY <1>1 DEF ScoreOrNone, NoScore

\* The types ReleaseInv and WorkspaceTypeOK leave open.
RestOK ==
  /\ settings \in Settings
  /\ stop \in BOOLEAN
  /\ gov \in [Execs -> States]
  /\ run \in [Execs -> Run]
  /\ {champion, saved} \subseteq Champion
  /\ alone \in [Execs -> BOOLEAN]
  /\ faults \in 0..MaxFaults
  /\ restarts \in 0..MaxRestarts

\* A cycle that is under way is one of the configured ones.
InCycle == {"review", "promote", "publish", "ci", "mergeRemote", "mergeLocal"} \cup Merging
CycleInv == \A e \in Execs : pc[e] \in InCycle => run[e].cycle <= settings.cycles

\* The branch a promotion goes back to exists.
CurrentInv == \A e \in Execs : pc[e] \in Merging => local[run[e].current] # Absent

\* The branches that have not been made yet.
UnmadeInv ==
  /\ \A e \in Execs : pc[e] = "new" => local[Candidate(e)] = Absent
  /\ \A n \in 0..MaxRestarts : n > restarts => local[Startup(n)] = Absent

BaseInv == ReleaseInv /\ WorkspaceTypeOK /\ RestOK /\ Rooted /\ CycleInv /\ CurrentInv /\ UnmadeInv

LEMMA NoRunType == NoRun \in Run
<1>1. Absent \in Seq(Trees) /\ {} \in Trees /\ Main \in Branches /\ MaxCycles \in Nat
  BY WorkspaceBounds DEF Absent, Trees, Branches
<1>2. QED
  BY <1>1 DEF NoRun, Run, ScoreOrNone, NoScore

LEMMA NoChampionType == NoChampion \in Champion
<1>1. Absent \in Seq(Trees) /\ Main \in Branches
  BY DEF Absent, Branches
<1>2. QED
  BY <1>1 DEF NoChampion, Champion, ScoreOrNone, NoScore

LEMMA SettingsType ==
  ASSUME settings \in Settings
  PROVE /\ settings.cycles \in 1..MaxCycles /\ settings.faults \in 0..MaxFaults
        /\ settings.github \in BOOLEAN /\ settings.scores \subseteq Scores
        /\ MaxCycles \in Nat /\ MaxFaults \in Nat
BY SettingsAreSettings, WorkspaceBounds, FaultsBounded

LEMMA BaseInit == Init => BaseInv
<1> SUFFICES ASSUME Init PROVE BaseInv
  OBVIOUS
<1>1. ReleaseInv
  BY ReleaseInit
<1>2. <<{}>> \in Commits /\ Absent \in Commits /\ <<{}>> # Absent /\ {} \in Trees
  BY DEF Commits, Absent, Trees
<1>3. /\ Main \in Branches /\ Startup(0) \in Branches /\ MaxRestarts \in Nat
  BY WorkspaceBounds DEF Branches
<1>4. WorkspaceTypeOK /\ Rooted
  BY <1>2, <1>3 DEF Init, WorkspaceInit, WorkspaceTypeOK, Rooted, Commits
<1>5. RestOK
  <2>1. gov \in [Execs -> States] /\ stop \in BOOLEAN /\ settings \in Settings
    BY DEF Init, States
  <2>2. run \in [Execs -> Run] /\ {champion, saved} \subseteq Champion
    BY NoRunType, NoChampionType DEF Init
  <2>3. alone \in [Execs -> BOOLEAN]
    BY DEF Init
  <2>4. faults \in 0..MaxFaults /\ restarts \in 0..MaxRestarts
    BY <1>3, FaultsBounded DEF Init
  <2>5. QED
    BY <2>1, <2>2, <2>3, <2>4 DEF RestOK
<1>6. CycleInv /\ CurrentInv
  BY DEF Init, CycleInv, CurrentInv, InCycle, Merging
<1>7. UnmadeInv
  <2>1. \A e \in Execs : Candidate(e) \in Branches /\ Candidate(e) # Main /\ Candidate(e) # Startup(0)
    BY DEF Candidate, Main, Startup, Branches
  <2>2. \A n \in 0..MaxRestarts : n > 0 => /\ Startup(n) \in Branches
                                         /\ Startup(n) # Main /\ Startup(n) # Startup(0)
    BY <1>3 DEF Main, Startup, Branches
  <2>3. QED
    BY <2>1, <2>2 DEF Init, WorkspaceInit, UnmadeInv
<1>8. QED
  BY <1>1, <1>4, <1>5, <1>6, <1>7 DEF BaseInv

-----------------------------------------------------------------------------
(* Types of the steps.                                                     *)

LEMMA GovernType ==
  ASSUME RestOK, NEW e \in Execs, NEW path, Govern(e, path), Last(path) \in States
  PROVE gov' \in [Execs -> States]
BY DEF Govern, RestOK

LEMMA FaultKeepsBound ==
  ASSUME RestOK, Fault PROVE faults' \in 0..MaxFaults
BY SettingsType DEF RestOK, Fault

LEMMA EndRun ==
  ASSUME RestOK, NEW e \in Execs, NEW status, End(e, status)
  PROVE run' \in [Execs -> Run]
BY NoRunType DEF End, RestOK

LEMMA NextCycleRun ==
  ASSUME RestOK, CycleInv, NEW e \in Execs, run[e].cycle <= settings.cycles, NextCycle(e)
  PROVE run' \in [Execs -> Run]
<1> DEFINE r == [run[e] EXCEPT !.cycle = @ + 1, !.project = "none", !.reviewed = {},
                               !.published = Absent]
<1>1. run[e] \in Run /\ Absent \in Seq(Trees) /\ {} \in Trees
  BY DEF RestOK, Absent, Trees
<1>2. run[e].cycle + 1 \in 0..(MaxCycles + 1)
  BY <1>1, SettingsType DEF Run, RestOK
<1>3. r \in Run
  BY <1>1, <1>2 DEF Run
<1>4. run' = [run EXCEPT ![e] = r]
  BY DEF NextCycle
<1> HIDE DEF r
<1>5. QED
  BY <1>3, <1>4 DEF RestOK

LEMMA RunFieldTypes ==
  ASSUME RestOK, NEW e \in Execs
  PROVE /\ run[e] \in Run /\ run[e].branch \in Branches /\ run[e].current \in Branches
        /\ run[e].cycle \in 0..(MaxCycles + 1)
        /\ run[e].promoted \in Seq(Trees) /\ run[e].published \in Seq(Trees)
BY DEF RestOK, Run

LEMMA ChampionType ==
  ASSUME RestOK, WorkspaceTypeOK, NEW e \in Execs
  PROVE NewChampion(e) \in Champion
<1>1. run[e] \in Run /\ target \in Branches /\ alone[e] \in BOOLEAN
  BY DEF RestOK, WorkspaceTypeOK
<1>2. QED
  BY <1>1 DEF NewChampion, Champion, Run

-----------------------------------------------------------------------------
(* What a step does to the repository.                                     *)

\* The branch a step creates, if any.
Created == {Candidate(e) : e \in {f \in Execs : pc[f] = "new" /\ pc'[f] = "prepare"}}
             \cup {Startup(n) : n \in {m \in 0..MaxRestarts : m = restarts + 1 /\ restarts' = m}}

LEMMA SoundMonotone ==
  ASSUME NEW some, NEW more, some \subseteq more, Sound(some)
  PROVE Sound(more)
BY DEF Sound, BranchesGrow

LEMMA AcceptSound ==
  ASSUME BaseInv, NEW e \in Execs, Accept(e)
  PROVE Sound(Created)
<1>1. pc[e] = "new" /\ pc'[e] = "prepare"
  BY DEF Accept, Goto, BaseInv, ReleaseInv, ControlOK
<1>2. local[Candidate(e)] = Absent
  BY <1>1 DEF BaseInv, UnmadeInv
<1>3. Sound({Candidate(e)})
  BY <1>2, BranchOffSound DEF Accept, BaseInv
<1>4. {Candidate(e)} \subseteq Created
  BY <1>1 DEF Created
<1>5. QED
  BY <1>3, <1>4, SoundMonotone

LEMMA RestartSound ==
  ASSUME BaseInv, Restart
  PROVE Sound(Created)
<1> DEFINE n == restarts + 1
<1>1. n \in 0..MaxRestarts /\ n > restarts /\ restarts' = n
  BY WorkspaceBounds DEF Restart, BaseInv, RestOK
<1>2. local[Startup(n)] = Absent
  BY <1>1 DEF BaseInv, UnmadeInv
<1>3. Reopen(n)
  BY DEF Restart
<1> HIDE DEF n
<1>4. Sound({Startup(n)})
  BY <1>1, <1>2, <1>3, ReopenSound DEF BaseInv
<1>5. {Startup(n)} \subseteq Created
  BY <1>1 DEF Created, n
<1>6. QED
  BY <1>4, <1>5, SoundMonotone

LEMMA WritesSound ==
  ASSUME BaseInv, NEW e \in Execs, Prepare(e) \/ Build(e) \/ Deliver(e)
  PROVE Sound({})
<1>0. CASE Prepare(e)
  BY <1>0, NameCandidateSound DEF Prepare, BaseInv
<1>1. CASE Build(e)
  <2>1. <<e, 0>> \in Builds
    BY WorkspaceBounds DEF Builds
  <2>2. QED
    BY <1>1, <2>1, WriteSound DEF Build, BaseInv
<1>2. CASE Deliver(e)
  <2>1. run[e].cycle \in 0..MaxCycles
    BY <1>2, RunFieldTypes, SettingsType DEF Deliver, GoesOn, BaseInv, RestOK
  <2>2. <<e, run[e].cycle>> \in Builds
    BY <2>1 DEF Builds
  <2>3. QED
    BY <1>2, <2>2, WriteSound DEF Deliver, BaseInv
<1>3. QED
  BY <1>0, <1>1, <1>2

LEMMA ReleaseSound ==
  ASSUME BaseInv, NEW e \in Execs,
         \/ CommitCandidate(e) \/ PublishCandidate(e) \/ MergeRemote(e)
         \/ CheckoutTarget(e) \/ MergeLocal(e) \/ CheckoutBack(e)
  PROVE Sound({})
<1>1. /\ WorkspaceTypeOK /\ Rooted /\ run[e].branch \in Branches /\ run[e].current \in Branches
      /\ cand \in Branches /\ target \in Branches /\ local[target] # Absent
  BY RunFieldTypes DEF BaseInv, WorkspaceTypeOK, Rooted
<1>2. CASE CommitCandidate(e)
  BY <1>1, <1>2, CommitWorkSound DEF CommitCandidate
<1>3. CASE PublishCandidate(e)
  BY <1>1, <1>3, PublishSound DEF PublishCandidate
<1>4. CASE MergeRemote(e)
  BY <1>1, <1>4, PromoteRemoteSound DEF MergeRemote
<1>5. CASE MergeLocal(e)
  BY <1>1, <1>5, MergeSound DEF MergeLocal
<1>6. CASE CheckoutTarget(e)
  BY <1>1, <1>6, CheckoutSound DEF CheckoutTarget
<1>7. CASE CheckoutBack(e)
  <2>1. local[run[e].current] # Absent
    BY <1>7 DEF CheckoutBack, BaseInv, CurrentInv, Merging
  <2>2. QED
    BY <1>1, <1>7, <2>1, CheckoutSound DEF CheckoutBack
<1>8. QED
  BY <1>2, <1>3, <1>4, <1>5, <1>6, <1>7

\* The steps that leave the repository alone.
Elsewhere(e) ==
  \/ BuildBlocked(e) \/ Review(e) \/ Refuse(e) \/ CIReview(e) \/ ReadHead(e) \/ ReadMerged(e)
  \/ PromoteChampion(e) \/ MergeThrows(e) \/ GiveUp(e) \/ PolicyBlocks(e) \/ PolicyDenies(e) \/ FinishPromoted(e) \/ Deploys(e)
  \/ Finish(e) \/ DeployThrew(e) \/ CallThrows(e) \/ PersistThrows(e)

LEMMA ElsewhereIsElsewhere == ASSUME NEW e \in Execs, Elsewhere(e) PROVE UNCHANGED workspaceVars
BY DEF Elsewhere, BuildBlocked, Review, Refuse, CIReview, ReadHead, ReadMerged, PromoteChampion,
   MergeThrows, GiveUp, PolicyBlocks, PolicyDenies, FinishPromoted, Deploys, StartDeployment, DeploymentStep, DeploymentFault, Finish,
   DeployThrew, CallThrows, PersistThrows, atRest

LEMMA StepSound ==
  ASSUME BaseInv, [Next]_vars
  PROVE Sound(Created)
<1>1. ASSUME Sound({}) PROVE Sound(Created)
  BY <1>1, SoundMonotone
<1>2. CASE UNCHANGED workspaceVars
  BY <1>1, <1>2, NothingChanges DEF BaseInv
<1>3. ASSUME NEW e \in Execs,
             \/ Accept(e) \/ ExecuteStep(e) \/ CallThrows(e) \/ PersistThrows(e) \/ DeploymentFault(e)
      PROVE Sound(Created)
  <2>1. \/ Accept(e) \/ Prepare(e) \/ Build(e) \/ Deliver(e) \/ Elsewhere(e)
        \/ CommitCandidate(e) \/ PublishCandidate(e) \/ MergeRemote(e)
        \/ CheckoutTarget(e) \/ MergeLocal(e) \/ CheckoutBack(e)
    BY <1>3 DEF ExecuteStep, LoopStep, Elsewhere, Deploys
  <2>2. QED
    BY <1>1, <1>2, <2>1, AcceptSound, WritesSound, ReleaseSound, ElsewhereIsElsewhere
<1>4. CASE Stop \/ UNCHANGED vars
  BY <1>2, <1>4 DEF Stop, vars
<1>5. CASE Restart
  BY <1>5, RestartSound
<1>6. QED
  BY <1>3, <1>4, <1>5 DEF Next

-----------------------------------------------------------------------------
(* What a step does to the variables of an execution.                      *)

\* Where e goes: to a cycle that is a configured one, and on the way to the
\* target with the branch to go back to.
GoesTo(e, r, place) ==
  /\ run' = [run EXCEPT ![e] = r] /\ pc' = [pc EXCEPT ![e] = place]
  /\ place \in InCycle => r.cycle <= settings.cycles
  /\ place \in Merging => r.current = head \/ (pc[e] \in Merging /\ r.current = run[e].current)
  /\ place # "new"

\* A step of e: its variables have the type.
StepOf(e) ==
  /\ \E r \in Run, place \in Places : GoesTo(e, r, place)
  /\ gov' \in [Execs -> States] /\ alone' \in [Execs -> BOOLEAN]
  /\ {champion', saved'} \subseteq Champion
  /\ stop' \in BOOLEAN
  /\ faults' \in 0..MaxFaults
  /\ UNCHANGED <<settings, restarts>>

\* The same for a step that stays where it is.
LEMMA StepOfSame ==
  ASSUME BaseInv, NEW e \in Execs, UNCHANGED <<run, pc>>, pc[e] # "new"
  PROVE \E r \in Run, place \in Places : GoesTo(e, r, place)
<1>1. /\ run \in [Execs -> Run] /\ pc \in [Execs -> Places]
      /\ pc[e] \in InCycle => run[e].cycle <= settings.cycles
  BY DEF BaseInv, RestOK, ReleaseInv, ControlOK, CycleInv
<1>2. /\ run[e] \in Run /\ pc[e] \in Places
      /\ run' = [run EXCEPT ![e] = run[e]] /\ pc' = [pc EXCEPT ![e] = pc[e]]
  BY <1>1
<1>3. GoesTo(e, run[e], pc[e])
  BY <1>1, <1>2 DEF GoesTo
<1>4. QED
  BY <1>2, <1>3

LEMMA BuildStep ==
  ASSUME BaseInv, NEW e \in Execs, Accept(e) \/ Prepare(e) \/ Build(e)
  PROVE StepOf(e)
<1>1. RestOK /\ run[e] \in Run
  BY RunFieldTypes DEF BaseInv
<1>2. CASE Accept(e)
  <2>1. gov' \in [Execs -> States]
    BY <1>1, <1>2 DEF Accept, Govern, RestOK, Last, States
  <2>2. run' = [run EXCEPT ![e] = run[e]] /\ pc' = [pc EXCEPT ![e] = "prepare"]
    BY <1>1, <1>2 DEF Accept, Goto, RestOK
  <2>3. alone' \in [Execs -> BOOLEAN]
    BY <1>1, <1>2 DEF Accept, RestOK, InWorkspace
  <2>4. UNCHANGED <<champion, saved, stop, faults, settings, restarts>>
    BY <1>2 DEF Accept, released, bounds
  <2>5. GoesTo(e, run[e], "prepare")
    BY <2>2 DEF GoesTo, InCycle, Merging
  <2>6. QED
    BY <1>1, <2>1, <2>3, <2>4, <2>5 DEF StepOf, RestOK, Places
<1>5. CASE Prepare(e)
  <2>1. gov' \in [Execs -> States]
    BY <1>1, <1>5 DEF Prepare, Govern, RestOK, Last, States
  <2>2. run' = [run EXCEPT ![e] = run[e]] /\ pc' = [pc EXCEPT ![e] = "build"]
    BY <1>1, <1>5 DEF Prepare, Goto, RestOK
  <2>3. UNCHANGED <<alone, champion, saved, stop, faults, settings, restarts>>
    BY <1>5 DEF Prepare, released, bounds
  <2>4. GoesTo(e, run[e], "build")
    BY <2>2 DEF GoesTo, InCycle, Merging
  <2>5. QED
    BY <1>1, <2>1, <2>3, <2>4 DEF StepOf, RestOK, Places
<1>3. CASE Build(e)
  <2>1. gov' \in [Execs -> States]
    BY <1>1, <1>3 DEF Build, Govern, RestOK, Last, States
  <2>2. PICK project \in {"built", "blocked"} :
          run' = [run EXCEPT ![e] = [run[e] EXCEPT !.cycle = 1, !.project = project,
                                                  !.champion = champion.score]]
    BY <1>3 DEF Build
  <2> DEFINE r == [run[e] EXCEPT !.cycle = 1, !.project = project, !.champion = champion.score]
  <2>3. champion.score \in ScoreOrNone /\ 1 \in 0..(MaxCycles + 1)
    BY <1>1, WorkspaceBounds DEF RestOK, Champion
  <2>4. r \in Run
    BY <1>1, <2>3 DEF Run
  <2>5. pc' = [pc EXCEPT ![e] = "head"] /\ stop' = FALSE
        /\ UNCHANGED <<champion, saved, faults, settings, restarts, alone>>
    BY <1>3 DEF Build, Goto, bounds
  <2>6. GoesTo(e, r, "head")
    BY <2>2, <2>5 DEF GoesTo, InCycle, Merging
  <2> HIDE DEF r
  <2>7. QED
    BY <1>1, <2>1, <2>4, <2>5, <2>6 DEF StepOf, RestOK, Places
<1>4. QED
  BY <1>2, <1>3, <1>5

\* A step of the repair loop leaves the rest of the process alone.
LEMMA LoopStepOf ==
  ASSUME BaseInv, NEW e \in Execs, NEW r \in Run, NEW place \in Places, GoesTo(e, r, place),
         UNCHANGED <<released, gov, alone>>
  PROVE StepOf(e)
BY DEF StepOf, BaseInv, RestOK, released, bounds

LEMMA NextCycleStep ==
  ASSUME BaseInv, NEW e \in Execs, NextCycle(e), UNCHANGED <<released, gov, alone>>,
         pc[e] \in InCycle \/ (pc[e] = "head" /\ GoesOn(e))
  PROVE StepOf(e)
<1> DEFINE r == [run[e] EXCEPT !.cycle = @ + 1, !.project = "none", !.reviewed = {},
                               !.published = Absent]
<1>1. run[e] \in Run /\ Absent \in Seq(Trees) /\ {} \in Trees
  BY RunFieldTypes DEF BaseInv, Absent, Trees
<1>2. run[e].cycle + 1 \in 0..(MaxCycles + 1)
  BY <1>1, SettingsType DEF Run, BaseInv, RestOK, CycleInv, GoesOn
<1>3. r \in Run
  BY <1>1, <1>2 DEF Run
<1>4. run' = [run EXCEPT ![e] = r] /\ pc' = [pc EXCEPT ![e] = "head"]
  BY DEF NextCycle, Goto
<1> HIDE DEF r
<1>5. GoesTo(e, r, "head")
  BY <1>4 DEF GoesTo, InCycle, Merging
<1>6. QED
  BY <1>3, <1>5, LoopStepOf DEF Places

\* A loop step that goes on to another place of the same cycle.
LEMMA SameCycleStep ==
  ASSUME BaseInv, NEW e \in Execs, NEW r \in Run, NEW place \in Places,
         run' = [run EXCEPT ![e] = r], r.cycle = run[e].cycle, Goto(e, place),
         UNCHANGED <<released, gov, alone>>, place # "new",
         place \in Merging => r.current = head \/ (pc[e] \in Merging /\ r.current = run[e].current),
         pc[e] \in InCycle \/ (pc[e] = "head" /\ GoesOn(e))
  PROVE StepOf(e)
<1>1. run[e].cycle <= settings.cycles
  BY DEF BaseInv, CycleInv, GoesOn
<1>2. GoesTo(e, r, place)
  BY <1>1 DEF Goto, GoesTo
<1>3. QED
  BY <1>2, LoopStepOf

LEMMA LoopSteps ==
  ASSUME BaseInv, NEW e \in Execs,
         \/ Deliver(e) \/ BuildBlocked(e) \/ Review(e) \/ Refuse(e) \/ CommitCandidate(e)
         \/ PublishCandidate(e) \/ CIReview(e) \/ MergeRemote(e)
         \/ ReadHead(e) \/ CheckoutTarget(e) \/ MergeLocal(e) \/ ReadMerged(e) \/ CheckoutBack(e)
  PROVE StepOf(e)
<1>1. /\ run[e] \in Run /\ run \in [Execs -> Run]
      /\ WorkspaceTypeOK /\ Rooted /\ run[e].branch \in Branches
  BY RunFieldTypes DEF BaseInv, RestOK
<1>2. /\ pc[e] \in InCycle \/ (pc[e] = "head" /\ GoesOn(e))
      /\ UNCHANGED <<released, gov, alone>>
  BY DEF Deliver, BuildBlocked, Review, Refuse, CommitCandidate, PublishCandidate, CIReview,
     MergeRemote, ReadHead, CheckoutTarget, MergeLocal, ReadMerged, CheckoutBack, inLoop, InCycle, Merging
<1>3. CASE NextCycle(e)
  BY <1>2, <1>3, NextCycleStep
\* The places that are not on the way to the target.
<1>4. ASSUME NEW r \in Run, run' = [run EXCEPT ![e] = r], r.cycle = run[e].cycle,
             NEW place \in {"review", "promote", "publish", "ci", "mergeRemote", "mergeLocal", "champion"},
             Goto(e, place)
      PROVE StepOf(e)
  BY <1>2, <1>4, SameCycleStep DEF Places, Merging
\* The places that are.
<1>5. ASSUME NEW place \in Merging \cup {"champion"}, Goto(e, place), NEW r \in Run,
             run' = [run EXCEPT ![e] = r], r.cycle = run[e].cycle,
             pc[e] \in Merging /\ r.current = run[e].current
      PROVE StepOf(e)
  BY <1>2, <1>5, SameCycleStep DEF Places, Merging
<1>6. CASE Deliver(e) /\ run' = [run EXCEPT ![e].project = "built"] /\ Goto(e, "review")
  <2>1. /\ [run[e] EXCEPT !.project = "built"] \in Run
        /\ [run[e] EXCEPT !.project = "built"].cycle = run[e].cycle
    BY <1>1 DEF Run
  <2>2. QED
    BY <1>4, <1>6, <2>1
<1>7. CASE Review(e) /\ run' = [run EXCEPT ![e].reviewed = work] /\ Goto(e, "promote")
  <2>1. /\ [run[e] EXCEPT !.reviewed = work] \in Run
        /\ [run[e] EXCEPT !.reviewed = work].cycle = run[e].cycle
    BY <1>1 DEF Run, WorkspaceTypeOK
  <2>2. QED
    BY <1>4, <1>7, <2>1
<1>8. CASE CommitCandidate(e)
  <2>1. PICK score \in Scores : run' = [run EXCEPT ![e] = [run[e] EXCEPT !.score = score]]
    BY <1>8, SettingsType DEF CommitCandidate, BaseInv, RestOK
  <2>2. /\ [run[e] EXCEPT !.score = score] \in Run
        /\ [run[e] EXCEPT !.score = score].cycle = run[e].cycle
    BY <1>1 DEF Run, ScoreOrNone
  <2>3. Goto(e, "publish") \/ Goto(e, "mergeLocal")
    BY <1>8 DEF CommitCandidate
  <2>4. QED
    BY <1>4, <2>1, <2>2, <2>3
<1>9. CASE PublishCandidate(e)
  <2>1. Published(cand) \in Seq(Trees) /\ cand \in Branches
    BY <1>1, <1>9, PublishSound DEF PublishCandidate, Commits, WorkspaceTypeOK
  <2> DEFINE r == [run[e] EXCEPT !.branch = cand, !.published = Published(cand)]
  <2>2. run' = [run EXCEPT ![e] = r] /\ Goto(e, "ci")
    BY <1>9 DEF PublishCandidate
  <2>3. r \in Run /\ r.cycle = run[e].cycle
    BY <1>1, <2>1 DEF Run
  <2> HIDE DEF r
  <2>4. QED
    BY <1>4, <2>2, <2>3
<1>10. CASE CIReview(e) /\ Goto(e, "mergeRemote") /\ UNCHANGED run
  <2>1. run' = [run EXCEPT ![e] = run[e]]
    BY <1>1, <1>10
  <2>2. QED
    BY <1>1, <1>4, <1>10, <2>1
<1>11. CASE MergeRemote(e)
  <2>1. /\ run' = [run EXCEPT ![e] = [run[e] EXCEPT !.promoted = remote[run[e].branch]]]
        /\ Goto(e, "mergeLocal") /\ remote[run[e].branch] \in Seq(Trees)
    BY <1>1, <1>11 DEF MergeRemote, WorkspaceTypeOK
  <2>2. /\ [run[e] EXCEPT !.promoted = remote[run[e].branch]] \in Run
        /\ [run[e] EXCEPT !.promoted = remote[run[e].branch]].cycle = run[e].cycle
    BY <1>1, <2>1 DEF Run
  <2>3. QED
    BY <1>4, <2>1, <2>2
<1>12. CASE ReadHead(e)
  <2> DEFINE b == IF settings.github THEN run[e].branch ELSE cand
             r == [run[e] EXCEPT !.branch = b, !.current = head]
  <2>1. b \in Branches /\ head \in Branches
    BY <1>1 DEF WorkspaceTypeOK
  <2>2. run' = [run EXCEPT ![e] = r] /\ (Goto(e, "merge") \/ Goto(e, "checkout"))
    BY <1>12 DEF ReadHead
  <2> HIDE DEF b
  <2>3. r \in Run /\ r.cycle = run[e].cycle /\ r.current = head
    BY <1>1, <2>1 DEF Run
  <2> HIDE DEF r
  <2>4. QED
    BY <1>2, <2>2, <2>3, SameCycleStep DEF Places
<1>13. CASE CheckoutTarget(e) \/ MergeLocal(e) \/ CheckoutBack(e)
  <2>1. /\ run' = [run EXCEPT ![e] = run[e]] /\ pc[e] \in Merging
        /\ \E place \in Merging \cup {"champion"} : Goto(e, place)
    BY <1>1, <1>13 DEF CheckoutTarget, MergeLocal, CheckoutBack, Merging
  <2>2. QED
    BY <1>1, <1>5, <2>1
<1>14. CASE ReadMerged(e)
  <2> DEFINE c == IF settings.github THEN run[e].promoted ELSE local[head]
             r == [run[e] EXCEPT !.promoted = c]
  <2>1. c \in Seq(Trees)
    BY <1>1 DEF WorkspaceTypeOK, Run
  <2>2. /\ run' = [run EXCEPT ![e] = r] /\ pc[e] \in Merging
        /\ \E place \in Merging \cup {"champion"} : Goto(e, place)
    BY <1>14 DEF ReadMerged, Merging
  <2> HIDE DEF c
  <2>3. r \in Run /\ r.cycle = run[e].cycle /\ r.current = run[e].current
    BY <1>1, <2>1 DEF Run
  <2> HIDE DEF r
  <2>4. QED
    BY <1>5, <2>2, <2>3
<1>15. QED
  BY <1>3, <1>6, <1>7, <1>8, <1>9, <1>10, <1>11, <1>12, <1>13, <1>14
     DEF Deliver, BuildBlocked, Review, Refuse, CIReview

LEMMA EndStep ==
  ASSUME BaseInv, NEW e \in Execs, NEW status, End(e, status),
         gov' \in [Execs -> States], {champion', saved'} \subseteq Champion,
         faults' \in 0..MaxFaults, UNCHANGED <<stop, settings, alone, restarts>>
  PROVE StepOf(e)
<1>1. GoesTo(e, NoRun, "done")
  BY DEF End, Goto, GoesTo, InCycle, Merging
<1>2. QED
  BY <1>1, NoRunType DEF StepOf, BaseInv, RestOK, Places

LEMMA EndSteps ==
  ASSUME BaseInv, NEW e \in Execs, Ends(e)
  PROVE StepOf(e)
<1>1. RestOK
  BY DEF BaseInv
<1>2. UNCHANGED gov => gov' \in [Execs -> States]
  BY <1>1 DEF RestOK
<1>3. UNCHANGED <<champion, saved>> => {champion', saved'} \subseteq Champion
  BY <1>1 DEF RestOK
<1>4. UNCHANGED faults => faults' \in 0..MaxFaults
  BY <1>1 DEF RestOK
<1>5. CASE GiveUp(e) \/ PolicyBlocks(e)
  <2>1. gov' \in [Execs -> States]
    BY <1>1, <1>5 DEF GiveUp, PolicyBlocks, Govern, RestOK, Last, States
  <2>2. End(e, "COMPLETED") /\ UNCHANGED <<atRest, bounds>>
    BY <1>5 DEF GiveUp, PolicyBlocks
  <2>3. QED
    BY <1>3, <1>4, <2>1, <2>2, EndStep DEF atRest, bounds
<1>6. CASE PolicyDenies(e) \/ FinishPromoted(e)
  <2>1. gov' \in [Execs -> States]
    BY <1>1, <1>6 DEF PolicyDenies, FinishPromoted, Govern, RestOK, Last, States
  <2>2. (End(e, "FAILED") \/ End(e, "PROMOTED")) /\ UNCHANGED <<atRest, bounds>>
    BY <1>6 DEF PolicyDenies, FinishPromoted
  <2>3. QED
    BY <1>3, <1>4, <2>1, <2>2, EndStep DEF atRest, bounds
<1>7. CASE Finish(e)
  <2>1. gov' \in [Execs -> States]
    BY <1>1, <1>7 DEF Finish, Govern, RestOK, Last, States
  <2>2. (End(e, "FAILED") \/ End(e, "PROMOTED") \/ End(e, "COMPLETED")) /\ UNCHANGED <<atRest, bounds>>
    BY <1>7 DEF Finish
  <2>3. QED
    BY <1>3, <1>4, <2>1, <2>2, EndStep DEF atRest, bounds
<1>8. CASE DeployThrew(e)
  BY <1>2, <1>3, <1>4, <1>8, EndStep DEF DeployThrew, atRest, bounds
<1>9. CASE MergeThrows(e)
  BY <1>2, <1>3, <1>4, <1>9, EndStep DEF MergeThrows, released, bounds
<1>10. CASE CallThrows(e)
  BY <1>1, <1>2, <1>3, <1>10, FaultKeepsBound, EndStep DEF CallThrows, atRest
<1>11. CASE PersistThrows(e)
  <2>1. {champion', saved'} \subseteq Champion
    BY <1>1, <1>11, ChampionType DEF PersistThrows, RestOK, BaseInv
  <2>2. QED
    BY <1>1, <1>2, <1>11, <2>1, FaultKeepsBound, EndStep DEF PersistThrows
<1>12. QED
  BY <1>5, <1>6, <1>7, <1>8, <1>9, <1>10, <1>11 DEF Ends

LEMMA ChampionStep ==
  ASSUME BaseInv, NEW e \in Execs, PromoteChampion(e)
  PROVE StepOf(e)
<1>1. {champion', saved'} \subseteq Champion
  BY ChampionType DEF PromoteChampion, BaseInv
<1>2. GoesTo(e, NoRun, "decide")
  BY DEF PromoteChampion, Goto, GoesTo, InCycle, Merging
<1>3. UNCHANGED <<gov, alone, stop, faults, settings, restarts>>
  BY DEF PromoteChampion, bounds
<1>4. QED
  BY <1>1, <1>2, <1>3, NoRunType DEF StepOf, BaseInv, RestOK, Places

LEMMA DeploySteps ==
  ASSUME BaseInv, NEW e \in Execs, Deploys(e)
  PROVE StepOf(e)
<1>1. RestOK
  BY DEF BaseInv
<1>2. CASE StartDeployment(e)
  <2>1. gov' \in [Execs -> States]
    BY <1>1, <1>2 DEF StartDeployment, Govern, RestOK, Last, States
  <2>2. run' = [run EXCEPT ![e] = run[e]] /\ pc' = [pc EXCEPT ![e] = "deploying"]
    BY <1>1, <1>2 DEF StartDeployment, Goto, RestOK
  <2>3. run[e] \in Run /\ UNCHANGED <<alone, champion, saved, stop, faults, settings, restarts>>
    BY <1>1, <1>2, RunFieldTypes DEF StartDeployment, atRest, bounds
  <2>4. GoesTo(e, run[e], "deploying")
    BY <2>2 DEF GoesTo, InCycle, Merging
  <2>5. QED
    BY <1>1, <2>1, <2>3, <2>4 DEF StepOf, RestOK, Places
<1>3. CASE DeploymentStep(e)
  <2>1. /\ UNCHANGED <<run, pc, gov, alone, champion, saved, stop, faults, settings, restarts>>
        /\ pc[e] # "new"
    BY <1>3 DEF DeploymentStep, atRest, bounds
  <2>2. QED
    BY <1>1, <2>1, StepOfSame DEF StepOf, RestOK
<1>4. CASE DeploymentFault(e)
  <2>1. /\ UNCHANGED <<run, pc, gov, alone, champion, saved, stop, settings, restarts>>
        /\ pc[e] # "new" /\ faults' \in 0..MaxFaults
    BY <1>1, <1>4, FaultKeepsBound DEF DeploymentFault, atRest
  <2>2. QED
    BY <1>1, <2>1, StepOfSame DEF StepOf, RestOK
<1>5. QED
  BY <1>2, <1>3, <1>4 DEF Deploys

LEMMA ExecutionSteps ==
  ASSUME BaseInv, NEW e \in Execs,
         \/ Accept(e) \/ ExecuteStep(e) \/ CallThrows(e) \/ PersistThrows(e) \/ DeploymentFault(e)
  PROVE StepOf(e)
BY BuildStep, LoopSteps, EndSteps, ChampionStep, DeploySteps DEF ExecuteStep, LoopStep, Ends, Deploys

\* A step of an execution keeps the types and the cycles; so do Stop and Restart.
StepKeeps == RestOK' /\ CycleInv' /\ \A e \in Execs : pc'[e] = "new" => pc[e] = "new"

LEMMA StepOfKeeps ==
  ASSUME BaseInv, NEW e \in Execs, StepOf(e)
  PROVE StepKeeps /\ restarts' = restarts
<1> PICK r \in Run, place \in Places : GoesTo(e, r, place)
  BY DEF StepOf
<1>1. RestOK'
  BY DEF StepOf, GoesTo, BaseInv, RestOK
<1>2. pc \in [Execs -> Places] /\ run \in [Execs -> Run] /\ settings' = settings
  BY DEF BaseInv, RestOK, ReleaseInv, ControlOK, StepOf
<1>3. CycleInv'
  BY <1>2 DEF GoesTo, BaseInv, CycleInv
<1>4. \A f \in Execs : pc'[f] = "new" => pc[f] = "new"
  BY <1>2 DEF GoesTo
<1>5. QED
  BY <1>1, <1>3, <1>4 DEF StepKeeps, StepOf

\* Who is on the way to the target after a step was so before it, or has just
\* read which branch is checked out.
LEMMA StepOfKeepsCurrent ==
  ASSUME BaseInv, NEW e \in Execs, StepOf(e), Sound(Created)
  PROVE CurrentInv'
<1> PICK r \in Run, place \in Places : GoesTo(e, r, place)
  BY DEF StepOf
<1>1. /\ pc \in [Execs -> Places] /\ run \in [Execs -> Run]
      /\ head \in Branches /\ local[head] # Absent
  BY DEF BaseInv, RestOK, ReleaseInv, ControlOK, WorkspaceTypeOK, Rooted
<1>2. ASSUME NEW b \in Branches, local[b] # Absent PROVE local'[b] # Absent
  <2>1. local[b] \in Commits /\ local'[b] \in Commits /\ IsPrefix(local[b], local'[b])
    BY DEF BaseInv, Sound, BranchesGrow, WorkspaceTypeOK, Commits
  <2>2. QED
    BY <1>2, <2>1, ExtensionNotAbsent
<1>3. ASSUME NEW f \in Execs, pc'[f] \in Merging
      PROVE local'[run'[f].current] # Absent
  <2>1. run'[f].current = head \/ (pc[f] \in Merging /\ run'[f].current = run[f].current)
    BY <1>1, <1>3 DEF GoesTo
  <2>2. run[f].current \in Branches /\ (pc[f] \in Merging => local[run[f].current] # Absent)
    BY RunFieldTypes DEF BaseInv, CurrentInv
  <2>3. QED
    BY <1>1, <1>2, <2>1, <2>2
<1>4. QED
  BY <1>3 DEF CurrentInv

LEMMA RestartStep ==
  ASSUME BaseInv, Restart
  PROVE StepKeeps /\ CurrentInv' /\ restarts' = restarts + 1
<1>1. /\ run' = [e \in Execs |-> NoRun]
      /\ pc' = [e \in Execs |-> IF Active(e) THEN "dead" ELSE pc[e]]
      /\ stop' = FALSE /\ champion' = saved /\ Fault /\ restarts' = restarts + 1
      /\ restarts < MaxRestarts
      /\ UNCHANGED <<settings, gov, alone, saved>>
  BY DEF Restart
<1>2. RestOK /\ faults' \in 0..MaxFaults
  BY <1>1, FaultKeepsBound DEF BaseInv
<1>3. restarts' \in 0..MaxRestarts
  BY <1>1, <1>2, WorkspaceBounds DEF RestOK
<1>4. RestOK'
  BY <1>1, <1>2, <1>3, NoRunType DEF RestOK
<1>5. \A e \in Execs : pc'[e] \notin InCycle /\ (pc'[e] = "new" => pc[e] = "new")
  BY <1>1 DEF InCycle, Merging, Active
<1>6. CycleInv' /\ CurrentInv'
  BY <1>5 DEF CycleInv, CurrentInv, InCycle
<1>7. QED
  BY <1>1, <1>4, <1>5, <1>6 DEF StepKeeps

LEMMA StillUnmade ==
  ASSUME BaseInv, StepKeeps, Sound(Created), restarts' \in {restarts, restarts + 1}
  PROVE UnmadeInv'
<1>1. RestOK /\ MaxRestarts \in Nat
  BY WorkspaceBounds DEF BaseInv
<1>2. ASSUME NEW e \in Execs, pc'[e] = "new"
      PROVE local'[Candidate(e)] = Absent
  <2>1. Candidate(e) \in Branches /\ Candidate(e) \notin Created
    BY <1>2 DEF Branches, Created, Candidate, Startup
  <2>2. local[Candidate(e)] = Absent
    BY <1>2 DEF StepKeeps, BaseInv, UnmadeInv
  <2>3. QED
    BY <2>1, <2>2 DEF Sound, BranchesGrow
<1>3. ASSUME NEW n \in 0..MaxRestarts, n > restarts'
      PROVE local'[Startup(n)] = Absent
  <2>1. Startup(n) \in Branches /\ Startup(n) \notin Created /\ n > restarts
    BY <1>1, <1>3 DEF Branches, Created, Candidate, Startup, RestOK
  <2>2. local[Startup(n)] = Absent
    BY <2>1 DEF BaseInv, UnmadeInv
  <2>3. QED
    BY <2>1, <2>2 DEF Sound, BranchesGrow
<1>4. QED
  BY <1>2, <1>3 DEF UnmadeInv

LEMMA BaseStep == BaseInv /\ [Next]_vars => BaseInv' /\ Sound(Created)
<1> SUFFICES ASSUME BaseInv, [Next]_vars PROVE BaseInv' /\ Sound(Created)
  OBVIOUS
<1>1. ReleaseInv' /\ Sound(Created)
  BY ReleaseStep, StepSound DEF BaseInv
<1>2. StepKeeps /\ CurrentInv' /\ restarts' \in {restarts, restarts + 1}
  <2>1. CASE \E e \in Execs : \/ Accept(e) \/ ExecuteStep(e) \/ CallThrows(e) \/ PersistThrows(e)
                              \/ DeploymentFault(e)
    BY <1>1, <2>1, ExecutionSteps, StepOfKeeps, StepOfKeepsCurrent
  <2>2. CASE Stop
    <3>1. faults' \in 0..MaxFaults
      BY <2>2, FaultKeepsBound DEF Stop, BaseInv
    <3>2. QED
      BY <2>2, <3>1 DEF Stop, StepKeeps, BaseInv, RestOK, CycleInv, CurrentInv, executionVars, workspaceVars
  <2>3. CASE Restart
    BY <2>3, RestartStep
  <2>4. CASE UNCHANGED vars
    BY <2>4 DEF vars, bounds, executionVars, workspaceVars, StepKeeps, BaseInv, RestOK, CycleInv, CurrentInv
  <2>5. QED
    BY <2>1, <2>2, <2>3, <2>4 DEF Next
<1>3. UnmadeInv'
  BY <1>1, <1>2, StillUnmade
<1>4. QED
  BY <1>1, <1>2, <1>3 DEF BaseInv, Sound, StepKeeps

LEMMA BaseInvariant == Spec => []BaseInv
<1>1. BaseInv /\ [Next]_vars => BaseInv'
  BY BaseStep
<1>2. QED
  BY BaseInit, <1>1, PTL DEF Spec

-----------------------------------------------------------------------------
\* The types of the process, of its repository and of its deployments.
THEOREM ReleaseTypeCorrect == Spec => []TypeOK
<1>1. BaseInv => TypeOK
  BY DEF BaseInv, ReleaseInv, ControlOK, RestOK, TypeOK
<1>2. QED
  BY <1>1, BaseInvariant, PTL

\* updateRef without force and merge --ff-only (promoteBranch, promoteCandidate)
\* never take a commit off the branch others build on, however many executions
\* promote at once, fail or die.
THEOREM PromotedCommitsStay == Spec => TargetOnlyGrows
<1>1. BaseInv /\ [Next]_vars =>
        [/\ IsPrefix(local[target], local'[target]) /\ IsPrefix(remote[target], remote'[target])]_vars
  <2> SUFFICES ASSUME BaseInv, [Next]_vars
               PROVE IsPrefix(local[target], local'[target]) /\ IsPrefix(remote[target], remote'[target])
    OBVIOUS
  <2>1. target \in Branches /\ Sound(Created)
    BY BaseStep DEF BaseInv, WorkspaceTypeOK
  <2>2. QED
    BY <2>1 DEF Sound, BranchesGrow
<1>2. QED
  BY <1>1, BaseInvariant, PTL DEF Spec, TargetOnlyGrows

-----------------------------------------------------------------------------
\* What no step of an execution changes, and what it may make of the champion.
LEMMA StepLeaves ==
  ASSUME NEW e \in Execs,
         \/ Accept(e) \/ ExecuteStep(e) \/ CallThrows(e) \/ PersistThrows(e) \/ DeploymentFault(e)
  PROVE /\ settings' = settings
        /\ ~Accept(e) => alone' = alone
        /\ \/ UNCHANGED <<champion, saved>>
           \/ /\ pc[e] = "champion" /\ champion' = NewChampion(e)
              /\ saved' = saved \/ saved' = NewChampion(e)
<1>1. CASE Accept(e) \/ Prepare(e) \/ Build(e)
  BY <1>1 DEF Accept, Prepare, Build, released
<1>2. CASE LoopStep(e)
  <2>1. CASE PromoteChampion(e)
    BY <2>1 DEF PromoteChampion
  <2>2. CASE CommitCandidate(e) \/ PublishCandidate(e) \/ CIReview(e) \/ MergeRemote(e)
    BY <2>2 DEF CommitCandidate, PublishCandidate, CIReview, MergeRemote, inLoop, released
  <2>5. CASE ReadHead(e) \/ CheckoutTarget(e) \/ MergeLocal(e) \/ ReadMerged(e) \/ CheckoutBack(e)
    BY <2>5 DEF ReadHead, CheckoutTarget, MergeLocal, ReadMerged, CheckoutBack, inLoop, released
  <2>3. CASE Deliver(e) \/ BuildBlocked(e) \/ Review(e) \/ Refuse(e)
    BY <2>3 DEF Deliver, BuildBlocked, Review, Refuse, inLoop, released
  <2>4. QED
    BY <1>2, <2>1, <2>2, <2>3, <2>5 DEF LoopStep
<1>3. CASE GiveUp(e) \/ PolicyBlocks(e) \/ MergeThrows(e) \/ PolicyDenies(e) \/ FinishPromoted(e)
  BY <1>3 DEF GiveUp, PolicyBlocks, MergeThrows, PolicyDenies, FinishPromoted, released, atRest
<1>4. CASE StartDeployment(e) \/ DeploymentStep(e) \/ Finish(e) \/ DeployThrew(e)
  BY <1>4 DEF StartDeployment, DeploymentStep, Finish, DeployThrew, released, atRest
<1>5. CASE CallThrows(e) \/ PersistThrows(e) \/ DeploymentFault(e)
  BY <1>5 DEF CallThrows, PersistThrows, DeploymentFault, released, atRest
<1>6. QED
  BY <1>1, <1>2, <1>3, <1>4, <1>5 DEF ExecuteStep

LEMMA SettingsStay == ASSUME [Next]_vars PROVE settings' = settings
<1>1. UNCHANGED vars \/ Stop \/ Restart => settings' = settings
  BY DEF vars, Stop, Restart
<1>2. QED
  BY <1>1, StepLeaves DEF Next

-----------------------------------------------------------------------------
(* An execution that has the workspace to itself.                          *)

Owner(e) == InWorkspace(e) /\ alone[e]

\* While there is an owner nobody else works on the files.
OwnerInv == \A e, f \in Execs : Owner(e) /\ InWorkspace(f) => f = e

\* Its gates compare with the champion there still is, and past the gates every
\* execution has the score it was let through with.
Gated == {"publish", "ci", "mergeRemote", "mergeLocal", "champion"} \cup Merging
ScoreInv == \A e \in Execs :
  /\ Owner(e) /\ pc[e] \notin {"prepare", "build"} => run[e].champion = champion.score
  /\ pc[e] \in Gated => run[e].score >= run[e].champion

\* It works on its own branch, on top of the target, until it checks the target
\* out to merge into it; what it has committed, published and merged is what was
\* reviewed.
Content(e) ==
  /\ pc[e] # "prepare" => cand = Candidate(e)
  /\ pc[e] \notin {"merge", "merged", "back", "champion"} => head = Candidate(e)
  /\ pc[e] \in {"merge", "merged"} => head = target
  /\ pc[e] \notin {"back", "champion"} => IsPrefix(local[target], local[Candidate(e)])
  /\ pc[e] = "promote" => run[e].reviewed = work
  /\ pc[e] \in {"publish", "ci", "mergeRemote", "mergeLocal", "checkout", "merge"} =>
       Tip(local[Candidate(e)]) = run[e].reviewed
  /\ pc[e] \in {"ci", "mergeRemote"} => run[e].published = remote[Candidate(e)]
  /\ \/ pc[e] \in {"ci", "mergeRemote", "checkout", "merge"}
     \/ pc[e] = "mergeLocal" /\ settings.github
     => run[e].branch = Candidate(e)
  /\ pc[e] \in Gated \ {"publish", "ci", "mergeRemote"} /\ settings.github =>
       run[e].promoted = run[e].published
  /\ pc[e] \in {"merged", "back", "champion"} => Tip(local[target]) = run[e].reviewed

ContentInv == \A e \in Execs : Owner(e) => Content(e)

OwnInv == BaseInv /\ OwnerInv /\ ScoreInv /\ ContentInv

\* What a step of e does to the others.
LEMMA OthersStay ==
  ASSUME BaseInv, NEW e \in Execs, NEW f \in Execs, f # e,
         \/ Accept(e) \/ ExecuteStep(e) \/ CallThrows(e) \/ PersistThrows(e) \/ DeploymentFault(e)
  PROVE /\ pc'[f] = pc[f] /\ run'[f] = run[f]
        /\ Owner(f)' => Owner(f) /\ ~Accept(e)
        /\ InWorkspace(f)' <=> InWorkspace(f)
<1>1. pc \in [Execs -> Places] /\ run \in [Execs -> Run]
  BY DEF BaseInv, ReleaseInv, ControlOK, RestOK
<1>2. pc'[f] = pc[f] /\ run'[f] = run[f]
  BY <1>1, ExecutionSteps DEF StepOf, GoesTo
<1>3. CASE Accept(e)
  BY <1>2, <1>3 DEF Accept, Owner, InWorkspace
<1>4. CASE ~Accept(e)
  <2>1. alone' = alone
    BY <1>4, StepLeaves
  <2>2. QED
    BY <1>2, <1>4, <2>1 DEF Owner, InWorkspace
<1>5. QED
  BY <1>3, <1>4

\* The steps inside the workspace, and those that enter or leave it.
LEMMA EntersByAccept ==
  ASSUME BaseInv, NEW e \in Execs,
         \/ Accept(e) \/ ExecuteStep(e) \/ CallThrows(e) \/ PersistThrows(e) \/ DeploymentFault(e)
  PROVE /\ Owner(e)' => \/ Accept(e) /\ \A g \in Execs : ~InWorkspace(g)
                        \/ Owner(e) /\ ~Accept(e)
        /\ InWorkspace(e)' => Accept(e) \/ InWorkspace(e)
<1>1. pc \in [Execs -> Places]
  BY DEF BaseInv, ReleaseInv, ControlOK
<1>2. CASE Accept(e)
  BY <1>1, <1>2 DEF Accept, Goto, Owner, InWorkspace
<1>3. CASE ~Accept(e)
  <2>1. alone' = alone
    BY <1>3, StepLeaves
  <2>2. InWorkspace(e)' => InWorkspace(e)
    <3>1. CASE Prepare(e) \/ Build(e) \/ LoopStep(e) \/ MergeThrows(e) \/ CallThrows(e) \/ PersistThrows(e)
      BY <3>1 DEF Prepare, Build, LoopStep, Deliver, BuildBlocked, Review, Refuse, CommitCandidate,
         PublishCandidate, CIReview, MergeRemote, ReadHead, CheckoutTarget, MergeLocal, ReadMerged,
         CheckoutBack, PromoteChampion, MergeThrows, Refused, CallThrows, PersistThrows, InWorkspace, Places
    <3>2. CASE \/ GiveUp(e) \/ PolicyBlocks(e) \/ PolicyDenies(e) \/ FinishPromoted(e)
               \/ Finish(e) \/ DeployThrew(e)
      BY <1>1, <3>2 DEF GiveUp, PolicyBlocks, PolicyDenies, FinishPromoted, Finish, DeployThrew, End,
         Goto, InWorkspace, Places
    <3>3. CASE StartDeployment(e) \/ DeploymentStep(e) \/ DeploymentFault(e)
      BY <1>1, <3>3 DEF StartDeployment, DeploymentStep, DeploymentFault, Goto, InWorkspace, Places
    <3>4. QED
      BY <1>3, <3>1, <3>2, <3>3 DEF ExecuteStep
  <2>3. QED
    BY <1>3, <2>1, <2>2 DEF Owner
<1>4. QED
  BY <1>2, <1>3

LEMMA OwnerStep ==
  ASSUME OwnInv, NEW e \in Execs,
         \/ Accept(e) \/ ExecuteStep(e) \/ CallThrows(e) \/ PersistThrows(e) \/ DeploymentFault(e)
  PROVE OwnerInv'
<1>1. ASSUME NEW f \in Execs, NEW g \in Execs, Owner(f)', InWorkspace(g)'
      PROVE g = f
  <2>1. CASE f = e
    BY <1>1, <2>1, OthersStay, EntersByAccept DEF OwnInv, OwnerInv
  <2>2. CASE f # e
    BY <1>1, <2>2, OthersStay, EntersByAccept DEF OwnInv, OwnerInv
  <2>3. QED
    BY <2>1, <2>2
<1>2. QED
  BY <1>1 DEF OwnerInv

-----------------------------------------------------------------------------
(* Its scores.                                                             *)

\* What the steps of e do to its scores, and to the champion.
LEMMA OwnScores ==
  ASSUME BaseInv, NEW e \in Execs,
         \/ Accept(e) \/ ExecuteStep(e) \/ CallThrows(e) \/ PersistThrows(e) \/ DeploymentFault(e),
         InWorkspace(e)', pc'[e] \notin {"prepare", "build"}
  PROVE /\ UNCHANGED champion
        /\ run'[e].champion = IF pc[e] = "build" THEN champion.score ELSE run[e].champion
        /\ pc'[e] \in Gated => \/ run'[e].score >= run[e].champion /\ pc[e] = "promote"
                               \/ run'[e].score = run[e].score /\ pc[e] \in Gated
<1>1. pc \in [Execs -> Places] /\ run \in [Execs -> Run] /\ run[e] \in Run
  BY RunFieldTypes DEF BaseInv, ReleaseInv, ControlOK, RestOK
<1>2. CASE Build(e)
  BY <1>1, <1>2 DEF Build, Goto, Gated, Merging, Run
<1>3. CASE NextCycle(e) /\ pc[e] # "build" /\ UNCHANGED champion
  BY <1>1, <1>3 DEF NextCycle, Goto, Gated, Merging, Run
<1>4. CASE Deliver(e) \/ BuildBlocked(e) \/ Review(e) \/ Refuse(e)
  BY <1>1, <1>3, <1>4 DEF Deliver, BuildBlocked, Review, Refuse, Goto, Gated, Merging, Run, inLoop, released
<1>5. CASE CommitCandidate(e)
  BY <1>1, <1>5 DEF CommitCandidate, BeatsChampion, Goto, Gated, Merging, Run, inLoop, released
<1>6. CASE PublishCandidate(e) \/ CIReview(e)
  BY <1>1, <1>3, <1>6 DEF PublishCandidate, CIReview, Goto, Gated, Merging, Run, inLoop, released
<1>7. CASE MergeRemote(e)
  BY <1>1, <1>7 DEF MergeRemote, Goto, Gated, Merging, Run, released
<1>11. CASE ReadHead(e) \/ ReadMerged(e)
  BY <1>1, <1>11 DEF ReadHead, ReadMerged, Goto, Gated, Merging, Run, inLoop, released
<1>12. CASE CheckoutTarget(e) \/ MergeLocal(e) \/ CheckoutBack(e)
  BY <1>1, <1>12 DEF CheckoutTarget, MergeLocal, CheckoutBack, Goto, Gated, Merging, inLoop, released
<1>8. CASE Accept(e) \/ Prepare(e)
  BY <1>1, <1>8 DEF Accept, Prepare, Goto
<1>9. CASE PromoteChampion(e) \/ Ends(e) \/ Deploys(e)
  <2>1. ~InWorkspace(e)'
    BY <1>1, <1>9 DEF PromoteChampion, Ends, GiveUp, PolicyBlocks, PolicyDenies, FinishPromoted,
       Finish, DeployThrew, MergeThrows, CallThrows, PersistThrows, End, Goto, Deploys,
       StartDeployment, DeploymentStep, DeploymentFault, InWorkspace
  <2>2. QED
    BY <2>1
<1>10. QED
  BY <1>2, <1>4, <1>5, <1>6, <1>7, <1>8, <1>9, <1>11, <1>12 DEF ExecuteStep, LoopStep, Ends, Deploys

\* Only an execution in the workspace changes the champion.
LEMMA ChampionChanges ==
  ASSUME BaseInv, NEW e \in Execs,
         \/ Accept(e) \/ ExecuteStep(e) \/ CallThrows(e) \/ PersistThrows(e) \/ DeploymentFault(e)
  PROVE champion' = champion \/ (InWorkspace(e) /\ champion' = NewChampion(e) /\ pc[e] = "champion")
BY StepLeaves DEF InWorkspace, Places

LEMMA ScoreStep ==
  ASSUME OwnInv, NEW e \in Execs,
         \/ Accept(e) \/ ExecuteStep(e) \/ CallThrows(e) \/ PersistThrows(e) \/ DeploymentFault(e)
  PROVE ScoreInv'
<1>1. ASSUME NEW f \in Execs, f # e
      PROVE /\ Owner(f)' /\ pc'[f] \notin {"prepare", "build"} => run'[f].champion = champion'.score
            /\ pc'[f] \in Gated => run'[f].score >= run'[f].champion
  BY <1>1, OthersStay, ChampionChanges DEF OwnInv, OwnerInv, ScoreInv, Owner
<1>2. pc'[e] \in Gated => InWorkspace(e)' /\ pc'[e] \notin {"prepare", "build"}
  BY DEF Gated, Merging, InWorkspace, Places
<1>3. /\ Owner(e)' /\ pc'[e] \notin {"prepare", "build"} => run'[e].champion = champion'.score
      /\ pc'[e] \in Gated => run'[e].score >= run'[e].champion
  <2>1. Accept(e) \/ pc[e] = "prepare" => pc'[e] \notin Places \ {"prepare", "build", "done", "dead"}
    <3>1. pc \in [Execs -> Places]
      BY DEF OwnInv, BaseInv, ReleaseInv, ControlOK
    <3>2. CASE Accept(e) \/ Prepare(e)
      BY <3>1, <3>2 DEF Accept, Prepare, Goto
    <3>3. CASE pc[e] = "prepare" /\ ~Prepare(e) /\ ~Accept(e)
      <4>1. ~Build(e) /\ ~LoopStep(e) /\ ~Deploys(e)
        BY <3>3 DEF Build, LoopStep, Deliver, BuildBlocked, Review, Refuse, CommitCandidate,
           PublishCandidate, CIReview, MergeRemote, ReadHead, CheckoutTarget, MergeLocal, ReadMerged,
           CheckoutBack, PromoteChampion, Deploys, StartDeployment, DeploymentStep, DeploymentFault
      <4>2. Ends(e)
        BY <3>3, <4>1 DEF ExecuteStep, Ends, Deploys
      <4>3. pc'[e] = "done"
        BY <3>1, <4>2 DEF Ends, GiveUp, PolicyBlocks, PolicyDenies, FinishPromoted, Finish, DeployThrew,
           MergeThrows, CallThrows, PersistThrows, End, Goto
      <4>4. QED
        BY <4>3
    <3>4. QED
      BY <3>2, <3>3
  <2>2. pc[e] = "promote" \/ pc[e] \in Gated => pc[e] \notin {"prepare", "build"}
    BY DEF Gated, Merging
  <2>3. InWorkspace(e)' => pc'[e] \in Places \ {"new", "decide", "deploying", "done", "dead"}
    BY DEF InWorkspace
  <2>4. pc[e] \in Gated => run[e].score >= run[e].champion
    BY DEF OwnInv, ScoreInv
  <2>5. Owner(e)' /\ ~Accept(e) => Owner(e)
    BY EntersByAccept DEF OwnInv
  <2>6. Owner(e) /\ pc[e] \notin {"prepare", "build"} => run[e].champion = champion.score
    BY DEF OwnInv, ScoreInv
  <2>7. ASSUME InWorkspace(e)', pc'[e] \notin {"prepare", "build"}
        PROVE /\ UNCHANGED champion /\ ~Accept(e) /\ pc[e] # "prepare"
              /\ run'[e].champion = IF pc[e] = "build" THEN champion.score ELSE run[e].champion
              /\ pc'[e] \in Gated => \/ run'[e].score >= run[e].champion /\ pc[e] = "promote"
                                     \/ run'[e].score = run[e].score /\ pc[e] \in Gated
    BY <2>1, <2>3, <2>7, OwnScores DEF OwnInv
  <2>8. ASSUME Owner(e)', pc'[e] \notin {"prepare", "build"} PROVE run'[e].champion = champion'.score
    BY <2>5, <2>6, <2>7, <2>8 DEF Owner
  <2>9. ASSUME pc'[e] \in Gated PROVE run'[e].score >= run'[e].champion
    BY <1>2, <2>2, <2>4, <2>7, <2>9
  <2>10. QED
    BY <2>8, <2>9
<1>4. QED
  BY <1>1, <1>3 DEF ScoreInv

-----------------------------------------------------------------------------
(* Its files.                                                              *)

LEMMA TipOfAppend ==
  ASSUME NEW c \in Commits, NEW t \in Trees
  PROVE Tip(Append(c, t)) = t
<1>1. Len(c) \in Nat /\ Len(Append(c, t)) = Len(c) + 1 /\ Append(c, t)[Len(c) + 1] = t
  BY DEF Commits
<1>2. QED
  BY <1>1 DEF Tip, Last

\* Outside the workspace nobody touches the repository.
LEMMA OutsideSteps ==
  ASSUME NEW e \in Execs, ~InWorkspace(e), pc[e] \in Places, ~Accept(e),
         \/ Accept(e) \/ ExecuteStep(e) \/ CallThrows(e) \/ PersistThrows(e) \/ DeploymentFault(e)
  PROVE UNCHANGED workspaceVars
<1>1. ~Prepare(e) /\ ~Build(e) /\ ~LoopStep(e) /\ ~MergeThrows(e) /\ ~CallThrows(e) /\ ~PersistThrows(e)
  BY DEF Prepare, Build, LoopStep, Deliver, BuildBlocked, Review, Refuse, CommitCandidate,
     PublishCandidate, CIReview, MergeRemote, ReadHead, CheckoutTarget, MergeLocal, ReadMerged,
     CheckoutBack, PromoteChampion, MergeThrows, Refused, CallThrows, PersistThrows, InWorkspace
<1>2. CASE GiveUp(e) \/ PolicyBlocks(e) \/ PolicyDenies(e) \/ FinishPromoted(e)
  BY <1>2 DEF GiveUp, PolicyBlocks, PolicyDenies, FinishPromoted, atRest
<1>3. CASE \/ StartDeployment(e) \/ DeploymentStep(e) \/ Finish(e) \/ DeployThrew(e)
           \/ DeploymentFault(e)
  BY <1>3 DEF StartDeployment, DeploymentStep, Finish, DeployThrew, DeploymentFault, atRest
<1>4. QED
  BY <1>1, <1>2, <1>3 DEF ExecuteStep

LEMMA OthersContent ==
  ASSUME OwnInv, NEW e \in Execs, NEW f \in Execs, f # e, Owner(f)',
         \/ Accept(e) \/ ExecuteStep(e) \/ CallThrows(e) \/ PersistThrows(e) \/ DeploymentFault(e)
  PROVE Content(f)'
<1>1. Owner(f) /\ ~Accept(e) /\ pc'[f] = pc[f] /\ run'[f] = run[f] /\ settings' = settings
  BY OthersStay, ExecutionSteps DEF OwnInv, StepOf
<1>2. ~InWorkspace(e) /\ pc[e] \in Places
  BY <1>1 DEF OwnInv, OwnerInv, BaseInv, ReleaseInv, ControlOK
<1>3. UNCHANGED workspaceVars
  BY <1>1, <1>2, OutsideSteps
<1>4. Content(f)
  BY <1>1 DEF OwnInv, ContentInv
<1>5. QED
  BY <1>1, <1>3, <1>4 DEF Content, workspaceVars

LEMMA AcceptContent ==
  ASSUME OwnInv, NEW e \in Execs, Accept(e)
  PROVE Content(e)'
<1>1. /\ Candidate(e) \in Branches /\ target \in Branches /\ base = target
      /\ local[target] \in Commits /\ local[target] # Absent
      /\ pc'[e] = "prepare" /\ local[Candidate(e)] = Absent
  BY DEF Accept, Goto, OwnInv, BaseInv, UnmadeInv, ReleaseInv, ControlOK, WorkspaceTypeOK, Rooted,
     Branches, Commits
<1>2. /\ head' = Candidate(e) /\ target' = target
      /\ local'[Candidate(e)] = local[target] /\ local'[target] = local[target]
  BY <1>1 DEF Accept, BranchOff, OwnInv, BaseInv, WorkspaceTypeOK
<1>3. IsPrefix(local[target], local[target])
  BY <1>1, PrefixReflexive
<1>4. QED
  BY <1>1, <1>2, <1>3 DEF Content, Gated, Merging

\* What the lemmas about the steps of an owner start from.
LEMMA OwnerFacts ==
  ASSUME OwnInv, NEW e \in Execs, Owner(e)
  PROVE /\ pc \in [Execs -> Places] /\ run \in [Execs -> Run] /\ run[e] \in Run /\ Content(e)
        /\ WorkspaceTypeOK /\ Rooted /\ run[e].branch \in Branches
BY RunFieldTypes DEF OwnInv, BaseInv, ReleaseInv, ControlOK, RestOK, ContentInv

LEMMA WorkContent ==
  ASSUME OwnInv, NEW e \in Execs, Owner(e),
         Prepare(e) \/ Build(e) \/ Deliver(e) \/ BuildBlocked(e) \/ Review(e) \/ Refuse(e)
  PROVE Content(e)'
<1>1. pc \in [Execs -> Places] /\ run \in [Execs -> Run] /\ run[e] \in Run /\ Content(e)
  BY OwnerFacts
<1>2. CASE Prepare(e)
  BY <1>1, <1>2 DEF Prepare, NameCandidate, Goto, Content, Gated, Merging
<1>3. CASE Build(e)
  BY <1>1, <1>3 DEF Build, Write, Goto, Content, Gated, Merging
<1>4. CASE Deliver(e)
  BY <1>1, <1>4 DEF Deliver, NextCycle, Write, Goto, Content, Gated, Merging
<1>5. CASE BuildBlocked(e) \/ Refuse(e)
  BY <1>1, <1>5 DEF BuildBlocked, Refuse, NextCycle, Goto, Content, workspaceVars, Gated, Merging
<1>6. CASE Review(e)
  BY <1>1, <1>6 DEF Review, NextCycle, Goto, Content, workspaceVars, Run, Gated, Merging
<1>7. QED
  BY <1>2, <1>3, <1>4, <1>5, <1>6

LEMMA CommitContent ==
  ASSUME OwnInv, NEW e \in Execs, Owner(e), CommitCandidate(e)
  PROVE Content(e)'
<1>1. /\ pc \in [Execs -> Places] /\ run[e] \in Run /\ run \in [Execs -> Run] /\ Content(e)
      /\ WorkspaceTypeOK /\ Rooted
  BY OwnerFacts
<1>2. /\ head = Candidate(e) /\ cand = Candidate(e) /\ IsPrefix(local[target], local[head])
      /\ run[e].reviewed = work /\ head \in Branches /\ target \in Branches /\ work \in Trees
      /\ local[head] \in Commits /\ local[target] \in Commits
      /\ UNCHANGED <<head, cand, target>>
  BY <1>1 DEF CommitCandidate, CommitWork, Content, WorkspaceTypeOK, Commits
<1> DEFINE c == IF work = Tip(local[head]) THEN local[head] ELSE Append(local[head], work)
<1>3. c \in Commits /\ IsPrefix(local[head], c) /\ Tip(c) = work
  BY <1>2, PrefixOfAppend, PrefixReflexive, TipOfAppend
<1>4. local' = [local EXCEPT ![head] = c]
  BY DEF CommitCandidate, CommitWork
<1> HIDE DEF c
<1>5. local'[head] = c /\ local'[target] \in {c, local[target]}
  BY <1>1, <1>2, <1>4 DEF WorkspaceTypeOK
<1>6. IsPrefix(local[target], c) /\ IsPrefix(c, c)
  BY <1>2, <1>3, PrefixTransitive, PrefixReflexive
<1>7. /\ run'[e].reviewed = run[e].reviewed
      /\ pc'[e] = IF settings.github THEN "publish" ELSE "mergeLocal"
      /\ settings' = settings
  BY <1>1 DEF CommitCandidate, Goto, Run, inLoop, released
<1>8. QED
  BY <1>2, <1>3, <1>5, <1>6, <1>7 DEF Content, Gated, Merging

LEMMA PublishContent ==
  ASSUME OwnInv, NEW e \in Execs, Owner(e),
         PublishCandidate(e) \/ CIReview(e) \/ MergeRemote(e)
  PROVE Content(e)'
<1>1. /\ pc \in [Execs -> Places] /\ run[e] \in Run /\ run \in [Execs -> Run] /\ Content(e)
      /\ WorkspaceTypeOK /\ Rooted /\ run[e].branch \in Branches
  BY OwnerFacts
<1>2. CASE PublishCandidate(e)
  <2>1. cand = Candidate(e) /\ cand \in Branches
    BY <1>1, <1>2 DEF PublishCandidate, Content, WorkspaceTypeOK
  <2>2. remote'[cand] = Published(cand) /\ UNCHANGED <<local, head, cand, target>>
    BY <1>1, <1>2, <2>1, PublishSound DEF PublishCandidate, Publish
  <2>3. /\ pc[e] = "publish" /\ pc'[e] = "ci"
        /\ run'[e].published = Published(cand)
        /\ run'[e].branch = cand /\ run'[e].reviewed = run[e].reviewed
    BY <1>1, <1>2 DEF PublishCandidate, Goto, Run
  <2>4. QED
    BY <1>1, <2>1, <2>2, <2>3 DEF Content, Gated, Merging
<1>3. CASE CIReview(e)
  BY <1>1, <1>3 DEF CIReview, NextCycle, Goto, Content, workspaceVars, Gated, Merging
<1>4. CASE MergeRemote(e)
  <2>1. /\ pc[e] = "mergeRemote" /\ pc'[e] = "mergeLocal" /\ UNCHANGED <<local, head, cand, target>>
        /\ run'[e].promoted = remote[run[e].branch] /\ run'[e].published = run[e].published
        /\ run'[e].branch = run[e].branch /\ run'[e].reviewed = run[e].reviewed
    BY <1>1, <1>4 DEF MergeRemote, PromoteRemote, Goto, Run
  <2>2. QED
    BY <1>1, <2>1 DEF Content, Gated, Merging
<1>5. QED
  BY <1>2, <1>3, <1>4

LEMMA MergeContent ==
  ASSUME OwnInv, NEW e \in Execs, Owner(e),
         \/ ReadHead(e) \/ CheckoutTarget(e) \/ MergeLocal(e) \/ ReadMerged(e) \/ CheckoutBack(e)
  PROVE Content(e)'
<1>1. /\ pc \in [Execs -> Places] /\ run[e] \in Run /\ run \in [Execs -> Run] /\ Content(e)
      /\ WorkspaceTypeOK /\ Rooted /\ run[e].branch \in Branches
  BY OwnerFacts
<1>2. settings' = settings
  BY DEF ReadHead, CheckoutTarget, MergeLocal, ReadMerged, CheckoutBack, inLoop, released
<1>3. CASE ReadHead(e)
  <2>1. /\ pc[e] = "mergeLocal" /\ pc'[e] = IF head = target THEN "merge" ELSE "checkout"
        /\ run'[e].branch = IF settings.github THEN run[e].branch ELSE cand
        /\ run'[e].reviewed = run[e].reviewed /\ run'[e].published = run[e].published
        /\ run'[e].promoted = run[e].promoted
        /\ UNCHANGED <<local, head, cand, target>>
    BY <1>1, <1>3 DEF ReadHead, Goto, Run, workspaceVars
  <2>2. QED
    BY <1>1, <1>2, <2>1 DEF Content, Gated, Merging
<1>4. CASE CheckoutTarget(e)
  <2>1. /\ pc[e] = "checkout" /\ pc'[e] = "merge" /\ head' = target
        /\ UNCHANGED <<run, local, cand, target>>
    BY <1>1, <1>4 DEF CheckoutTarget, Checkout, Goto
  <2>2. QED
    BY <1>1, <1>2, <2>1 DEF Content, Gated, Merging
<1>5. CASE MergeLocal(e)
  <2>1. /\ pc[e] = "merge" /\ pc'[e] = "merged" /\ head = target
        /\ UNCHANGED <<run, head, cand, target>>
    BY <1>1, <1>5 DEF MergeLocal, Merge, Goto, Content
  <2>2. local'[target] = Merged(run[e].branch)
    BY <1>1, <1>5, <2>1, MergeSound DEF MergeLocal
  <2>3. Merged(run[e].branch) = local[Candidate(e)] /\ Tip(local[Candidate(e)]) = run[e].reviewed
    BY <1>1, <2>1 DEF Content, Merged
  <2>4. Candidate(e) \in Branches /\ local[Candidate(e)] \in Commits
    BY <1>1 DEF Branches, WorkspaceTypeOK, Commits
  <2>5. local'[Candidate(e)] = local[Candidate(e)]
    BY <1>1, <1>5, <2>1, <2>3 DEF MergeLocal, Merge, WorkspaceTypeOK
  <2>6. IsPrefix(local'[target], local'[Candidate(e)])
    BY <2>2, <2>3, <2>4, <2>5, PrefixReflexive
  <2>7. QED
    BY <1>1, <1>2, <2>1, <2>2, <2>3, <2>6 DEF Content, Gated, Merging
<1>6. CASE ReadMerged(e)
  <2>1. /\ pc[e] = "merged" /\ pc'[e] \in {"champion", "back"}
        /\ settings.github => run'[e].promoted = run[e].promoted
        /\ run'[e].reviewed = run[e].reviewed /\ run'[e].published = run[e].published
        /\ UNCHANGED <<local, cand, target>>
    BY <1>1, <1>6 DEF ReadMerged, Goto, Run, workspaceVars
  <2>2. QED
    BY <1>1, <1>2, <2>1 DEF Content, Gated, Merging
<1>7. CASE CheckoutBack(e)
  <2>1. /\ pc[e] = "back" /\ pc'[e] = "champion"
        /\ UNCHANGED <<run, local, cand, target>>
    BY <1>1, <1>7 DEF CheckoutBack, Checkout, Goto
  <2>2. QED
    BY <1>1, <1>2, <2>1 DEF Content, Gated, Merging
<1>8. QED
  BY <1>3, <1>4, <1>5, <1>6, <1>7

LEMMA ContentStep ==
  ASSUME OwnInv, NEW e \in Execs,
         \/ Accept(e) \/ ExecuteStep(e) \/ CallThrows(e) \/ PersistThrows(e) \/ DeploymentFault(e)
  PROVE ContentInv'
<1>1. ASSUME NEW f \in Execs, Owner(f)' PROVE Content(f)'
  <2>1. CASE f # e
    BY <1>1, <2>1, OthersContent
  <2>2. CASE f = e
    <3>1. Accept(e) \/ Owner(e)
      BY <1>1, <2>2, EntersByAccept DEF OwnInv
    <3>2. ASSUME PromoteChampion(e) \/ Ends(e) \/ Deploys(e) PROVE FALSE
      <4>1. ~InWorkspace(e)'
        BY <3>2 DEF PromoteChampion, Ends, GiveUp, PolicyBlocks, PolicyDenies, FinishPromoted,
           Finish, DeployThrew, MergeThrows, CallThrows, PersistThrows, End, Goto, Deploys,
           StartDeployment, DeploymentStep, DeploymentFault, InWorkspace, OwnInv, BaseInv,
           ReleaseInv, ControlOK
      <4>2. QED
        BY <1>1, <2>2, <4>1 DEF Owner
    <3>3. \/ Accept(e) \/ Prepare(e) \/ Build(e) \/ Deliver(e) \/ BuildBlocked(e) \/ Review(e) \/ Refuse(e)
          \/ CommitCandidate(e) \/ PublishCandidate(e) \/ CIReview(e) \/ MergeRemote(e)
          \/ ReadHead(e) \/ CheckoutTarget(e) \/ MergeLocal(e) \/ ReadMerged(e) \/ CheckoutBack(e)
      BY <3>2 DEF ExecuteStep, LoopStep, Ends, Deploys
    <3>4. QED
      BY <1>1, <2>2, <3>1, <3>3, AcceptContent, WorkContent, CommitContent, PublishContent,
         MergeContent DEF Owner, Accept
  <2>3. QED
    BY <2>1, <2>2
<1>2. QED
  BY <1>1 DEF ContentInv

-----------------------------------------------------------------------------

\* Stop and the steps of nobody disturb no owner; after a restart there is none.
LEMMA NobodyStep ==
  ASSUME OwnInv, Stop \/ Restart \/ UNCHANGED vars
  PROVE (OwnerInv /\ ScoreInv /\ ContentInv)'
<1>1. CASE Stop \/ UNCHANGED vars
  <2>1. UNCHANGED <<workspaceVars, settings, pc, run, alone, champion>>
    BY <1>1 DEF Stop, vars, executionVars
  <2>2. QED
    BY <2>1 DEF workspaceVars, OwnInv, OwnerInv, ScoreInv, ContentInv, Content, Owner, InWorkspace
<1>2. CASE Restart
  <2>1. \A e \in Execs : ~InWorkspace(e)' /\ pc'[e] \notin Gated
    BY <1>2 DEF Restart, Active, InWorkspace, Gated, Merging
  <2>2. QED
    BY <2>1 DEF OwnerInv, ScoreInv, ContentInv, Owner
<1>3. QED
  BY <1>1, <1>2

LEMMA OwnInit == Init => OwnInv
BY BaseInit DEF Init, OwnInv, OwnerInv, ScoreInv, ContentInv, Owner, InWorkspace, Gated, Merging

LEMMA OwnNext == OwnInv /\ [Next]_vars => OwnInv'
<1> SUFFICES ASSUME OwnInv, [Next]_vars PROVE OwnInv'
  OBVIOUS
<1>1. BaseInv'
  BY BaseStep DEF OwnInv
<1>2. (OwnerInv /\ ScoreInv /\ ContentInv)'
  BY NobodyStep, OwnerStep, ScoreStep, ContentStep DEF Next
<1>3. QED
  BY <1>1, <1>2 DEF OwnInv

LEMMA OwnInvariant == Spec => []OwnInv
<1>1. QED
  BY OwnInit, OwnNext, PTL DEF Spec

\* What PromotionController merges for an execution that has the workspace to
\* itself is what its security review saw and, on GitHub, what its CI passed.
THEOREM AloneIsPromotedAsValidated == Spec => []PromotedAsValidated
<1>1. OwnInv => PromotedAsValidated
  BY DEF OwnInv, ContentInv, Content, Gated, Owner, InWorkspace, Places, PromotedAsValidated
<1>2. QED
  BY <1>1, OwnInvariant, PTL

\* The champion gates compare with the champion read when the repair loop began
\* (AutonomousController.run); without an overlap that is the current one, so
\* ChampionStore.promote never lowers the benchmark score.
THEOREM AloneNeverRegresses == Spec => ChampionNeverRegresses
<1>1. OwnInv /\ [Next]_vars =>
        [\A e \in Execs : pc[e] = "champion" /\ pc'[e] = "decide" /\ alone[e]
           => champion'.score >= champion.score]_vars
  <2> SUFFICES ASSUME OwnInv, [Next]_vars, NEW e \in Execs,
                      pc[e] = "champion", pc'[e] = "decide", alone[e]
               PROVE champion'.score >= champion.score
    OBVIOUS
  <2>1. pc \in [Execs -> Places] /\ Owner(e)
    BY DEF OwnInv, BaseInv, ReleaseInv, ControlOK, Owner, InWorkspace, Places
  <2>2. PICK f \in Execs :
          \/ Accept(f) \/ ExecuteStep(f) \/ CallThrows(f) \/ PersistThrows(f) \/ DeploymentFault(f)
    BY DEF Next, Stop, Restart, vars, executionVars, Active
  <2>3. f = e
    BY <2>2, OthersStay DEF OwnInv
  <2>4. champion' = champion \/ champion' = NewChampion(e)
    BY <2>2, <2>3, ChampionChanges DEF OwnInv
  <2>5. run[e].score >= champion.score /\ champion.score \in ScoreOrNone
    BY <2>1 DEF OwnInv, ScoreInv, Gated, BaseInv, RestOK, Champion
  <2>6. champion.score \in Nat
    BY <2>5, ScoresAreNat
  <2>7. NewChampion(e).score = run[e].score
    BY DEF NewChampion
  <2>8. QED
    BY <2>4, <2>5, <2>6, <2>7
<1>2. QED
  BY <1>1, OwnInvariant, PTL DEF Spec, ChampionNeverRegresses

-----------------------------------------------------------------------------
(* What was merged for an execution that had the workspace to itself.      *)

\* Where the answer of a promotion is known, or has been acted upon.
Answered(e) ==
  \/ pc[e] \in {"merged", "back", "champion", "decide", "deploying"}
  \/ record[e] = "PROMOTED"
  \/ \E n \in Envs : e \in serving[n]

AloneInv == \A e \in Execs : alone[e] /\ Answered(e) => landed[e] = "both"

\* A step of e leaves what another execution has answered.
LEMMA OthersAnswers ==
  ASSUME OwnInv, NEW e \in Execs, NEW f \in Execs, f # e,
         \/ Accept(e) \/ ExecuteStep(e) \/ CallThrows(e) \/ PersistThrows(e) \/ DeploymentFault(e)
  PROVE /\ alone'[f] => alone[f]
        /\ Answered(f)' => Answered(f)
        /\ landed'[f] = landed[f]
<1>1. ReleaseInv /\ ControlOK /\ BaseInv /\ RestOK
  BY DEF OwnInv, BaseInv, ReleaseInv
<1>2. pc'[f] = pc[f]
  BY <1>1, OthersStay
<1>3. alone'[f] => alone[f]
  BY <1>1, StepLeaves DEF Accept
<1>4. /\ record'[f] = record[f] /\ landed'[f] = landed[f]
      /\ \A n \in Envs : f \in serving'[n] => f \in serving[n]
  <2>1. CASE Moves(e)
    <3>1. PICK place, lands : MoveOf(e, place, lands)
      BY <1>1, <2>1, MovesAreMoves
    <3>2. QED
      BY <1>1, <3>1 DEF MoveOf, ControlOK, deploymentVars
  <2>2. CASE Ends(e)
    <3>1. PICK status \in {"PROMOTED", "COMPLETED", "FAILED"} : EndOf(e, status)
      BY <1>1, <2>2, EndsAreEnds
    <3>2. QED
      BY <1>1, <3>1 DEF EndOf, ControlOK, deploymentVars
  <2>3. CASE Deploys(e)
    BY <1>1, <2>3, OthersUntouched
  <2>4. QED
    BY <2>1, <2>2, <2>3 DEF ExecuteStep, LoopStep, Moves, Ends, Deploys
<1>5. QED
  BY <1>2, <1>3, <1>4 DEF Answered

\* Its own steps: only a merge into the target answers anything new.
LEMMA OwnAnswers ==
  ASSUME OwnInv, AloneInv, NEW e \in Execs, alone'[e], Answered(e)',
         \/ Accept(e) \/ ExecuteStep(e) \/ CallThrows(e) \/ PersistThrows(e) \/ DeploymentFault(e)
  PROVE landed'[e] = "both"
<1>1. /\ ReleaseInv /\ ControlOK /\ BaseInv /\ PhaseInv(e) /\ DeployInv(e)
      /\ ~Accept(e) => alone[e]
  BY StepLeaves DEF OwnInv, BaseInv, ReleaseInv
<1>2. CASE Moves(e)
  <2>1. PICK place, lands : MoveOf(e, place, lands)
    BY <1>1, <1>2, MovesAreMoves
  <2>2. /\ pc'[e] = place /\ pc[e] \notin {"deploying", "done", "dead"}
        /\ serving' = serving /\ record'[e] \in {record[e], "RUNNING"}
    BY <1>1, <2>1 DEF MoveOf, ControlOK, deploymentVars, Before, After, Merging
  <2>3. \A n \in Envs : e \notin serving[n]
    BY <1>1, <2>2 DEF DeployInv
  <2>4. pc'[e] \in {"merged", "back", "champion", "decide", "deploying"}
    BY <1>1, <2>2, <2>3 DEF Answered, PhaseInv
  <2>5. MergeLocal(e) \/ ReadMerged(e) \/ CheckoutBack(e) \/ PromoteChampion(e)
    <3>1. ~Accept(e) /\ ~Prepare(e) /\ ~Build(e) /\ ~NextCycle(e)
      BY <1>1, <2>4 DEF Accept, Prepare, Build, NextCycle, Goto, ControlOK
    <3>2. /\ ~Deliver(e) /\ ~BuildBlocked(e) /\ ~Review(e) /\ ~Refuse(e) /\ ~CommitCandidate(e)
          /\ ~PublishCandidate(e) /\ ~CIReview(e) /\ ~MergeRemote(e)
      BY <1>1, <2>4, <3>1 DEF Deliver, BuildBlocked, Review, Refuse, CommitCandidate,
         PublishCandidate, CIReview, MergeRemote, Goto, ControlOK
    <3>3. ~ReadHead(e) /\ ~CheckoutTarget(e)
      BY <1>1, <2>4 DEF ReadHead, CheckoutTarget, Goto, ControlOK
    <3>4. QED
      BY <1>2, <3>1, <3>2, <3>3 DEF Moves
  <2>6. CASE MergeLocal(e)
    <3>1. Owner(e) /\ pc[e] = "merge" /\ alone[e]
      BY <1>1, <2>6 DEF MergeLocal, Accept, Owner, InWorkspace, Places
    <3>2. head = target
      BY <3>1 DEF OwnInv, ContentInv, Content
    <3>3. QED
      BY <1>1, <2>6, <3>2 DEF MergeLocal, ControlOK
  <2>7. CASE ReadMerged(e) \/ CheckoutBack(e) \/ PromoteChampion(e)
    <3>1. /\ landed' = landed /\ pc[e] \in {"merged", "back", "champion"} /\ ~Accept(e)
      BY <2>7 DEF ReadMerged, CheckoutBack, PromoteChampion, Accept, inLoop
    <3>2. QED
      BY <1>1, <3>1 DEF AloneInv, Answered
  <2>8. QED
    BY <2>5, <2>6, <2>7
<1>3. CASE Ends(e)
  <2>1. PICK status \in {"PROMOTED", "COMPLETED", "FAILED"} : EndOf(e, status)
    BY <1>1, <1>3, EndsAreEnds
  <2>2. Answered(e) /\ landed' = landed /\ pc[e] # "new"
    BY <1>1, <2>1 DEF EndOf, ControlOK, deploymentVars, Answered
  <2>3. alone[e]
    BY <1>1, <2>2 DEF Accept
  <2>4. QED
    BY <2>2, <2>3 DEF AloneInv
<1>4. CASE Deploys(e)
  <2>1. pc[e] \in {"decide", "deploying"} /\ landed' = landed
    BY <1>4 DEF Deploys, StartDeployment, DeploymentStep, DeploymentFault, atRest
  <2>2. alone[e]
    BY <1>1, <2>1 DEF Accept
  <2>3. QED
    BY <2>1, <2>2 DEF AloneInv, Answered
<1>5. QED
  BY <1>2, <1>3, <1>4 DEF ExecuteStep, LoopStep, Moves, Ends, Deploys

LEMMA AloneStep ==
  ASSUME OwnInv, AloneInv, [Next]_vars
  PROVE AloneInv'
<1>1. CASE Stop \/ UNCHANGED vars
  <2>1. UNCHANGED <<pc, record, serving, alone, landed>>
    BY <1>1 DEF Stop, vars, executionVars, deploymentVars
  <2>2. QED
    BY <2>1 DEF AloneInv, Answered
<1>2. CASE Restart
  <2>1. /\ UNCHANGED <<record, serving, alone, landed>>
        /\ \A e \in Execs : pc'[e] \in {"new", "done", "dead"}
    BY <1>2 DEF Restart, DeploymentCrash, Active
  <2>2. QED
    BY <2>1 DEF AloneInv, Answered
<1>3. ASSUME NEW e \in Execs, NEW f \in Execs, alone'[f], Answered(f)',
             \/ Accept(e) \/ ExecuteStep(e) \/ CallThrows(e) \/ PersistThrows(e) \/ DeploymentFault(e)
      PROVE landed'[f] = "both"
  <2>1. CASE f = e
    BY <1>3, <2>1, OwnAnswers
  <2>2. CASE f # e
    BY <1>3, <2>2, OthersAnswers DEF AloneInv
  <2>3. QED
    BY <2>1, <2>2
<1>4. QED
  BY <1>1, <1>2, <1>3 DEF Next, AloneInv

LEMMA AloneInvariant == Spec => [](OwnInv /\ AloneInv)
<1>1. Init => OwnInv /\ AloneInv
  BY OwnInit DEF Init, AloneInv
<1>2. OwnInv /\ AloneInv /\ [Next]_vars => (OwnInv /\ AloneInv)'
  BY OwnNext, AloneStep
<1>3. QED
  BY <1>1, <1>2, PTL DEF Spec

\* The record of an execution tells what happened to it (JoraRuntime.execute):
\* PROMOTED was merged, on GitHub always and into the local target whenever no
\* other execution shared the workspace (promoteCandidate), and what is recorded
\* COMPLETED has moved no branch.
THEOREM RecordsAreTrue == Spec => []RecordTruth
<1>1. OwnInv /\ AloneInv => RecordTruth
  BY DEF OwnInv, BaseInv, ReleaseInv, RecordInv, Stands, AloneInv, Answered, Landed, RecordTruth
<1>2. QED
  BY <1>1, AloneInvariant, PTL

\* The deployment endpoint gets only versions whose promotion stands in that
\* sense, and a staged production environment only what staging reported
\* DEPLOYED (StagedDeploymentController).
THEOREM ServedWasStaged == Spec => []OnlyStagedServed
<1>1. OwnInv /\ AloneInv => OnlyStagedServed
  BY DEF OwnInv, BaseInv, ReleaseInv, DeployInv, Stands, AloneInv, Answered, Landed, OnlyStagedServed
<1>2. QED
  BY <1>1, AloneInvariant, PTL

-----------------------------------------------------------------------------
(* The champion in the history of the branches.                            *)

\* A promotion that has moved its target, or has said so, but has not recorded
\* the champion.
Unrecorded(e) == pc[e] \in {"back", "champion"} \/ (settings.github /\ pc[e] \in {"mergeLocal"} \cup Merging)

\* Its commit is in the history of GitHub's target, or of a local branch: for an
\* execution that had the workspace to itself the target.
Promotion(e) ==
  IF settings.github THEN IsPrefix(run[e].promoted, remote[target])
  ELSE \E b \in Branches : IsPrefix(run[e].promoted, local[b]) /\ (alone[e] => b = target)

PromotedInv == \A e \in Execs : Unrecorded(e) => Promotion(e)

HistoryInv == OwnInv /\ PromotedInv /\ ChampionIsPromoted

LEMMA BranchHistory ==
  ASSUME BaseInv, [Next]_vars, NEW c \in Commits, NEW b \in Branches
  PROVE /\ IsPrefix(c, remote[b]) => IsPrefix(c, remote'[b])
        /\ IsPrefix(c, local[b]) => IsPrefix(c, local'[b])
<1>1. /\ local[b] \in Commits /\ local'[b] \in Commits /\ remote[b] \in Commits /\ remote'[b] \in Commits
      /\ IsPrefix(local[b], local'[b]) /\ IsPrefix(remote[b], remote'[b])
  BY BaseStep DEF BaseInv, Sound, BranchesGrow, WorkspaceTypeOK, Commits
<1>2. QED
  BY <1>1, PrefixTransitive

LEMMA PromotionStays ==
  ASSUME BaseInv, [Next]_vars, NEW f \in Execs, Promotion(f),
         run'[f].promoted = run[f].promoted, target' = target, alone'[f] => alone[f]
  PROVE Promotion(f)'
<1>1. run[f].promoted \in Commits /\ target \in Branches /\ settings' = settings
  BY RunFieldTypes, SettingsStay DEF BaseInv, WorkspaceTypeOK, Commits
<1>2. CASE settings.github
  BY <1>1, <1>2, BranchHistory DEF Promotion
<1>3. CASE ~settings.github
  <2>1. PICK b \in Branches : IsPrefix(run[f].promoted, local[b]) /\ (alone[f] => b = target)
    BY <1>3 DEF Promotion
  <2>2. IsPrefix(run[f].promoted, local'[b])
    BY <1>1, <2>1, BranchHistory
  <2>3. QED
    BY <1>1, <1>3, <2>1, <2>2 DEF Promotion
<1>4. QED
  BY <1>2, <1>3

\* The steps of an execution leave the target branch the same one.
LEMMA TargetStays ==
  ASSUME NEW e \in Execs,
         \/ Accept(e) \/ ExecuteStep(e) \/ CallThrows(e) \/ PersistThrows(e) \/ DeploymentFault(e)
  PROVE target' = target
<1>1. CASE Elsewhere(e)
  BY <1>1, ElsewhereIsElsewhere DEF workspaceVars
<1>2. CASE Accept(e) \/ Prepare(e) \/ Build(e) \/ Deliver(e)
  BY <1>2 DEF Accept, Prepare, Build, Deliver, BranchOff, NameCandidate, Write
<1>3. CASE CommitCandidate(e) \/ PublishCandidate(e) \/ MergeRemote(e)
  BY <1>3 DEF CommitCandidate, PublishCandidate, MergeRemote, CommitWork, Publish, PromoteRemote
<1>4. CASE CheckoutTarget(e) \/ MergeLocal(e) \/ CheckoutBack(e)
  BY <1>4 DEF CheckoutTarget, MergeLocal, CheckoutBack, Checkout, Merge
<1>5. QED
  BY <1>1, <1>2, <1>3, <1>4 DEF ExecuteStep, LoopStep, Elsewhere, Deploys

\* What a merge answers is in the history of the branch it was merged into.
LEMMA MergePromotes ==
  ASSUME HistoryInv, [Next]_vars, NEW e \in Execs, Unrecorded(e)',
         \/ MergeRemote(e) \/ ReadHead(e) \/ CheckoutTarget(e) \/ MergeLocal(e) \/ ReadMerged(e)
         \/ CheckoutBack(e)
  PROVE Promotion(e)'
<1>1. /\ pc \in [Execs -> Places] /\ run \in [Execs -> Run] /\ run[e] \in Run
      /\ run[e].branch \in Branches /\ WorkspaceTypeOK /\ Rooted /\ BaseInv /\ OwnInv
      /\ Unrecorded(e) => Promotion(e)
  BY RunFieldTypes DEF HistoryInv, OwnInv, PromotedInv, BaseInv, ReleaseInv, ControlOK, RestOK
<1>2. settings' = settings /\ target' = target /\ alone' = alone
  BY TargetStays, SettingsStay
     DEF ExecuteStep, LoopStep, MergeRemote, ReadHead, CheckoutTarget, MergeLocal, ReadMerged, CheckoutBack,
         inLoop
<1>3. CASE MergeRemote(e)
  <2>1. remote'[target] = remote[run[e].branch] /\ remote[run[e].branch] \in Commits
    BY <1>1, <1>3, PromoteRemoteSound DEF MergeRemote, WorkspaceTypeOK, Commits
  <2>2. run'[e].promoted = remote[run[e].branch] /\ pc'[e] = "mergeLocal"
    BY <1>1, <1>3 DEF MergeRemote, Goto, Run
  <2>3. settings.github
    BY <1>2, <2>2 DEF Unrecorded, Merging
  <2>4. IsPrefix(run'[e].promoted, remote'[target])
    BY <2>1, <2>2, PrefixReflexive
  <2>5. QED
    BY <1>2, <2>3, <2>4 DEF Promotion
<1>4. ASSUME run'[e].promoted = run[e].promoted, Unrecorded(e) PROVE Promotion(e)'
  BY <1>1, <1>2, <1>4, PromotionStays
<1>5. CASE ReadHead(e) \/ CheckoutTarget(e) \/ MergeLocal(e) \/ CheckoutBack(e)
  <2>1. run'[e].promoted = run[e].promoted
    BY <1>1, <1>5 DEF ReadHead, CheckoutTarget, MergeLocal, CheckoutBack, Run
  <2>2. Unrecorded(e)
    BY <1>1, <1>2, <1>5 DEF ReadHead, CheckoutTarget, MergeLocal, CheckoutBack, Goto, Unrecorded, Merging
  <2>3. QED
    BY <1>4, <2>1, <2>2
<1>6. CASE ReadMerged(e) /\ settings.github
  <2>1. run'[e].promoted = run[e].promoted /\ Unrecorded(e)
    BY <1>1, <1>6 DEF ReadMerged, Run, Unrecorded, Merging
  <2>2. QED
    BY <1>4, <2>1
<1>7. CASE ReadMerged(e) /\ ~settings.github
  <2>1. /\ run'[e].promoted = local[head] /\ UNCHANGED local /\ pc[e] = "merged"
        /\ head \in Branches /\ local[head] \in Commits
    BY <1>1, <1>7 DEF ReadMerged, Run, workspaceVars, WorkspaceTypeOK, Commits
  <2>2. alone[e] => head = target
    <3>1. alone[e] => Owner(e)
      BY <2>1 DEF Owner, InWorkspace, Places
    <3>2. QED
      BY <1>1, <2>1, <3>1 DEF OwnInv, ContentInv, Content
  <2>3. IsPrefix(local[head], local[head])
    BY <2>1, PrefixReflexive
  <2>4. QED
    BY <1>2, <1>7, <2>1, <2>2, <2>3 DEF Promotion
<1>8. QED
  BY <1>3, <1>5, <1>6, <1>7

\* After its other steps it has no promotion that is not recorded.
LEMMA NothingUnrecorded ==
  ASSUME BaseInv, NEW e \in Execs, ~MergeRemote(e), ~ReadHead(e), ~CheckoutTarget(e), ~MergeLocal(e),
         ~ReadMerged(e), ~CheckoutBack(e), [Next]_vars, ~DeploymentStep(e), ~DeploymentFault(e),
         Accept(e) \/ ExecuteStep(e) \/ CallThrows(e) \/ PersistThrows(e)
  PROVE ~Unrecorded(e)'
<1>1. pc \in [Execs -> Places] /\ settings' = settings
  BY SettingsStay DEF BaseInv, ReleaseInv, ControlOK
<1>2. CASE NextCycle(e)
  BY <1>1, <1>2 DEF NextCycle, Goto, Unrecorded, Merging
<1>3. CASE Accept(e) \/ Prepare(e) \/ Build(e)
  BY <1>1, <1>3 DEF Accept, Prepare, Build, Goto, Unrecorded, Merging
<1>4. CASE Deliver(e) \/ BuildBlocked(e) \/ Review(e) \/ Refuse(e) \/ PublishCandidate(e) \/ CIReview(e)
  <2>1. NextCycle(e) \/ \E place \in {"review", "promote", "ci", "mergeRemote"} : Goto(e, place)
    BY <1>4 DEF Deliver, BuildBlocked, Review, Refuse, PublishCandidate, CIReview
  <2>2. QED
    BY <1>1, <1>2, <2>1 DEF Goto, Unrecorded, Merging
<1>5. CASE CommitCandidate(e)
  BY <1>1, <1>5 DEF CommitCandidate, Goto, Unrecorded, Merging
<1>6. CASE PromoteChampion(e) \/ StartDeployment(e)
  BY <1>1, <1>6 DEF PromoteChampion, StartDeployment, Goto, Unrecorded, Merging
<1>7. CASE Ends(e)
  <2>1. pc'[e] = "done"
    BY <1>1, <1>7 DEF Ends, GiveUp, PolicyBlocks, PolicyDenies, FinishPromoted, Finish, DeployThrew,
       MergeThrows, CallThrows, PersistThrows, End, Goto
  <2>2. QED
    BY <2>1 DEF Unrecorded, Merging
<1>8. QED
  BY <1>3, <1>4, <1>5, <1>6, <1>7 DEF ExecuteStep, LoopStep, Ends

LEMMA PromotedStep ==
  ASSUME HistoryInv, [Next]_vars
  PROVE PromotedInv'
<1>1. BaseInv /\ OwnInv /\ \A f \in Execs : Unrecorded(f) => Promotion(f)
  BY DEF HistoryInv, OwnInv, PromotedInv
<1>2. ASSUME NEW f \in Execs, Unrecorded(f)', Unrecorded(f), run'[f].promoted = run[f].promoted,
             target' = target, alone'[f] => alone[f]
      PROVE Promotion(f)'
  BY <1>1, <1>2, PromotionStays
<1>3. CASE Stop \/ UNCHANGED vars
  <2>1. UNCHANGED <<pc, run, settings, target, alone>>
    BY <1>3 DEF Stop, vars, executionVars, workspaceVars
  <2>2. QED
    BY <1>2, <2>1 DEF PromotedInv, Unrecorded
<1>4. CASE Restart
  <2>1. \A f \in Execs : pc'[f] \in {"new", "done", "dead"}
    BY <1>4 DEF Restart, Active
  <2>2. QED
    BY <2>1 DEF PromotedInv, Unrecorded, Merging
<1>5. ASSUME NEW e \in Execs, NEW f \in Execs, Unrecorded(f)',
             \/ Accept(e) \/ ExecuteStep(e) \/ CallThrows(e) \/ PersistThrows(e) \/ DeploymentFault(e)
      PROVE Promotion(f)'
  <2>1. settings' = settings /\ target' = target
    BY <1>5, SettingsStay, TargetStays
  <2>2. CASE f # e
    <3>1. pc'[f] = pc[f] /\ run'[f] = run[f] /\ (alone'[f] => alone[f])
      BY <1>1, <1>5, <2>2, OthersStay, OthersAnswers
    <3>2. QED
      BY <1>2, <1>5, <2>1, <3>1 DEF Unrecorded
  <2>3. CASE f = e /\ (DeploymentStep(e) \/ DeploymentFault(e))
    <3>1. pc'[e] = "deploying"
      BY <2>3 DEF DeploymentStep, DeploymentFault
    <3>2. QED
      BY <1>5, <2>3, <3>1 DEF Unrecorded, Merging
  <2>4. CASE /\ f = e
             /\ \/ MergeRemote(e) \/ ReadHead(e) \/ CheckoutTarget(e) \/ MergeLocal(e) \/ ReadMerged(e)
                \/ CheckoutBack(e)
    BY <1>5, <2>4, MergePromotes
  <2>5. QED
    BY <1>1, <1>5, <2>2, <2>3, <2>4, NothingUnrecorded
<1>6. QED
  BY <1>3, <1>4, <1>5 DEF Next, PromotedInv

\* A champion, old or new, stays in the history of its branch.
LEMMA ChampionStays ==
  ASSUME HistoryInv, [Next]_vars
  PROVE ChampionIsPromoted'
<1> DEFINE InHistory(c) == IF settings.github THEN IsPrefix(c.commit, remote[c.on])
                           ELSE \E b \in Branches : IsPrefix(c.commit, local[b]) /\ (c.alone => b = c.on)
           StillInHistory(c) == IF settings.github THEN IsPrefix(c.commit, remote'[c.on])
                                ELSE \E b \in Branches : IsPrefix(c.commit, local'[b]) /\ (c.alone => b = c.on)
<1>1. \A c \in {champion, saved} : c \in Champion /\ (c.score # NoScore => InHistory(c))
  BY DEF HistoryInv, OwnInv, BaseInv, RestOK, ChampionIsPromoted
<1>2. ASSUME NEW e \in Execs, pc[e] = "champion"
      PROVE NewChampion(e) \in Champion /\ InHistory(NewChampion(e))
  <2>1. Promotion(e)
    BY <1>2 DEF HistoryInv, PromotedInv, Unrecorded
  <2>2. NewChampion(e) \in Champion
    BY ChampionType DEF HistoryInv, OwnInv, BaseInv
  <2>3. /\ NewChampion(e).commit = run[e].promoted /\ NewChampion(e).on = target
        /\ NewChampion(e).alone = alone[e]
    BY DEF NewChampion
  <2>4. CASE settings.github
    BY <2>1, <2>2, <2>3, <2>4 DEF Promotion
  <2>5. CASE ~settings.github
    <3>1. PICK b \in Branches : IsPrefix(run[e].promoted, local[b]) /\ (alone[e] => b = target)
      BY <2>1, <2>5 DEF Promotion
    <3>2. QED
      BY <2>2, <2>3, <2>5, <3>1
  <2>6. QED
    BY <2>4, <2>5
<1>3. ASSUME NEW c \in Champion, InHistory(c)
      PROVE StillInHistory(c)
  <2>1. c.commit \in Commits /\ c.on \in Branches /\ BaseInv
    BY DEF Champion, Commits, HistoryInv, OwnInv
  <2>2. CASE settings.github
    BY <1>3, <2>1, <2>2, BranchHistory
  <2>3. CASE ~settings.github
    <3>1. PICK b \in Branches : IsPrefix(c.commit, local[b]) /\ (c.alone => b = c.on)
      BY <1>3, <2>3
    <3>2. IsPrefix(c.commit, local'[b])
      BY <2>1, <3>1, BranchHistory
    <3>3. QED
      BY <2>3, <3>1, <3>2
  <2>4. QED
    BY <2>2, <2>3
<1>4. ASSUME NEW c \in {champion', saved'}
      PROVE c \in {champion, saved} \/ \E e \in Execs : pc[e] = "champion" /\ c = NewChampion(e)
  <2>1. UNCHANGED vars \/ Stop \/ Restart => c \in {champion, saved}
    BY DEF vars, Stop, Restart
  <2>2. QED
    BY <2>1, StepLeaves DEF Next
<1>5. settings' = settings
  BY SettingsStay
<1> HIDE DEF InHistory, StillInHistory
<1>6. ASSUME NEW c \in {champion', saved'}, c.score # NoScore
      PROVE StillInHistory(c)
  BY <1>1, <1>2, <1>3, <1>4, <1>6
<1>7. QED
  BY <1>5, <1>6 DEF ChampionIsPromoted, StillInHistory

LEMMA HistoryInvariant == Spec => []HistoryInv
<1>1. Init => HistoryInv
  BY OwnInit DEF Init, HistoryInv, PromotedInv, Unrecorded, Merging, ChampionIsPromoted, NoChampion
<1>2. HistoryInv /\ [Next]_vars => HistoryInv'
  BY OwnNext, PromotedStep, ChampionStays DEF HistoryInv
<1>3. QED
  BY <1>1, <1>2, PTL DEF Spec

\* The champion ChampionStore keeps, in memory and in its file, never drops out
\* of the history of GitHub's target branch, or without GitHub of the local
\* branches: of the target, if its execution had the workspace to itself.
THEOREM ChampionStaysPromoted == Spec => []ChampionIsPromoted
<1>1. HistoryInv => ChampionIsPromoted
  BY DEF HistoryInv
<1>2. QED
  BY <1>1, HistoryInvariant, PTL
=============================================================================
