------------------------- MODULE CustomerOperations -------------------------
(***************************************************************************)
(* Production monitoring of the customer platform: the sweeps over the     *)
(* production URLs, which a timer starts whether or not the last one is    *)
(* over, the incident detector with its active keys, and the recovery each *)
(* failed observation asks for.  With the missions that make the URLs,     *)
(* this is the customer platform as one process runs it.                   *)
(***************************************************************************)
EXTENDS CustomerDelivery, SequencesExt

CONSTANTS
    Sweeps,             \* sweeps that may be under way at once
    RecoveryOutcomes,   \* what the injected recovery may do
    MaxIncidents,       \* bound: incidents opened
    MaxRepairs          \* bound: recoveries asked for

ASSUME OperationsAssumption ==
    /\ RecoveryOutcomes \subseteq {"accepted", "refused", "throws"}
    /\ MaxIncidents \in Nat
    /\ MaxRepairs \in Nat

VARIABLES
    sweep,       \* sweep[s]: where the sweep is
    incidents,   \* the incident list, oldest first
    activeKeys,  \* projects whose URL suppresses new incidents
    repairs,     \* recovery missions created so far; they stay QUEUED
    again        \* history: projects with an incident that was resolved twice

operationsVars == <<sweep, incidents, activeKeys, repairs, again>>
vars == <<tenant, usage, billed, workspaces, job, overtaken, tree, live, urls,
          sweep, incidents, activeKeys, repairs, again>>

Incident == [project : Projects, status : {"OPEN", "RECOVERED"}]
Idle == [stage |-> "idle", todo |-> {}, incident |-> 0]

TypeOK ==
    /\ tenant \in [Tenants -> {"ACTIVE", "SUSPENDED"}]
    /\ usage \in [Tenants -> Nat]
    /\ billed \subseteq Missions /\ overtaken \subseteq Missions
    /\ workspaces \subseteq Projects /\ activeKeys \subseteq Projects
    /\ again \subseteq Projects
    /\ job \in [Missions -> Job]
    /\ tree \in [Projects -> Build \cup {NoBuild}]
    /\ live \in [Projects -> Build \cup {NoBuild}]
    /\ urls \in Seq(UrlRow)
    /\ incidents \in Seq(Incident)
    /\ repairs \in 0 .. MaxRepairs
    /\ sweep \in [Sweeps -> [stage : {"idle", "verify", "found", "recovering"},
                             todo : SUBSET Nat, incident : Nat]]

Init ==
    /\ ControlInit
    /\ DeliveryInit
    /\ sweep = [s \in Sweeps |-> Idle]
    /\ incidents = <<>>
    /\ activeKeys = {}
    /\ repairs = 0
    /\ again = {}

missionVars == <<controlVars, job, deliveryVars>>

\* The timer, or an operator: the rows of today, looked at newest first
SweepStarts(s) ==
    /\ sweep[s].stage = "idle" /\ urls # <<>>
    /\ sweep' = [sweep EXCEPT ![s].stage = "verify",
                   ![s].todo = {i \in DOMAIN urls : urls[i].status # "ROLLED_BACK"}]
    /\ UNCHANGED <<missionVars, incidents, activeKeys, repairs, again>>

\* The newest row that is still to be looked at
Target(s) == Max(sweep[s].todo)

\* It answers its health check; its event is written
Verify(s) ==
    /\ sweep[s].stage = "verify" /\ sweep[s].todo # {}
    /\ \/ sweep' = [sweep EXCEPT ![s].todo = @ \ {Target(s)}]
       \/ sweep' = [sweep EXCEPT ![s].stage = "found"]
    /\ UNCHANGED <<missionVars, incidents, activeKeys, repairs, again>>

\* no target is left, or a health event cannot be written
SweepEnds(s) ==
    /\ sweep[s].stage \in {"verify", "found"}
    /\ sweep' = [sweep EXCEPT ![s] = Idle]
    /\ UNCHANGED <<missionVars, incidents, activeKeys, repairs, again>>

\* the first OPEN incident of the project, 0 if there is none
OpenIncident(p) ==
    SelectInSeq(incidents, LAMBDA i : i.status = "OPEN" /\ i.project = p)

\* evaluate() opens an incident or finds the one that is open, and recover()
\* is called with it: the production callback creates a mission and lets the
\* mission director plan it
Evaluate(s) ==
    /\ sweep[s].stage = "found" /\ repairs < MaxRepairs
    /\ LET p == urls[Target(s)].project
       IN  IF p \in activeKeys
           THEN /\ sweep' = [sweep EXCEPT ![s].stage = "recovering", ![s].incident = OpenIncident(p)]
                /\ UNCHANGED <<incidents, activeKeys>>
           ELSE /\ Len(incidents) < MaxIncidents
                /\ incidents' = Append(incidents, [project |-> p, status |-> "OPEN"])
                /\ activeKeys' = activeKeys \cup {p}
                /\ sweep' = [sweep EXCEPT ![s].stage = "recovering",
                                          ![s].incident = Len(incidents) + 1]
    /\ repairs' = repairs + 1
    /\ UNCHANGED <<missionVars, again>>

\* Mutant: the key of a resolved incident stays active
ResolveKeepsKey(i) ==
    /\ incidents' = [incidents EXCEPT ![i].status = "RECOVERED"]
    /\ UNCHANGED <<activeKeys, again>>

\* resolve(): the incident may have been resolved before by another sweep
Resolve(i) ==
    /\ incidents' = [incidents EXCEPT ![i].status = "RECOVERED"]
    /\ activeKeys' = activeKeys \ {incidents[i].project}
    /\ again' = IF incidents[i].status = "OPEN" THEN again ELSE again \cup {incidents[i].project}

\* The recovery answers.  An exception ends the whole sweep, so the targets
\* that are left are not looked at.
Recovered(s) ==
    /\ sweep[s].stage = "recovering"
    /\ \E outcome \in RecoveryOutcomes :
         /\ IF outcome = "accepted" /\ sweep[s].incident # 0
            THEN Resolve(sweep[s].incident)
            ELSE UNCHANGED <<incidents, activeKeys, again>>
         /\ sweep' = [sweep EXCEPT ![s] =
               IF outcome = "throws" THEN Idle
               ELSE [stage |-> "verify", todo |-> sweep[s].todo \ {Target(s)}, incident |-> 0]]
    /\ UNCHANGED <<missionVars, repairs>>

SweepStep(s) ==
    SweepStarts(s) \/ Verify(s) \/ SweepEnds(s) \/ Evaluate(s) \/ Recovered(s)

Next ==
    \/ \E m \in Missions : ControlStep(m) /\ UNCHANGED <<deliveryVars, operationsVars>>
    \/ \E m \in Missions : DeliveryStep(m) /\ UNCHANGED operationsVars
    \/ \E t \in Tenants : Suspend(t) /\ UNCHANGED <<deliveryVars, operationsVars>>
    \/ \E s \in Sweeps : SweepStep(s)

Spec == Init /\ [][Next]_vars

-----------------------------------------------------------------------------
(* Properties *)

\* A URL raises no new incident exactly while one of its incidents is open.
\* The key never outlives the incident; an open incident is without its key
\* only after overlapping sweeps resolved an older one of the URL twice, which
\* frees the key of the newer.
SuppressedWhileOpen ==
    \A p \in Projects :
        /\ p \in activeKeys => OpenIncident(p) # 0
        /\ OpenIncident(p) # 0 => p \in activeKeys \cup again

=============================================================================
