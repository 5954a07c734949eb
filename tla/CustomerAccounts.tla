--------------------------- MODULE CustomerAccounts ---------------------------
(***************************************************************************)
(* The registries behind the /v3/customer routes: users, API keys and      *)
(* projects, with the JsonStore of each.  A registry changes its memory    *)
(* first and asks its store for a write; the store serves the writes in    *)
(* the order they were asked for and serializes what it was given when     *)
(* their turn comes.  The route answers when its own write is done: but    *)
(* ProjectRegistry.create() does not wait for its write, and role grants   *)
(* have no store at all.  Tenants and billing events go the way of users.  *)
(***************************************************************************)
EXTENDS Naturals, Sequences, SequencesExt

CONSTANTS
    Creations,     \* requests that create a row, which is named after them
    Changes,       \* requests that revoke a key or provision a repository
    None,
    MaxFaults,     \* writes that fail (a bound)
    MaxCrashes     \* processes that die (a bound)

VARIABLES
    kind,       \* kind[r]: the registry that has the row of creation r
    memory,     \* memory[r]: the row in the registry
    file,       \* file[r]: the row as its store last wrote it
    writes,     \* writes[k]: the writes the store of k owes, in order
    request,    \* request[r]: where the request is, and the row it is about
    external,   \* changes whose repository exists on GitHub
    faults, crashes

vars == <<kind, memory, file, writes, request, external, faults, crashes>>

Kinds == {"users", "keys", "projects", "grants"}
Requests == Creations \cup Changes

\* The state of a row: whether it exists, was revoked, and its repository
NoRow == [exists |-> FALSE, revoked |-> FALSE, repository |-> None]
NewRow == [NoRow EXCEPT !.exists = TRUE]
Rows == [exists : BOOLEAN, revoked : BOOLEAN, repository : Changes \cup {None}]

Init ==
    /\ kind \in [Creations -> Kinds]
    /\ memory = [r \in Creations |-> NoRow] /\ file = memory
    /\ writes = [k \in Kinds |-> <<>>]
    /\ request = [r \in Requests |-> [at |-> "idle", row |-> None]]
    /\ external = {}
    /\ faults = 0 /\ crashes = 0

Is(r, place) == request[r].at = place
At(r, place, row) == [request EXCEPT ![r] = [at |-> place, row |-> row]]
Answer(r, place) == [request EXCEPT ![r].at = place]

\* What save() and persist() hand to the store: the array itself, or the
\* values of the map at that moment, which are still the live rows
Known(k) == {r \in Creations : kind[r] = k /\ memory'[r].exists}
Save(k, r) == writes' = [writes EXCEPT ![k] = Append(@, [by |-> r, rows |-> Known(k)])]
Written(k) == IF k = "projects" THEN Head(writes[k]).rows
              ELSE {r \in Creations : kind[r] = k /\ memory[r].exists}

-----------------------------------------------------------------------------

\* Mutant: the other registries do not wait either
AwaitsUsers(k) == k = "users"

\* The registries whose create() waits for the write
Awaits(k) == k \in {"users", "keys"}

\* POST /v3/customer/users, /api-keys, /projects and /v4/customer/roles
Create(r) ==
    LET k == kind[r]
    IN  /\ r \in Creations /\ Is(r, "idle")
        /\ memory' = [memory EXCEPT ![r] = NewRow]
        /\ IF k = "grants" THEN UNCHANGED writes ELSE Save(k, r)
        /\ request' = At(r, IF Awaits(k) THEN "saving" ELSE "done", r)
        /\ UNCHANGED <<kind, file, external, faults, crashes>>

\* POST /v3/customer/api-keys/:id
Revoke(r, key) ==
    /\ r \in Changes /\ Is(r, "idle")
    /\ kind[key] = "keys"
    /\ IF memory[key].exists
       THEN /\ memory' = [memory EXCEPT ![key].revoked = TRUE]
            /\ Save("keys", r)
            /\ request' = At(r, "saving", key)
       ELSE /\ request' = At(r, "refused", None)
            /\ UNCHANGED <<memory, writes>>
    /\ UNCHANGED <<kind, file, external, faults, crashes>>

\* POST /v3/customer/repository: the project is looked up, GitHub is asked
Provision(r, project) ==
    /\ r \in Changes /\ Is(r, "idle")
    /\ kind[project] = "projects"
    /\ request' = IF memory[project].exists THEN At(r, "provisioning", project)
                                            ELSE At(r, "refused", None)
    /\ UNCHANGED <<kind, memory, file, writes, external, faults, crashes>>

\* GitHub makes the repository, and may do so for an answer nobody receives
Provisioned(r) ==
    /\ Is(r, "provisioning") /\ r \notin external
    /\ external' = external \cup {r}
    /\ UNCHANGED <<kind, memory, file, writes, request, faults, crashes>>

\* The answer arrives: attachRepository() over what was attached meanwhile
Attach(r) ==
    LET project == request[r].row
    IN  /\ Is(r, "provisioning") /\ r \in external
        /\ memory' = [memory EXCEPT ![project].repository = r]
        /\ Save("projects", r)
        /\ request' = At(r, "saving", project)
        /\ UNCHANGED <<kind, file, external, faults, crashes>>

\* GitHub refuses (a name that is taken), or its answer is lost
ProvisionFails(r) ==
    /\ Is(r, "provisioning")
    /\ request' = Answer(r, "refused")
    /\ UNCHANGED <<kind, memory, file, writes, external, faults, crashes>>

-----------------------------------------------------------------------------
(* The stores and the process *)

\* A store replaces its file, in the turn of the write, and its request answers
Write(k) ==
    /\ writes[k] # <<>>
    /\ LET r == Head(writes[k]).by
       IN  request' = IF Is(r, "saving") THEN Answer(r, "done") ELSE request
    /\ file' = [r \in Creations |->
                  IF kind[r] # k THEN file[r] ELSE IF r \in Written(k) THEN memory[r] ELSE NoRow]
    /\ writes' = [writes EXCEPT ![k] = Tail(@)]
    /\ UNCHANGED <<kind, memory, external, faults, crashes>>

\* A process dies, and the next one loads the files
Reloaded ==
    /\ memory' = file
    /\ writes' = [k \in Kinds |-> <<>>]
    /\ request' = [r \in Requests |-> IF request[r].at \in {"idle", "done", "refused"} THEN request[r]
                                      ELSE [request[r] EXCEPT !.at = "lost"]]

\* A write that fails is answered with an error, and the change stays in
\* memory; of a project's un-awaited write the rejection ends the process.
WriteFails(k) ==
    /\ writes[k] # <<>> /\ faults < MaxFaults /\ faults' = faults + 1
    /\ LET r == Head(writes[k]).by
       IN  IF Is(r, "saving")
           THEN /\ request' = Answer(r, "refused")
                /\ writes' = [writes EXCEPT ![k] = Tail(@)]
                /\ UNCHANGED memory
           ELSE Reloaded
    /\ UNCHANGED <<kind, file, external, crashes>>

Crash ==
    /\ crashes < MaxCrashes /\ crashes' = crashes + 1
    /\ Reloaded
    /\ UNCHANGED <<kind, file, external, faults>>

Next ==
    \/ \E r \in Creations : Create(r)
    \/ \E r \in Changes :
         \/ \E row \in Creations : Revoke(r, row) \/ Provision(r, row)
         \/ Provisioned(r) \/ Attach(r) \/ ProvisionFails(r)
    \/ \E k \in Kinds : Write(k) \/ WriteFails(k)
    \/ Crash

Spec == Init /\ [][Next]_vars

-----------------------------------------------------------------------------
(* Properties *)

TypeOK ==
    /\ kind \in [Creations -> Kinds]
    /\ memory \in [Creations -> Rows] /\ file \in [Creations -> Rows]
    /\ \A k \in Kinds : \A i \in DOMAIN writes[k] :
         writes[k][i].by \in Requests /\ writes[k][i].rows \subseteq Creations
    /\ request \in [Requests -> [at : {"idle", "provisioning", "saving", "done", "refused", "lost"},
                                 row : Creations \cup {None}]]
    /\ external \subseteq Changes
    /\ faults \in 0 .. MaxFaults /\ crashes \in 0 .. MaxCrashes

\* The user or key of creation r, or the change r, in the rows of a registry
Holds(rows, r) ==
    LET row == rows[request[r].row]
    IN  /\ row.exists
        /\ r \in Changes => \/ kind[request[r].row] = "keys" /\ row.revoked
                            \/ row.repository \in external

\* What was acknowledged is kept, in memory and in the file, by whatever
\* process serves next: a user, a key, a revocation, the repository of a
\* project (perhaps a later one).  Projects and grants themselves are
\* acknowledged before, or without, a write.
\* (customer-saas-control-plane-v3.80.js:5-37, customer-control-plane-v2.js:19-31)
AcknowledgedIsKept ==
    \A r \in Requests :
      Is(r, "done") /\ (r \in Creations => kind[r] \in {"users", "keys"}) =>
        Holds(memory, r) /\ Holds(file, r)
=============================================================================
