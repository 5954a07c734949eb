-------------------------- MODULE ConversationMemory --------------------------
(***************************************************************************)
(* What /v1/chat and /v1/understand remember of a project: each request    *)
(* reads the state stored for the project it names, adds what its text     *)
(* asks for and writes the state back, through a file of all projects that *)
(* is read and written whole.  Every await of a request is a step.         *)
(***************************************************************************)
EXTENDS Naturals, Sequences, SequencesExt

CONSTANTS
    Requests,      \* requests; the text of each asks for one thing of its own
    Projects,      \* names of projects, as the file keys them
    NoProject,
    MaxRecords,    \* maxRecords (20 at least in the code)
    MaxRequirements, \* how many requirements a state keeps (100 in the code)
    MaxFaults,     \* reads or writes of the file that fail (a bound)
    MaxRestarts    \* restarts of the process (a bound)

VARIABLES
    file,          \* the records, the one updated last at the end
    request,       \* request[r]: where r is and what it carries
    beside,        \* history: requests under way at the same time as r
    pushedOut,     \* history: projects whose record was trimmed
    faults, restarts

vars == <<file, request, beside, pushedOut, faults, restarts>>

\* normalizeProjectState(): of a state, the project and what was asked for, in turn
Blank == [project |-> NoProject, requirements |-> <<>>]
Unread == <<>>

Idle == [at |-> "idle", id |-> NoProject, state |-> Blank, found |-> FALSE,
         key |-> NoProject, db |-> Unread, kept |-> FALSE]

Init ==
    /\ file = <<>>
    /\ request = [r \in Requests |-> Idle]
    /\ beside = [r \in Requests |-> {}]
    /\ pushedOut = {}
    /\ faults = 0 /\ restarts = 0

Is(r, place) == request[r].at = place
UnderWay == {r \in Requests : request[r].at \in {"context", "understand", "save", "write"}}
Set(r, new) == request' = [request EXCEPT ![r] = new]
Fault == faults < MaxFaults /\ faults' = faults + 1

\* The file is a map of projects: a project has one record in it
Place(db, project) == CHOOSE i \in DOMAIN db : db[i].key = project
Holds(db, project) == \E i \in DOMAIN db : db[i].key = project
StateOf(db, project) == db[Place(db, project)].state

-----------------------------------------------------------------------------

\* A request arrives.  Its context names a project, or carries the state that an
\* earlier answer gave, or both, or neither.
Given == {Blank} \cup {request[o].state : o \in {q \in Requests : Is(q, "answered")}}
Arrive(r) ==
    /\ Is(r, "idle")
    /\ \E id \in Projects \cup {NoProject}, state \in Given :
         LET named == IF id # NoProject THEN id ELSE state.project
         IN  Set(r, [Idle EXCEPT !.at = IF named = NoProject THEN "understand" ELSE "context",
                                 !.id = id, !.key = named, !.state = state])
    /\ beside' = [o \in Requests |-> IF o = r THEN UnderWay
                                     ELSE IF o \in UnderWay THEN beside[o] \cup {r} ELSE beside[o]]
    /\ UNCHANGED <<file, pushedOut, faults, restarts>>

\* _projectContext(): the stored state replaces what the client sent; without
\* one, or when the read fails, the context stays what the client sent
Found(r) ==
    /\ Is(r, "context") /\ Holds(file, request[r].key)
    /\ Set(r, [request[r] EXCEPT !.at = "understand", !.found = TRUE, !.id = request[r].key,
                                 !.state = StateOf(file, request[r].key)])
    /\ UNCHANGED <<file, beside, pushedOut, faults, restarts>>
NotFound(r) ==
    /\ Is(r, "context")
    /\ IF Holds(file, request[r].key) THEN Fault ELSE UNCHANGED faults
    /\ Set(r, [request[r] EXCEPT !.at = "understand"])
    /\ UNCHANGED <<file, beside, pushedOut, restarts>>

\* Mutant: the request's own state starts from nothing
UpdatedAfresh(r, state, action, said, recalled) ==
    [project |-> IF said # NoProject THEN said ELSE state.project,
     requirements |-> IF action = "answer" THEN <<>> ELSE <<r>>]

\* slice(-100) of a list that was within the limit before one was pushed
Latest(list) == IF Len(list) > MaxRequirements THEN Tail(list) ELSE list

\* updateProjectState(): the text names a project, or the state has one, or an
\* earlier message of the conversation is taken up
Updated(r, state, action, said, recalled) ==
    [project |-> CASE said # NoProject -> said
                   [] said = NoProject /\ state.project # NoProject -> state.project
                   [] OTHER -> recalled,
     requirements |-> IF action = "answer" THEN state.requirements
                      ELSE Latest(Append(state.requirements, r))]

\* understand(), and the first half of _persistProjectState(): a state without
\* a project is not kept, and one with a project is kept under the name the
\* context has, whatever project the text names
Understand(r) ==
    /\ Is(r, "understand")
    /\ \E action \in {"answer", "modify"}, said, recalled \in Projects \cup {NoProject} :
         LET new == Updated(r, request[r].state, action, said, recalled)
             key == IF request[r].id # NoProject THEN request[r].id ELSE new.project
         IN  Set(r, IF new.project = NoProject THEN [Idle EXCEPT !.at = "answered", !.state = new]
                    ELSE [request[r] EXCEPT !.at = "save", !.state = new, !.key = key])
    /\ UNCHANGED <<file, beside, pushedOut, faults, restarts>>

\* save(): the file is read, ...
Save(r) ==
    /\ Is(r, "save")
    /\ Set(r, [request[r] EXCEPT !.at = "write", !.db = file])
    /\ UNCHANGED <<file, beside, pushedOut, faults, restarts>>

\* ... the record is put last, the first ones are trimmed, and all is written
Put(db, record) ==
    LET others == IF Holds(db, record.key) THEN RemoveAt(db, Place(db, record.key)) ELSE db
        all == Append(others, record)
    IN  IF Len(all) > MaxRecords THEN SubSeq(all, Len(all) - MaxRecords + 1, Len(all)) ELSE all

Write(r) ==
    /\ Is(r, "write")
    /\ file' = Put(request[r].db, [key |-> request[r].key, state |-> request[r].state])
    /\ pushedOut' = pushedOut \cup
           {p \in Projects : Holds(request[r].db, p) /\ p # request[r].key /\ ~Holds(file', p)
                             /\ Len(request[r].db) >= MaxRecords}
    /\ Set(r, [request[r] EXCEPT !.at = "answered", !.id = NoProject, !.db = Unread,
                                   !.kept = TRUE])
    /\ UNCHANGED <<beside, faults, restarts>>

\* A save that fails is not told: the request is answered all the same
SaveFails(r) ==
    /\ Is(r, "save") \/ Is(r, "write")
    /\ Fault
    /\ Set(r, [Idle EXCEPT !.at = "answered", !.state = request[r].state])
    /\ UNCHANGED <<file, beside, pushedOut, restarts>>

\* The process ends and another is started over the file
Restart ==
    /\ restarts < MaxRestarts /\ restarts' = restarts + 1
    /\ request' = [r \in Requests |-> IF r \in UnderWay THEN [Idle EXCEPT !.at = "lost"] ELSE request[r]]
    /\ UNCHANGED <<file, beside, pushedOut, faults>>

Next ==
    \/ \E r \in Requests : Arrive(r) \/ Found(r) \/ NotFound(r) \/ Understand(r)
                           \/ Save(r) \/ Write(r) \/ SaveFails(r)
    \/ Restart

Spec == Init /\ [][Next]_vars

-----------------------------------------------------------------------------
(* Properties *)

TypeOK ==
    /\ Len(file) <= MaxRecords
    /\ \A i, j \in DOMAIN file : file[i].key = file[j].key => i = j
    /\ \A i \in DOMAIN file : file[i].key \in Projects /\ file[i].state.project \in Projects
    /\ \A r \in Requests :
        /\ request[r].at \in {"idle", "context", "understand", "save", "write", "answered", "lost"}
        /\ Range(request[r].state.requirements) \subseteq Requests
        /\ Len(request[r].state.requirements) <= MaxRequirements
    /\ beside \in [Requests -> SUBSET Requests] /\ pushedOut \subseteq Projects
    /\ faults \in 0 .. MaxFaults /\ restarts \in 0 .. MaxRestarts

\* A list goes on where another ended: it begins with the other, whose first ones
\* it lacks only when it is full
GoesOn(new, old) ==
    \E n \in 0 .. Len(old) :
        /\ n > 0 => Len(new) = MaxRequirements
        /\ \A i \in 1 .. (Len(old) - n) : i <= Len(new) /\ new[i] = old[n + i]

\* What a request asked of a project and what was stored for it stays in the
\* project's record, in that order, across requests, failed calls and restarts: the
\* oldest requirements make room for later ones once the record has as many as it
\* may.  Others are lost only to a request that was under way at the same time, to
\* one that stored under this name without having read the record under it (a new
\* conversation that names the project, or a read that failed), and to the trim.
Unaware(o, key) == request[o].key = key /\ ~request[o].found /\ request[o].at \in {"answered", "write"}
Remembered ==
    \A r \in Requests :
      LET q == request[r] IN
      q.kept =>
        \/ Holds(file, q.key) /\ GoesOn(StateOf(file, q.key).requirements, q.state.requirements)
        \/ q.key \in pushedOut
        \/ beside[r] # {}
        \/ \E o \in Requests \ {r} : Unaware(o, q.key)

=============================================================================
