------------------------------ MODULE LocalQueue ------------------------------
(***************************************************************************)
(* PersistentLocalQueue, the job queue behind /v2/jobs without a database: *)
(* an object in memory that is read from its file at the first call and    *)
(* written whole by every call that changes it, under one temporary name.  *)
(* Nothing orders two calls of one process: each await of a call is a step.*)
(***************************************************************************)
EXTENDS Naturals, Sequences, SequencesExt, FiniteSets

CONSTANTS
    Clients,       \* requests, each of which enqueues a job of the same name
    Workers,       \* callers of claim(), complete() and fail()
    NoJob,
    MaxAttempts,   \* maxAttempts of every job
    MaxRestarts    \* restarts of the process (a bound)

VARIABLES
    jobs,          \* this.state.jobs
    loaded,        \* this.state is set
    disk,          \* the file, the temporary file and what their inodes hold
    op,            \* op[c]: the call c is in
    asked,         \* the clients that have called
    held,          \* held[w]: the job w was given
    accepted,      \* history: jobs whose enqueue() returned
    replaced,      \* history: memory was replaced by what may lack a job
    crossed,       \* history: two calls wrote the temporary file at once
    restarts

vars == <<jobs, loaded, disk, op, asked, held, accepted, replaced, crossed, restarts>>

Callers == Clients \cup Workers
Inodes == 1 .. Cardinality(Callers) + 2
Text(list) == [parses |-> TRUE, list |-> list]
Torn == [parses |-> FALSE, list |-> <<>>]
Absent == 0
Idle == [at |-> "idle", call |-> "none", job |-> NoJob, list |-> <<>>, inode |-> Absent]
Writing == {"open", "write", "rename"}

Job(c) == [id |-> c, status |-> "QUEUED", attempts |-> 0, worker |-> NoJob]

Init ==
    /\ jobs = <<>> /\ loaded = FALSE
    /\ disk = [file |-> Absent, temp |-> Absent, data |-> [i \in Inodes |-> Torn]]
    /\ op = [c \in Callers |-> Idle]
    /\ asked = {} /\ held = [w \in Workers |-> NoJob]
    /\ accepted = {}
    /\ replaced = FALSE /\ crossed = FALSE /\ restarts = 0

Is(c, place) == op[c].at = place
Ids(list) == {list[i].id : i \in DOMAIN list}

\* What _load() makes of the file: no jobs when there is none, or a torn one
FileJobs ==
    IF disk.file = Absent THEN <<>> ELSE disk.data[disk.file].list

-----------------------------------------------------------------------------

\* The job that a call is about: the new one, the first that is queued, or the
\* one the worker holds if the queue still knows it under the worker's name
Queued(list) == {i \in DOMAIN list : list[i].status = "QUEUED"}
Owned(list, w) == {i \in DOMAIN list : list[i].id = held[w] /\ list[i].worker = w}
Chosen(call, c, list) ==
    CASE call = "enqueue" -> {Len(list) + 1}
      [] call = "claim" -> {i \in Queued(list) : \A k \in Queued(list) : i <= k}
      [] OTHER -> Owned(list, c)

Changed(call, c, job) ==
    CASE call = "claim" -> [job EXCEPT !.status = "RUNNING", !.worker = c, !.attempts = @ + 1]
      [] call = "complete" -> [job EXCEPT !.status = "SUCCEEDED"]
      [] call = "fail" ->
           [job EXCEPT !.status = IF job.attempts < MaxAttempts THEN "QUEUED" ELSE "DEAD_LETTER"]

\* The part of a call between _load() and _save(): without a job claim() returns
\* null and the others throw
Apply(call, c, list) ==
    IF Chosen(call, c, list) = {}
    THEN /\ op' = [op EXCEPT ![c] = Idle]
         /\ held' = IF c \in Workers THEN [held EXCEPT ![c] = NoJob] ELSE held
         /\ jobs' = list /\ loaded' = TRUE
    ELSE /\ \E i \in Chosen(call, c, list) :
              /\ jobs' = IF call = "enqueue" THEN Append(list, Job(c))
                         ELSE [list EXCEPT ![i] = Changed(call, c, @)]
              /\ op' = [op EXCEPT ![c] = [Idle EXCEPT !.at = "save", !.call = call, !.job = jobs'[i].id]]
         /\ loaded' = TRUE /\ UNCHANGED held

Begin(c, call) ==
    /\ Is(c, "idle")
    /\ IF ~loaded
       THEN /\ op' = [op EXCEPT ![c] = [Idle EXCEPT !.at = "load", !.call = call]]
            /\ UNCHANGED <<jobs, loaded, held>>
       ELSE Apply(call, c, jobs)
    /\ UNCHANGED <<disk, accepted, replaced, crossed, restarts>>

Enqueue(c) == c \notin asked /\ asked' = asked \cup {c} /\ Begin(c, "enqueue")
Claim(w) == held[w] = NoJob /\ Begin(w, "claim") /\ UNCHANGED asked
Settle(w) ==
    /\ held[w] # NoJob /\ UNCHANGED asked
    /\ Begin(w, "complete") \/ Begin(w, "fail")

\* readFile() in _load()
Read(c) ==
    /\ Is(c, "load")
    /\ op' = [op EXCEPT ![c] = [@ EXCEPT !.at = "loaded", !.list = FileJobs]]
    /\ UNCHANGED <<jobs, loaded, disk, asked, held, accepted, replaced, crossed, restarts>>

\* Mutant: every load starts from an empty list
AssignEmpty(c) ==
    /\ Is(c, "loaded")
    /\ replaced' = (replaced \/ loaded)
    /\ Apply(op[c].call, c, <<>>)
    /\ UNCHANGED <<disk, asked, accepted, crossed, restarts>>

\* The rest of _load(), over whatever another call has loaded meanwhile, and
\* the call goes on
Assign(c) ==
    /\ Is(c, "loaded")
    /\ replaced' = (replaced \/ loaded)
    /\ Apply(op[c].call, c, op[c].list)
    /\ UNCHANGED <<disk, asked, accepted, crossed, restarts>>

\* _save(): the state as it is when the directory has been made
Serialize(c) ==
    /\ Is(c, "save")
    /\ op' = [op EXCEPT ![c] = [@ EXCEPT !.at = "open", !.list = jobs]]
    /\ crossed' = (crossed \/ \E d \in Callers : op[d].at \in Writing)
    /\ UNCHANGED <<jobs, loaded, disk, asked, held, accepted, replaced, restarts>>

\* The temporary file is created or emptied; another call may have it open
InUse == {disk.file, disk.temp} \cup {op[d].inode : d \in Callers}
Open(c) ==
    /\ Is(c, "open")
    /\ LET inode == IF disk.temp # Absent THEN disk.temp ELSE CHOOSE i \in Inodes : i \notin InUse
       IN  /\ disk' = [disk EXCEPT !.temp = inode, !.data[inode] = Torn]
           /\ op' = [op EXCEPT ![c] = [@ EXCEPT !.at = "write", !.inode = inode]]
    /\ UNCHANGED <<jobs, loaded, asked, held, accepted, replaced, crossed, restarts>>

\* What was written before over the same inode shows behind a shorter text
Write(c) ==
    /\ Is(c, "write")
    /\ LET old == disk.data[op[c].inode]
           new == op[c].list
       IN  \E data \in (IF Len(new) >= Len(old.list) THEN {Text(new)} ELSE {})
                       \cup (IF old.parses /\ Len(new) <= Len(old.list) THEN {Torn} ELSE {}) :
             disk' = [disk EXCEPT !.data[op[c].inode] = data]
    /\ op' = [op EXCEPT ![c] = [@ EXCEPT !.at = "rename", !.list = <<>>, !.inode = Absent]]
    /\ UNCHANGED <<jobs, loaded, asked, held, accepted, replaced, crossed, restarts>>

\* rename() and the end of the call: claim() hands the job out
Rename(c) ==
    /\ Is(c, "rename") /\ disk.temp # Absent
    /\ disk' = [file |-> disk.temp, temp |-> Absent,
                data |-> [i \in Inodes |-> IF i = disk.temp \/ \E d \in Callers \ {c} : op[d].inode = i
                                          THEN disk.data[i] ELSE Torn]]
    /\ accepted' = IF op[c].call = "enqueue" THEN accepted \cup {c} ELSE accepted
    /\ held' = IF c \in Clients THEN held
                ELSE [held EXCEPT ![c] = IF op[c].call = "claim" THEN op[c].job ELSE NoJob]
    /\ op' = [op EXCEPT ![c] = Idle]
    /\ UNCHANGED <<jobs, loaded, asked, replaced, crossed, restarts>>

\* Another call has renamed the temporary file: ENOENT.  A worker that gets it
\* from complete() may still call fail().
RenameFails(c) ==
    /\ Is(c, "rename") /\ disk.temp = Absent
    /\ op' = [op EXCEPT ![c] = Idle]
    /\ \/ UNCHANGED held
       \/ op[c].call = "fail" /\ held' = [held EXCEPT ![c] = NoJob]
    /\ UNCHANGED <<jobs, loaded, disk, asked, accepted, replaced, crossed, restarts>>

\* A new process, over the files as they are
Restart ==
    /\ restarts < MaxRestarts /\ restarts' = restarts + 1
    /\ jobs' = <<>> /\ loaded' = FALSE
    /\ op' = [c \in Callers |-> Idle] /\ held' = [w \in Workers |-> NoJob]
    /\ replaced' = (replaced \/ crossed)
    /\ UNCHANGED <<disk, asked, accepted, crossed>>

Next ==
    \/ \E c \in Clients : Enqueue(c)
    \/ \E w \in Workers : Claim(w) \/ Settle(w)
    \/ \E c \in Callers : Read(c) \/ Assign(c) \/ Serialize(c) \/ Open(c) \/ Write(c)
                          \/ Rename(c) \/ RenameFails(c)
    \/ Restart

Spec == Init /\ [][Next]_vars

-----------------------------------------------------------------------------
(* Properties *)

TypeOK ==
    /\ Ids(jobs) \subseteq asked /\ \A i, k \in DOMAIN jobs : jobs[i].id = jobs[k].id => i = k
    /\ loaded \in BOOLEAN
    /\ {disk.file, disk.temp} \subseteq Inodes \cup {Absent} /\ DOMAIN disk.data = Inodes
    /\ \A c \in Callers :
        /\ op[c].at \in {"idle", "load", "loaded", "save", "open", "write", "rename"}
        /\ op[c].call \in {"none", "enqueue", "claim", "complete", "fail"}
        /\ op[c].inode \in Inodes \cup {Absent}
    /\ asked \subseteq Clients /\ accepted \subseteq asked
    /\ held \in [Workers -> Clients \cup {NoJob}]
    /\ {replaced, crossed} \subseteq BOOLEAN /\ restarts \in 0 .. MaxRestarts

\* A job that enqueue() returned is in memory, and in the file to be read after a
\* crash, whatever the workers do.  Only a second load over a state in use can
\* take it out of memory; only two writes under the one temporary name can
\* leave it out of the file.
AcceptedIsKept ==
    \/ replaced
    \/ /\ loaded => accepted \subseteq Ids(jobs)
       /\ crossed \/ accepted \subseteq Ids(FileJobs)

=============================================================================
