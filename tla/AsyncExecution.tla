--------------------------- MODULE AsyncExecution ---------------------------
(***************************************************************************)
(* The background executions of the operator API (POST                     *)
(* /v1/execute/async): the API process keeps one record per request in     *)
(* memory, forks one child process per accepted request, listens to its    *)
(* messages, its error and its exit, arms a timer, and copies what happens *)
(* into the execution store.  Every await of the handler is a step         *)
(* boundary: other requests, cancellations, messages and timers run there. *)
(* The store is the JSON file of PersistentExecutionStore (each operation  *)
(* reads the whole list, then writes it back) or the table of              *)
(* PostgresExecutionStore (each operation is one statement).               *)
(***************************************************************************)
EXTENDS Naturals, Sequences, SequencesExt, FiniteSets

CONSTANTS
    Requests,        \* identifiers of the requests clients send
    MaxBackground,   \* maxBackgroundExecutions
    MaxRecords,      \* maxRecords of the JSON store
    MaxProgress,     \* bound: progress messages of all children
    MaxFaults        \* bound: crashes of the API process and failures of the store

VARIABLES
    backend,    \* "json" or "postgres", fixed when the process is composed
    rec,        \* rec[r]: the in-memory record of request r
    pc,         \* pc[r]: where the request's handler is
    child,      \* child[r]: the forked process
    ipc,        \* ipc[r]: messages of the child not yet handled
    sent,       \* progress messages sent so far
    store,      \* rows of the durable store, oldest first
    ops,        \* store operations called and not finished, in call order
    faults,     \* crashes of the API and failures of the store so far
    rivals,     \* history: pairs of requests admitted before either was recorded
    disturbed   \* history: two store operations overlapped, or one failed

vars == <<backend, rec, pc, child, ipc, sent, store, ops, faults, rivals, disturbed>>
processVars == <<backend, faults, rivals>>

Settled == {"COMPLETED", "FAILED", "TIMEOUT", "CANCELLED"}
Record == [status : {"none", "RUNNING"} \cup Settled, row : BOOLEAN, timer : BOOLEAN]
NoRecord == [status |-> "none", row |-> FALSE, timer |-> FALSE]
Row == [req : Requests, status : {"RUNNING"} \cup Settled]
Op == [req : Requests, kind : {"create", "accept", "progress", "finish"},
       status : {"RUNNING"} \cup Settled, writing : BOOLEAN, list : Seq(Row)]

TypeOK ==
    /\ backend \in {"json", "postgres"}
    /\ rec \in [Requests -> Record]
    /\ pc \in [Requests -> {"idle", "refused", "creating", "accepting", "forking", "done", "lost"}]
    /\ child \in [Requests -> {"none", "running", "broken", "exited", "gone", "orphan"}]
    /\ ipc \in [Requests -> Seq({"progress", "ok", "error"})]
    /\ sent \in 0 .. MaxProgress
    /\ store \in Seq(Row)
    /\ ops \in Seq(Op)
    /\ faults \in 0 .. MaxFaults
    /\ rivals \subseteq SUBSET Requests
    /\ disturbed \in BOOLEAN

Init ==
    /\ backend \in {"json", "postgres"}
    /\ rec = [r \in Requests |-> NoRecord]
    /\ pc = [r \in Requests |-> "idle"]
    /\ child = [r \in Requests |-> "none"]
    /\ ipc = [r \in Requests |-> <<>>]
    /\ sent = 0
    /\ store = <<>>
    /\ ops = <<>>
    /\ faults = 0
    /\ rivals = {}
    /\ disturbed = FALSE

Running == {r \in Requests : rec[r].status = "RUNNING"}

-----------------------------------------------------------------------------
(* The durable store *)

HasRow(rows, r) == \E i \in DOMAIN rows : rows[i].req = r

\* executions.slice(-maxRecords)
Newest(rows) ==
    IF backend = "json" /\ Len(rows) > MaxRecords
    THEN SubSeq(rows, Len(rows) - MaxRecords + 1, Len(rows))
    ELSE rows

CreateRow(rows, op) == Newest(Append(rows, [req |-> op.req, status |-> "RUNNING"]))

FinishRow(rows, op) ==
    [i \in DOMAIN rows |-> IF rows[i].req = op.req THEN [rows[i] EXCEPT !.status = op.status]
                                                   ELSE rows[i]]

\* append() changes the trace only, which is not modelled
Apply(rows, op) ==
    CASE op.kind = "create" -> CreateRow(rows, op)
      [] op.kind = "finish" -> FinishRow(rows, op)
      [] OTHER -> rows

NewOp(r, kind, status) ==
    [req |-> r, kind |-> kind, status |-> status, writing |-> FALSE, list |-> <<>>]

\* the calls `new` are made while `pending` are still in flight
CallStore(pending, new) ==
    /\ ops' = pending \o new
    /\ disturbed' = (disturbed \/ (pending # <<>> /\ new # <<>>))

\* The operation `op` ends and leaves `rest`; the handler that awaits it goes
\* on.  A create() that throws leaves the record without an execution id.
OpEnds(op, rest, ok) ==
    CASE op.kind = "create" ->
           /\ rec' = [rec EXCEPT ![op.req] = [status |-> "RUNNING", row |-> ok, timer |-> FALSE]]
           /\ pc' = [pc EXCEPT ![op.req] = "accepting"]
           /\ ops' = Append(rest, NewOp(op.req, "accept", "RUNNING"))
           /\ disturbed' = (disturbed \/ ~ok \/ rest # <<>>)
      [] op.kind = "accept" ->
           /\ pc' = [pc EXCEPT ![op.req] = "forking"]
           /\ ops' = rest
           /\ disturbed' = (disturbed \/ ~ok)
           /\ UNCHANGED rec
      [] OTHER ->
           /\ ops' = rest
           /\ disturbed' = (disturbed \/ ~ok)
           /\ UNCHANGED <<rec, pc>>

\* JSON file: the per-file lock serves reads and writes in the order in which
\* they were asked for, and an operation asks for its write once it has read:
\* the reads of the operations called meanwhile come first.
JsonRead ==
    /\ backend = "json" /\ ops # <<>> /\ ~Head(ops).writing
    /\ LET op == Head(ops)
           list == Newest(store)
       IN  IF op.kind = "create" \/ HasRow(list, op.req)
           THEN /\ ops' = Append(Tail(ops), [op EXCEPT !.writing = TRUE, !.list = Apply(list, op)])
                /\ UNCHANGED <<rec, pc, disturbed>>
           ELSE OpEnds(op, Tail(ops), TRUE)   \* "Unknown execution", swallowed
    /\ UNCHANGED <<processVars, child, ipc, sent, store>>

JsonWrite ==
    /\ backend = "json" /\ ops # <<>> /\ Head(ops).writing
    /\ store' = Head(ops).list
    /\ OpEnds(Head(ops), Tail(ops), TRUE)
    /\ UNCHANGED <<processVars, child, ipc, sent>>

\* PostgreSQL: statements of the pool's connections take effect in any order
PostgresStatement ==
    /\ backend = "postgres"
    /\ \E i \in DOMAIN ops :
         /\ store' = Apply(store, ops[i])
         /\ OpEnds(ops[i], RemoveAt(ops, i), TRUE)
    /\ UNCHANGED <<processVars, child, ipc, sent>>

\* a read, a write or a statement fails: the caller swallows the error
StoreFails ==
    /\ faults < MaxFaults
    /\ faults' = faults + 1
    /\ \E i \in DOMAIN ops :
         /\ backend = "postgres" \/ i = 1
         /\ OpEnds(ops[i], RemoveAt(ops, i), FALSE)
    /\ UNCHANGED <<backend, rivals, child, ipc, sent, store>>

-----------------------------------------------------------------------------
(* The request handlers *)

\* POST /v1/execute/async: the capacity is looked at before the first await
Admit(r) ==
    /\ pc[r] = "idle"
    /\ Cardinality(Running) < MaxBackground
    /\ pc' = [pc EXCEPT ![r] = "creating"]
    /\ CallStore(ops, <<NewOp(r, "create", "RUNNING")>>)
    /\ rivals' = rivals \cup {{r, q} : q \in {p \in Requests : pc[p] = "creating"}}
    /\ UNCHANGED <<backend, faults, rec, child, ipc, sent, store>>

Refuse(r) ==
    /\ pc[r] = "idle"
    /\ Cardinality(Running) >= MaxBackground
    /\ pc' = [pc EXCEPT ![r] = "refused"]
    /\ UNCHANGED <<processVars, rec, child, ipc, sent, store, ops, disturbed>>

\* fork() and child.send(), the listeners and the timer, in one turn
Fork(r) ==
    /\ pc[r] = "forking"
    /\ \E c \in {"running", "broken"} : child' = [child EXCEPT ![r] = c]
    /\ pc' = [pc EXCEPT ![r] = "done"]
    /\ rec' = [rec EXCEPT ![r].timer = TRUE]
    /\ UNCHANGED <<processVars, ipc, sent, store, ops, disturbed>>

\* fork() or send() throws: the record is deleted, the durable row is not
ForkFails(r) ==
    /\ pc[r] = "forking"
    /\ rec' = [rec EXCEPT ![r] = NoRecord]
    /\ pc' = [pc EXCEPT ![r] = "refused"]
    /\ UNCHANGED <<processVars, child, ipc, sent, store, ops, disturbed>>

\* record.status=...; clearTimeout; executionStore.finish(...) if it has a row
Settle(r, status) ==
    /\ rec' = [rec EXCEPT ![r].status = status, ![r].timer = FALSE]
    /\ CallStore(ops, IF rec[r].row THEN <<NewOp(r, "finish", status)>> ELSE <<>>)

ClearTimer(r) ==
    /\ rec' = [rec EXCEPT ![r].timer = FALSE]
    /\ UNCHANGED <<ops, disturbed>>

\* child.kill("SIGTERM"), when the record has a child already
Kill(r) ==
    child' = IF pc[r] = "done" /\ child[r] = "running"
             THEN [child EXCEPT ![r] = "exited"] ELSE child

\* Mutant: every message, progress too, disarms the timer
ProgressDisarms(r) ==
    /\ pc[r] = "done" /\ ipc[r] # <<>> /\ Head(ipc[r]) = "progress"
    /\ ipc' = [ipc EXCEPT ![r] = Tail(@)]
    /\ rec' = [rec EXCEPT ![r].timer = FALSE]
    /\ CallStore(ops, IF rec[r].row THEN <<NewOp(r, "progress", "RUNNING")>> ELSE <<>>)
    /\ UNCHANGED <<processVars, pc, child, sent, store>>

\* child.on("message"): progress is appended, a result settles the record
\* whatever its status is
Progress(r) ==
    /\ pc[r] = "done" /\ ipc[r] # <<>> /\ Head(ipc[r]) = "progress"
    /\ ipc' = [ipc EXCEPT ![r] = Tail(@)]
    /\ CallStore(ops, IF rec[r].row THEN <<NewOp(r, "progress", "RUNNING")>> ELSE <<>>)
    /\ UNCHANGED <<processVars, rec, pc, child, sent, store>>

\* Mutant: the status of the message is taken for the status of the record
ResultUntranslated(r) ==
    /\ pc[r] = "done" /\ ipc[r] # <<>> /\ Head(ipc[r]) \in {"ok", "error"}
    /\ ipc' = [ipc EXCEPT ![r] = Tail(@)]
    /\ Settle(r, Head(ipc[r]))
    /\ UNCHANGED <<processVars, pc, child, sent, store>>

Result(r) ==
    /\ pc[r] = "done" /\ ipc[r] # <<>> /\ Head(ipc[r]) \in {"ok", "error"}
    /\ ipc' = [ipc EXCEPT ![r] = Tail(@)]
    /\ Settle(r, IF Head(ipc[r]) = "ok" THEN "COMPLETED" ELSE "FAILED")
    /\ UNCHANGED <<processVars, pc, child, sent, store>>

OnError(r) ==
    /\ pc[r] = "done" /\ child[r] = "broken"
    /\ child' = [child EXCEPT ![r] = "gone"]
    /\ IF rec[r].status = "RUNNING" THEN Settle(r, "FAILED") ELSE ClearTimer(r)
    /\ UNCHANGED <<processVars, pc, ipc, sent, store>>

\* Mutant: the exit handler forgets the durable row
ExitInMemory(r) ==
    /\ pc[r] = "done" /\ child[r] = "exited"
    /\ child' = [child EXCEPT ![r] = "gone"]
    /\ rec' = [rec EXCEPT ![r].timer = FALSE,
                          ![r].status = IF @ = "RUNNING" THEN "FAILED" ELSE @]
    /\ UNCHANGED <<processVars, pc, ipc, sent, store, ops, disturbed>>

OnExit(r) ==
    /\ pc[r] = "done" /\ child[r] = "exited"
    /\ child' = [child EXCEPT ![r] = "gone"]
    /\ IF rec[r].status = "RUNNING" THEN Settle(r, "FAILED") ELSE ClearTimer(r)
    /\ UNCHANGED <<processVars, pc, ipc, sent, store>>

\* Mutant: the timer does not look at the status of the record
TimeoutAnyway(r) ==
    /\ rec[r].timer
    /\ Settle(r, "TIMEOUT") /\ Kill(r)
    /\ UNCHANGED <<processVars, pc, ipc, sent, store>>

\* the five-minute timer
Timeout(r) ==
    /\ rec[r].timer
    /\ IF rec[r].status = "RUNNING"
       THEN Settle(r, "TIMEOUT") /\ Kill(r)
       ELSE ClearTimer(r) /\ UNCHANGED child
    /\ UNCHANGED <<processVars, pc, ipc, sent, store>>

\* POST /v1/execute/async/{id}/cancel; it only reports a settled record
Cancel(r) ==
    /\ rec[r].status = "RUNNING"
    /\ Settle(r, "CANCELLED")
    /\ Kill(r)
    /\ UNCHANGED <<processVars, pc, ipc, sent, store>>

-----------------------------------------------------------------------------
(* The child process, jora-async-worker.js *)

\* progress() of the build; without its parent the send fails silently
ChildProgress(r) ==
    /\ child[r] = "running" /\ pc[r] = "done" /\ sent < MaxProgress
    /\ sent' = sent + 1
    /\ ipc' = [ipc EXCEPT ![r] = Append(@, "progress")]
    /\ UNCHANGED <<processVars, rec, pc, child, store, ops, disturbed>>

\* main() sends the result, or its rejection handler the error, exactly once,
\* and leaves; the exit may be seen before or after the message
ChildAnswer(r) ==
    /\ child[r] = "running"
    /\ child' = [child EXCEPT ![r] = "exited"]
    /\ \E m \in {"ok", "error"} :
         ipc' = IF pc[r] = "done" THEN [ipc EXCEPT ![r] = Append(@, m)] ELSE ipc
    /\ UNCHANGED <<processVars, rec, pc, sent, store, ops, disturbed>>

\* the process dies without an answer
ChildExit(r) ==
    /\ child[r] = "running"
    /\ child' = [child EXCEPT ![r] = "exited"]
    /\ UNCHANGED <<processVars, rec, pc, ipc, sent, store, ops, disturbed>>

\* The API process dies and is started again: its memory, its timers and the
\* store operations in flight are gone; the store stays, and so do its
\* children, which nobody listens to any more
Restart ==
    /\ faults < MaxFaults
    /\ faults' = faults + 1
    /\ rec' = [r \in Requests |-> NoRecord]
    /\ pc' = [r \in Requests |-> IF pc[r] \in {"idle", "refused"} THEN pc[r] ELSE "lost"]
    /\ ipc' = [r \in Requests |-> <<>>]
    /\ child' = [r \in Requests |-> IF child[r] = "running" THEN "orphan" ELSE "none"]
    /\ ops' = <<>>
    /\ UNCHANGED <<backend, sent, store, rivals, disturbed>>

StoreStep == JsonRead \/ JsonWrite \/ PostgresStatement \/ StoreFails

\* A handler goes on from the answer of the store before the event loop
\* serves anything else
Continue == \E r \in Requests : Fork(r) \/ ForkFails(r)

Serve ==
    /\ \A r \in Requests : pc[r] # "forking"
    /\ \/ StoreStep
       \/ \E r \in Requests :
            \/ Admit(r) \/ Refuse(r)
            \/ Progress(r) \/ Result(r) \/ OnError(r) \/ OnExit(r)
            \/ Timeout(r) \/ Cancel(r)
            \/ ChildProgress(r) \/ ChildAnswer(r) \/ ChildExit(r)
       \/ Restart

Next == Continue \/ Serve

Spec == Init /\ [][Next]_vars

-----------------------------------------------------------------------------
(* Properties *)

\* GET /v1/execute/async/{id}: the record, or else the row that the store
\* finds by task id; only the JSON store has getByTaskId()
Reported(r) ==
    IF rec[r].status # "none" THEN rec[r].status
    ELSE IF backend = "json" /\ HasRow(store, r)
         THEN store[CHOOSE i \in DOMAIN store : store[i].req = r].status
         ELSE "NOT_FOUND"

\* Every record that is RUNNING has something left that will end it: its
\* handler has not forked yet, or its timer is armed.  Messages, exits, errors
\* and cancellations may come in any order and before any of the others.
RunningIsWatched ==
    \A r \in Requests : rec[r].status = "RUNNING" =>
        pc[r] \in {"accepting", "forking"} \/ (pc[r] = "done" /\ rec[r].timer)

\* More executions than the capacity run at once only if two of them were
\* admitted before either was recorded: the check at the top of the handler
\* and the record that makes it true are an await apart.
CapacityUnlessRaced ==
    Cardinality(Running) > MaxBackground => \E pair \in rivals : pair \subseteq Running

\* Nothing runs that is not watched or was not let in (operator-api.js:1255-1361).
RunningIsControlled == RunningIsWatched /\ CapacityUnlessRaced

\* A store no two operations of which overlapped, and none failed, agrees with
\* memory once it is quiet: the row of a settled execution says how it ended,
\* which is what a client is told after a restart.
QuietStoreAgrees ==
    (~disturbed /\ ops = <<>>) =>
        \A r \in Requests : \A i \in DOMAIN store :
            (store[i].req = r /\ rec[r].status \in Settled) => store[i].status = rec[r].status

\* An execution reported as ended is reported RUNNING again only once its
\* record is gone (a restart, a failed fork of what was cancelled meanwhile),
\* and only if store operations were in flight then, or two of them had
\* overlapped or one had failed before.
RunningAgainOnlyIfDisturbed(r) ==
    (Reported(r) \in Settled /\ Reported(r)' = "RUNNING") =>
        rec'[r].status = "none" /\ (disturbed \/ ops # <<>>)

\* A settled record changes only because a result of its child arrives (a
\* cancelled or timed-out build that answers late becomes COMPLETED or
\* FAILED), or is lost with the process; no exit, timer or cancellation
\* rewrites it.
SettledOnlyByAnswer(r) ==
    (rec[r].status \in Settled /\ rec'[r].status # rec[r].status) =>
        \/ rec'[r].status = "none"
        \/ ipc[r] # <<>> /\ ipc'[r] = Tail(ipc[r])
           /\ rec'[r].status = IF Head(ipc[r]) = "ok" THEN "COMPLETED" ELSE "FAILED"

\* What a client was told of an execution that ended stands, but for a late
\* result and for a disturbed store (operator-api.js:1303-1406).
AnswersStand ==
    [][\A r \in Requests : RunningAgainOnlyIfDisturbed(r) /\ SettledOnlyByAnswer(r)]_vars

=============================================================================
