-------------------------------- MODULE Queues --------------------------------
(***************************************************************************)
(* The stores of pending work: the PostgreSQL queue, the background        *)
(* executions of the operator API with their rows, the local queue in its  *)
(* file, and the ledger of the executions under one idempotency key.  They *)
(* share no state; their properties are stated here for the model checker  *)
(* and the proofs alike.                                                   *)
(***************************************************************************)
EXTENDS TaskQueue, AsyncExecution

CONSTANTS
    Clients, Consumers, NoJob, MaxAttempts, MaxRestarts,   \* of the local queue
    Executions, Evaluations, NoResult, MaxExpiries         \* of the ledger

ASSUME QueuesAssumption ==
    /\ IsFiniteSet(Requests) /\ IsFiniteSet(Clients) /\ IsFiniteSet(Consumers)
    /\ IsFiniteSet(Executions) /\ IsFiniteSet(Evaluations)
    /\ {MaxBackground, MaxRecords, MaxProgress, MaxFaults, MaxRestarts, MaxExpiries} \subseteq Nat

VARIABLES
    localJobs, loaded, disk, op, asked, held, accepted, replaced, crossed, restarts,
    memory, records, ledgerLoaded, ledgerFile, io, call, raced, forgotten, shadowed,
    expiries, ledgerRestarts

localVars == <<localJobs, loaded, disk, op, asked, held, accepted, replaced, crossed, restarts>>
ledgerVars == <<memory, records, ledgerLoaded, ledgerFile, io, call, raced, forgotten, shadowed,
                expiries, ledgerRestarts>>

Local == INSTANCE LocalQueue WITH Workers <- Consumers, jobs <- localJobs

Ledger == INSTANCE ExecutionLedger WITH
    Calls <- Executions, loaded <- ledgerLoaded, restarts <- ledgerRestarts

\* A job whose enqueue() returned is neither lost from memory nor from the file
\* (execution-platform-v2.js:53-97).
AcceptedIsKept == Local!AcceptedIsKept

\* Calls under one idempotency key get one answer (autonomous-control-plane-v2.js:5-27).
OneAnswerPerKey == Ledger!OneAnswerPerKey

-----------------------------------------------------------------------------
(* The four side by side: part says which of them a behaviour is of, and   *)
(* the others rest in an initial state.                                    *)

VARIABLE part

AllInit ==
    /\ part \in {"queue", "local", "ledger", "async"}
    /\ QueueInit /\ Local!Init /\ Ledger!Init /\ Init

AllNext ==
    /\ UNCHANGED part
    /\ \/ part = "queue" /\ QueueNext /\ UNCHANGED <<localVars, ledgerVars, vars>>
       \/ part = "local" /\ Local!Next /\ UNCHANGED <<queueVars, ledgerVars, vars>>
       \/ part = "ledger" /\ Ledger!Next /\ UNCHANGED <<queueVars, localVars, vars>>
       \/ part = "async" /\ Next /\ UNCHANGED <<queueVars, localVars, ledgerVars>>

allVars == <<part, queueVars, localVars, ledgerVars, vars>>
AllSpec == AllInit /\ [][AllNext]_allVars

\* Each of the four has its types: the local queue holds at most one job of a client
\* that asked, the ledger at most one record of a call.
AllTypeOK == QueueTypeOK /\ Local!TypeOK /\ Ledger!TypeOK /\ TypeOK

=============================================================================
