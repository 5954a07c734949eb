--------------------------- MODULE ExecutionLedger ---------------------------
(***************************************************************************)
(* executeIdempotent() of the execution platform for one key: the Idempo-  *)
(* tencyGuard's memory, the ExecutionLedger it falls back on after a       *)
(* restart, and the JsonStore that serves the ledger's reads and writes in *)
(* the order they were asked for.  Evaluations of the control loop share   *)
(* the ledger; their records have no key.  Time is one expiry of the ttl.  *)
(***************************************************************************)
EXTENDS Naturals, Sequences, FiniteSets

CONSTANTS
    Calls,         \* executions asked for under the key, with a result each
    Evaluations,   \* calls of the control loop
    NoResult,
    MaxExpiries,   \* how often the ttl passes (a bound)
    MaxRestarts    \* restarts of the process (a bound)

VARIABLES
    memory,        \* the guard's entry for the key
    records,       \* the ledger in memory
    loaded,
    ledgerFile,    \* the ledger as it was last written
    io,            \* who waits for the store, in order
    call,          \* call[c]: where the call is, the records it has, its answer
    raced,         \* history: an execution began beside another, or a load came late
    forgotten,     \* history: an answer was repeated, and its record died with the process
    shadowed,      \* history: a fresh record was overlooked behind an expired one
    expiries, restarts

vars == <<memory, records, loaded, ledgerFile, io, call, raced, forgotten, shadowed, expiries, restarts>>

KeyUsers == Calls \cup Evaluations
Record(key, result) == [key |-> key, result |-> result, fresh |-> TRUE]
Idle == [at |-> "idle", list |-> <<>>, answer |-> NoResult, fresh |-> FALSE]

Init ==
    /\ memory = NoResult /\ records = <<>> /\ loaded = FALSE
    /\ ledgerFile = <<>> /\ io = <<>>
    /\ call = [c \in KeyUsers |-> Idle]
    /\ raced = FALSE /\ forgotten = FALSE /\ shadowed = FALSE
    /\ expiries = 0 /\ restarts = 0

Is(c, place) == call[c].at = place
Turn(c) == io # <<>> /\ Head(io) = c
At(c, place) == [call EXCEPT ![c].at = place]
Ended(result, fresh) == [at |-> "end", list |-> <<>>, answer |-> result, fresh |-> fresh]

-----------------------------------------------------------------------------

\* Mutant: only the guard's memory is looked up
FindNowhere(list) == {}

\* findByIdempotencyKey(): the oldest record of the key
Find(list) ==
    {list[i] : i \in {k \in DOMAIN list : list[k].key /\ \A j \in 1 .. k - 1 : ~list[j].key}}

\* check() with the ledger in memory: a fresh answer is remembered and repeated,
\* or else the execution begins
Decide(c, calls, list) ==
    LET found == {x \in Find(list) : x.fresh}
    IN  \/ \E x \in found :
             /\ memory' = x.result
             /\ call' = [calls EXCEPT ![c] = Ended(x.result, TRUE)]
             /\ UNCHANGED shadowed
        \/ /\ found = {}
           /\ call' = [calls EXCEPT ![c] = [Idle EXCEPT !.at = "executing"]]
           /\ shadowed' = (shadowed \/ (/\ Find(list) # {}
                                        /\ \E i \in DOMAIN list : list[i].key /\ list[i].fresh))
           /\ UNCHANGED memory

\* append(): the record is in memory, its write is asked for
Append_(c, list, record) ==
    /\ records' = Append(list, record)
    /\ io' = Append(io, c)

\* executeIdempotent() up to the first await: an answer in memory is repeated
Check(c) ==
    /\ c \in Calls /\ Is(c, "idle")
    /\ \/ /\ memory # NoResult
          /\ call' = [call EXCEPT ![c] = Ended(memory, TRUE)]
          /\ UNCHANGED <<memory, io, shadowed>>
       \/ /\ memory = NoResult /\ loaded /\ Decide(c, call, records)
          /\ UNCHANGED io
       \/ /\ memory = NoResult /\ ~loaded
          /\ call' = At(c, "loading") /\ io' = Append(io, c)
          /\ UNCHANGED <<memory, shadowed>>
    /\ UNCHANGED <<records, loaded, ledgerFile, raced, forgotten, expiries, restarts>>

\* AutonomousControlLoop.evaluate() once its checkpoint is saved
Evaluate(c) ==
    /\ c \in Evaluations /\ Is(c, "idle")
    /\ IF loaded
       THEN Append_(c, records, Record(FALSE, NoResult)) /\ call' = At(c, "writing")
       ELSE io' = Append(io, c) /\ call' = At(c, "loading") /\ UNCHANGED records
    /\ UNCHANGED <<memory, loaded, ledgerFile, raced, forgotten, shadowed, expiries, restarts>>

\* load(): the store's read, in its turn
Read(c) ==
    /\ Is(c, "loading") /\ Turn(c)
    /\ io' = Tail(io)
    /\ call' = [call EXCEPT ![c] = [@ EXCEPT !.at = "read", !.list = ledgerFile]]
    /\ UNCHANGED <<memory, records, loaded, ledgerFile, raced, forgotten, shadowed, expiries, restarts>>

\* load() goes on, over what another call may have loaded meanwhile: a record that
\* was appended since is left to the write that was asked for it
Assign(c) ==
    /\ Is(c, "read")
    /\ loaded' = TRUE /\ raced' = (raced \/ loaded)
    /\ LET calls == [d \in KeyUsers |->
                       IF Is(d, "writing") THEN [call[d] EXCEPT !.at = "writing old", !.list = records]
                       ELSE call[d]]
       IN  \/ /\ c \in Calls
              /\ records' = call[c].list /\ Decide(c, calls, call[c].list)
              /\ UNCHANGED io
           \/ /\ c \in Evaluations
              /\ Append_(c, call[c].list, Record(FALSE, NoResult))
              /\ call' = [calls EXCEPT ![c] = [Idle EXCEPT !.at = "writing"]]
              /\ UNCHANGED <<memory, shadowed>>
    /\ UNCHANGED <<ledgerFile, forgotten, expiries, restarts>>

\* The execution returns: remember(), then append()
Execute(c) ==
    /\ Is(c, "executing")
    /\ memory' = c
    /\ Append_(c, records, Record(TRUE, c))
    /\ call' = [call EXCEPT ![c] = [@ EXCEPT !.at = "writing", !.fresh = TRUE]]
    /\ raced' = (raced \/ \E d \in Calls \ {c} : Is(d, "executing"))
    /\ UNCHANGED <<loaded, ledgerFile, forgotten, shadowed, expiries, restarts>>

\* The execution throws: nothing is remembered
ExecuteThrows(c) ==
    /\ Is(c, "executing")
    /\ call' = [call EXCEPT ![c] = Ended(NoResult, FALSE)]
    /\ UNCHANGED <<memory, records, loaded, ledgerFile, io, raced, forgotten, shadowed, expiries, restarts>>

\* The store's write, in its turn, of the array as it is by then; the call answers
Write(c) ==
    /\ call[c].at \in {"writing", "writing old"} /\ Turn(c)
    /\ ledgerFile' = IF Is(c, "writing") THEN records ELSE call[c].list
    /\ io' = Tail(io)
    /\ call' = [call EXCEPT ![c] = Ended(IF c \in Calls THEN c ELSE NoResult, @.fresh)]
    /\ UNCHANGED <<memory, records, loaded, raced, forgotten, shadowed, expiries, restarts>>

Aged(list) == [i \in DOMAIN list |-> [list[i] EXCEPT !.fresh = FALSE]]

\* The ttl passes for all that was executed so far
Expire ==
    /\ expiries < MaxExpiries /\ expiries' = expiries + 1
    /\ memory' = NoResult
    /\ records' = Aged(records) /\ ledgerFile' = Aged(ledgerFile)
    /\ call' = [c \in KeyUsers |-> [call[c] EXCEPT !.list = Aged(@), !.fresh = FALSE]]
    /\ UNCHANGED <<loaded, io, raced, forgotten, shadowed, restarts>>

\* A new process; what was under way gets no answer
Restart ==
    /\ restarts < MaxRestarts /\ restarts' = restarts + 1
    /\ memory' = NoResult /\ records' = <<>> /\ loaded' = FALSE /\ io' = <<>>
    /\ call' = [c \in KeyUsers |-> IF call[c].at \in {"idle", "end"} THEN call[c]
                                   ELSE [Idle EXCEPT !.at = "end"]]
    /\ forgotten' = (forgotten \/ \E c, d \in Calls : c # d /\ call[c].answer = d /\ ~Is(d, "end"))
    /\ UNCHANGED <<ledgerFile, raced, shadowed, expiries>>

Next ==
    \/ \E c \in KeyUsers : Check(c) \/ Evaluate(c) \/ Read(c) \/ Assign(c)
                           \/ Execute(c) \/ ExecuteThrows(c) \/ Write(c)
    \/ Expire \/ Restart

Spec == Init /\ [][Next]_vars

-----------------------------------------------------------------------------
(* Properties *)

TypeOK ==
    /\ {memory} \cup {call[c].answer : c \in KeyUsers} \subseteq Calls \cup {NoResult}
    /\ Len(records) <= Cardinality(KeyUsers) /\ Len(ledgerFile) <= Cardinality(KeyUsers)
    /\ \A c \in KeyUsers :
        call[c].at \in {"idle", "loading", "read", "executing", "writing", "writing old", "end"}
    /\ {loaded, raced, forgotten, shadowed} \subseteq BOOLEAN
    /\ expiries \in 0 .. MaxExpiries /\ restarts \in 0 .. MaxRestarts

\* Within the ttl every call of the key gets the same answer, also across a
\* restart.  The exceptions: executions that ran beside each other (the key is
\* looked up before and stored after), a load that came late, an answer
\* repeated from memory before its record was written and lost with the
\* process, and a record behind an expired one of the same key.
OneAnswerPerKey ==
    \/ raced \/ forgotten \/ shadowed
    \/ \A c, d \in {k \in Calls : call[k].fresh /\ call[k].answer # NoResult} :
         call[c].answer = call[d].answer

=============================================================================
