---------------------------- MODULE DurableWorker ----------------------------
(***************************************************************************)
(* DurableWorker.run() (src/core/durable-worker.js) in the default, local  *)
(* deployment: no lease store and no queue, one command, a cycle limit,    *)
(* and the worker state file as the only thing that survives a crash.      *)
(*                                                                         *)
(* The state file is a JsonStore (src/core/json-store.js): a read and a    *)
(* write are each atomic, and inside one process they are served in the    *)
(* order they were asked for (withFileLock).  Nothing makes a read and the *)
(* write that follows it atomic, so a heartbeat's read-modify-write and    *)
(* the run's own interleave; ioq[p] is the order process p asked in.  A    *)
(* step of the model is one file operation with the code that follows it   *)
(* up to the next await.                                                   *)
(*                                                                         *)
(* fresh says heartbeatAt is younger than staleAfterMs.  Snapshots carry   *)
(* the timestamp they were read with, so they go stale with the file.      *)
(***************************************************************************)
EXTENDS Naturals, Sequences

CONSTANTS Procs,       \* processes started on the same state file
          MaxCycles,   \* maxCycles
          MaxJobs,     \* bound: jobs the file goes through
          MaxBeats,    \* bound: heartbeats per process
          MaxCrashes   \* bound: crashes

ASSUME CycleLimit == MaxCycles \in Nat \ {0}
ASSUME Bounds == MaxJobs \in Nat \ {0} /\ MaxBeats \in Nat /\ MaxCrashes \in Nat

VARIABLES file,      \* the worker state file
          pc,        \* pc[p]: the await p's run() is at
          mem,       \* mem[p]: the local variable state of run()
          cycle,     \* cycle[p]: cycleNumber
          jobId,     \* jobId[p]: this.jobId, 0 for null
          stop,      \* stop[p]: this.stopRequested
          beat,      \* beat[p]: the await p's heartbeat is at
          beatMem,   \* beatMem[p]: the state the heartbeat read
          ioq,       \* ioq[p]: who waits for the file lock, in order
          issued,    \* how many job ids have been made up
          executed,  \* history: the cycle numbers that were executed to their end
          clean,     \* history: clean[p], p's last run() returned a result
          beats, crashes

vars == <<file, pc, mem, cycle, jobId, stop, beat, beatMem, ioq, issued,
          executed, clean, beats, crashes>>

NoJob == 0
FileState == [worker: {"IDLE", "RUNNING"}, fresh: BOOLEAN, job: Nat,
              status: {"NONE", "RUNNING", "COMPLETED", "STOPPED"},
              attempts: Nat, cycles: 0..MaxCycles, active: 0..MaxCycles]

\* _read()'s default, for a file that does not exist yet.
DefaultState == [worker |-> "IDLE", fresh |-> FALSE, job |-> NoJob, status |-> "NONE",
                 attempts |-> 0, cycles |-> 0, active |-> 0]

Places == {"idle", "acqRead", "acqWrite", "cycRead", "cycWrite", "cycle",
           "resRead", "resWrite", "sleep", "finRead", "finWrite"}

TypeOK ==
  /\ file \in FileState
  /\ pc \in [Procs -> Places]
  /\ mem \in [Procs -> FileState]
  /\ cycle \in [Procs -> 0..MaxCycles]
  /\ jobId \in [Procs -> Nat]
  /\ stop \in [Procs -> BOOLEAN]
  /\ beat \in [Procs -> {"none", "read", "write"}]
  /\ beatMem \in [Procs -> FileState]
  /\ \A p \in Procs : ioq[p] \in {<<>>, <<"run">>, <<"beat">>,
                                  <<"run", "beat">>, <<"beat", "run">>}
  /\ issued \in Nat
  /\ executed \subseteq 1..MaxCycles
  /\ clean \in [Procs -> BOOLEAN]
  /\ beats \in [Procs -> 0..MaxBeats]
  /\ crashes \in 0..MaxCrashes

Init ==
  /\ file = DefaultState
  /\ pc = [p \in Procs |-> "idle"]
  /\ mem = [p \in Procs |-> DefaultState]
  /\ cycle = [p \in Procs |-> 0]
  /\ jobId = [p \in Procs |-> NoJob]
  /\ stop = [p \in Procs |-> FALSE]
  /\ beat = [p \in Procs |-> "none"]
  /\ beatMem = [p \in Procs |-> DefaultState]
  /\ ioq = [p \in Procs |-> <<>>]
  /\ issued = 0
  /\ executed = {}
  /\ clean = [p \in Procs |-> FALSE]
  /\ beats = [p \in Procs |-> 0]
  /\ crashes = 0

-----------------------------------------------------------------------------
(* The file lock and the run's program counter.                            *)

Turn(p, who) == ioq[p] # <<>> /\ Head(ioq[p]) = who

\* After its file operation, the actor asks for the next one or does not.
AsksNext(p, who) == ioq' = [ioq EXCEPT ![p] = Append(Tail(@), who)]
AsksNoMore(p) == ioq' = [ioq EXCEPT ![p] = Tail(@)]
Asks(p, who) == ioq' = [ioq EXCEPT ![p] = Append(@, who)]

Goto(p, place) == pc' = [pc EXCEPT ![p] = place]
Keep(p, state) == mem' = [mem EXCEPT ![p] = state]

\* while(!this.stopRequested && state.job.cycles<this.maxCycles)
GoesOn(p) == ~stop[p] /\ mem[p].cycles < MaxCycles
LoopHead(p) ==
  IF GoesOn(p)
  THEN Goto(p, "cycRead") /\ cycle' = [cycle EXCEPT ![p] = mem[p].cycles + 1]
  ELSE Goto(p, "finRead") /\ UNCHANGED cycle

beatVars == <<beat, beatMem, beats>>
history == <<issued, executed, crashes>>

\* run(): refused while running; clears an earlier stop request.
Start(p) ==
  /\ pc[p] = "idle"
  /\ issued < MaxJobs \/ file.status = "RUNNING"
  /\ Goto(p, "acqRead")
  /\ stop' = [stop EXCEPT ![p] = FALSE]
  /\ clean' = [clean EXCEPT ![p] = FALSE]
  /\ Asks(p, "run")
  /\ UNCHANGED <<file, mem, cycle, jobId, beatVars, history>>

\* Mutant: a RUNNING worker refuses the start however old its heartbeat is.
ActiveForEver(state) == state.worker = "RUNNING"
Active(state) == state.worker = "RUNNING" /\ state.fresh

\* Mutant: only a job that was interrupted inside a cycle is resumed.
AcquiredInCycle(state) ==
  LET recovered == state.status = "RUNNING" /\ state.active # 0
  IN [worker |-> "RUNNING", fresh |-> TRUE,
      job |-> IF recovered THEN state.job ELSE issued + 1,
      status |-> "RUNNING",
      attempts |-> IF recovered THEN state.attempts + 1 ELSE 1,
      cycles |-> state.cycles, active |-> 0]

\* A RUNNING job is resumed under its id; any other is replaced by a new one,
\* which starts from the old one's attempts and cycles.
Acquired(state) ==
  LET recovered == state.status = "RUNNING"
      attempts == state.attempts + (IF recovered THEN 1 ELSE 0)
  IN [worker |-> "RUNNING", fresh |-> TRUE,
      job |-> IF recovered THEN state.job ELSE issued + 1,
      status |-> "RUNNING",
      attempts |-> IF attempts = 0 THEN 1 ELSE attempts,
      cycles |-> state.cycles, active |-> 0]

\* _acquire(): read and check the file.
AcquireRead(p) ==
  /\ pc[p] = "acqRead" /\ Turn(p, "run")
  /\ IF Active(file)
     THEN Goto(p, "idle") /\ AsksNoMore(p) /\ UNCHANGED <<mem, issued>>
     ELSE /\ Goto(p, "acqWrite") /\ AsksNext(p, "run")
          /\ Keep(p, Acquired(file))
          /\ issued' = IF file.status = "RUNNING" THEN issued ELSE issued + 1
  /\ UNCHANGED <<file, cycle, jobId, stop, beatVars, executed, clean, crashes>>

\* _acquire(): write it, start the heartbeat, enter the loop.
AcquireWrite(p) ==
  /\ pc[p] = "acqWrite" /\ Turn(p, "run")
  /\ file' = mem[p]
  /\ jobId' = [jobId EXCEPT ![p] = mem[p].job]
  /\ LoopHead(p)
  /\ AsksNext(p, "run")
  /\ UNCHANGED <<mem, stop, beatVars, history, clean>>

\* Mutant: the cycle is counted when it is begun.
CycleReadCounts(p) ==
  /\ pc[p] = "cycRead" /\ Turn(p, "run")
  /\ Keep(p, [file EXCEPT !.status = "RUNNING", !.active = cycle[p], !.cycles = cycle[p]])
  /\ Goto(p, "cycWrite") /\ AsksNext(p, "run")
  /\ UNCHANGED <<file, cycle, jobId, stop, beatVars, history, clean>>

CycleRead(p) ==
  /\ pc[p] = "cycRead" /\ Turn(p, "run")
  /\ Keep(p, [file EXCEPT !.status = "RUNNING", !.active = cycle[p]])
  /\ Goto(p, "cycWrite") /\ AsksNext(p, "run")
  /\ UNCHANGED <<file, cycle, jobId, stop, beatVars, history, clean>>

CycleWrite(p) ==
  /\ pc[p] = "cycWrite" /\ Turn(p, "run")
  /\ file' = mem[p]
  /\ Goto(p, "cycle") /\ AsksNoMore(p)
  /\ UNCHANGED <<mem, cycle, jobId, stop, beatVars, history, clean>>

\* this.cycle() settles; a failed cycle is recorded like a successful one.
CycleEnds(p) ==
  /\ pc[p] = "cycle"
  /\ executed' = executed \cup {cycle[p]}
  /\ Goto(p, "resRead") /\ Asks(p, "run")
  /\ UNCHANGED <<file, mem, cycle, jobId, stop, beatVars, issued, clean, crashes>>

ResultRead(p) ==
  /\ pc[p] = "resRead" /\ Turn(p, "run")
  /\ Keep(p, [file EXCEPT !.status = "RUNNING", !.cycles = cycle[p], !.active = 0])
  /\ Goto(p, "resWrite") /\ AsksNext(p, "run")
  /\ UNCHANGED <<file, cycle, jobId, stop, beatVars, history, clean>>

ResultWrite(p) ==
  /\ pc[p] = "resWrite" /\ Turn(p, "run")
  /\ file' = mem[p]
  /\ IF GoesOn(p) THEN Goto(p, "sleep") /\ AsksNoMore(p)
                  ELSE Goto(p, "finRead") /\ AsksNext(p, "run")
  /\ UNCHANGED <<mem, cycle, jobId, stop, beatVars, history, clean>>

Wakes(p) ==
  /\ pc[p] = "sleep"
  /\ LoopHead(p)
  /\ Asks(p, "run")
  /\ UNCHANGED <<file, mem, jobId, stop, beatVars, history, clean>>

FinalRead(p) ==
  /\ pc[p] = "finRead" /\ Turn(p, "run")
  /\ Keep(p, [file EXCEPT !.worker = "IDLE", !.fresh = FALSE, !.active = 0,
                          !.status = IF stop[p] THEN "STOPPED" ELSE "COMPLETED"])
  /\ Goto(p, "finWrite") /\ AsksNext(p, "run")
  /\ UNCHANGED <<file, cycle, jobId, stop, beatVars, history, clean>>

\* The final write, the finally clause and the result of run().
FinalWrite(p) ==
  /\ pc[p] = "finWrite" /\ Turn(p, "run")
  /\ file' = mem[p]
  /\ Goto(p, "idle") /\ AsksNoMore(p)
  /\ jobId' = [jobId EXCEPT ![p] = NoJob]
  /\ clean' = [clean EXCEPT ![p] = TRUE]
  /\ UNCHANGED <<mem, cycle, stop, beatVars, history>>

RunStep(p) ==
  \/ AcquireRead(p) \/ AcquireWrite(p) \/ CycleRead(p) \/ CycleWrite(p) \/ CycleEnds(p)
  \/ ResultRead(p) \/ ResultWrite(p) \/ Wakes(p) \/ FinalRead(p) \/ FinalWrite(p)

-----------------------------------------------------------------------------
(* The heartbeat timer, stop(), crashes and time.                          *)

runVars == <<pc, mem, cycle, jobId, stop, clean>>

\* The timer runs from the start of the heartbeat to the finally clause, which
\* is exactly while this.jobId is set.
HeartbeatTick(p) ==
  /\ jobId[p] # NoJob
  /\ beat[p] = "none"
  /\ beats[p] < MaxBeats
  /\ beats' = [beats EXCEPT ![p] = @ + 1]
  /\ beat' = [beat EXCEPT ![p] = "read"]
  /\ Asks(p, "beat")
  /\ UNCHANGED <<file, runVars, beatMem, history>>

HeartbeatRead(p) ==
  /\ beat[p] = "read" /\ Turn(p, "beat")
  /\ IF jobId[p] # NoJob /\ file.job = jobId[p]
     THEN /\ beatMem' = [beatMem EXCEPT ![p] = [file EXCEPT !.worker = "RUNNING", !.fresh = TRUE]]
          /\ beat' = [beat EXCEPT ![p] = "write"]
          /\ AsksNext(p, "beat")
     ELSE /\ beat' = [beat EXCEPT ![p] = "none"]
          /\ AsksNoMore(p)
          /\ UNCHANGED beatMem
  /\ UNCHANGED <<file, runVars, beats, history>>

HeartbeatWrite(p) ==
  /\ beat[p] = "write" /\ Turn(p, "beat")
  /\ file' = beatMem[p]
  /\ beat' = [beat EXCEPT ![p] = "none"]
  /\ AsksNoMore(p)
  /\ UNCHANGED <<runVars, beatMem, beats, history>>

HeartbeatIO(p) == HeartbeatRead(p) \/ HeartbeatWrite(p)

Stop(p) ==
  /\ ~stop[p]
  /\ stop' = [stop EXCEPT ![p] = TRUE]
  /\ UNCHANGED <<file, pc, mem, cycle, jobId, clean, beatVars, ioq, history>>

\* The process dies and everything in its memory with it.
Crash(p) ==
  /\ pc[p] # "idle" \/ beat[p] # "none"
  /\ crashes < MaxCrashes
  /\ crashes' = crashes + 1
  /\ Goto(p, "idle")
  /\ jobId' = [jobId EXCEPT ![p] = NoJob]
  /\ stop' = [stop EXCEPT ![p] = FALSE]
  /\ beat' = [beat EXCEPT ![p] = "none"]
  /\ ioq' = [ioq EXCEPT ![p] = <<>>]
  /\ clean' = [clean EXCEPT ![p] = FALSE]
  /\ UNCHANGED <<file, mem, cycle, beatMem, beats, issued, executed>>

\* staleAfterMs pass without a new timestamp being written.
Aged(state) == [state EXCEPT !.fresh = FALSE]
TimePasses ==
  /\ file.fresh
  /\ file' = Aged(file)
  /\ mem' = [p \in Procs |-> Aged(mem[p])]
  /\ beatMem' = [p \in Procs |-> Aged(beatMem[p])]
  /\ UNCHANGED <<pc, cycle, jobId, stop, clean, beat, beats, ioq, history>>

Next ==
  \/ \E p \in Procs : Start(p) \/ RunStep(p) \/ HeartbeatTick(p) \/ HeartbeatIO(p)
                        \/ Stop(p) \/ Crash(p)
  \/ TimePasses

Spec == Init /\ [][Next]_vars

\* The event loop serves every file operation and continuation, the worker is
\* started again after it ended, and time passes.  Heartbeats, stops and
\* crashes need not happen.
Fairness ==
  /\ \A p \in Procs : WF_vars(Start(p)) /\ WF_vars(RunStep(p)) /\ WF_vars(HeartbeatIO(p))
  /\ WF_vars(TimePasses)

FairSpec == Spec /\ Fairness

-----------------------------------------------------------------------------
(* Properties *)

\* "The interrupted cycle is retried rather than silently skipped": every cycle
\* the file counts as done was executed to its end, and a cycle is only begun
\* when all earlier ones were, through every crash, restart and heartbeat that
\* overwrites the run's own record.
NoCycleSkipped ==
  /\ 1..file.cycles \subseteq executed
  /\ \A p \in Procs : pc[p] = "cycle" => 1..(cycle[p] - 1) \subseteq executed

\* A job id is only replaced once its job is COMPLETED or STOPPED: an
\* interrupted job is resumed, never dropped for a new one.
JobReplacedOnlyWhenFinished ==
  [][file'.job # file.job => file.status # "RUNNING"]_file

\* An interrupted or running job is eventually COMPLETED or STOPPED.
JobFinishes == (file.status = "RUNNING") ~> (file.status \in {"COMPLETED", "STOPPED"})

\* What the worker's lifecycle test asserts: after run() has returned, the file
\* shows an IDLE worker and a finished job with no active cycle.  A heartbeat
\* that read the file before the final write puts the old state back.
FinishedRunIsRecorded ==
  \A p \in Procs : clean[p] => /\ file.worker = "IDLE"
                               /\ file.status \in {"COMPLETED", "STOPPED"}
                               /\ file.active = 0

\* "refuses a second fresh worker lease": two processes never run on one file
\* while its heartbeat is fresh.  The check and the write that takes the lease
\* are two file operations.
SecondWorkerRefused ==
  \A p, q \in Procs : jobId[p] # NoJob /\ jobId[q] # NoJob /\ file.fresh => p = q
=============================================================================
