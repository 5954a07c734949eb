------------------------- MODULE DurableWorkerProofs -------------------------
(***************************************************************************)
(* Theorems about DurableWorker for any number of processes on one state   *)
(* file, any cycle limit and any number of jobs, heartbeats and crashes.   *)
(***************************************************************************)
EXTENDS DurableWorker, TLAPS

\* The part of TypeOK that the cycle argument rests on.
DataOK ==
  /\ file \in FileState
  /\ mem \in [Procs -> FileState]
  /\ beatMem \in [Procs -> FileState]
  /\ cycle \in [Procs -> 0..MaxCycles]
  /\ jobId \in [Procs -> Nat]
  /\ issued \in Nat
  /\ pc \in [Procs -> Places]

LEMMA ZeroIsACycle == 0 \in 0..MaxCycles
  BY CycleLimit

LEMMA DefaultStateType == DefaultState \in FileState
  BY CycleLimit DEF DefaultState, FileState, NoJob

LEMMA DataInit == Init => DataOK
  BY DefaultStateType, CycleLimit DEF Init, DataOK, Places, NoJob

\* What _acquire() makes of a state is a state.
LEMMA AcquiredType ==
  ASSUME issued \in Nat, NEW s \in FileState
  PROVE Acquired(s) \in FileState
  <1> DEFINE recovered == s.status = "RUNNING"
             attempts == s.attempts + (IF recovered THEN 1 ELSE 0)
  <1>1. attempts \in Nat
    BY DEF FileState
  <1>2. (IF attempts = 0 THEN 1 ELSE attempts) \in Nat
    BY <1>1
  <1>3. issued + 1 \in Nat
    OBVIOUS
  <1>4. (IF recovered THEN s.job ELSE issued + 1) \in Nat
    BY <1>3 DEF FileState
  <1> HIDE DEF attempts, recovered
  <1>5. s.cycles \in 0..MaxCycles /\ 0 \in 0..MaxCycles
    BY CycleLimit DEF FileState
  <1>6. QED
    BY <1>2, <1>4, <1>5 DEF Acquired, FileState, attempts, recovered

\* Entering the loop begins at most cycle MaxCycles.
LEMMA LoopHeadType ==
  ASSUME DataOK, NEW p \in Procs, LoopHead(p)
  PROVE /\ pc' \in [Procs -> Places]
        /\ cycle' \in [Procs -> 0..MaxCycles]
  <1>1. mem[p].cycles \in 0..MaxCycles
    BY DEF DataOK, FileState
  <1>2. GoesOn(p) => mem[p].cycles + 1 \in 0..MaxCycles
    BY <1>1, CycleLimit DEF GoesOn
  <1>3. QED
    BY <1>2 DEF LoopHead, DataOK, Places, Goto

LEMMA DataStep == DataOK /\ [Next]_vars => DataOK'
  <1> SUFFICES ASSUME DataOK, [Next]_vars PROVE DataOK'
    OBVIOUS
  <1> USE DEF DataOK, Goto, Places
  <1>1. ASSUME NEW p \in Procs, Start(p) PROVE DataOK'
    BY <1>1 DEF Start, beatVars, history
  <1>2. ASSUME NEW p \in Procs, AcquireRead(p) PROVE DataOK'
    <2>1. Acquired(file) \in FileState
      BY AcquiredType
    <2>2. issued + 1 \in Nat
      OBVIOUS
    <2>3. QED
      BY <1>2, <2>1, <2>2 DEF AcquireRead, Keep, beatVars
  <1>3. ASSUME NEW p \in Procs, AcquireWrite(p) PROVE DataOK'
    <2>1. mem[p].job \in Nat
      BY DEF FileState
    <2>2. QED
      BY <1>3, <2>1, LoopHeadType DEF AcquireWrite, beatVars, history
  <1>4. ASSUME NEW p \in Procs, CycleRead(p) PROVE DataOK'
    <2>1. [file EXCEPT !.status = "RUNNING", !.active = cycle[p]] \in FileState
      BY DEF FileState
    <2>2. QED
      BY <1>4, <2>1 DEF CycleRead, Keep, beatVars, history
  <1>5. ASSUME NEW p \in Procs, CycleWrite(p) PROVE DataOK'
    BY <1>5 DEF CycleWrite, beatVars, history
  <1>6. ASSUME NEW p \in Procs, CycleEnds(p) PROVE DataOK'
    BY <1>6 DEF CycleEnds, beatVars
  <1>7. ASSUME NEW p \in Procs, ResultRead(p) PROVE DataOK'
    <2>1. [file EXCEPT !.status = "RUNNING", !.cycles = cycle[p], !.active = 0] \in FileState
      BY ZeroIsACycle DEF FileState
    <2>2. QED
      BY <1>7, <2>1 DEF ResultRead, Keep, beatVars, history
  <1>8. ASSUME NEW p \in Procs, ResultWrite(p) PROVE DataOK'
    BY <1>8 DEF ResultWrite, beatVars, history
  <1>9. ASSUME NEW p \in Procs, Wakes(p) PROVE DataOK'
    BY <1>9, LoopHeadType DEF Wakes, beatVars, history
  <1>10. ASSUME NEW p \in Procs, FinalRead(p) PROVE DataOK'
    <2>1. ASSUME NEW word \in {"STOPPED", "COMPLETED"}
          PROVE [file EXCEPT !.worker = "IDLE", !.fresh = FALSE, !.active = 0,
                             !.status = word] \in FileState
      BY ZeroIsACycle DEF FileState
    <2>2. QED
      BY <1>10, <2>1 DEF FinalRead, Keep, beatVars, history
  <1>11. ASSUME NEW p \in Procs, FinalWrite(p) PROVE DataOK'
    BY <1>11 DEF FinalWrite, beatVars, history, NoJob
  <1>12. ASSUME NEW p \in Procs, HeartbeatTick(p) PROVE DataOK'
    BY <1>12 DEF HeartbeatTick, runVars, history
  <1>13. ASSUME NEW p \in Procs, HeartbeatRead(p) PROVE DataOK'
    <2>1. [file EXCEPT !.worker = "RUNNING", !.fresh = TRUE] \in FileState
      BY DEF FileState
    <2>2. QED
      BY <1>13, <2>1 DEF HeartbeatRead, runVars, history
  <1>14. ASSUME NEW p \in Procs, HeartbeatWrite(p) PROVE DataOK'
    BY <1>14 DEF HeartbeatWrite, runVars, history
  <1>15. ASSUME NEW p \in Procs, Stop(p) PROVE DataOK'
    BY <1>15 DEF Stop, beatVars, history
  <1>16. ASSUME NEW p \in Procs, Crash(p) PROVE DataOK'
    BY <1>16 DEF Crash, NoJob
  <1>17. ASSUME TimePasses PROVE DataOK'
    <2>1. ASSUME NEW s \in FileState PROVE Aged(s) \in FileState
      BY DEF Aged, FileState
    <2>2. QED
      BY <1>17, <2>1 DEF TimePasses, history
  <1>18. CASE UNCHANGED vars
    BY <1>18 DEF vars
  <1>19. QED
    BY <1>1, <1>2, <1>3, <1>4, <1>5, <1>6, <1>7, <1>8, <1>9, <1>10, <1>11, <1>12,
       <1>13, <1>14, <1>15, <1>16, <1>17, <1>18 DEF Next, RunStep, HeartbeatIO

\* The state every process holds and the file keep the shape the code gives them.
THEOREM DataCorrect == Spec => []DataOK
  <1>1. QED
    BY DataInit, DataStep, PTL DEF Spec

-----------------------------------------------------------------------------
\* All cycles up to n were executed to their end.
DoneTo(n) == 1..n \subseteq executed

\* Every copy of the state counts executed cycles only, wherever a heartbeat or
\* the run may write it back from; and a run is only in a cycle whose
\* predecessors are done.
CycleInv ==
  /\ DoneTo(file.cycles)
  /\ \A p \in Procs :
       /\ DoneTo(mem[p].cycles)
       /\ DoneTo(beatMem[p].cycles)
       /\ pc[p] \in {"cycRead", "cycWrite", "cycle", "resRead", "resWrite"}
            => DoneTo(cycle[p] - 1)
       /\ pc[p] \in {"resRead", "resWrite"} => cycle[p] \in executed

LEMMA CycleInit == Init => CycleInv
  BY DEF Init, CycleInv, DoneTo, DefaultState

\* A cycle is only begun behind executed ones.
LEMMA LoopHeadCycle ==
  ASSUME DataOK, NEW p \in Procs, LoopHead(p), DoneTo(mem[p].cycles)
  PROVE /\ \A q \in Procs \ {p} : pc'[q] = pc[q] /\ cycle'[q] = cycle[q]
        /\ pc'[p] \in {"cycRead", "finRead"}
        /\ pc'[p] = "cycRead" => DoneTo(cycle'[p] - 1)
  <1>1. \A q \in Procs \ {p} : pc'[q] = pc[q] /\ cycle'[q] = cycle[q]
    BY DEF LoopHead, Goto, DataOK
  <1>2. CASE GoesOn(p)
    <2>1. cycle'[p] = mem[p].cycles + 1 /\ pc'[p] = "cycRead"
      BY <1>2 DEF LoopHead, Goto, DataOK
    <2>2. mem[p].cycles \in Nat
      BY CycleLimit DEF DataOK, FileState
    <2>3. cycle'[p] - 1 = mem[p].cycles
      BY <2>1, <2>2
    <2>4. QED
      BY <1>1, <2>1, <2>3
  <1>3. CASE ~GoesOn(p)
    BY <1>1, <1>3 DEF LoopHead, Goto, DataOK
  <1>4. QED
    BY <1>2, <1>3

LEMMA CycleStep == DataOK /\ CycleInv /\ [Next]_vars => CycleInv'
  <1> SUFFICES ASSUME DataOK, CycleInv, [Next]_vars PROVE CycleInv'
    OBVIOUS
  <1> USE DEF DataOK, CycleInv, Goto
  <1>1. ASSUME NEW p \in Procs, Start(p) PROVE CycleInv'
    BY <1>1 DEF Start, beatVars, history, DoneTo
  <1>2. ASSUME NEW p \in Procs, AcquireRead(p) PROVE CycleInv'
    <2>1. Acquired(file).cycles = file.cycles
      BY DEF Acquired
    <2>2. QED
      BY <1>2, <2>1 DEF AcquireRead, Keep, beatVars, DoneTo
  <1>3. ASSUME NEW p \in Procs, AcquireWrite(p) PROVE CycleInv'
    <2>1. /\ \A q \in Procs \ {p} : pc'[q] = pc[q] /\ cycle'[q] = cycle[q]
          /\ pc'[p] \in {"cycRead", "finRead"}
          /\ pc'[p] = "cycRead" => DoneTo(cycle'[p] - 1)
      BY <1>3, LoopHeadCycle DEF AcquireWrite
    <2>2. executed' = executed /\ file' = mem[p] /\ mem' = mem /\ beatMem' = beatMem
      BY <1>3 DEF AcquireWrite, beatVars, history
    <2>3. QED
      BY <2>1, <2>2 DEF DoneTo
  <1>4. ASSUME NEW p \in Procs, CycleRead(p) PROVE CycleInv'
    BY <1>4 DEF CycleRead, Keep, beatVars, history, DoneTo, FileState
  <1>5. ASSUME NEW p \in Procs, CycleWrite(p) PROVE CycleInv'
    BY <1>5 DEF CycleWrite, beatVars, history, DoneTo
  <1>6. ASSUME NEW p \in Procs, CycleEnds(p) PROVE CycleInv'
    BY <1>6 DEF CycleEnds, beatVars, DoneTo
  <1>7. ASSUME NEW p \in Procs, ResultRead(p) PROVE CycleInv'
    <2>1. cycle[p] \in executed /\ DoneTo(cycle[p] - 1) /\ cycle[p] \in Nat
      BY <1>7, CycleLimit DEF ResultRead
    <2>2. DoneTo(cycle[p])
      <3>1. ASSUME NEW i \in 1..cycle[p] PROVE i \in executed
        <4>1. i = cycle[p] \/ i \in 1..(cycle[p] - 1)
          BY <2>1
        <4>2. QED
          BY <2>1, <4>1 DEF DoneTo
      <3>2. QED
        BY <3>1 DEF DoneTo
    <2>3. QED
      BY <1>7, <2>2 DEF ResultRead, Keep, beatVars, history, DoneTo, FileState
  <1>8. ASSUME NEW p \in Procs, ResultWrite(p) PROVE CycleInv'
    BY <1>8 DEF ResultWrite, beatVars, history, DoneTo
  <1>9. ASSUME NEW p \in Procs, Wakes(p) PROVE CycleInv'
    <2>1. /\ \A q \in Procs \ {p} : pc'[q] = pc[q] /\ cycle'[q] = cycle[q]
          /\ pc'[p] \in {"cycRead", "finRead"}
          /\ pc'[p] = "cycRead" => DoneTo(cycle'[p] - 1)
      BY <1>9, LoopHeadCycle DEF Wakes
    <2>2. executed' = executed /\ file' = file /\ mem' = mem /\ beatMem' = beatMem
      BY <1>9 DEF Wakes, beatVars, history
    <2>3. QED
      BY <2>1, <2>2 DEF DoneTo
  <1>10. ASSUME NEW p \in Procs, FinalRead(p) PROVE CycleInv'
    BY <1>10 DEF FinalRead, Keep, beatVars, history, DoneTo, FileState
  <1>11. ASSUME NEW p \in Procs, FinalWrite(p) PROVE CycleInv'
    BY <1>11 DEF FinalWrite, beatVars, history, DoneTo
  <1>12. ASSUME NEW p \in Procs, HeartbeatTick(p) PROVE CycleInv'
    BY <1>12 DEF HeartbeatTick, runVars, history, DoneTo
  <1>13. ASSUME NEW p \in Procs, HeartbeatRead(p) PROVE CycleInv'
    <2>1. /\ UNCHANGED <<file, pc, mem, cycle, executed>>
          /\ beatMem' = beatMem
             \/ beatMem' = [beatMem EXCEPT ![p] = [file EXCEPT !.worker = "RUNNING", !.fresh = TRUE]]
      BY <1>13 DEF HeartbeatRead, runVars, history
    <2>2. [file EXCEPT !.worker = "RUNNING", !.fresh = TRUE].cycles = file.cycles
      BY DEF FileState
    <2>3. \A q \in Procs : DoneTo(beatMem'[q].cycles)
      BY <2>1, <2>2
    <2>4. QED
      BY <2>1, <2>3 DEF DoneTo
  <1>14. ASSUME NEW p \in Procs, HeartbeatWrite(p) PROVE CycleInv'
    BY <1>14 DEF HeartbeatWrite, runVars, history, DoneTo
  <1>15. ASSUME NEW p \in Procs, Stop(p) PROVE CycleInv'
    BY <1>15 DEF Stop, beatVars, history, DoneTo
  <1>16. ASSUME NEW p \in Procs, Crash(p) PROVE CycleInv'
    BY <1>16 DEF Crash, DoneTo
  <1>17. ASSUME TimePasses PROVE CycleInv'
    <2>1. ASSUME NEW s \in FileState PROVE Aged(s).cycles = s.cycles
      BY DEF Aged, FileState
    <2>2. QED
      BY <1>17, <2>1 DEF TimePasses, history, DoneTo
  <1>18. CASE UNCHANGED vars
    BY <1>18 DEF vars, DoneTo
  <1>19. QED
    BY <1>1, <1>2, <1>3, <1>4, <1>5, <1>6, <1>7, <1>8, <1>9, <1>10, <1>11, <1>12,
       <1>13, <1>14, <1>15, <1>16, <1>17, <1>18 DEF Next, RunStep, HeartbeatIO

\* No cycle is ever counted as done that was not executed to its end, and none
\* is begun before its predecessors are done: crashes, restarts, heartbeats
\* that write an old state back and even competing processes included.
THEOREM CyclesAreNotSkipped == Spec => []NoCycleSkipped
  <1>1. CycleInv => NoCycleSkipped
    BY DEF CycleInv, NoCycleSkipped, DoneTo
  <1>2. QED
    BY <1>1, CycleInit, CycleStep, DataCorrect, PTL DEF Spec

-----------------------------------------------------------------------------
(* The lock of the file, and the types that rest on it.                    *)

FileOperations == {"acqRead", "acqWrite", "cycRead", "cycWrite",
                   "resRead", "resWrite", "finRead", "finWrite"}
WithRun == {<<"run">>, <<"run", "beat">>, <<"beat", "run">>}
WithBeat == {<<"beat">>, <<"run", "beat">>, <<"beat", "run">>}
Queues == {<<>>} \cup WithRun \cup WithBeat

\* Run and heartbeat are each in the queue once, exactly while they wait for
\* their file operation.
QueueInv ==
  /\ beat \in [Procs -> {"none", "read", "write"}]
  /\ ioq \in [Procs -> Queues]
  /\ \A p \in Procs : /\ pc[p] \in FileOperations <=> ioq[p] \in WithRun
                      /\ beat[p] # "none" <=> ioq[p] \in WithBeat

LEMMA QueuesDiffer ==
  /\ <<"run">> # <<"beat">> /\ <<>> \notin WithRun \cup WithBeat
  /\ <<"run">> \notin WithBeat /\ <<"beat">> \notin WithRun
  BY DEF WithRun, WithBeat

\* A queue of two is what asking behind one makes.
LEMMA TwoInQueue ==
  ASSUME NEW first, NEW second
  PROVE Append(<<first>>, second) = <<first, second>>
  <1> DEFINE q == Append(<<first>>, second)
             two == <<first, second>>
             S == {first, second}
  <1>1. q \in Seq(S) /\ Len(q) = 2 /\ q[1] = first /\ q[2] = second
    <2>1. <<first>> \in Seq(S) /\ second \in S /\ Len(<<first>>) = 1
      OBVIOUS
    <2>2. QED
      BY <2>1
  <1>2. two \in Seq(S) /\ Len(two) = 2 /\ two[1] = first /\ two[2] = second
    OBVIOUS
  <1> HIDE DEF q, two, S
  <1>3. q \in [1..2 -> S] /\ two \in [1..2 -> S]
    <2>1. ASSUME NEW s \in Seq(S) PROVE s \in [1..Len(s) -> S]
      OBVIOUS
    <2>2. QED
      BY <2>1, <1>1, <1>2
  <1>4. \A i \in 1..2 : q[i] = two[i]
    BY <1>1, <1>2
  <1>5. q = two
    BY <1>3, <1>4
  <1>6. QED
    BY <1>5 DEF q, two

\* Asking puts one at the end of the queue.
LEMMA Asking ==
  /\ \A q \in Queues \ WithRun : Append(q, "run") \in WithRun
                                 /\ (Append(q, "run") \in WithBeat <=> q \in WithBeat)
  /\ \A q \in Queues \ WithBeat : Append(q, "beat") \in WithBeat
                                  /\ (Append(q, "beat") \in WithRun <=> q \in WithRun)
  <1>1. /\ Append(<<>>, "run") = <<"run">> /\ Append(<<"beat">>, "run") = <<"beat", "run">>
        /\ Append(<<>>, "beat") = <<"beat">> /\ Append(<<"run">>, "beat") = <<"run", "beat">>
    BY TwoInQueue
  <1>2. Queues \ WithRun = {<<>>, <<"beat">>} /\ Queues \ WithBeat = {<<>>, <<"run">>}
    BY QueuesDiffer DEF Queues, WithRun, WithBeat
  <1>3. QED
    BY <1>1, <1>2, QueuesDiffer DEF WithRun, WithBeat

\* Whose turn it was leaves the queue.
LEMMA Leaving ==
  /\ \A q \in WithRun : Head(q) = "run" => /\ Tail(q) \in Queues \ WithRun
                                           /\ Tail(q) \in WithBeat <=> q \in WithBeat
  /\ \A q \in WithBeat : Head(q) = "beat" => /\ Tail(q) \in Queues \ WithBeat
                                             /\ Tail(q) \in WithRun <=> q \in WithRun
  BY DEF Queues, WithRun, WithBeat

\* The head of a queue is in it.
LEMMA Heads ==
  \A q \in Queues \ {<<>>} : /\ Head(q) = "run" => q \in WithRun
                             /\ Head(q) = "beat" => q \in WithBeat
  BY DEF Queues, WithRun, WithBeat

LEMMA QueueInit == Init => QueueInv
  BY QueuesDiffer DEF Init, QueueInv, Queues, FileOperations

\* What a step of the run does to the queue, if it was its turn.
LEMMA RunQueues ==
  ASSUME QueueInv, NEW p \in Procs, Turn(p, "run")
  PROVE /\ AsksNext(p, "run") => ioq' \in [Procs -> Queues] /\ ioq'[p] \in WithRun
        /\ AsksNoMore(p) => ioq' \in [Procs -> Queues] /\ ioq'[p] \notin WithRun
        /\ AsksNext(p, "run") \/ AsksNoMore(p) =>
             /\ \A q \in Procs \ {p} : ioq'[q] = ioq[q]
             /\ ioq'[p] \in WithBeat <=> ioq[p] \in WithBeat
  <1>1. ioq[p] \in WithRun /\ Head(ioq[p]) = "run"
    BY Heads DEF Turn, QueueInv
  <1>2. Tail(ioq[p]) \in Queues \ WithRun /\ (Tail(ioq[p]) \in WithBeat <=> ioq[p] \in WithBeat)
    BY <1>1, Leaving
  <1>3. Append(Tail(ioq[p]), "run") \in WithRun
        /\ (Append(Tail(ioq[p]), "run") \in WithBeat <=> ioq[p] \in WithBeat)
    BY <1>2, Asking
  <1>4. WithRun \subseteq Queues
    BY DEF Queues
  <1>5. QED
    BY <1>2, <1>3, <1>4 DEF QueueInv, AsksNext, AsksNoMore

LEMMA BeatQueues ==
  ASSUME QueueInv, NEW p \in Procs, Turn(p, "beat")
  PROVE /\ AsksNext(p, "beat") => ioq' \in [Procs -> Queues] /\ ioq'[p] \in WithBeat
        /\ AsksNoMore(p) => ioq' \in [Procs -> Queues] /\ ioq'[p] \notin WithBeat
        /\ AsksNext(p, "beat") \/ AsksNoMore(p) =>
             /\ \A q \in Procs \ {p} : ioq'[q] = ioq[q]
             /\ ioq'[p] \in WithRun <=> ioq[p] \in WithRun
  <1>1. ioq[p] \in WithBeat /\ Head(ioq[p]) = "beat"
    BY Heads DEF Turn, QueueInv
  <1>2. Tail(ioq[p]) \in Queues \ WithBeat /\ (Tail(ioq[p]) \in WithRun <=> ioq[p] \in WithRun)
    BY <1>1, Leaving
  <1>3. Append(Tail(ioq[p]), "beat") \in WithBeat
        /\ (Append(Tail(ioq[p]), "beat") \in WithRun <=> ioq[p] \in WithRun)
    BY <1>2, Asking
  <1>4. WithBeat \subseteq Queues
    BY DEF Queues
  <1>5. QED
    BY <1>2, <1>3, <1>4 DEF QueueInv, AsksNext, AsksNoMore

\* One who did not wait asks.
LEMMA NewRequest ==
  ASSUME QueueInv, NEW p \in Procs
  PROVE /\ pc[p] \notin FileOperations /\ Asks(p, "run") =>
             /\ ioq' \in [Procs -> Queues] /\ ioq'[p] \in WithRun
             /\ ioq'[p] \in WithBeat <=> ioq[p] \in WithBeat
             /\ \A q \in Procs \ {p} : ioq'[q] = ioq[q]
        /\ beat[p] = "none" /\ Asks(p, "beat") =>
             /\ ioq' \in [Procs -> Queues] /\ ioq'[p] \in WithBeat
             /\ ioq'[p] \in WithRun <=> ioq[p] \in WithRun
             /\ \A q \in Procs \ {p} : ioq'[q] = ioq[q]
  <1>1. WithRun \subseteq Queues /\ WithBeat \subseteq Queues
    BY DEF Queues
  <1>2. /\ pc[p] \notin FileOperations => ioq[p] \in Queues \ WithRun
        /\ beat[p] = "none" => ioq[p] \in Queues \ WithBeat
    BY DEF QueueInv
  <1>3. ASSUME NEW queue \in Queues, ioq' = [ioq EXCEPT ![p] = queue]
        PROVE  ioq' \in [Procs -> Queues] /\ ioq'[p] = queue
               /\ \A q \in Procs \ {p} : ioq'[q] = ioq[q]
    BY <1>3 DEF QueueInv
  <1>4. /\ ioq[p] \in Queues \ WithRun => Append(ioq[p], "run") \in WithRun
             /\ (Append(ioq[p], "run") \in WithBeat <=> ioq[p] \in WithBeat)
        /\ ioq[p] \in Queues \ WithBeat => Append(ioq[p], "beat") \in WithBeat
             /\ (Append(ioq[p], "beat") \in WithRun <=> ioq[p] \in WithRun)
    BY Asking
  <1>5. QED
    BY <1>1, <1>2, <1>3, <1>4 DEF Asks

LEMMA QueueStep == DataOK /\ QueueInv /\ [Next]_vars => QueueInv'
  <1> SUFFICES ASSUME DataOK, QueueInv, [Next]_vars PROVE QueueInv'
    OBVIOUS
  <1>p. pc \in [Procs -> Places]
    BY DEF DataOK
  \* The run goes on to a place where it waits for the file, or does not
  <1>1. ASSUME NEW p \in Procs, NEW place \in Places, Goto(p, place), Turn(p, "run"),
               pc[p] \in FileOperations, UNCHANGED beat,
               IF place \in FileOperations THEN AsksNext(p, "run") ELSE AsksNoMore(p)
        PROVE  QueueInv'
    BY <1>p, <1>1, RunQueues DEF QueueInv, Goto
  <1>2. ASSUME NEW p \in Procs, NEW place \in FileOperations, Goto(p, place), Asks(p, "run"),
               pc[p] \notin FileOperations, UNCHANGED beat
        PROVE  QueueInv'
    BY <1>p, <1>2, NewRequest DEF QueueInv, Goto
  <1> DEFINE Inside == {"acqRead", "acqWrite", "cycRead", "cycWrite", "resRead", "resWrite",
                        "finRead", "finWrite"}
  <1>3. \A place \in Inside : place \in FileOperations /\ place \in Places
    BY DEF FileOperations, Places
  <1>4. \A place \in {"idle", "cycle", "sleep"} : place \notin FileOperations /\ place \in Places
    BY DEF FileOperations, Places
  <1>5. ASSUME NEW p \in Procs, Start(p) PROVE QueueInv'
    BY <1>5, <1>2, <1>3, <1>4 DEF Start, beatVars
  <1>6. ASSUME NEW p \in Procs, AcquireRead(p) PROVE QueueInv'
    BY <1>6, <1>1, <1>3, <1>4 DEF AcquireRead, beatVars
  <1>7. ASSUME NEW p \in Procs, AcquireWrite(p) PROVE QueueInv'
    BY <1>7, <1>1, <1>3, <1>4 DEF AcquireWrite, LoopHead, beatVars
  <1>8. ASSUME NEW p \in Procs, CycleRead(p) PROVE QueueInv'
    BY <1>8, <1>1, <1>3, <1>4 DEF CycleRead, beatVars
  <1>9. ASSUME NEW p \in Procs, CycleWrite(p) PROVE QueueInv'
    BY <1>9, <1>1, <1>3, <1>4 DEF CycleWrite, beatVars
  <1>10. ASSUME NEW p \in Procs, CycleEnds(p) PROVE QueueInv'
    BY <1>10, <1>2, <1>3, <1>4 DEF CycleEnds, beatVars
  <1>11. ASSUME NEW p \in Procs, ResultRead(p) PROVE QueueInv'
    BY <1>11, <1>1, <1>3, <1>4 DEF ResultRead, beatVars
  <1>12. ASSUME NEW p \in Procs, ResultWrite(p) PROVE QueueInv'
    BY <1>12, <1>1, <1>3, <1>4 DEF ResultWrite, beatVars
  <1>13. ASSUME NEW p \in Procs, Wakes(p) PROVE QueueInv'
    BY <1>13, <1>2, <1>3, <1>4 DEF Wakes, LoopHead, beatVars
  <1>14. ASSUME NEW p \in Procs, FinalRead(p) PROVE QueueInv'
    BY <1>14, <1>1, <1>3, <1>4 DEF FinalRead, beatVars
  <1>15. ASSUME NEW p \in Procs, FinalWrite(p) PROVE QueueInv'
    BY <1>15, <1>1, <1>3, <1>4 DEF FinalWrite, beatVars
  <1>16. ASSUME NEW p \in Procs, HeartbeatTick(p) PROVE QueueInv'
    BY <1>16, NewRequest DEF HeartbeatTick, runVars, QueueInv
  <1>17. ASSUME NEW p \in Procs, HeartbeatRead(p) PROVE QueueInv'
    <2>1. pc' = pc /\ Turn(p, "beat") /\ beat[p] = "read"
      BY <1>17 DEF HeartbeatRead, runVars
    <2>2. \/ beat' = [beat EXCEPT ![p] = "write"] /\ AsksNext(p, "beat")
          \/ beat' = [beat EXCEPT ![p] = "none"] /\ AsksNoMore(p)
      BY <1>17 DEF HeartbeatRead
    <2>3. QED
      BY <2>1, <2>2, BeatQueues DEF QueueInv
  <1>18. ASSUME NEW p \in Procs, HeartbeatWrite(p) PROVE QueueInv'
    BY <1>18, BeatQueues DEF HeartbeatWrite, runVars, QueueInv
  <1>19. ASSUME NEW p \in Procs, Crash(p) PROVE QueueInv'
    BY <1>19, <1>p, QueuesDiffer DEF Crash, Goto, QueueInv, Queues, FileOperations
  <1>20. CASE (\E p \in Procs : Stop(p)) \/ TimePasses \/ UNCHANGED vars
    <2>1. UNCHANGED <<pc, beat, ioq>>
      BY <1>20 DEF Stop, TimePasses, vars, beatVars, history
    <2>2. QED
      BY <2>1 DEF QueueInv
  <1>21. QED
    BY <1>5, <1>6, <1>7, <1>8, <1>9, <1>10, <1>11, <1>12, <1>13, <1>14, <1>15, <1>16,
       <1>17, <1>18, <1>19, <1>20 DEF Next, RunStep, HeartbeatIO
\* The rest of TypeOK; the cycle that is executed is one of the configured ones.
RestInv ==
  /\ stop \in [Procs -> BOOLEAN] /\ clean \in [Procs -> BOOLEAN]
  /\ executed \subseteq 1..MaxCycles
  /\ beats \in [Procs -> 0..MaxBeats] /\ crashes \in 0..MaxCrashes
  /\ \A p \in Procs : pc[p] \in {"cycRead", "cycWrite", "cycle"} => cycle[p] # 0

LEMMA RestInit == Init => RestInv
  BY Bounds DEF Init, RestInv

LEMMA RestStep == DataOK /\ RestInv /\ [Next]_vars => RestInv'
  <1> SUFFICES ASSUME DataOK, RestInv, [Next]_vars PROVE RestInv'
    OBVIOUS
  <1> USE DEF DataOK, Goto, Places
  <1>1. ASSUME NEW p \in Procs, LoopHead(p) PROVE cycle'[p] # 0 \/ pc'[p] = "finRead"
    <2>1. mem[p].cycles \in Nat
      BY CycleLimit DEF FileState
    <2>2. QED
      BY <1>1, <2>1 DEF LoopHead
  <1>2. ASSUME NEW p \in Procs,
               Start(p) \/ AcquireRead(p) \/ CycleRead(p) \/ CycleWrite(p) \/ ResultRead(p)
               \/ ResultWrite(p) \/ FinalRead(p) \/ FinalWrite(p) \/ Stop(p)
        PROVE  RestInv'
    BY <1>2 DEF Start, AcquireRead, CycleRead, CycleWrite, ResultRead, ResultWrite, FinalRead,
                FinalWrite, Stop, RestInv, beatVars, history
  <1>3. ASSUME NEW p \in Procs, AcquireWrite(p) \/ Wakes(p) PROVE RestInv'
    <2>1. LoopHead(p)
      BY <1>3 DEF AcquireWrite, Wakes
    <2>2. cycle'[p] # 0 \/ pc'[p] = "finRead"
      BY <1>1, <2>1
    <2>3. \A q \in Procs \ {p} : pc'[q] = pc[q] /\ cycle'[q] = cycle[q]
      BY <2>1 DEF LoopHead
    <2>4. UNCHANGED <<stop, clean, executed, beats, crashes>>
      BY <1>3 DEF AcquireWrite, Wakes, beatVars, history
    <2>5. QED
      BY <2>2, <2>3, <2>4 DEF RestInv
  <1>4. ASSUME NEW p \in Procs, CycleEnds(p) PROVE RestInv'
    <2>1. cycle[p] \in 1..MaxCycles
      BY <1>4, CycleLimit DEF CycleEnds, RestInv
    <2>2. QED
      BY <1>4, <2>1 DEF CycleEnds, RestInv, beatVars
  <1>5. ASSUME NEW p \in Procs, HeartbeatTick(p) PROVE RestInv'
    <2>1. beats[p] + 1 \in 0..MaxBeats
      BY <1>5, Bounds DEF HeartbeatTick, RestInv
    <2>2. QED
      BY <1>5, <2>1 DEF HeartbeatTick, RestInv, runVars, history
  <1>6. ASSUME NEW p \in Procs, HeartbeatRead(p) \/ HeartbeatWrite(p) PROVE RestInv'
    BY <1>6 DEF HeartbeatRead, HeartbeatWrite, RestInv, runVars, history
  <1>7. ASSUME NEW p \in Procs, Crash(p) PROVE RestInv'
    BY <1>7, Bounds DEF Crash, RestInv
  <1>8. CASE TimePasses \/ UNCHANGED vars
    BY <1>8 DEF TimePasses, vars, RestInv, history
  <1>9. QED
    BY <1>2, <1>3, <1>4, <1>5, <1>6, <1>7, <1>8 DEF Next, RunStep, HeartbeatIO

\* The state file, the copies of it and the queue for it keep their types,
\* whatever heartbeats, crashes and competing processes do.
THEOREM WorkerTypes == Spec => []TypeOK
  <1>1. DataOK /\ QueueInv /\ RestInv => TypeOK
    BY DEF DataOK, QueueInv, RestInv, TypeOK, Queues, WithRun, WithBeat
  <1>2. QED
    BY <1>1, DataInit, QueueInit, RestInit, DataStep, QueueStep, RestStep, PTL DEF Spec

-----------------------------------------------------------------------------
(* The job of the file.                                                    *)

\* What is about to be written carries the job of the file, unless it takes the
\* place of a job that is over; and a heartbeat that has read the file writes
\* it before the next run reads it.
JobInv ==
  \A p \in Procs :
    /\ pc[p] \in {"cycWrite", "resWrite", "finWrite"} => mem[p].job = file.job
    /\ pc[p] = "acqWrite" => beat[p] # "write" /\ (mem[p].job = file.job \/ file.status # "RUNNING")
    /\ beat[p] = "write" => beatMem[p].job = file.job
    /\ beat[p] = "write" /\ pc[p] = "acqRead" => ioq[p] = <<"beat", "run">>
    /\ jobId[p] # NoJob => pc[p] \notin {"idle", "acqRead", "acqWrite"}

JobKept == file'.job # file.job => file.status # "RUNNING"

OneProcess == \A p, q \in Procs : p = q

LEMMA JobInit == Init => JobInv
  BY ZenonT(30) DEF Init, JobInv

LEMMA JobStep ==
  ASSUME OneProcess, DataOK, QueueInv, JobInv, [Next]_vars
  PROVE  JobInv' /\ JobKept
  <1> USE DEF DataOK, Goto, Places, Keep
  <1>1. ASSUME NEW p \in Procs, Start(p) PROVE JobInv' /\ JobKept
    <2>1. beat[p] = "write" => ioq'[p] = <<"beat", "run">>
      <3>1. pc[p] = "idle" /\ ioq' = [ioq EXCEPT ![p] = Append(@, "run")]
        BY <1>1 DEF Start, Asks
      <3>2. beat[p] = "write" => ioq[p] = <<"beat">>
        BY <3>1 DEF QueueInv, Queues, WithRun, WithBeat, FileOperations
      <3>3. QED
        BY <3>1, <3>2, TwoInQueue DEF QueueInv
    <2>2. QED
      BY <1>1, <2>1 DEF OneProcess, Start, beatVars, history, JobInv, JobKept
  <1>2. ASSUME NEW p \in Procs, AcquireRead(p) PROVE JobInv' /\ JobKept
    <2>1. Acquired(file).job = file.job \/ file.status # "RUNNING"
      BY DEF Acquired
    <2>2. beat[p] # "write"
      BY <1>2 DEF AcquireRead, JobInv, Turn
    <2>3. QED
      BY <1>2, <2>1, <2>2 DEF OneProcess, AcquireRead, beatVars, JobInv, JobKept
  <1>3. ASSUME NEW p \in Procs, AcquireWrite(p) PROVE JobInv' /\ JobKept
    BY <1>3 DEF OneProcess, AcquireWrite, LoopHead, beatVars, history, JobInv, JobKept
  <1>4. ASSUME NEW p \in Procs, CycleRead(p) PROVE JobInv' /\ JobKept
    BY <1>4 DEF OneProcess, CycleRead, beatVars, history, JobInv, JobKept, FileState
  <1>5. ASSUME NEW p \in Procs, CycleWrite(p) PROVE JobInv' /\ JobKept
    BY <1>5 DEF OneProcess, CycleWrite, beatVars, history, JobInv, JobKept
  <1>6. ASSUME NEW p \in Procs, CycleEnds(p) PROVE JobInv' /\ JobKept
    BY <1>6 DEF OneProcess, CycleEnds, beatVars, JobInv, JobKept
  <1>7. ASSUME NEW p \in Procs, ResultRead(p) PROVE JobInv' /\ JobKept
    BY <1>7 DEF OneProcess, ResultRead, beatVars, history, JobInv, JobKept, FileState
  <1>8. ASSUME NEW p \in Procs, ResultWrite(p) PROVE JobInv' /\ JobKept
    BY <1>8 DEF OneProcess, ResultWrite, beatVars, history, JobInv, JobKept
  <1>9. ASSUME NEW p \in Procs, Wakes(p) PROVE JobInv' /\ JobKept
    BY <1>9 DEF OneProcess, Wakes, LoopHead, beatVars, history, JobInv, JobKept
  <1>10. ASSUME NEW p \in Procs, FinalRead(p) PROVE JobInv' /\ JobKept
    BY <1>10 DEF OneProcess, FinalRead, beatVars, history, JobInv, JobKept, FileState
  <1>11. ASSUME NEW p \in Procs, FinalWrite(p) PROVE JobInv' /\ JobKept
    BY <1>11 DEF OneProcess, FinalWrite, beatVars, history, JobInv, JobKept, NoJob
  <1>12. ASSUME NEW p \in Procs, HeartbeatTick(p) PROVE JobInv' /\ JobKept
    BY <1>12 DEF OneProcess, HeartbeatTick, runVars, history, JobInv, JobKept
  <1>13. ASSUME NEW p \in Procs, HeartbeatRead(p) PROVE JobInv' /\ JobKept
    <2>1. [file EXCEPT !.worker = "RUNNING", !.fresh = TRUE].job = file.job
      BY DEF FileState
    <2>2. UNCHANGED <<file, pc, mem, jobId>>
      BY <1>13 DEF HeartbeatRead, runVars
    <2>3. CASE beat' = [beat EXCEPT ![p] = "none"]
      BY <1>13, <2>2, <2>3 DEF OneProcess, QueueInv, JobInv, JobKept
    <2>4. CASE beat' # [beat EXCEPT ![p] = "none"]
      <3>1. /\ jobId[p] # NoJob
            /\ beatMem' = [beatMem EXCEPT ![p] = [file EXCEPT !.worker = "RUNNING", !.fresh = TRUE]]
        BY <1>13, <2>4 DEF HeartbeatRead
      <3>2. beatMem'[p].job = file.job
        BY <2>1, <3>1
      <3>3. pc[p] \notin {"idle", "acqRead", "acqWrite"}
        BY <3>1 DEF JobInv
      <3>4. QED
        BY <2>2, <3>2, <3>3 DEF OneProcess, JobInv, JobKept
    <2>5. QED
      BY <2>3, <2>4
  <1>14. ASSUME NEW p \in Procs, HeartbeatWrite(p) PROVE JobInv' /\ JobKept
    BY <1>14 DEF OneProcess, HeartbeatWrite, runVars, history, QueueInv, JobInv, JobKept
  <1>15. ASSUME NEW p \in Procs, Stop(p) PROVE JobInv' /\ JobKept
    BY <1>15 DEF OneProcess, Stop, beatVars, history, JobInv, JobKept
  <1>16. ASSUME NEW p \in Procs, Crash(p) PROVE JobInv' /\ JobKept
    BY <1>16 DEF OneProcess, Crash, QueueInv, JobInv, JobKept
  <1>17. ASSUME TimePasses PROVE JobInv' /\ JobKept
    <2>1. ASSUME NEW s \in FileState PROVE Aged(s).job = s.job /\ Aged(s).status = s.status
      BY DEF Aged, FileState
    <2>2. QED
      BY <1>17, <2>1 DEF TimePasses, JobInv, JobKept
  <1>18. CASE UNCHANGED vars
    BY <1>18 DEF vars, JobInv, JobKept
  <1>19. QED
    BY <1>1, <1>2, <1>3, <1>4, <1>5, <1>6, <1>7, <1>8, <1>9, <1>10, <1>11, <1>12,
       <1>13, <1>14, <1>15, <1>16, <1>17, <1>18 DEF Next, RunStep, HeartbeatIO

\* With one process on its file, whatever is interrupted is resumed: a job id
\* gives way to a new one only when its job is COMPLETED or STOPPED.  Two
\* processes that start together may drop a running job (second_start).
THEOREM JobsAreKept == OneProcess /\ Spec => JobReplacedOnlyWhenFinished
  <1> SUFFICES ASSUME OneProcess PROVE Spec => JobReplacedOnlyWhenFinished
    OBVIOUS
  <1>1. DataOK /\ QueueInv /\ JobInv /\ [Next]_vars => JobInv' /\ JobKept
    BY JobStep
  <1>2. JobKept => [file'.job # file.job => file.status # "RUNNING"]_file
    BY DEF JobKept
  <1>3. QED
    BY <1>1, <1>2, DataInit, QueueInit, JobInit, DataStep, QueueStep, PTL
    DEF Spec, JobReplacedOnlyWhenFinished

=============================================================================
