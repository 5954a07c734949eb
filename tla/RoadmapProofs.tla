---------------------------- MODULE RoadmapProofs ----------------------------
(***************************************************************************)
(* Theorems about Roadmap for any number of planned and generated tasks,   *)
(* of runs side by side, of attempts, and of failed writes, stops and      *)
(* restarts, whatever the model ranks first.                               *)
(***************************************************************************)
EXTENDS Roadmap, TLAPS

Table == [Ids -> [status : {"none", "BACKLOG", "IN_PROGRESS", "FAILED", "BLOCKED", "DONE"},
                  attempts : 0 .. MaxAttempts, dependencies : SUBSET Ids]]

\* A task that may be claimed has an attempt left
Counted(table) ==
    \A t \in Ids : table[t].status \in Claimable => table[t].attempts < MaxAttempts

\* A run that works on a task knows which one
InHand == {"claimed", "executing", "completed", "rejected"}
HandInv == \A r \in Runs : run[r].at \in InHand => run[r].id \in Ids

RunState == [at : {"idle", "next", "generating", "work", "executing"} \cup Saving,
             work : SeqOf(Ids, Limit), id : {0} \cup Ids]

TypeInv ==
    /\ task \in Table /\ Counted(task)
    /\ saved \in Table /\ Counted(saved)
    /\ Own \subseteq scheduled /\ scheduled \subseteq Ids
    /\ run \in [Runs -> RunState] /\ HandInv
    /\ {stopRequested, unsaved, redone} \subseteq BOOLEAN
    /\ faults \in 0 .. MaxFaults

\* In a table, what is under way or done has its dependencies done
Ordered(table) ==
    \A t \in Ids : table[t].status \in {"IN_PROGRESS", "DONE"} =>
        \A d \in table[t].dependencies : table[d].status = "DONE"

\* A task in a run's hands is in progress, and in no other run's hands
Working(r) == run[r].at \in {"claimed", "executing"}
Held ==
    /\ \A r \in Runs : Working(r) => task[run[r].id].status = "IN_PROGRESS"
    /\ \A r, s \in Runs : Working(r) /\ Working(s) /\ r # s => run[r].id # run[s].id

OrderInv == unsaved \/ redone \/ (Ordered(task) /\ Ordered(saved) /\ Held)

-----------------------------------------------------------------------------
(* Types *)

LEMMA IdsAreNumbers == Ids \subseteq Nat \ {0} /\ Own \subseteq Ids
  BY RoadmapAssumption DEF Ids, Own

\* The lists that a cycle works through
LEMMA ListType ==
  ASSUME NEW S \in SUBSET Ids, NEW list \in SeqOf(S, Limit)
  PROVE list \in SeqOf(Ids, Limit) /\ list \in Seq(S) /\ Range(list) \subseteq S
  <1>1. PICK m \in 0 .. Limit : list \in [1 .. m -> S]
    BY RoadmapAssumption DEF SeqOf
  <1>2. list \in [1 .. m -> Ids]
    BY <1>1
  <1>3. list \in SeqOf(Ids, Limit)
    BY <1>2 DEF SeqOf
  <1>4. QED
    BY <1>1, <1>3 DEF Range

LEMMA TailType ==
  ASSUME NEW list \in SeqOf(Ids, Limit), list # <<>>
  PROVE Head(list) \in Ids /\ Tail(list) \in SeqOf(Ids, Limit)
  <1>1. PICK m \in 0 .. Limit : list \in [1 .. m -> Ids]
    BY RoadmapAssumption DEF SeqOf
  <1>2. list \in Seq(Ids) /\ Len(list) = m /\ m # 0
    BY <1>1
  <1> DEFINE rest == Tail(list)
  <1>a. rest \in Seq(Ids) /\ Len(rest) = m - 1 /\ m - 1 \in 0 .. Limit
    BY <1>2, RoadmapAssumption
  <1>3. rest \in [1 .. m - 1 -> Ids]
    <2> HIDE DEF rest
    <2>1. rest \in [1 .. Len(rest) -> Ids]
      BY <1>a
    <2>2. QED
      BY <2>1, <1>a
  <1>4. QED
    BY <1>2, <1>a, <1>3 DEF SeqOf

LEMMA EmptyType == <<>> \in SeqOf(Ids, Limit)
  <1>1. <<>> \in [1 .. 0 -> Ids] /\ 0 \in 0 .. Limit
    BY RoadmapAssumption
  <1>2. QED
    BY <1>1 DEF SeqOf

LEMMA TypesInit == Init => TypeInv
  <1> SUFFICES ASSUME Init PROVE TypeInv
    OBVIOUS
  <1>1. task \in Table /\ saved = task
    BY IdsAreNumbers, RoadmapAssumption DEF Init, Table, Task, Own, Ids
  <1>2. Counted(task) /\ Counted(saved)
    BY <1>1, RoadmapAssumption DEF Init, Counted, Task, Claimable
  <1>3. Idle \in RunState
    BY EmptyType DEF Idle, RunState
  <1>4. run \in [Runs -> RunState] /\ HandInv
    BY <1>3 DEF Init, HandInv, InHand, Idle
  <1>5. Own \subseteq scheduled /\ scheduled \subseteq Ids /\ faults \in 0 .. MaxFaults
    BY IdsAreNumbers, RoadmapAssumption DEF Init
  <1>6. {stopRequested, unsaved, redone} \subseteq BOOLEAN
    BY DEF Init
  <1>7. QED
    BY <1>1, <1>2, <1>4, <1>5, <1>6 DEF TypeInv

\* What fail() leaves behind
LEMMA FailType ==
  ASSUME TypeInv, NEW t \in Ids
  PROVE Fail(t) \in Table /\ Counted(Fail(t))
  <1>1. task \in Table /\ Counted(task) /\ task[t].attempts \in 0 .. MaxAttempts
    BY DEF TypeInv, Table
  <1>2. QED
    BY <1>1, RoadmapAssumption DEF Fail, Table, Counted, Claimable

LEMMA TypesHold == TypeInv => TypeOK
  BY DEF TypeInv, TypeOK, Table, RunState

\* A run that moves to a state of a run
LEMMA MoveType ==
  ASSUME TypeInv, NEW r \in Runs, NEW state \in RunState, state.at \in InHand => state.id \in Ids,
         run' = [run EXCEPT ![r] = state]
  PROVE run' \in [Runs -> RunState] /\ HandInv'
  BY DEF TypeInv, HandInv

LEMMA FaultType == faults \in 0 .. MaxFaults /\ Fault => faults' \in 0 .. MaxFaults
  BY RoadmapAssumption DEF Fault

LEMMA TypesStep == TypeInv /\ [Next]_vars => TypeInv'
  <1> SUFFICES ASSUME TypeInv, [Next]_vars PROVE TypeInv'
    OBVIOUS
  <1> USE DEF TypeInv
  <1>1. CASE Stop
    <2>1. faults' \in 0 .. MaxFaults
      BY <1>1, FaultType DEF Stop
    <2>2. QED
      BY <1>1, <2>1 DEF Stop, Counted, HandInv
  <1>2. CASE Restart
    <2>1. faults' \in 0 .. MaxFaults
      BY <1>2, FaultType DEF Restart
    <2>2. Idle \in RunState /\ Idle.at \notin InHand
      BY EmptyType DEF Idle, RunState, InHand
    <2>3. run' \in [Runs -> RunState] /\ HandInv'
      BY <1>2, <2>2 DEF Restart, HandInv
    <2>4. QED
      BY <1>2, <2>1, <2>3, IdsAreNumbers DEF Restart, Counted
  <1>3. CASE \E r \in Runs : Start(r) \/ SaveFails(r) \/ Step(r)
    <2> PICK r \in Runs : Start(r) \/ SaveFails(r) \/ Step(r)
      BY <1>3
    <2>1. Idle \in RunState /\ Idle.at \notin InHand
      BY EmptyType DEF Idle, RunState, InHand
    <2>2. run[r] \in RunState /\ (run[r].at \in InHand => run[r].id \in Ids)
      BY DEF HandInv
    <2>3. End(r) => run' \in [Runs -> RunState] /\ HandInv'
      BY <2>1 DEF End, HandInv
    <2>4. ASSUME NEW place \in {"next", "generating", "caught"}, Goto(r, place)
          PROVE  run' \in [Runs -> RunState] /\ HandInv'
      BY <2>2, <2>4 DEF Goto, HandInv, RunState, InHand, Saving
    <2>5. ASSUME NEW place \in InHand, Goto(r, place), run[r].at \in InHand
          PROVE  run' \in [Runs -> RunState] /\ HandInv'
      BY <2>2, <2>5 DEF Goto, HandInv, RunState, InHand, Saving
    <2>6. CASE Start(r)
      BY <2>6, <2>4 DEF Start, Counted
    <2>7. CASE SaveFails(r)
      <3>1. faults' \in 0 .. MaxFaults
        BY <2>7, FaultType DEF SaveFails
      <3>2. task' \in Table /\ Counted(task')
        BY <2>7, <2>2, FailType DEF SaveFails, Is, InHand
      <3>3. run' \in [Runs -> RunState] /\ HandInv'
        <4>1. CASE Is(r, "claimed")
          <5>1. [run[r] EXCEPT !.at = "work", !.id = 0] \in RunState
            BY <2>2 DEF RunState
          <5>2. QED
            BY <5>1, <4>1, <2>7, <2>2, MoveType DEF SaveFails, Is, RunState, InHand
        <4>2. CASE ~Is(r, "claimed")
          BY <4>2, <2>7, <2>3, <2>4 DEF SaveFails, Is
        <4>3. QED
          BY <4>1, <4>2
      <3>4. QED
        BY <2>7, <3>1, <3>2, <3>3 DEF SaveFails, Counted
    <2>8. CASE NextWork(r)
      <3>1. ASSUME NEW list \in Next_(Limit),
                   run' = [run EXCEPT ![r] = [@ EXCEPT !.at = "work", !.work = list]]
            PROVE  run' \in [Runs -> RunState] /\ HandInv'
        <4>1. Offered \in SUBSET Ids
          BY DEF Offered
        <4>2. list \in SeqOf(Ids, Limit)
          BY <4>1, <3>1, ListType DEF Next_
        <4>3. QED
          BY <4>2, <3>1, <2>2 DEF RunState, HandInv, InHand
      <3>2. run' \in [Runs -> RunState] /\ HandInv'
        BY <2>8, <2>3, <2>4, <3>1 DEF NextWork
      <3>3. QED
        BY <2>8, <3>2 DEF NextWork, Counted
    <2>9. CASE Generate(r)
      <3>1. CASE End(r) /\ UNCHANGED <<task, scheduled>>
        BY <2>9, <3>1, <2>3 DEF Generate, Counted
      <3>2. CASE ~(End(r) /\ UNCHANGED <<task, scheduled>>)
        <4>1. PICK list \in SeqOf(Ids \ Existing, Limit) \ {<<>>} :
                \E named \in [Range(list) -> SUBSET Ids] :
                  /\ task' = [t \in Ids |->
                       IF t \in Range(list)
                       THEN Task("BACKLOG", named[t] \cap (Existing \cup {s \in Range(list) : s < t}))
                       ELSE task[t]]
                  /\ scheduled' = scheduled \cup Range(list)
                  /\ run' = [run EXCEPT ![r] = [@ EXCEPT !.at = "added", !.work = list]]
          BY <2>9, <3>2, ZenonT(30) DEF Generate
        <4>2. PICK named \in [Range(list) -> SUBSET Ids] :
                  /\ task' = [t \in Ids |->
                       IF t \in Range(list)
                       THEN Task("BACKLOG", named[t] \cap (Existing \cup {s \in Range(list) : s < t}))
                       ELSE task[t]]
                  /\ scheduled' = scheduled \cup Range(list)
                  /\ run' = [run EXCEPT ![r] = [@ EXCEPT !.at = "added", !.work = list]]
          BY <4>1
        <4>3. list \in SeqOf(Ids, Limit) /\ list \in Seq(Ids) /\ Range(list) \subseteq Ids
          <5>1. Ids \ Existing \in SUBSET Ids
            OBVIOUS
          <5>2. QED
            BY <5>1, ListType
        <4>4. ASSUME NEW t \in Range(list)
              PROVE  named[t] \cap (Existing \cup {s \in Range(list) : s < t}) \in SUBSET Ids
          BY <4>2, <4>4
        <4>5. task' \in Table
          BY <4>2, <4>4, RoadmapAssumption DEF Table, Task
        <4>6. Counted(task')
          BY <4>2, RoadmapAssumption DEF Counted, Task
        <4>7. run' \in [Runs -> RunState] /\ HandInv'
          BY <4>2, <4>3, <2>2 DEF RunState, HandInv, InHand, Saving
        <4>8. QED
          BY <2>9, <4>2, <4>3, <4>5, <4>6, <4>7 DEF Generate, Counted
      <3>3. QED
        BY <3>1, <3>2
    <2>10. CASE Claim(r)
      <3> DEFINE t == Head(run[r].work)
      <3>1. t \in Ids /\ Tail(run[r].work) \in SeqOf(Ids, Limit)
        BY <2>10, <2>2, TailType DEF Claim, RunState
      <3> DEFINE Given(place) == [run[r] EXCEPT !.at = place, !.id = t, !.work = Tail(run[r].work)]
                 Passed == [run[r] EXCEPT !.work = Tail(run[r].work)]
      <3>a. Given("executing") \in RunState /\ Given("executing").id \in Ids
        BY <2>2, <3>1 DEF RunState
      <3>b. Given("claimed") \in RunState /\ Given("claimed").id \in Ids
        BY <2>2, <3>1 DEF RunState, Saving
      <3>c. Passed \in RunState /\ Passed.at = run[r].at /\ Passed.id = run[r].id
        BY <2>2, <3>1 DEF RunState
      <3>2. run' \in [Runs -> RunState] /\ HandInv'
        <4>1. \/ run' = [run EXCEPT ![r] = Given("executing")]
              \/ run' = [run EXCEPT ![r] = Given("claimed")]
              \/ run' = [run EXCEPT ![r] = Passed]
          <5>1. run' = [run EXCEPT ![r].work = Tail(run[r].work)] => run' = [run EXCEPT ![r] = Passed]
            BY <2>2
          <5>2. QED
            BY <5>1, <2>10 DEF Claim
        <4> HIDE DEF Given, Passed
        <4>2. QED
          BY <4>1, <3>a, <3>b, <3>c, <2>2, MoveType
      <3>3. task' \in Table /\ Counted(task')
        <4>1. CASE task[t].status \in Claimable /\ Ready(t) /\
                   task' = [task EXCEPT ![t].status = "IN_PROGRESS", ![t].attempts = @ + 1]
          <5>1. task[t].attempts + 1 \in 0 .. MaxAttempts
            BY <3>1, <4>1, RoadmapAssumption DEF Counted, Table
          <5>2. QED
            BY <3>1, <4>1, <5>1, SMTT(30) DEF Table, Counted, Claimable
        <4>2. CASE UNCHANGED task
          BY <4>2
        <4>3. QED
          BY <2>10, <4>1, <4>2 DEF Claim
      <3>4. QED
        BY <2>10, <3>2, <3>3 DEF Claim, Counted
    <2>11. CASE EndCycle(r)
      <3>1. run' \in [Runs -> RunState] /\ HandInv'
        BY <2>11, <2>1, <2>3 DEF EndCycle, HandInv, InHand, Idle, RunState
      <3>2. QED
        BY <2>11, <3>1 DEF EndCycle, Counted
    <2>12. CASE Execute(r)
      <3>1. run[r].id \in Ids
        BY <2>12, <2>2 DEF Execute, Is, InHand
      <3>2. task' \in Table /\ Counted(task')
        <4>1. CASE task' = [task EXCEPT ![run[r].id].status = "DONE"]
          BY <4>1, <3>1 DEF Table, Counted, Claimable
        <4>2. CASE task' = Fail(run[r].id)
          BY <4>2, <3>1, FailType
        <4>3. QED
          BY <2>12, <4>1, <4>2 DEF Execute
      <3>3. run' \in [Runs -> RunState] /\ HandInv'
        BY <2>12, <2>4, <2>5 DEF Execute, Is, InHand
      <3>4. QED
        BY <2>12, <3>2, <3>3 DEF Execute, Counted
    <2>13. CASE Save(r)
      <3>1. run' \in [Runs -> RunState] /\ HandInv'
        <4>1. CASE Is(r, "claimed")
          BY <4>1, <2>13, <2>5 DEF Save, Is, InHand
        <4>2. CASE ~Is(r, "claimed")
          <5>1. [run[r] EXCEPT !.at = "work", !.id = 0] \in RunState
            BY <2>2 DEF RunState
          <5>2. run' = [run EXCEPT ![r] = [run[r] EXCEPT !.at = "work", !.id = 0]]
            BY <4>2, <2>13 DEF Save, Is
          <5>3. QED
            BY <5>1, <5>2, <2>2, MoveType DEF RunState, InHand
        <4>3. QED
          BY <4>1, <4>2
      <3>2. QED
        BY <2>13, <3>1 DEF Save, Counted
    <2>14. QED
      BY <2>6, <2>7, <2>8, <2>9, <2>10, <2>11, <2>12, <2>13 DEF Step
  <1>4. CASE UNCHANGED vars
    BY <1>4 DEF vars, Counted, HandInv
  <1>5. QED
    BY <1>1, <1>2, <1>3, <1>4 DEF Next

-----------------------------------------------------------------------------
(* The order of the tasks *)

LEMMA OrderInit == Init => OrderInv
  <1> SUFFICES ASSUME Init PROVE OrderInv
    OBVIOUS
  <1>1. \A t \in Ids : task[t].status \in {"BACKLOG", "none"}
    BY DEF Init, Task
  <1>2. QED
    BY <1>1 DEF Init, OrderInv, Ordered, Held, Working, Idle

\* What becomes of a table when a task changes its status: it may be under way
\* or done if its dependencies are done, and cease to be done if nothing that
\* depends on it is under way
LEMMA ChangeKeepsOrder ==
  ASSUME NEW table \in Table, NEW after \in Table, NEW t \in Ids, Ordered(table),
         \A s \in Ids : after[s].dependencies = table[s].dependencies,
         \A s \in Ids \ {t} : after[s].status = table[s].status,
         after[t].status \in {"IN_PROGRESS", "DONE"} =>
            \A d \in table[t].dependencies : table[d].status = "DONE",
         table[t].status # "DONE"
  PROVE Ordered(after)
  <1> SUFFICES ASSUME NEW s \in Ids, after[s].status \in {"IN_PROGRESS", "DONE"},
                      NEW d \in table[s].dependencies
               PROVE  after[d].status = "DONE"
    BY DEF Ordered
  <1>1. d \in Ids
    BY DEF Table
  <1>2. table[d].status = "DONE"
    BY DEF Ordered
  <1>3. QED
    BY <1>1, <1>2

LEMMA OrderStep == TypeInv /\ TypeInv' /\ OrderInv /\ [Next]_vars => OrderInv'
  <1> SUFFICES ASSUME TypeInv, TypeInv', OrderInv, [Next]_vars PROVE OrderInv'
    OBVIOUS
  <1>1. CASE unsaved \/ redone
    <2>1. unsaved => unsaved'
      BY DEF Next, vars, Stop, Restart, Start, SaveFails, Step, NextWork, Generate, Claim,
             EndCycle, Execute, Save
    <2>2. redone => redone'
      BY DEF Next, vars, Stop, Restart, Start, SaveFails, Step, NextWork, Generate, Claim,
             EndCycle, Execute, Save
    <2>3. QED
      BY <1>1, <2>1, <2>2 DEF OrderInv
  <1>2. CASE ~unsaved /\ ~redone /\ ~unsaved' /\ ~redone'
    <2>a. task \in Table /\ saved \in Table /\ task' \in Table /\ run \in [Runs -> RunState] /\ HandInv
      BY DEF TypeInv
    <2>b. Ordered(task) /\ Ordered(saved) /\ Held
      BY <1>2 DEF OrderInv
    <2> SUFFICES Ordered(task') /\ Ordered(saved') /\ Held'
      BY DEF OrderInv
    <2>1. CASE Stop
      BY <2>b, <2>1 DEF Stop, Ordered, Held, Working
    <2>2. CASE Restart
      BY <2>b, <2>2 DEF Restart, Ordered, Held, Working, Idle
    <2>3. CASE \E r \in Runs : Start(r) \/ SaveFails(r) \/ Step(r)
      <3> PICK r \in Runs : Start(r) \/ SaveFails(r) \/ Step(r)
        BY <2>3
      <3>a. run[r] \in RunState
        BY <2>a
      \* a run that takes up no task
      <3>1. ASSUME UNCHANGED task, \A s \in Runs \ {r} : run'[s] = run[s],
                   Working(r)' => Working(r) /\ run'[r].id = run[r].id
            PROVE  Ordered(task') /\ Held'
        BY <2>b, <3>1 DEF Ordered, Held, Working
      <3>2. CASE Start(r)
        BY <2>b, <3>2 DEF Start, Ordered, Held, Working, Goto, RunState
      <3>3. CASE SaveFails(r)
        BY <3>3, <1>2 DEF SaveFails
      <3>4. CASE NextWork(r)
        <4>1. \A s \in Runs \ {r} : run'[s] = run[s]
          BY <2>a, <3>4 DEF NextWork, End, Goto
        <4>2. CASE \E list : run' = [run EXCEPT ![r] = [@ EXCEPT !.at = "work", !.work = list]]
          <5>1. PICK list : run' = [run EXCEPT ![r] = [@ EXCEPT !.at = "work", !.work = list]]
            BY <4>2
          <5>2. run'[r].at = "work"
            BY <2>a, <3>a, <5>1 DEF RunState
          <5>3. QED
            BY <2>b, <3>1, <3>4, <4>1, <5>2 DEF NextWork, Working
        <4>3. CASE End(r) \/ Goto(r, "generating")
          <5>1. run'[r].at \in {"idle", "generating"}
            BY <2>a, <3>a, <4>3 DEF End, Goto, Idle, RunState
          <5>2. QED
            BY <2>b, <3>1, <3>4, <4>1, <5>1 DEF NextWork, Working
        <4>4. QED
          BY <3>4, <4>2, <4>3 DEF NextWork
      <3>5. CASE EndCycle(r)
        BY <2>a, <2>b, <3>5 DEF EndCycle, End, Ordered, Held, Working, Idle
      <3>6. CASE Save(r)
        <4>1. \A s \in Runs \ {r} : run'[s] = run[s]
          BY <2>a, <3>6 DEF Save, Goto
        <4>2. Working(r)' => Working(r) /\ run'[r].id = run[r].id
          <5>1. CASE Is(r, "claimed")
            BY <2>a, <3>a, <3>6, <5>1 DEF Save, Is, Goto, Working, RunState
          <5>2. CASE ~Is(r, "claimed")
            <6>1. run' = [run EXCEPT ![r] = [run[r] EXCEPT !.at = "work", !.id = 0]]
              BY <3>6, <5>2 DEF Save
            <6>2. QED
              BY <2>a, <3>a, <6>1 DEF Working, RunState
          <5>3. QED
            BY <5>1, <5>2
        <4>3. UNCHANGED task /\ saved' = task
          BY <3>6 DEF Save
        <4>4. QED
          BY <3>1, <4>1, <4>2, <4>3
      <3>7. CASE Generate(r)
        <4>1. \A s \in Ids : task[s].status # "none" => task'[s] = task[s]
          <5>1. CASE UNCHANGED task
            BY <5>1
          <5>2. CASE ~UNCHANGED task
            <6>1. PICK list \in SeqOf(Ids \ Existing, Limit) \ {<<>>} :
                    \E named \in [Range(list) -> SUBSET Ids] :
                      task' = [t \in Ids |->
                         IF t \in Range(list)
                         THEN Task("BACKLOG", named[t] \cap (Existing \cup {s \in Range(list) : s < t}))
                         ELSE task[t]]
              BY <3>7, <5>2 DEF Generate
            <6>2. Range(list) \subseteq Ids \ Existing
              <7>1. Ids \ Existing \in SUBSET Ids
                OBVIOUS
              <7>2. QED
                BY <7>1, ListType
            <6>3. QED
              BY <6>1, <6>2 DEF Existing
          <5>3. QED
            BY <5>1, <5>2
        <4>2. \A s \in Ids : task[s].status = "none" => task'[s].status \in {"none", "BACKLOG"}
          <5>1. CASE UNCHANGED task
            BY <5>1
          <5>2. CASE ~UNCHANGED task
            <6>1. PICK list \in SeqOf(Ids \ Existing, Limit) \ {<<>>} :
                    \E named \in [Range(list) -> SUBSET Ids] :
                      task' = [t \in Ids |->
                         IF t \in Range(list)
                         THEN Task("BACKLOG", named[t] \cap (Existing \cup {s \in Range(list) : s < t}))
                         ELSE task[t]]
              BY <3>7, <5>2 DEF Generate
            <6>2. QED
              BY <6>1 DEF Task
          <5>3. QED
            BY <5>1, <5>2
        <4>3. Ordered(task')
          BY <2>a, <2>b, <4>1, <4>2 DEF Ordered, Table
        <4>4. Held'
          <5>a. ASSUME \E list : run' = [run EXCEPT ![r] = [@ EXCEPT !.at = "added", !.work = list]]
                PROVE  ~Working(r)'
            <6>1. PICK list : run' = [run EXCEPT ![r] = [@ EXCEPT !.at = "added", !.work = list]]
              BY <5>a
            <6>2. QED
              BY <2>a, <3>a, <6>1 DEF Working, RunState
          <5>b. ASSUME End(r) PROVE ~Working(r)'
            BY <2>a, <5>b DEF End, Working, Idle
          <5>1. ~Working(r)' /\ \A s \in Runs \ {r} : run'[s] = run[s]
            <6>1. (\E list : run' = [run EXCEPT ![r] = [@ EXCEPT !.at = "added", !.work = list]]) \/ End(r)
              BY <3>7 DEF Generate
            <6>2. \A s \in Runs \ {r} : run'[s] = run[s]
              BY <2>a, <3>7 DEF Generate, End
            <6>3. QED
              BY <5>a, <5>b, <6>1, <6>2
          <5>2. QED
            BY <2>a, <2>b, <5>1, <4>1 DEF Held, Working, HandInv, InHand
        <4>5. QED
          BY <2>b, <3>7, <4>3, <4>4 DEF Generate, Ordered
      <3>8. CASE Claim(r)
        <4> DEFINE t == Head(run[r].work)
        <4>1. t \in Ids
          BY <3>a, <3>8, TailType DEF Claim, RunState
        <4>2. CASE UNCHANGED task
          <5>1. \A s \in Runs : Working(s)' => Working(s) /\ run'[s].id = run[s].id
            <6>1. task'[t].status = task[t].status
              BY <4>2
            <6>2. ~(task' = [task EXCEPT ![t].status = "IN_PROGRESS", ![t].attempts = @ + 1]
                    /\ task[t].status \in Claimable)
              BY <2>a, <3>a, <6>1, <4>1 DEF Table, Claimable
            <6>3. run' = [run EXCEPT ![r].work = Tail(run[r].work)]
              BY <3>8, <6>2, <1>2 DEF Claim
            <6>4. QED
              BY <6>3, <3>8 DEF Working, RunState
          <5>2. QED
            BY <2>b, <5>1, <4>2, <3>8, SMTT(30) DEF Held, Working, Ordered, Claim
        <4>3. CASE ~UNCHANGED task
          <5>1. /\ task[t].status \in Claimable /\ Ready(t)
                /\ task' = [task EXCEPT ![t].status = "IN_PROGRESS", ![t].attempts = @ + 1]
                /\ run' = [run EXCEPT ![r] = [@ EXCEPT !.at = "claimed", !.id = t, !.work = Tail(run[r].work)]]
            BY <3>8, <4>3 DEF Claim
          <5>a. task' = [task EXCEPT ![t] = [task[t] EXCEPT !.status = "IN_PROGRESS",
                                                            !.attempts = task[t].attempts + 1]]
            BY <5>1
          <5>b. task[t] \in [status : {"none", "BACKLOG", "IN_PROGRESS", "FAILED", "BLOCKED", "DONE"},
                             attempts : 0 .. MaxAttempts, dependencies : SUBSET Ids]
            BY <2>a, <4>1 DEF Table
          <5>c. /\ task'[t].status = "IN_PROGRESS" /\ task'[t].dependencies = task[t].dependencies
                /\ \A s \in Ids \ {t} : task'[s] = task[s]
            <6> HIDE DEF t
            <6>1. QED
              BY <2>a, <4>1, <5>a, <5>b DEF Table
          <5>2. Ordered(task')
            <6>1. /\ \A s \in Ids : task'[s].dependencies = task[s].dependencies
                  /\ \A s \in Ids \ {t} : task'[s].status = task[s].status
              BY <5>c
            <6>2. task[t].status # "DONE" /\ \A d \in task[t].dependencies : task[d].status = "DONE"
              BY <5>1 DEF Ready, Claimable
            <6>3. QED
              BY <2>a, <2>b, <6>1, <6>2, <4>1, ChangeKeepsOrder
          <5>3. Held'
            <6>1. \A s \in Runs \ {r} : run'[s] = run[s]
              BY <5>1
            <6>2. run'[r].id = t
              BY <2>a, <3>a, <5>1
            <6>3. \A s \in Runs \ {r} : Working(s) => run[s].id # t
              BY <2>b, <5>1, <1>2 DEF Held, Claimable
            <6>4. task'[t].status = "IN_PROGRESS" /\ \A s \in Ids \ {t} : task'[s] = task[s]
              BY <5>c
            <6>5. QED
              BY <2>a, <2>b, <6>1, <6>2, <6>3, <6>4 DEF Held, Working, HandInv, InHand
          <5>4. QED
            BY <2>b, <3>8, <5>2, <5>3 DEF Claim, Ordered
        <4>4. QED
          BY <4>2, <4>3
      <3>9. CASE Execute(r)
        <4> DEFINE t == run[r].id
        <4>1. t \in Ids /\ task[t].status = "IN_PROGRESS"
          BY <2>a, <2>b, <3>9 DEF Execute, Is, HandInv, InHand, Held, Working
        <4>2. /\ \A s \in Ids : task'[s].dependencies = task[s].dependencies
              /\ \A s \in Ids \ {t} : task'[s].status = task[s].status
          BY <2>a, <3>a, <3>9, <4>1 DEF Execute, Fail, Table
        <4>3. Ordered(task')
          <5>1. \A d \in task[t].dependencies : task[d].status = "DONE"
            BY <2>b, <4>1 DEF Ordered
          <5>2. QED
            BY <2>a, <2>b, <5>1, <4>1, <4>2, ChangeKeepsOrder
        <4>4. Held'
          <5>1. ~Working(r)' /\ \A s \in Runs \ {r} : run'[s] = run[s]
            BY <2>a, <3>a, <3>9 DEF Execute, Goto, Working, RunState
          <5>2. \A s \in Runs \ {r} : Working(s) => run[s].id # t
            BY <2>b, <3>9 DEF Execute, Is, Held, Working
          <5>3. QED
            BY <2>a, <2>b, <5>1, <5>2, <4>2 DEF Held, Working, HandInv, InHand
        <4>5. QED
          BY <2>b, <3>9, <4>3, <4>4 DEF Execute, Ordered
      <3>10. QED
        BY <3>2, <3>3, <3>4, <3>5, <3>6, <3>7, <3>8, <3>9 DEF Step
    <2>4. CASE UNCHANGED vars
      BY <2>b, <2>4 DEF vars, Ordered, Held, Working
    <2>5. QED
      BY <2>1, <2>2, <2>3, <2>4 DEF Next
  <1>3. QED
    BY <1>1, <1>2 DEF OrderInv

LEMMA OrderHolds == OrderInv => DependenciesFirst
  BY DEF OrderInv, Ordered, DependenciesFirst, Existing

-----------------------------------------------------------------------------
(* The theorems *)

\* Every task keeps to its attempts, the lists of the runs name tasks of the
\* roadmap, and the file holds a table of tasks, whatever fails or restarts
THEOREM RoadmapTypes == Spec => []TypeOK
  <1>1. TypeInv /\ [Next]_vars => TypeInv'
    BY TypesStep
  <1>2. QED
    BY TypesInit, <1>1, TypesHold, PTL DEF Spec

\* next(), claim(), complete() and fail() keep a task behind its dependencies,
\* however many runs share the roadmap, unless a write fails or a finished task
\* is given out again (roadmap-engine.js:64)
THEOREM RoadmapOrder == Spec => []DependenciesFirst
  <1>1. TypeInv /\ OrderInv /\ [Next]_vars => TypeInv' /\ OrderInv'
    BY TypesStep, OrderStep
  <1>2. QED
    BY TypesInit, OrderInit, <1>1, OrderHolds, PTL DEF Spec

=============================================================================
