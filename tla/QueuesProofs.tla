---------------------------- MODULE QueuesProofs ----------------------------
(***************************************************************************)
(* Theorems about the stores of pending work: the background executions of *)
(* the operator API with their rows, the local queue in its file, the      *)
(* ledger of the executions under one key, and the types of all of them    *)
(* and of the table, of which WorkerFleetProofs has the other theorems.    *)
(***************************************************************************)
EXTENDS Queues, FiniteSetTheorems, SequenceTheorems, WellFoundedInduction, TLAPS

-----------------------------------------------------------------------------
(* Sequences with an element taken out                                     *)

\* RemoveAt keeps the other elements in their order.
LEMMA RemoveAtKeeps ==
  ASSUME NEW S, NEW s \in Seq(S), NEW i \in DOMAIN s
  PROVE  /\ RemoveAt(s, i) \in Seq(S)
         /\ Len(RemoveAt(s, i)) = Len(s) - 1
         /\ DOMAIN RemoveAt(s, i) = 1 .. Len(s) - 1
         /\ \A j \in 1 .. Len(s) - 1 :
              RemoveAt(s, i)[j] = s[IF j < i THEN j ELSE j + 1]
<1> DEFINE a == SubSeq(s, 1, i - 1)
           b == SubSeq(s, i + 1, Len(s))
<1>1. /\ i \in 1 .. Len(s) /\ Len(s) \in Nat
      /\ a \in Seq(S) /\ Len(a) = i - 1 /\ \A j \in 1 .. i - 1 : a[j] = s[j]
  OBVIOUS
<1>2. /\ b \in Seq(S) /\ Len(b) = Len(s) - i
      /\ \A j \in 1 .. Len(s) - i : b[j] = s[i + j]
  BY <1>1
<1> HIDE DEF a, b
<1>3. /\ a \o b \in Seq(S) /\ Len(a \o b) = Len(s) - 1
      /\ \A j \in 1 .. Len(s) - 1 :
           (a \o b)[j] = IF j <= i - 1 THEN a[j] ELSE b[j - (i - 1)]
  <2>1. /\ a \o b \in Seq(S) /\ Len(a \o b) = Len(a) + Len(b)
        /\ \A j \in 1 .. Len(a) + Len(b) :
             (a \o b)[j] = IF j <= Len(a) THEN a[j] ELSE b[j - Len(a)]
    BY <1>1, <1>2, ConcatProperties
  <2>2. Len(a) + Len(b) = Len(s) - 1
    BY <1>1, <1>2
  <2> QED  BY <1>1, <2>1, <2>2
<1>4. ASSUME NEW j \in 1 .. Len(s) - 1
      PROVE  (a \o b)[j] = s[IF j < i THEN j ELSE j + 1]
  <2>1. CASE j < i
    BY <1>1, <1>3, <2>1
  <2>2. CASE ~(j < i)
    <3> DEFINE k == j - (i - 1)
    <3>1. k \in 1 .. Len(s) - i /\ i + k = j + 1 /\ (a \o b)[j] = b[k]
      BY <1>1, <1>3, <2>2
    <3> HIDE DEF k
    <3>2. b[k] = s[i + k]
      BY <1>2, <3>1
    <3> QED  BY <2>2, <3>1, <3>2
  <2> QED  BY <2>1, <2>2
<1>5. DOMAIN (a \o b) = 1 .. Len(s) - 1
  BY <1>3
<1>6. RemoveAt(s, i) = a \o b
  BY DEF RemoveAt, a, b
<1> QED  BY <1>3, <1>4, <1>5, <1>6

\* The tail is the sequence without its first element.
LEMMA TailIsRemoveAt ==
  ASSUME NEW S, NEW s \in Seq(S), s # <<>>
  PROVE  1 \in DOMAIN s /\ Head(s) = s[1] /\ Tail(s) = RemoveAt(s, 1)
<1>1. 1 \in DOMAIN s /\ Head(s) = s[1]
  OBVIOUS
<1>2. /\ Tail(s) \in Seq(S) /\ Len(Tail(s)) = Len(s) - 1
      /\ \A j \in 1 .. Len(s) - 1 : Tail(s)[j] = s[j + 1]
  OBVIOUS
<1>3. /\ RemoveAt(s, 1) \in Seq(S) /\ Len(RemoveAt(s, 1)) = Len(s) - 1
      /\ \A j \in 1 .. Len(s) - 1 : RemoveAt(s, 1)[j] = s[IF j < 1 THEN j ELSE j + 1]
  BY <1>1, RemoveAtKeeps
<1> QED  BY <1>1, <1>2, <1>3

-----------------------------------------------------------------------------
(* Background executions                                                   *)

Waits == {"create", "accept"}

\* The operation a handler waits for is of the kind the handler has reached,
\* and it waits for one only.
Awaited ==
  /\ \A i \in DOMAIN ops :
       /\ ops[i].kind = "create" => pc[ops[i].req] = "creating"
       /\ ops[i].kind = "accept" => pc[ops[i].req] = "accepting"
  /\ \A i, j \in DOMAIN ops :
       (ops[i].kind \in Waits /\ ops[j].kind \in Waits /\ ops[i].req = ops[j].req) => i = j

\* A request has a record exactly between create() and the end of the process
Recorded ==
  \A r \in Requests :
    rec[r].status # "none" <=> pc[r] \in {"accepting", "forking", "done"}

\* What runs or is about to run, but for rivals, is within the capacity
Creating == {r \in Requests : pc[r] = "creating"}
WithinCapacity ==
  \A S \in SUBSET (Running \cup Creating) :
    (\A pair \in rivals : ~(pair \subseteq S)) => Cardinality(S) <= MaxBackground

\* A request has no row before its create() has written one
Unwritten ==
  \A r \in Requests : pc[r] \in {"idle", "creating"} =>
    /\ ~HasRow(store, r)
    /\ \A i \in DOMAIN ops : HasRow(ops[i].list, r) => ops[i].kind = "create" /\ ops[i].req = r

\* The JSON file and what is about to be written to it are cut to MaxRecords
Cut ==
  backend = "json" =>
    /\ Len(store) <= MaxRecords
    /\ \A i \in DOMAIN ops : Len(ops[i].list) <= MaxRecords

\* What is about to be written is what the operation makes of the rows as they are
Planned(i) == ops[i].writing => ops[i].list = Apply(store, ops[i])

\* The one operation in flight finishes the row of r
Finishes(r) == Len(ops) = 1 /\ ops[1].kind = "finish" /\ ops[1].req = r
Told ==
  ~disturbed =>
    /\ Len(ops) <= 1
    /\ \A i \in DOMAIN ops :
         /\ ops[i].kind = "finish" => rec[ops[i].req].status \in {"none", ops[i].status}
         /\ Planned(i)
    /\ \A r \in Requests :
         /\ rec[r].status # "none" => rec[r].row
         /\ rec[r].status \in Settled =>
              \A i \in DOMAIN store : store[i].req = r =>
                store[i].status = rec[r].status \/ Finishes(r)

-----------------------------------------------------------------------------
(* Rows and operations of the execution store                              *)

\* The newest rows are rows, at most MaxRecords in the file.
LEMMA NewestKeeps ==
  ASSUME MaxRecords \in Nat, NEW rows \in Seq(Row)
  PROVE  /\ Newest(rows) \in Seq(Row)
         /\ \A i \in DOMAIN Newest(rows) : \E j \in DOMAIN rows : Newest(rows)[i] = rows[j]
         /\ backend = "json" => Len(Newest(rows)) <= MaxRecords
         /\ (backend = "json" => Len(rows) <= MaxRecords) => Newest(rows) = rows
<1>1. CASE ~(backend = "json" /\ Len(rows) > MaxRecords)
  BY <1>1 DEF Newest
<1>2. CASE backend = "json" /\ Len(rows) > MaxRecords
  <2> DEFINE first == Len(rows) - MaxRecords + 1
             latest == SubSeq(rows, first, Len(rows))
  <2>1. first \in 1 .. Len(rows) + 1 /\ Len(rows) - first + 1 = MaxRecords
    BY <1>2
  <2>2. Newest(rows) = latest
    BY <1>2 DEF Newest
  <2> HIDE DEF first
  <2>3. /\ latest \in Seq(Row) /\ Len(latest) = MaxRecords
        /\ \A i \in 1 .. MaxRecords : latest[i] = rows[first + i - 1]
    BY <2>1
  <2>4. \A i \in 1 .. MaxRecords : first + i - 1 \in DOMAIN rows
    BY <2>1
  <2> HIDE DEF latest
  <2> QED  BY <1>2, <2>2, <2>3, <2>4
<1> QED  BY <1>1, <1>2

\* A row whose status is set
LEMMA RowChanged ==
  ASSUME NEW row \in Row, NEW status \in {"RUNNING"} \cup Settled
  PROVE  /\ [row EXCEPT !.status = status] \in Row
         /\ [row EXCEPT !.status = status].req = row.req
         /\ [row EXCEPT !.status = status].status = status
BY DEF Row

LEMMA OpFields ==
  ASSUME NEW o \in Op
  PROVE  /\ o.req \in Requests /\ o.kind \in {"create", "accept", "progress", "finish"}
         /\ o.status \in {"RUNNING"} \cup Settled /\ o.writing \in BOOLEAN /\ o.list \in Seq(Row)
BY DEF Op

\* create() adds a row that is RUNNING and may drop old ones.
LEMMA CreateKeeps ==
  ASSUME MaxRecords \in Nat, NEW rows \in Seq(Row), NEW o \in Op
  PROVE  /\ CreateRow(rows, o) \in Seq(Row)
         /\ backend = "json" => Len(CreateRow(rows, o)) <= MaxRecords
         /\ \A i \in DOMAIN CreateRow(rows, o) :
              \/ CreateRow(rows, o)[i].req = o.req /\ CreateRow(rows, o)[i].status = "RUNNING"
              \/ \E j \in DOMAIN rows : CreateRow(rows, o)[i] = rows[j]
<1> DEFINE row == [req |-> o.req, status |-> "RUNNING"]
           more == Append(rows, row)
<1>1. row \in Row /\ row.req = o.req /\ row.status = "RUNNING"
  BY OpFields DEF Row
<1> HIDE DEF row
<1>2. /\ more \in Seq(Row) /\ DOMAIN more = 1 .. Len(rows) + 1
      /\ more[Len(rows) + 1] = row /\ \A j \in 1 .. Len(rows) : more[j] = rows[j]
  BY <1>1
<1> HIDE DEF more
<1>3. CreateRow(rows, o) = Newest(more)
  BY DEF CreateRow, more, row
<1>4. /\ Newest(more) \in Seq(Row)
      /\ \A i \in DOMAIN Newest(more) : \E j \in DOMAIN more : Newest(more)[i] = more[j]
      /\ backend = "json" => Len(Newest(more)) <= MaxRecords
  BY <1>2, NewestKeeps
<1> QED  BY <1>1, <1>2, <1>3, <1>4

\* finish() changes the status of the rows of its request only.
LEMMA FinishKeeps ==
  ASSUME NEW rows \in Seq(Row), NEW o \in Op
  PROVE  /\ FinishRow(rows, o) \in Seq(Row) /\ Len(FinishRow(rows, o)) = Len(rows)
         /\ \A i \in DOMAIN rows :
              /\ FinishRow(rows, o)[i].req = rows[i].req
              /\ FinishRow(rows, o)[i].status =
                   IF rows[i].req = o.req THEN o.status ELSE rows[i].status
<1> DEFINE new(i) == IF rows[i].req = o.req THEN [rows[i] EXCEPT !.status = o.status]
                                            ELSE rows[i]
<1>1. ASSUME NEW i \in DOMAIN rows
      PROVE  /\ new(i) \in Row /\ new(i).req = rows[i].req
             /\ new(i).status = IF rows[i].req = o.req THEN o.status ELSE rows[i].status
  <2>1. rows[i] \in Row
    OBVIOUS
  <2>2. CASE rows[i].req = o.req
    <3>1. o.status \in {"RUNNING"} \cup Settled
      BY OpFields
    <3>2. /\ [rows[i] EXCEPT !.status = o.status] \in Row
          /\ [rows[i] EXCEPT !.status = o.status].req = rows[i].req
          /\ [rows[i] EXCEPT !.status = o.status].status = o.status
      BY <2>1, <3>1, RowChanged
    <3> QED  BY <2>2, <3>2
  <2>3. CASE rows[i].req # o.req
    BY <2>1, <2>3
  <2> QED  BY <2>2, <2>3
<1> HIDE DEF new
<1>2. FinishRow(rows, o) = [i \in DOMAIN rows |-> new(i)]
  BY DEF FinishRow, new
<1>3. DOMAIN rows = 1 .. Len(rows) /\ Len(rows) \in Nat
  OBVIOUS
<1>4. /\ FinishRow(rows, o) \in Seq(Row) /\ Len(FinishRow(rows, o)) = Len(rows)
      /\ \A i \in DOMAIN rows : FinishRow(rows, o)[i] = new(i)
  BY <1>1, <1>2, <1>3
<1> QED  BY <1>1, <1>4

\* What an operation makes of the rows
LEMMA ApplyKeeps ==
  ASSUME MaxRecords \in Nat, NEW rows \in Seq(Row), NEW o \in Op
  PROVE  /\ Apply(rows, o) \in Seq(Row)
         /\ (backend = "json" => Len(rows) <= MaxRecords)
              => (backend = "json" => Len(Apply(rows, o)) <= MaxRecords)
         /\ \A i \in DOMAIN Apply(rows, o) :
              \/ /\ o.kind = "create" /\ Apply(rows, o)[i].req = o.req
                 /\ Apply(rows, o)[i].status = "RUNNING"
              \/ \E j \in DOMAIN rows :
                   /\ Apply(rows, o)[i].req = rows[j].req
                   /\ \/ Apply(rows, o)[i].status = rows[j].status
                      \/ o.kind = "finish" /\ rows[j].req = o.req
                   /\ o.kind = "finish" /\ rows[j].req = o.req =>
                        Apply(rows, o)[i].status = o.status
<1>1. CASE o.kind = "create"
  <2>1. Apply(rows, o) = CreateRow(rows, o)
    BY <1>1 DEF Apply
  <2> DEFINE new == CreateRow(rows, o)
  <2>2. /\ new \in Seq(Row) /\ (backend = "json" => Len(new) <= MaxRecords)
        /\ \A i \in DOMAIN new :
             \/ new[i].req = o.req /\ new[i].status = "RUNNING"
             \/ \E j \in DOMAIN rows : new[i] = rows[j]
    BY CreateKeeps
  <2>3. Apply(rows, o) = new
    BY <2>1
  <2> HIDE DEF new
  <2>4. ~(o.kind = "finish")
    BY <1>1
  <2>5. ASSUME NEW i \in DOMAIN new
        PROVE  \/ o.kind = "create" /\ new[i].req = o.req /\ new[i].status = "RUNNING"
               \/ \E j \in DOMAIN rows :
                    new[i].req = rows[j].req /\ new[i].status = rows[j].status
    BY <1>1, <2>2
  <2> QED  BY <2>2, <2>3, <2>4, <2>5
<1>2. CASE o.kind = "finish"
  <2>1. Apply(rows, o) = FinishRow(rows, o)
    BY <1>2 DEF Apply
  <2>2. DOMAIN FinishRow(rows, o) = DOMAIN rows
    BY FinishKeeps
  <2> QED  BY <1>2, <2>1, <2>2, FinishKeeps
<1>3. CASE o.kind \in {"accept", "progress"}
  BY <1>3 DEF Apply
<1> QED  BY <1>1, <1>2, <1>3, OpFields

\* What is left when operation i is taken out are the others, each once.
LEMMA OthersStay ==
  ASSUME ops \in Seq(Op), NEW i \in DOMAIN ops
  PROVE  /\ RemoveAt(ops, i) \in Seq(Op) /\ Len(RemoveAt(ops, i)) = Len(ops) - 1
         /\ \A j \in DOMAIN RemoveAt(ops, i) : \E k \in DOMAIN ops \ {i} : RemoveAt(ops, i)[j] = ops[k]
         /\ \A j, l \in DOMAIN RemoveAt(ops, i) : j # l =>
              \E k, m \in DOMAIN ops \ {i} :
                k # m /\ RemoveAt(ops, i)[j] = ops[k] /\ RemoveAt(ops, i)[l] = ops[m]
<1> DEFINE rest == RemoveAt(ops, i)
           from(j) == IF j < i THEN j ELSE j + 1
<1>1. /\ rest \in Seq(Op) /\ Len(rest) = Len(ops) - 1 /\ DOMAIN rest = 1 .. Len(ops) - 1
      /\ \A j \in 1 .. Len(ops) - 1 : rest[j] = ops[from(j)]
  BY RemoveAtKeeps
<1>2. i \in 1 .. Len(ops) /\ DOMAIN ops = 1 .. Len(ops) /\ Len(ops) \in Nat
  OBVIOUS
<1>3. /\ \A j \in 1 .. Len(ops) - 1 : from(j) \in DOMAIN ops \ {i}
      /\ \A j, l \in 1 .. Len(ops) - 1 : j # l => from(j) # from(l)
  BY <1>2
<1> HIDE DEF rest, from
<1>4. /\ \A j \in DOMAIN rest : \E k \in DOMAIN ops \ {i} : rest[j] = ops[k]
      /\ \A j, l \in DOMAIN rest : j # l =>
           \E k, m \in DOMAIN ops \ {i} : k # m /\ rest[j] = ops[k] /\ rest[l] = ops[m]
  BY <1>1, <1>3
<1> QED  BY <1>1, <1>4 DEF rest

\* An operation put at the end
LEMMA AppendKeeps ==
  ASSUME NEW q \in Seq(Op), NEW o \in Op
  PROVE  /\ Append(q, o) \in Seq(Op) /\ Len(Append(q, o)) = Len(q) + 1
         /\ DOMAIN Append(q, o) = 1 .. Len(q) + 1 /\ DOMAIN q = 1 .. Len(q)
         /\ Append(q, o)[Len(q) + 1] = o /\ \A j \in DOMAIN q : Append(q, o)[j] = q[j]
         /\ q \o <<o>> = Append(q, o) /\ Append(q, o) # <<>>
OBVIOUS

LEMMA NewOpIsOp ==
  ASSUME NEW r \in Requests, NEW kind \in {"create", "accept", "progress", "finish"},
         NEW status \in {"RUNNING"} \cup Settled
  PROVE  /\ NewOp(r, kind, status) \in Op
         /\ NewOp(r, kind, status).req = r /\ NewOp(r, kind, status).kind = kind
         /\ NewOp(r, kind, status).status = status
         /\ ~NewOp(r, kind, status).writing /\ NewOp(r, kind, status).list = <<>>
BY DEF NewOp, Op

LEMMA FinishOpIsOp ==
  ASSUME NEW r \in Requests, NEW status \in Settled
  PROVE  LET n == NewOp(r, "finish", status)
         IN  /\ n \in Op /\ n.req = r /\ n.kind = "finish" /\ n.status = status
             /\ ~n.writing /\ n.list = <<>>
<1>1. status \in {"RUNNING"} \cup Settled
  OBVIOUS
<1>2. "finish" \in {"create", "accept", "progress", "finish"}
  OBVIOUS
<1> QED  BY <1>1, <1>2, NewOpIsOp

\* The operation that has read the file and is about to write it
Wrote(o) == [o EXCEPT !.writing = TRUE, !.list = Apply(Newest(store), o)]

LEMMA WroteIsOp ==
  ASSUME MaxRecords \in Nat, store \in Seq(Row), NEW o \in Op
  PROVE  /\ Wrote(o) \in Op
         /\ Wrote(o).req = o.req /\ Wrote(o).kind = o.kind /\ Wrote(o).status = o.status
         /\ Wrote(o).writing /\ Wrote(o).list = Apply(Newest(store), o)
<1> DEFINE list == Apply(Newest(store), o)
<1>1. list \in Seq(Row)
  BY NewestKeeps, ApplyKeeps
<1>2. Wrote(o) = [o EXCEPT !.writing = TRUE, !.list = list]
  BY DEF Wrote
<1> HIDE DEF list
<1>3. /\ Wrote(o) \in Op
      /\ Wrote(o).req = o.req /\ Wrote(o).kind = o.kind /\ Wrote(o).status = o.status
      /\ Wrote(o).writing = TRUE /\ Wrote(o).list = list
  BY <1>1, <1>2 DEF Op
<1> QED  BY <1>3 DEF list

\* The record of one request changes in its status and its timer.
LEMMA StatusSet ==
  ASSUME rec \in [Requests -> Record], NEW r \in Requests, NEW status \in Settled
  PROVE  LET new == [rec EXCEPT ![r].status = status, ![r].timer = FALSE]
         IN  /\ new \in [Requests -> Record]
             /\ new[r].status = status /\ new[r].row = rec[r].row
             /\ \A q \in Requests \ {r} : new[q] = rec[q]
BY DEF Record

LEMMA TimerSet ==
  ASSUME rec \in [Requests -> Record], NEW r \in Requests, NEW on \in BOOLEAN
  PROVE  LET new == [rec EXCEPT ![r].timer = on]
         IN  /\ new \in [Requests -> Record]
             /\ new[r].status = rec[r].status /\ new[r].row = rec[r].row /\ new[r].timer = on
             /\ \A q \in Requests \ {r} : new[q] = rec[q]
BY DEF Record

-----------------------------------------------------------------------------
(* The shapes of a step                                                    *)

\* A record is settled, by whatever settles it
SettleOf(r) ==
  /\ rec[r].status # "none"
  /\ \E status \in Settled : Settle(r, status)
  /\ UNCHANGED <<backend, rivals, pc, store>>

\* The timer of a record that does not run is cleared
ClearOf(r) ==
  /\ rec[r].status # "RUNNING" /\ ClearTimer(r)
  /\ UNCHANGED <<backend, rivals, pc, store>>

\* A progress message is appended to the trace
ProgressOf(r) ==
  /\ CallStore(ops, IF rec[r].row THEN <<NewOp(r, "progress", "RUNNING")>> ELSE <<>>)
  /\ UNCHANGED <<backend, rivals, rec, pc, store>>

\* An operation has read the file
ReadOf ==
  /\ backend = "json" /\ 1 \in DOMAIN ops /\ ~ops[1].writing
  /\ ops' = Append(RemoveAt(ops, 1), Wrote(ops[1]))
  /\ UNCHANGED <<backend, rivals, rec, pc, store, disturbed>>

\* An operation ends: it throws, finds no row, writes the file or the table
EndOf(i, ok) ==
  /\ OpEnds(ops[i], RemoveAt(ops, i), ok)
  /\ UNCHANGED <<backend, rivals>>
  /\ \/ store' = store /\ ~ok
     \/ /\ store' = store /\ backend = "json" /\ ops[i].kind # "create"
        /\ ~HasRow(Newest(store), ops[i].req)
     \/ store' = ops[i].list /\ backend = "json" /\ ops[i].writing
     \/ store' = Apply(store, ops[i]) /\ backend = "postgres"

\* Nothing of records, handlers and store changes
RestOf == UNCHANGED <<backend, rivals, rec, pc, store, ops, disturbed>>

AsyncStep ==
  \/ RestOf \/ ReadOf \/ Restart
  \/ \E r \in Requests :
       \/ Admit(r) \/ Refuse(r) \/ Fork(r) \/ ForkFails(r)
       \/ SettleOf(r) \/ ClearOf(r) \/ ProgressOf(r)
  \/ \E i \in DOMAIN ops, ok \in BOOLEAN : EndOf(i, ok)

\* Every step has one of these shapes.
LEMMA StepShapes ==
  ASSUME ops \in Seq(Op), Recorded, [Next]_vars
  PROVE  AsyncStep
<1>1. CASE UNCHANGED vars
  BY <1>1 DEF vars, RestOf, AsyncStep
<1>2. ASSUME NEW r \in Requests, Fork(r) \/ ForkFails(r)
      PROVE  AsyncStep
  BY <1>2 DEF AsyncStep
<1>3. CASE JsonRead
  <2>1. 1 \in DOMAIN ops /\ Head(ops) = ops[1] /\ Tail(ops) = RemoveAt(ops, 1)
    BY <1>3, TailIsRemoveAt DEF JsonRead
  <2>2. CASE ops[1].kind = "create" \/ HasRow(Newest(store), ops[1].req)
    BY <1>3, <2>1, <2>2 DEF JsonRead, ReadOf, Wrote, processVars, AsyncStep
  <2>3. CASE ~(ops[1].kind = "create" \/ HasRow(Newest(store), ops[1].req))
    <3>1. EndOf(1, TRUE)
      BY <1>3, <2>1, <2>3 DEF JsonRead, EndOf, processVars
    <3> QED  BY <2>1, <3>1 DEF AsyncStep
  <2> QED  BY <2>2, <2>3
<1>4. CASE JsonWrite
  <2>1. 1 \in DOMAIN ops /\ Head(ops) = ops[1] /\ Tail(ops) = RemoveAt(ops, 1)
    BY <1>4, TailIsRemoveAt DEF JsonWrite
  <2>2. EndOf(1, TRUE)
    BY <1>4, <2>1 DEF JsonWrite, EndOf, processVars
  <2> QED  BY <2>1, <2>2 DEF AsyncStep
<1>5. CASE PostgresStatement
  <2>1. PICK i \in DOMAIN ops : EndOf(i, TRUE)
    BY <1>5 DEF PostgresStatement, EndOf, processVars
  <2> QED  BY <2>1 DEF AsyncStep
<1>6. CASE StoreFails
  <2>1. PICK i \in DOMAIN ops : EndOf(i, FALSE)
    BY <1>6 DEF StoreFails, EndOf
  <2> QED  BY <2>1 DEF AsyncStep
<1>7. ASSUME NEW r \in Requests, Admit(r) \/ Refuse(r)
      PROVE  AsyncStep
  BY <1>7 DEF AsyncStep
<1>8. ASSUME NEW r \in Requests, Progress(r)
      PROVE  AsyncStep
  BY <1>8 DEF Progress, ProgressOf, processVars, AsyncStep
<1>9. ASSUME NEW r \in Requests, Result(r)
      PROVE  AsyncStep
  <2>1. rec[r].status # "none"
    BY <1>9 DEF Result, Recorded
  <2>2. \E status \in Settled : Settle(r, status)
    BY <1>9 DEF Result, Settled
  <2> QED  BY <1>9, <2>1, <2>2 DEF Result, SettleOf, processVars, AsyncStep
<1>10. ASSUME NEW r \in Requests, OnError(r) \/ OnExit(r)
       PROVE  AsyncStep
  <2>1. CASE rec[r].status = "RUNNING"
    BY <1>10, <2>1 DEF OnError, OnExit, SettleOf, Settled, processVars, AsyncStep
  <2>2. CASE rec[r].status # "RUNNING"
    BY <1>10, <2>2 DEF OnError, OnExit, ClearOf, processVars, AsyncStep
  <2> QED  BY <2>1, <2>2
<1>11. ASSUME NEW r \in Requests, Timeout(r)
       PROVE  AsyncStep
  <2>1. CASE rec[r].status = "RUNNING"
    BY <1>11, <2>1 DEF Timeout, SettleOf, Settled, processVars, AsyncStep
  <2>2. CASE rec[r].status # "RUNNING"
    BY <1>11, <2>2 DEF Timeout, ClearOf, processVars, AsyncStep
  <2> QED  BY <2>1, <2>2
<1>12. ASSUME NEW r \in Requests, Cancel(r)
       PROVE  AsyncStep
  BY <1>12 DEF Cancel, SettleOf, Settled, processVars, AsyncStep
<1>13. ASSUME NEW r \in Requests, ChildProgress(r) \/ ChildAnswer(r) \/ ChildExit(r)
       PROVE  AsyncStep
  BY <1>13 DEF ChildProgress, ChildAnswer, ChildExit, RestOf, processVars, AsyncStep
<1>14. CASE Restart
  BY <1>14 DEF AsyncStep
<1> QED  BY <1>1, <1>2, <1>3, <1>4, <1>5, <1>6, <1>7, <1>8, <1>9, <1>10, <1>11, <1>12,
            <1>13, <1>14 DEF Next, Continue, Serve, StoreStep

-----------------------------------------------------------------------------
(* Types                                                                   *)

Places == {"idle", "refused", "creating", "accepting", "forking", "done", "lost"}

\* The types of what the API process and the store hold
Data ==
  /\ backend \in {"json", "postgres"}
  /\ rec \in [Requests -> Record]
  /\ pc \in [Requests -> Places]
  /\ store \in Seq(Row)
  /\ ops \in Seq(Op)
  /\ rivals \subseteq SUBSET Requests
  /\ disturbed \in BOOLEAN

\* A call of the store is the last of the operations in flight.
LEMMA CallEffect ==
  ASSUME Data, NEW o \in Op, NEW calls \in BOOLEAN,
         CallStore(ops, IF calls THEN <<o>> ELSE <<>>)
  PROVE  /\ calls => ops' = Append(ops, o) /\ disturbed' = (disturbed \/ ops # <<>>)
         /\ ~calls => ops' = ops /\ disturbed' = disturbed
<1>1. CASE calls
  <2>1. ops' = ops \o <<o>> /\ disturbed' = (disturbed \/ (ops # <<>> /\ <<o>> # <<>>))
    BY <1>1 DEF CallStore
  <2>2. ops \o <<o>> = Append(ops, o) /\ <<o>> # <<>>
    BY DEF Data
  <2> QED  BY <1>1, <2>1, <2>2
<1>2. CASE ~calls
  BY <1>2 DEF CallStore, Data
<1> QED  BY <1>1, <1>2

LEMMA SettleEffect ==
  ASSUME Data, NEW r \in Requests, SettleOf(r)
  PROVE  \E status \in Settled :
           /\ rec' \in [Requests -> Record]
           /\ rec'[r].status = status /\ rec'[r].row = rec[r].row
           /\ \A q \in Requests \ {r} : rec'[q] = rec[q]
           /\ rec[r].row => /\ ops' = Append(ops, NewOp(r, "finish", status))
                            /\ disturbed' = (disturbed \/ ops # <<>>)
           /\ ~rec[r].row => ops' = ops /\ disturbed' = disturbed
<1>1. PICK status \in Settled : Settle(r, status)
  BY DEF SettleOf
<1>2. /\ rec' \in [Requests -> Record]
      /\ rec'[r].status = status /\ rec'[r].row = rec[r].row
      /\ \A q \in Requests \ {r} : rec'[q] = rec[q]
  <2> DEFINE new == [rec EXCEPT ![r].status = status, ![r].timer = FALSE]
  <2>1. rec' = new
    BY <1>1 DEF Settle
  <2>2. rec \in [Requests -> Record]
    BY DEF Data
  <2>3. /\ new \in [Requests -> Record]
        /\ new[r].status = status /\ new[r].row = rec[r].row
        /\ \A q \in Requests \ {r} : new[q] = rec[q]
    BY <2>2, StatusSet
  <2> HIDE DEF new
  <2> QED  BY <2>1, <2>3
<1>3. NewOp(r, "finish", status) \in Op /\ rec[r].row \in BOOLEAN
  BY FinishOpIsOp DEF Data, Record
<1>4. CallStore(ops, IF rec[r].row THEN <<NewOp(r, "finish", status)>> ELSE <<>>)
  BY <1>1 DEF Settle
<1>5. /\ rec[r].row => /\ ops' = Append(ops, NewOp(r, "finish", status))
                       /\ disturbed' = (disturbed \/ ops # <<>>)
      /\ ~rec[r].row => ops' = ops /\ disturbed' = disturbed
  BY <1>3, <1>4, CallEffect
<1> QED  BY <1>2, <1>5

LEMMA ProgressEffect ==
  ASSUME Data, NEW r \in Requests, ProgressOf(r)
  PROVE  \/ ops' = ops /\ disturbed' = disturbed
         \/ /\ ops' = Append(ops, NewOp(r, "progress", "RUNNING"))
            /\ disturbed' = (disturbed \/ ops # <<>>)
<1>1. NewOp(r, "progress", "RUNNING") \in Op /\ rec[r].row \in BOOLEAN
  BY NewOpIsOp DEF Data, Record
<1> QED  BY <1>1, CallEffect DEF ProgressOf

LEMMA AdmitEffect ==
  ASSUME Data, NEW r \in Requests, Admit(r)
  PROVE  /\ ops' = Append(ops, NewOp(r, "create", "RUNNING"))
         /\ disturbed' = (disturbed \/ ops # <<>>)
<1>1. NewOp(r, "create", "RUNNING") \in Op
  BY NewOpIsOp
<1>2. CallStore(ops, IF TRUE THEN <<NewOp(r, "create", "RUNNING")>> ELSE <<>>)
  BY DEF Admit
<1> QED  BY <1>1, <1>2, CallEffect

\* The end of an operation, by its kind
LEMMA EndEffect ==
  ASSUME Data, NEW i \in DOMAIN ops, NEW ok \in BOOLEAN, EndOf(i, ok)
  PROVE  LET r == ops[i].req
         IN  /\ ~disturbed' => ok /\ ~disturbed
             /\ \/ /\ ops[i].kind = "create"
                   /\ rec' \in [Requests -> Record]
                   /\ rec'[r].status = "RUNNING" /\ rec'[r].row = ok
                   /\ \A q \in Requests \ {r} : rec'[q] = rec[q]
                   /\ pc' = [pc EXCEPT ![r] = "accepting"]
                   /\ ops' = Append(RemoveAt(ops, i), NewOp(r, "accept", "RUNNING"))
                   /\ ~disturbed' => RemoveAt(ops, i) = <<>>
                \/ /\ ops[i].kind = "accept"
                   /\ pc' = [pc EXCEPT ![r] = "forking"]
                   /\ ops' = RemoveAt(ops, i) /\ rec' = rec
                \/ /\ ops[i].kind \in {"progress", "finish"}
                   /\ ops' = RemoveAt(ops, i) /\ rec' = rec /\ pc' = pc
<1> DEFINE o == ops[i]
           r == o.req
<1>1. o \in Op
  BY DEF Data
<1> HIDE DEF o
<1>2. r \in Requests /\ o.kind \in {"create", "accept", "progress", "finish"}
  BY <1>1, OpFields
<1>3. OpEnds(o, RemoveAt(ops, i), ok)
  BY DEF EndOf, o
<1>4. CASE o.kind = "create"
  <2> DEFINE new == [status |-> "RUNNING", row |-> ok, timer |-> FALSE]
  <2>1. new \in Record /\ new.status = "RUNNING" /\ new.row = ok
    BY DEF Record
  <2>2. /\ rec' = [rec EXCEPT ![r] = new]
        /\ pc' = [pc EXCEPT ![r] = "accepting"]
        /\ ops' = Append(RemoveAt(ops, i), NewOp(r, "accept", "RUNNING"))
        /\ disturbed' = (disturbed \/ ~ok \/ RemoveAt(ops, i) # <<>>)
    BY <1>3, <1>4 DEF OpEnds
  <2> HIDE DEF new
  <2>3. rec' \in [Requests -> Record] /\ rec'[r] = new /\ \A q \in Requests \ {r} : rec'[q] = rec[q]
    BY <1>2, <2>1, <2>2 DEF Data
  <2>4. ~disturbed' => ok /\ ~disturbed
    BY <2>2 DEF Data
  <2> QED  BY <1>4, <2>1, <2>2, <2>3, <2>4 DEF o
<1>5. CASE o.kind = "accept"
  <2>1. /\ pc' = [pc EXCEPT ![r] = "forking"]
        /\ ops' = RemoveAt(ops, i) /\ rec' = rec
        /\ disturbed' = (disturbed \/ ~ok)
    BY <1>3, <1>5 DEF OpEnds
  <2> QED  BY <1>5, <2>1 DEF o, Data
<1>6. CASE o.kind \in {"progress", "finish"}
  <2>1. ops' = RemoveAt(ops, i) /\ rec' = rec /\ pc' = pc /\ disturbed' = (disturbed \/ ~ok)
    BY <1>3, <1>6 DEF OpEnds
  <2> QED  BY <1>6, <2>1 DEF o, Data
<1> QED  BY <1>2, <1>4, <1>5, <1>6

\* A call of the store keeps the types of the operations.
LEMMA CallTypes ==
  ASSUME Data, NEW o \in Op,
         \/ ops' = ops /\ disturbed' = disturbed
         \/ ops' = Append(ops, o) /\ disturbed' = (disturbed \/ ops # <<>>)
  PROVE  ops' \in Seq(Op) /\ disturbed' \in BOOLEAN
BY AppendKeeps DEF Data

LEMMA DataInit ==
  ASSUME Init
  PROVE  Data
<1>1. NoRecord \in Record
  BY DEF NoRecord, Record
<1>2. rec \in [Requests -> Record]
  BY <1>1 DEF Init
<1>3. pc \in [Requests -> Places] /\ store \in Seq(Row) /\ ops \in Seq(Op)
  BY DEF Init, Places
<1> QED  BY <1>2, <1>3 DEF Init, Data

LEMMA DataNext ==
  ASSUME MaxRecords \in Nat, Data, AsyncStep
  PROVE  Data'
<1>1. CASE RestOf
  BY <1>1 DEF RestOf, Data
<1>2. CASE ReadOf
  <2>1. ops[1] \in Op /\ 1 \in DOMAIN ops
    BY <1>2 DEF ReadOf, Data
  <2>2. Wrote(ops[1]) \in Op
    BY <2>1, WroteIsOp DEF Data
  <2>3. ops' \in Seq(Op)
    BY <1>2, <2>1, <2>2, OthersStay, AppendKeeps DEF ReadOf, Data
  <2> QED  BY <1>2, <2>3 DEF ReadOf, Data
<1>3. CASE Restart
  <2>1. NoRecord \in Record
    BY DEF NoRecord, Record
  <2>2. rec' \in [Requests -> Record] /\ pc' \in [Requests -> Places] /\ ops' \in Seq(Op)
    BY <1>3, <2>1 DEF Restart, Places, Data
  <2> QED  BY <1>3, <2>2 DEF Restart, Data
<1>4. ASSUME NEW r \in Requests, Admit(r)
      PROVE  Data'
  <2>1. NewOp(r, "create", "RUNNING") \in Op
    BY NewOpIsOp
  <2>2. ops' \in Seq(Op) /\ disturbed' \in BOOLEAN
    BY <1>4, <2>1, AdmitEffect, CallTypes
  <2>3. pc' \in [Requests -> Places] /\ rivals' \subseteq SUBSET Requests
    BY <1>4 DEF Admit, Data, Places
  <2> QED  BY <1>4, <2>2, <2>3 DEF Admit, Data
<1>5. ASSUME NEW r \in Requests, Refuse(r)
      PROVE  Data'
  BY <1>5 DEF Refuse, Data, Places, processVars
<1>6. ASSUME NEW r \in Requests, Fork(r)
      PROVE  Data'
  <2>1. rec' \in [Requests -> Record]
    BY <1>6, TimerSet DEF Fork, Data
  <2> QED  BY <1>6, <2>1 DEF Fork, Data, Places, processVars
<1>7. ASSUME NEW r \in Requests, ForkFails(r)
      PROVE  Data'
  <2>1. NoRecord \in Record
    BY DEF NoRecord, Record
  <2>2. rec' \in [Requests -> Record]
    BY <1>7, <2>1 DEF ForkFails, Data
  <2> QED  BY <1>7, <2>2 DEF ForkFails, Data, Places, processVars
<1>8. ASSUME NEW r \in Requests, SettleOf(r)
      PROVE  Data'
  <2>1. PICK status \in Settled :
          /\ rec' \in [Requests -> Record]
          /\ rec[r].row => /\ ops' = Append(ops, NewOp(r, "finish", status))
                           /\ disturbed' = (disturbed \/ ops # <<>>)
          /\ ~rec[r].row => ops' = ops /\ disturbed' = disturbed
    BY <1>8, SettleEffect
  <2>2. NewOp(r, "finish", status) \in Op
    BY FinishOpIsOp
  <2>3. ops' \in Seq(Op) /\ disturbed' \in BOOLEAN
    <3>1. rec[r].row \in BOOLEAN
      BY DEF Data, Record
    <3> QED  BY <2>1, <2>2, <3>1, CallTypes
  <2> QED  BY <1>8, <2>1, <2>3 DEF SettleOf, Data
<1>9. ASSUME NEW r \in Requests, ClearOf(r)
      PROVE  Data'
  BY <1>9, TimerSet DEF ClearOf, ClearTimer, Data
<1>10. ASSUME NEW r \in Requests, ProgressOf(r)
       PROVE  Data'
  <2>1. NewOp(r, "progress", "RUNNING") \in Op
    BY NewOpIsOp
  <2>2. ops' \in Seq(Op) /\ disturbed' \in BOOLEAN
    BY <1>10, <2>1, ProgressEffect, CallTypes
  <2> QED  BY <1>10, <2>2 DEF ProgressOf, Data
<1>11. ASSUME NEW i \in DOMAIN ops, NEW ok \in BOOLEAN, EndOf(i, ok)
       PROVE  Data'
  <2>1. ops[i] \in Op /\ ops[i].req \in Requests /\ ops[i].list \in Seq(Row)
    BY OpFields DEF Data
  <2>2. RemoveAt(ops, i) \in Seq(Op)
    BY OthersStay DEF Data
  <2>3. NewOp(ops[i].req, "accept", "RUNNING") \in Op
    BY <2>1, NewOpIsOp
  <2>4. ops' \in Seq(Op)
    BY <1>11, <2>2, <2>3, EndEffect, AppendKeeps
  <2>5. rec' \in [Requests -> Record] /\ pc' \in [Requests -> Places]
    <3>1. \/ rec' \in [Requests -> Record] /\ pc' = [pc EXCEPT ![ops[i].req] = "accepting"]
          \/ rec' = rec /\ pc' = [pc EXCEPT ![ops[i].req] = "forking"]
          \/ rec' = rec /\ pc' = pc
      BY <1>11, EndEffect
    <3> QED  BY <2>1, <3>1 DEF Data, Places
  <2>6. Apply(store, ops[i]) \in Seq(Row)
    BY <2>1, ApplyKeeps DEF Data
  <2>7. store' \in Seq(Row)
    BY <1>11, <2>1, <2>6 DEF EndOf, Data
  <2>8. disturbed' \in BOOLEAN
    BY <1>11 DEF EndOf, OpEnds, Data
  <2> QED  BY <1>11, <2>4, <2>5, <2>7, <2>8 DEF EndOf, Data
<1> QED  BY <1>1, <1>2, <1>3, <1>4, <1>5, <1>6, <1>7, <1>8, <1>9, <1>10, <1>11 DEF AsyncStep

-----------------------------------------------------------------------------
(* Handlers and the operations they wait for                               *)

\* A step that adds an operation nobody else waits for, or none
LEMMA AwaitedCall ==
  ASSUME Data, Awaited, NEW o \in Op, ops' = Append(ops, o),
         o.kind = "create" => pc'[o.req] = "creating",
         o.kind = "accept" => pc'[o.req] = "accepting",
         o.kind \in Waits => pc[o.req] \notin {"creating", "accepting"},
         \A i \in DOMAIN ops : ops[i].kind \in Waits => pc'[ops[i].req] = pc[ops[i].req]
  PROVE  Awaited'
<1>1. /\ DOMAIN ops' = 1 .. Len(ops) + 1 /\ DOMAIN ops = 1 .. Len(ops)
      /\ ops'[Len(ops) + 1] = o /\ \A j \in DOMAIN ops : ops'[j] = ops[j]
  BY AppendKeeps DEF Data
<1>2. \A j \in DOMAIN ops' : j \in DOMAIN ops \/ j = Len(ops) + 1
  BY <1>1 DEF Data
<1>3. \A i \in DOMAIN ops' :
        /\ ops'[i].kind = "create" => pc'[ops'[i].req] = "creating"
        /\ ops'[i].kind = "accept" => pc'[ops'[i].req] = "accepting"
  BY <1>1, <1>2 DEF Awaited, Waits
<1>4. \A i \in DOMAIN ops : o.kind \in Waits /\ ops[i].kind \in Waits => o.req # ops[i].req
  BY DEF Awaited, Waits
<1>5. \A i, j \in DOMAIN ops' :
        (ops'[i].kind \in Waits /\ ops'[j].kind \in Waits /\ ops'[i].req = ops'[j].req) => i = j
  BY <1>1, <1>2, <1>4 DEF Awaited
<1> QED  BY <1>3, <1>5 DEF Awaited, Waits

\* A step that takes an operation out, and puts in its place at most one, for
\* which the same handler waits
LEMMA AwaitedEnd ==
  ASSUME Data, Awaited, NEW i \in DOMAIN ops, NEW n \in Op,
         ops' = RemoveAt(ops, i) \/ ops' = Append(RemoveAt(ops, i), n),
         n.req = ops[i].req, n.kind \in Waits => ops[i].kind \in Waits,
         n.kind = "create" => pc'[n.req] = "creating",
         n.kind = "accept" => pc'[n.req] = "accepting",
         \A r \in Requests :
           r # ops[i].req \/ ops[i].kind \notin Waits => pc'[r] = pc[r]
  PROVE  Awaited'
<1> DEFINE rest == RemoveAt(ops, i)
<1>1. /\ rest \in Seq(Op) /\ Len(rest) \in Nat /\ DOMAIN rest = 1 .. Len(rest)
      /\ \A j \in DOMAIN rest : \E k \in DOMAIN ops \ {i} : rest[j] = ops[k]
      /\ \A j, l \in DOMAIN rest : j # l =>
           \E k, m \in DOMAIN ops \ {i} : k # m /\ rest[j] = ops[k] /\ rest[l] = ops[m]
  BY OthersStay DEF Data
<1> HIDE DEF rest
<1>2. /\ \A j \in DOMAIN rest : ops'[j] = rest[j]
      /\ \A j \in DOMAIN ops' : j \in DOMAIN rest \/ (j = Len(rest) + 1 /\ ops'[j] = n)
  <2>1. CASE ops' = rest
    BY <2>1
  <2>2. CASE ops' = Append(rest, n)
    BY <1>1, <2>2, AppendKeeps
  <2> QED  BY <2>1, <2>2 DEF rest
<1>3. \A k \in DOMAIN ops : ops[k] \in Op /\ ops[k].req \in Requests
  BY OpFields DEF Data
<1>4. \A k \in DOMAIN ops \ {i} :
        /\ ops[k].kind \in Waits => pc'[ops[k].req] = pc[ops[k].req]
        /\ n.kind \in Waits /\ ops[k].kind \in Waits => n.req # ops[k].req
  BY <1>3 DEF Awaited
<1>5. \A j \in DOMAIN ops' :
        /\ ops'[j].kind = "create" => pc'[ops'[j].req] = "creating"
        /\ ops'[j].kind = "accept" => pc'[ops'[j].req] = "accepting"
  <2>1. SUFFICES ASSUME NEW j \in DOMAIN ops'
                 PROVE  /\ ops'[j].kind = "create" => pc'[ops'[j].req] = "creating"
                        /\ ops'[j].kind = "accept" => pc'[ops'[j].req] = "accepting"
    OBVIOUS
  <2>2. CASE j \in DOMAIN rest
    <3>1. PICK k \in DOMAIN ops \ {i} : ops'[j] = ops[k]
      BY <1>1, <1>2, <2>2
    <3> QED  BY <1>4, <3>1 DEF Awaited, Waits
  <2>3. CASE ops'[j] = n
    BY <2>3
  <2> QED  BY <1>2, <2>2, <2>3
<1>6. ASSUME NEW j \in DOMAIN ops', NEW l \in DOMAIN ops', j # l,
             ops'[j].kind \in Waits, ops'[l].kind \in Waits
      PROVE  ops'[j].req # ops'[l].req
  <2>1. CASE j \in DOMAIN rest /\ l \in DOMAIN rest
    <3>1. PICK k \in DOMAIN ops \ {i}, m \in DOMAIN ops \ {i} :
            k # m /\ ops'[j] = ops[k] /\ ops'[l] = ops[m]
      BY <1>1, <1>2, <1>6, <2>1
    <3> QED  BY <1>6, <3>1 DEF Awaited
  <2>2. CASE j \in DOMAIN rest /\ l \notin DOMAIN rest
    <3>1. PICK k \in DOMAIN ops \ {i} : ops'[j] = ops[k]
      BY <1>1, <1>2, <2>2
    <3>2. ops'[l] = n
      BY <1>2, <2>2
    <3> QED  BY <1>4, <1>6, <3>1, <3>2
  <2>3. CASE j \notin DOMAIN rest /\ l \in DOMAIN rest
    <3>1. PICK k \in DOMAIN ops \ {i} : ops'[l] = ops[k]
      BY <1>1, <1>2, <2>3
    <3>2. ops'[j] = n
      BY <1>2, <2>3
    <3> QED  BY <1>4, <1>6, <3>1, <3>2
  <2> QED  BY <1>2, <1>6, <2>1, <2>2, <2>3
<1> QED  BY <1>5, <1>6 DEF Awaited, Waits

LEMMA AwaitedNext ==
  ASSUME MaxRecords \in Nat, Data, Awaited, AsyncStep
  PROVE  Awaited'
<1> USE DEF Waits
<1>0. \A i \in DOMAIN ops : ops[i] \in Op /\ ops[i].req \in Requests
  BY OpFields DEF Data
<1>1. ASSUME ops' = ops, \A r \in Requests : pc[r] \in {"creating", "accepting"} => pc'[r] = pc[r]
      PROVE  Awaited'
  BY <1>0, <1>1 DEF Awaited
<1>2. ASSUME NEW o \in Op, ops' = Append(ops, o), o.kind \notin Waits, pc' = pc
      PROVE  Awaited'
  BY <1>2, AwaitedCall
<1>3. CASE RestOf
  BY <1>1, <1>3 DEF RestOf
<1>4. CASE ReadOf
  <2> DEFINE n == Wrote(ops[1])
  <2>1. /\ 1 \in DOMAIN ops /\ ops' = Append(RemoveAt(ops, 1), n) /\ pc' = pc
        /\ n \in Op /\ n.req = ops[1].req /\ n.kind = ops[1].kind
    BY <1>0, <1>4, WroteIsOp DEF ReadOf, Data
  <2> HIDE DEF n
  <2>2. /\ n.kind = "create" => pc'[n.req] = "creating"
        /\ n.kind = "accept" => pc'[n.req] = "accepting"
    BY <2>1 DEF Awaited
  <2> QED  BY <2>1, <2>2, AwaitedEnd
<1>5. CASE Restart
  <2>1. ops' = <<>>
    BY <1>5 DEF Restart
  <2> QED  BY <2>1 DEF Awaited
<1>6. ASSUME NEW r \in Requests, Admit(r)
      PROVE  Awaited'
  <2> DEFINE n == NewOp(r, "create", "RUNNING")
  <2>1. n \in Op /\ n.req = r /\ n.kind = "create" /\ ops' = Append(ops, n)
    BY <1>6, NewOpIsOp, AdmitEffect
  <2> HIDE DEF n
  <2>2. pc'[r] = "creating" /\ pc[r] = "idle" /\ \A q \in Requests \ {r} : pc'[q] = pc[q]
    BY <1>6 DEF Admit, Data
  <2>3. \A i \in DOMAIN ops : ops[i].kind \in Waits => pc'[ops[i].req] = pc[ops[i].req]
    BY <1>0, <2>2 DEF Awaited
  <2> QED  BY <2>1, <2>2, <2>3, AwaitedCall
<1>7. ASSUME NEW r \in Requests, Refuse(r) \/ Fork(r) \/ ForkFails(r)
      PROVE  Awaited'
  BY <1>1, <1>7 DEF Refuse, Fork, ForkFails, Data
<1>8. ASSUME NEW r \in Requests, SettleOf(r)
      PROVE  Awaited'
  <2>1. PICK status \in Settled :
          /\ rec[r].row => ops' = Append(ops, NewOp(r, "finish", status))
          /\ ~rec[r].row => ops' = ops
    BY <1>8, SettleEffect
  <2>2. NewOp(r, "finish", status) \in Op /\ NewOp(r, "finish", status).kind = "finish"
    BY FinishOpIsOp
  <2> QED  BY <1>1, <1>2, <1>8, <2>1, <2>2 DEF SettleOf
<1>9. ASSUME NEW r \in Requests, ClearOf(r)
      PROVE  Awaited'
  BY <1>1, <1>9 DEF ClearOf, ClearTimer
<1>10. ASSUME NEW r \in Requests, ProgressOf(r)
       PROVE  Awaited'
  <2>1. NewOp(r, "progress", "RUNNING") \in Op /\ NewOp(r, "progress", "RUNNING").kind = "progress"
    BY NewOpIsOp
  <2> QED  BY <1>1, <1>2, <1>10, <2>1, ProgressEffect DEF ProgressOf
<1>11. ASSUME NEW i \in DOMAIN ops, NEW ok \in BOOLEAN, EndOf(i, ok)
       PROVE  Awaited'
  <2> DEFINE r == ops[i].req
  <2>1. ops[i] \in Op /\ r \in Requests
    BY <1>0
  <2>2. CASE ops[i].kind = "create"
    <3> DEFINE n == NewOp(r, "accept", "RUNNING")
    <3>1. n \in Op /\ n.req = r /\ n.kind = "accept"
      BY <2>1, NewOpIsOp
    <3>2. ops' = Append(RemoveAt(ops, i), n) /\ pc' = [pc EXCEPT ![r] = "accepting"]
      BY <1>11, <2>2, EndEffect
    <3> HIDE DEF n
    <3>3. pc'[r] = "accepting" /\ \A q \in Requests \ {r} : pc'[q] = pc[q]
      BY <2>1, <3>2 DEF Data
    <3> QED  BY <2>2, <3>1, <3>2, <3>3, AwaitedEnd
  <2>3. CASE ops[i].kind # "create"
    <3> DEFINE n == NewOp(r, "finish", "RUNNING")
    <3>1. n \in Op /\ n.req = r /\ n.kind = "finish"
      BY <2>1, NewOpIsOp
    <3>2. ops' = RemoveAt(ops, i)
          /\ ((pc' = [pc EXCEPT ![r] = "forking"] /\ ops[i].kind = "accept") \/ pc' = pc)
      BY <1>11, <2>3, EndEffect
    <3> HIDE DEF n
    <3>3. \A q \in Requests : q # r \/ ops[i].kind \notin Waits => pc'[q] = pc[q]
      BY <2>1, <3>2 DEF Data
    <3> QED  BY <3>1, <3>2, <3>3, AwaitedEnd
  <2> QED  BY <2>2, <2>3
<1> QED  BY <1>3, <1>4, <1>5, <1>6, <1>7, <1>8, <1>9, <1>10, <1>11 DEF AsyncStep

-----------------------------------------------------------------------------
(* Records, and what will end them                                         *)

\* A step changes the place of a handler and the status of its record together.
LEMMA RecordedNext ==
  ASSUME MaxRecords \in Nat, Data, Awaited, Recorded, AsyncStep
  PROVE  Recorded'
<1>1. CASE RestOf
  BY <1>1 DEF RestOf, Recorded
<1>2. CASE ReadOf
  BY <1>2 DEF ReadOf, Recorded
<1>3. CASE Restart
  BY <1>3 DEF Restart, Recorded, NoRecord
<1>4. ASSUME NEW r \in Requests, Admit(r) \/ Refuse(r)
      PROVE  Recorded'
  BY <1>4 DEF Admit, Refuse, Recorded, Data
<1>5. ASSUME NEW r \in Requests, Fork(r)
      PROVE  Recorded'
  <2>1. \A q \in Requests : rec'[q].status = rec[q].status
    BY <1>5, TimerSet DEF Fork, Data
  <2> QED  BY <1>5, <2>1 DEF Fork, Recorded, Data
<1>6. ASSUME NEW r \in Requests, ForkFails(r)
      PROVE  Recorded'
  BY <1>6 DEF ForkFails, Recorded, NoRecord, Data
<1>7. ASSUME NEW r \in Requests, SettleOf(r)
      PROVE  Recorded'
  <2>1. rec[r].status # "none" /\ pc' = pc
    BY <1>7 DEF SettleOf
  <2>2. PICK status \in Settled :
          rec'[r].status = status /\ \A q \in Requests \ {r} : rec'[q] = rec[q]
    BY <1>7, SettleEffect
  <2>3. rec'[r].status # "none"
    BY <2>2 DEF Settled
  <2> QED  BY <2>1, <2>2, <2>3 DEF Recorded
<1>8. ASSUME NEW r \in Requests, ClearOf(r)
      PROVE  Recorded'
  <2>1. \A q \in Requests : rec'[q].status = rec[q].status
    BY <1>8, TimerSet DEF ClearOf, ClearTimer, Data
  <2> QED  BY <1>8, <2>1 DEF ClearOf, Recorded
<1>9. ASSUME NEW r \in Requests, ProgressOf(r)
      PROVE  Recorded'
  BY <1>9 DEF ProgressOf, Recorded
<1>10. ASSUME NEW i \in DOMAIN ops, NEW ok \in BOOLEAN, EndOf(i, ok)
       PROVE  Recorded'
  <2> DEFINE r == ops[i].req
  <2>1. r \in Requests
    BY OpFields DEF Data
  <2> HIDE DEF r
  <2>2. CASE ops[i].kind = "create"
    <3>1. /\ rec'[r].status = "RUNNING" /\ \A q \in Requests \ {r} : rec'[q] = rec[q]
          /\ pc' = [pc EXCEPT ![r] = "accepting"]
      BY <1>10, <2>2, EndEffect DEF r
    <3> QED  BY <2>1, <3>1 DEF Recorded, Data
  <2>3. CASE ops[i].kind = "accept"
    <3>1. rec' = rec /\ pc' = [pc EXCEPT ![r] = "forking"]
      BY <1>10, <2>3, EndEffect DEF r
    <3>2. pc[r] = "accepting"
      BY <2>3 DEF Awaited, r
    <3> QED  BY <2>1, <3>1, <3>2 DEF Recorded, Data
  <2>4. CASE ops[i].kind \notin Waits
    <3>1. rec' = rec /\ pc' = pc
      BY <1>10, <2>4, EndEffect DEF Waits
    <3> QED  BY <3>1 DEF Recorded
  <2> QED  BY <2>2, <2>3, <2>4 DEF Waits
<1> QED  BY <1>1, <1>2, <1>3, <1>4, <1>5, <1>6, <1>7, <1>8, <1>9, <1>10 DEF AsyncStep

\* A step that lets a record go on running leaves it watched.
LEMMA WatchedNext ==
  ASSUME MaxRecords \in Nat, Data, Awaited, Recorded, RunningIsWatched, AsyncStep
  PROVE  RunningIsWatched'
<1>1. CASE RestOf
  BY <1>1 DEF RestOf, RunningIsWatched
<1>2. CASE ReadOf
  BY <1>2 DEF ReadOf, RunningIsWatched
<1>3. CASE Restart
  BY <1>3 DEF Restart, RunningIsWatched, NoRecord
<1>4. ASSUME NEW r \in Requests, Admit(r) \/ Refuse(r)
      PROVE  RunningIsWatched'
  BY <1>4 DEF Admit, Refuse, RunningIsWatched, Data
<1>5. ASSUME NEW r \in Requests, Fork(r)
      PROVE  RunningIsWatched'
  <2>1. rec'[r].timer /\ \A q \in Requests \ {r} : rec'[q] = rec[q]
    BY <1>5, TimerSet DEF Fork, Data
  <2> QED  BY <1>5, <2>1 DEF Fork, RunningIsWatched, Data
<1>6. ASSUME NEW r \in Requests, ForkFails(r)
      PROVE  RunningIsWatched'
  BY <1>6 DEF ForkFails, RunningIsWatched, NoRecord, Data
<1>7. ASSUME NEW r \in Requests, SettleOf(r)
      PROVE  RunningIsWatched'
  <2>1. PICK status \in Settled :
          rec'[r].status = status /\ \A q \in Requests \ {r} : rec'[q] = rec[q]
    BY <1>7, SettleEffect
  <2>2. rec'[r].status # "RUNNING"
    BY <2>1 DEF Settled
  <2> QED  BY <1>7, <2>1, <2>2 DEF SettleOf, RunningIsWatched
<1>8. ASSUME NEW r \in Requests, ClearOf(r)
      PROVE  RunningIsWatched'
  <2>1. rec'[r].status = rec[r].status /\ \A q \in Requests \ {r} : rec'[q] = rec[q]
    BY <1>8, TimerSet DEF ClearOf, ClearTimer, Data
  <2> QED  BY <1>8, <2>1 DEF ClearOf, RunningIsWatched
<1>9. ASSUME NEW r \in Requests, ProgressOf(r)
      PROVE  RunningIsWatched'
  BY <1>9 DEF ProgressOf, RunningIsWatched
<1>10. ASSUME NEW i \in DOMAIN ops, NEW ok \in BOOLEAN, EndOf(i, ok)
       PROVE  RunningIsWatched'
  <2> DEFINE r == ops[i].req
  <2>1. r \in Requests
    BY OpFields DEF Data
  <2> HIDE DEF r
  <2>2. CASE ops[i].kind = "create"
    <3>1. /\ \A q \in Requests \ {r} : rec'[q] = rec[q]
          /\ pc' = [pc EXCEPT ![r] = "accepting"]
      BY <1>10, <2>2, EndEffect DEF r
    <3> QED  BY <2>1, <3>1 DEF RunningIsWatched, Data
  <2>3. CASE ops[i].kind = "accept"
    <3>1. rec' = rec /\ pc' = [pc EXCEPT ![r] = "forking"]
      BY <1>10, <2>3, EndEffect DEF r
    <3> QED  BY <2>1, <3>1 DEF RunningIsWatched, Data
  <2>4. CASE ops[i].kind \notin Waits
    <3>1. rec' = rec /\ pc' = pc
      BY <1>10, <2>4, EndEffect DEF Waits
    <3> QED  BY <3>1 DEF RunningIsWatched
  <2> QED  BY <2>2, <2>3, <2>4 DEF Waits
<1> QED  BY <1>1, <1>2, <1>3, <1>4, <1>5, <1>6, <1>7, <1>8, <1>9, <1>10 DEF AsyncStep

-----------------------------------------------------------------------------
(* Capacity                                                                *)

\* A step after which no more requests run or are about to run
LEMMA CapacityKept ==
  ASSUME WithinCapacity, rivals' = rivals,
         (Running \cup Creating)' \subseteq Running \cup Creating
  PROVE  WithinCapacity'
BY DEF WithinCapacity

\* Nothing but a POST that finds room makes more of them.
LEMMA CapacityNext ==
  ASSUME IsFiniteSet(Requests), MaxBackground \in Nat,
         MaxRecords \in Nat, Data, Awaited, Recorded, WithinCapacity, AsyncStep
  PROVE  WithinCapacity'
<1> DEFINE All == Running \cup Creating
<1>1. All \subseteq Requests /\ IsFiniteSet(All) /\ IsFiniteSet(Running)
  BY FS_Subset DEF Running, Creating
<1>2. ASSUME rivals' = rivals,
             \A r \in Requests :
               /\ rec'[r].status = "RUNNING" => rec[r].status = "RUNNING" \/ pc[r] = "creating"
               /\ pc'[r] = "creating" => pc[r] = "creating"
      PROVE  WithinCapacity'
  <2>1. (Running \cup Creating)' \subseteq Running \cup Creating
    BY <1>2 DEF Running, Creating
  <2> QED  BY <1>2, <2>1, CapacityKept
<1>3. CASE RestOf
  BY <1>2, <1>3 DEF RestOf
<1>4. CASE ReadOf
  BY <1>2, <1>4 DEF ReadOf
<1>5. CASE Restart
  BY <1>2, <1>5 DEF Restart, NoRecord
<1>6. ASSUME NEW r \in Requests, Admit(r)
      PROVE  WithinCapacity'
  <2>1. /\ pc[r] = "idle" /\ Cardinality(Running) < MaxBackground
        /\ rivals' = rivals \cup {{r, q} : q \in {p \in Requests : pc[p] = "creating"}}
        /\ rec' = rec /\ pc' = [pc EXCEPT ![r] = "creating"]
    BY <1>6 DEF Admit
  <2>2. Running' = Running /\ Creating' \subseteq Creating \cup {r}
    BY <2>1 DEF Running, Creating, Data
  <2>3. SUFFICES ASSUME NEW S \in SUBSET (Running' \cup Creating'),
                        \A pair \in rivals' : ~(pair \subseteq S)
                 PROVE  Cardinality(S) <= MaxBackground
    BY DEF WithinCapacity
  <2>4. CASE r \notin S
    <3>1. S \in SUBSET (Running \cup Creating) /\ \A pair \in rivals : ~(pair \subseteq S)
      BY <2>1, <2>2, <2>3, <2>4
    <3> QED  BY <3>1 DEF WithinCapacity
  <2>5. CASE r \in S
    <3>1. S \subseteq Running \cup {r}
      <4>1. ASSUME NEW q \in S, q \in Creating
            PROVE  FALSE
        <5>1. {r, q} \in rivals'
          BY <2>1, <4>1 DEF Creating
        <5> QED  BY <2>3, <2>5, <4>1, <5>1
      <4> QED  BY <2>2, <4>1
    <3>2. /\ IsFiniteSet(Running \cup {r})
          /\ Cardinality(Running \cup {r}) <= Cardinality(Running) + 1
      <4>1. /\ IsFiniteSet(Running \cup {r})
            /\ Cardinality(Running \cup {r}) =
                 IF r \in Running THEN Cardinality(Running) ELSE Cardinality(Running) + 1
        BY <1>1, FS_AddElement
      <4>2. Cardinality(Running) \in Nat
        BY <1>1, FS_CardinalityType
      <4> QED  BY <4>1, <4>2
    <3>3. Cardinality(S) <= Cardinality(Running \cup {r})
      BY <3>1, <3>2, FS_Subset
    <3>4. /\ Cardinality(S) \in Nat /\ Cardinality(Running) \in Nat
          /\ Cardinality(Running \cup {r}) \in Nat
      BY <1>1, <3>1, <3>2, FS_Subset, FS_CardinalityType
    <3> QED  BY <2>1, <3>2, <3>3, <3>4
  <2> QED  BY <2>4, <2>5
<1>7. ASSUME NEW r \in Requests, Refuse(r)
      PROVE  WithinCapacity'
  BY <1>2, <1>7 DEF Refuse, Data, processVars
<1>8. ASSUME NEW r \in Requests, Fork(r)
      PROVE  WithinCapacity'
  <2>1. \A q \in Requests : rec'[q].status = rec[q].status
    BY <1>8, TimerSet DEF Fork, Data
  <2> QED  BY <1>2, <1>8, <2>1 DEF Fork, Data, processVars
<1>9. ASSUME NEW r \in Requests, ForkFails(r)
      PROVE  WithinCapacity'
  BY <1>2, <1>9 DEF ForkFails, NoRecord, Data, processVars
<1>10. ASSUME NEW r \in Requests, SettleOf(r)
       PROVE  WithinCapacity'
  <2>1. PICK status \in Settled :
          rec'[r].status = status /\ \A q \in Requests \ {r} : rec'[q] = rec[q]
    BY <1>10, SettleEffect
  <2>2. rec'[r].status # "RUNNING"
    BY <2>1 DEF Settled
  <2> QED  BY <1>2, <1>10, <2>1, <2>2 DEF SettleOf
<1>11. ASSUME NEW r \in Requests, ClearOf(r)
       PROVE  WithinCapacity'
  <2>1. \A q \in Requests : rec'[q].status = rec[q].status
    BY <1>11, TimerSet DEF ClearOf, ClearTimer, Data
  <2> QED  BY <1>2, <1>11, <2>1 DEF ClearOf
<1>12. ASSUME NEW r \in Requests, ProgressOf(r)
       PROVE  WithinCapacity'
  BY <1>2, <1>12 DEF ProgressOf
<1>13. ASSUME NEW i \in DOMAIN ops, NEW ok \in BOOLEAN, EndOf(i, ok)
       PROVE  WithinCapacity'
  <2> DEFINE r == ops[i].req
  <2>1. r \in Requests /\ rivals' = rivals
    BY <1>13, OpFields DEF Data, EndOf
  <2> HIDE DEF r
  <2>2. CASE ops[i].kind = "create"
    <3>1. /\ \A q \in Requests \ {r} : rec'[q] = rec[q]
          /\ pc' = [pc EXCEPT ![r] = "accepting"]
      BY <1>13, <2>2, EndEffect DEF r
    <3>2. pc[r] = "creating"
      BY <2>2 DEF Awaited, r
    <3> QED  BY <1>2, <2>1, <3>1, <3>2 DEF Data
  <2>3. CASE ops[i].kind = "accept"
    <3>1. rec' = rec /\ pc' = [pc EXCEPT ![r] = "forking"]
      BY <1>13, <2>3, EndEffect DEF r
    <3> QED  BY <1>2, <2>1, <3>1 DEF Data
  <2>4. CASE ops[i].kind \notin Waits
    <3>1. rec' = rec /\ pc' = pc
      BY <1>13, <2>4, EndEffect DEF Waits
    <3> QED  BY <1>2, <2>1, <3>1
  <2> QED  BY <2>2, <2>3, <2>4 DEF Waits
<1> QED  BY <1>3, <1>4, <1>5, <1>6, <1>7, <1>8, <1>9, <1>10, <1>11, <1>12, <1>13 DEF AsyncStep

-----------------------------------------------------------------------------
(* Rows, and what will be written                                          *)

LEMMA RowsOfApply ==
  ASSUME MaxRecords \in Nat, NEW rows \in Seq(Row), NEW o \in Op, NEW r \in Requests
  PROVE  /\ HasRow(Newest(rows), r) => HasRow(rows, r)
         /\ HasRow(Apply(rows, o), r) => HasRow(rows, r) \/ (o.kind = "create" /\ o.req = r)
<1>1. HasRow(Newest(rows), r) => HasRow(rows, r)
  BY NewestKeeps DEF HasRow
<1>2. ASSUME HasRow(Apply(rows, o), r)
      PROVE  HasRow(rows, r) \/ (o.kind = "create" /\ o.req = r)
  <2> DEFINE new == Apply(rows, o)
  <2>1. PICK i \in DOMAIN new : new[i].req = r
    BY <1>2 DEF HasRow
  <2>2. \/ o.kind = "create" /\ new[i].req = o.req
        \/ \E j \in DOMAIN rows : new[i].req = rows[j].req
    BY ApplyKeeps
  <2> HIDE DEF new
  <2> QED  BY <2>1, <2>2 DEF HasRow
<1> QED  BY <1>1, <1>2

\* Where the operations in flight after a step come from
LEMMA OpsOrigin ==
  ASSUME MaxRecords \in Nat, Data, AsyncStep, NEW j \in DOMAIN ops'
  PROVE  \/ \E k \in DOMAIN ops : ops'[j] = ops[k]
         \/ ops'[j].list = <<>> /\ ~ops'[j].writing
         \/ ReadOf /\ ops'[j] = Wrote(ops[1])
<1> DEFINE Goal == \/ \E k \in DOMAIN ops : ops'[j] = ops[k]
                   \/ ops'[j].list = <<>> /\ ~ops'[j].writing
                   \/ ReadOf /\ ops'[j] = Wrote(ops[1])
<1>1. ASSUME ops' = ops
      PROVE  Goal
  BY <1>1
<1>2. ASSUME NEW o \in Op, ops' = Append(ops, o), o.list = <<>>, ~o.writing
      PROVE  Goal
  <2>1. (j \in DOMAIN ops /\ ops'[j] = ops[j]) \/ ops'[j] = o
    BY <1>2, AppendKeeps DEF Data
  <2> QED  BY <1>2, <2>1
<1>3. CASE RestOf
  BY <1>1, <1>3 DEF RestOf
<1>4. CASE ReadOf
  <2>1. /\ 1 \in DOMAIN ops /\ ops' = Append(RemoveAt(ops, 1), Wrote(ops[1])) /\ ops[1] \in Op
    BY <1>4 DEF ReadOf, Data
  <2>2. Wrote(ops[1]) \in Op
    BY <2>1, WroteIsOp DEF Data
  <2>3. /\ RemoveAt(ops, 1) \in Seq(Op)
        /\ \A m \in DOMAIN RemoveAt(ops, 1) : \E k \in DOMAIN ops : RemoveAt(ops, 1)[m] = ops[k]
    BY <2>1, OthersStay DEF Data
  <2>4. \/ j \in DOMAIN RemoveAt(ops, 1) /\ ops'[j] = RemoveAt(ops, 1)[j]
        \/ ops'[j] = Wrote(ops[1])
    BY <2>1, <2>2, <2>3, AppendKeeps
  <2> QED  BY <1>4, <2>3, <2>4
<1>5. CASE Restart
  BY <1>5 DEF Restart
<1>6. ASSUME NEW r \in Requests, Admit(r)
      PROVE  Goal
  BY <1>2, <1>6, NewOpIsOp, AdmitEffect
<1>7. ASSUME NEW r \in Requests, Refuse(r) \/ Fork(r) \/ ForkFails(r) \/ ClearOf(r)
      PROVE  Goal
  BY <1>1, <1>7 DEF Refuse, Fork, ForkFails, ClearOf, ClearTimer
<1>8. ASSUME NEW r \in Requests, SettleOf(r)
      PROVE  Goal
  <2>1. PICK status \in Settled :
          /\ rec[r].row => ops' = Append(ops, NewOp(r, "finish", status))
          /\ ~rec[r].row => ops' = ops
    BY <1>8, SettleEffect
  <2>2. /\ NewOp(r, "finish", status) \in Op /\ NewOp(r, "finish", status).list = <<>>
        /\ ~NewOp(r, "finish", status).writing
    BY FinishOpIsOp
  <2> HIDE DEF Goal
  <2> QED  BY <1>1, <1>2, <2>1, <2>2
<1>9. ASSUME NEW r \in Requests, ProgressOf(r)
      PROVE  Goal
  <2>1. /\ NewOp(r, "progress", "RUNNING") \in Op /\ NewOp(r, "progress", "RUNNING").list = <<>>
        /\ ~NewOp(r, "progress", "RUNNING").writing
    BY NewOpIsOp
  <2> HIDE DEF Goal
  <2> QED  BY <1>1, <1>2, <1>9, <2>1, ProgressEffect
<1>10. ASSUME NEW i \in DOMAIN ops, NEW ok \in BOOLEAN, EndOf(i, ok)
       PROVE  Goal
  <2> DEFINE rest == RemoveAt(ops, i)
             n == NewOp(ops[i].req, "accept", "RUNNING")
  <2>1. /\ rest \in Seq(Op)
        /\ \A m \in DOMAIN rest : \E k \in DOMAIN ops : rest[m] = ops[k]
    BY OthersStay DEF Data
  <2>2. ops[i].req \in Requests
    BY OpFields DEF Data
  <2>3. n \in Op /\ n.list = <<>> /\ ~n.writing
    BY <2>2, NewOpIsOp
  <2>4. ops' = rest \/ ops' = Append(rest, n)
    BY <1>10, EndEffect
  <2> HIDE DEF rest, n
  <2>5. (j \in DOMAIN rest /\ ops'[j] = rest[j]) \/ ops'[j] = n
    BY <2>1, <2>3, <2>4, AppendKeeps
  <2> QED  BY <2>1, <2>3, <2>5
<1> QED  BY <1>3, <1>4, <1>5, <1>6, <1>7, <1>8, <1>9, <1>10 DEF AsyncStep

\* Where the rows after a step come from
LEMMA StoreOrigin ==
  ASSUME Data, AsyncStep
  PROVE  /\ backend' = backend
         /\ \/ store' = store
            \/ \E i \in DOMAIN ops :
                 /\ ops[i].kind = "create" => pc'[ops[i].req] = "accepting"
                 /\ \/ backend = "json" /\ store' = ops[i].list
                    \/ backend = "postgres" /\ store' = Apply(store, ops[i])
<1>1. ASSUME NEW r \in Requests,
             \/ Admit(r) \/ Refuse(r) \/ Fork(r) \/ ForkFails(r)
             \/ SettleOf(r) \/ ClearOf(r) \/ ProgressOf(r)
      PROVE  backend' = backend /\ store' = store
  BY <1>1 DEF Admit, Refuse, Fork, ForkFails, SettleOf, ClearOf, ProgressOf, processVars
<1>2. CASE RestOf \/ ReadOf \/ Restart
  BY <1>2 DEF RestOf, ReadOf, Restart
<1>3. ASSUME NEW i \in DOMAIN ops, NEW ok \in BOOLEAN, EndOf(i, ok)
      PROVE  /\ backend' = backend
             /\ \/ store' = store
                \/ /\ ops[i].kind = "create" => pc'[ops[i].req] = "accepting"
                   /\ \/ backend = "json" /\ store' = ops[i].list
                      \/ backend = "postgres" /\ store' = Apply(store, ops[i])
  <2>1. ops[i].req \in Requests
    BY OpFields DEF Data
  <2>2. ASSUME ops[i].kind = "create"
        PROVE  pc'[ops[i].req] = "accepting"
    <3>1. pc' = [pc EXCEPT ![ops[i].req] = "accepting"]
      BY <1>3, <2>2, EndEffect
    <3> QED  BY <2>1, <3>1 DEF Data
  <2> QED  BY <1>3, <2>2 DEF EndOf
<1> QED  BY <1>1, <1>2, <1>3 DEF AsyncStep

\* Nobody goes back to before create().
LEMMA PlaceBack ==
  ASSUME Data, AsyncStep, NEW r \in Requests, pc'[r] \in {"idle", "creating"}
  PROVE  pc[r] \in {"idle", "creating"}
<1>1. CASE RestOf \/ ReadOf \/ Restart
  BY <1>1 DEF RestOf, ReadOf, Restart, Data
<1>2. ASSUME NEW q \in Requests,
             \/ Admit(q) \/ Refuse(q) \/ Fork(q) \/ ForkFails(q)
             \/ SettleOf(q) \/ ClearOf(q) \/ ProgressOf(q)
      PROVE  pc[r] \in {"idle", "creating"}
  BY <1>2 DEF Admit, Refuse, Fork, ForkFails, SettleOf, ClearOf, ProgressOf, Data
<1>3. ASSUME NEW i \in DOMAIN ops, NEW ok \in BOOLEAN, EndOf(i, ok)
      PROVE  pc[r] \in {"idle", "creating"}
  <2>1. \/ pc' = [pc EXCEPT ![ops[i].req] = "accepting"]
        \/ pc' = [pc EXCEPT ![ops[i].req] = "forking"]
        \/ pc' = pc
    BY <1>3, EndEffect
  <2> QED  BY <2>1 DEF Data
<1> QED  BY <1>1, <1>2, <1>3 DEF AsyncStep

LEMMA UnwrittenNext ==
  ASSUME MaxRecords \in Nat, Data, Unwritten, AsyncStep
  PROVE  Unwritten'
<1> SUFFICES ASSUME NEW r \in Requests, pc'[r] \in {"idle", "creating"}
             PROVE  /\ ~HasRow(store', r)
                    /\ \A j \in DOMAIN ops' :
                         HasRow(ops'[j].list, r) => ops'[j].kind = "create" /\ ops'[j].req = r
  BY DEF Unwritten, HasRow
<1>1. /\ ~HasRow(store, r)
      /\ \A i \in DOMAIN ops : HasRow(ops[i].list, r) => ops[i].kind = "create" /\ ops[i].req = r
  BY PlaceBack DEF Unwritten
<1>2. \A i \in DOMAIN ops : ops[i] \in Op
  BY DEF Data
<1>3. ~HasRow(store', r)
  <2>1. CASE store' = store
    BY <1>1, <2>1
  <2>2. ASSUME NEW i \in DOMAIN ops,
               ops[i].kind = "create" => pc'[ops[i].req] = "accepting",
               store' = ops[i].list \/ store' = Apply(store, ops[i])
        PROVE  ~HasRow(store', r)
    <3>1. HasRow(store', r) => ops[i].kind = "create" /\ ops[i].req = r
      BY <1>1, <1>2, <2>2, RowsOfApply DEF Data
    <3> QED  BY <2>2, <3>1
  <2> QED  BY <2>1, <2>2, StoreOrigin
<1>4. ASSUME NEW j \in DOMAIN ops', HasRow(ops'[j].list, r)
      PROVE  ops'[j].kind = "create" /\ ops'[j].req = r
  <2>1. CASE \E k \in DOMAIN ops : ops'[j] = ops[k]
    BY <1>1, <1>4, <2>1
  <2>2. CASE ops'[j].list = <<>>
    BY <1>4, <2>2 DEF HasRow
  <2>3. CASE ReadOf /\ ops'[j] = Wrote(ops[1])
    <3>1. 1 \in DOMAIN ops /\ ops[1] \in Op
      BY <1>2, <2>3 DEF ReadOf
    <3>2. /\ ops'[j].req = ops[1].req /\ ops'[j].kind = ops[1].kind
          /\ ops'[j].list = Apply(Newest(store), ops[1])
      BY <2>3, <3>1, WroteIsOp DEF Data
    <3>3. Newest(store) \in Seq(Row)
      BY NewestKeeps DEF Data
    <3>4. \/ HasRow(Newest(store), r)
          \/ ops[1].kind = "create" /\ ops[1].req = r
      BY <1>4, <3>1, <3>2, <3>3, RowsOfApply
    <3> QED  BY <1>1, <3>2, <3>4, RowsOfApply, <3>1 DEF Data
  <2> QED  BY <2>1, <2>2, <2>3, OpsOrigin
<1> QED  BY <1>3, <1>4

LEMMA CutNext ==
  ASSUME MaxRecords \in Nat, Data, Cut, AsyncStep
  PROVE  Cut'
<1> SUFFICES ASSUME backend = "json"
             PROVE  /\ Len(store') <= MaxRecords
                    /\ \A j \in DOMAIN ops' : Len(ops'[j].list) <= MaxRecords
  BY StoreOrigin DEF Cut
<1>1. Len(store) <= MaxRecords /\ \A i \in DOMAIN ops : Len(ops[i].list) <= MaxRecords
  BY DEF Cut
<1>2. Len(store') <= MaxRecords
  BY <1>1, StoreOrigin
<1>3. ASSUME NEW j \in DOMAIN ops'
      PROVE  Len(ops'[j].list) <= MaxRecords
  <2>1. CASE \E k \in DOMAIN ops : ops'[j] = ops[k]
    BY <1>1, <2>1
  <2>2. CASE ops'[j].list = <<>>
    BY <2>2
  <2>3. CASE ReadOf /\ ops'[j] = Wrote(ops[1])
    <3>1. 1 \in DOMAIN ops /\ ops[1] \in Op
      BY <2>3 DEF ReadOf, Data
    <3>2. ops'[j].list = Apply(Newest(store), ops[1])
      BY <2>3, <3>1, WroteIsOp DEF Data
    <3>3. Newest(store) \in Seq(Row) /\ Len(Newest(store)) <= MaxRecords
      BY NewestKeeps DEF Data
    <3> QED  BY <3>1, <3>2, <3>3, ApplyKeeps
  <2> QED  BY <2>1, <2>2, <2>3, OpsOrigin
<1> QED  BY <1>2, <1>3

-----------------------------------------------------------------------------
(* A store without overlapping or failed operations                        *)

\* One operation in flight and no other
LEMMA OnlyOp ==
  ASSUME Data, Len(ops) <= 1
  PROVE  /\ ops # <<>> => DOMAIN ops = {1} /\ Len(ops) = 1
         /\ ops = <<>> => DOMAIN ops = {}
         /\ \A i \in DOMAIN ops : i = 1 /\ RemoveAt(ops, i) = <<>>
<1>1. Len(ops) \in Nat /\ DOMAIN ops = 1 .. Len(ops)
  BY DEF Data
<1>2. ASSUME NEW i \in DOMAIN ops
      PROVE  i = 1 /\ RemoveAt(ops, i) = <<>>
  <2>1. i = 1 /\ Len(ops) = 1
    BY <1>1, <1>2
  <2>2. RemoveAt(ops, i) \in Seq(Op) /\ Len(RemoveAt(ops, i)) = 0
    BY <1>2, <2>1, OthersStay DEF Data
  <2> QED  BY <2>1, <2>2
<1> QED  BY <1>1, <1>2 DEF Data

\* The operation called when none is in flight
LEMMA FirstOp ==
  ASSUME NEW o \in Op
  PROVE  LET q == Append(<<>>, o)
         IN  DOMAIN q = {1} /\ Len(q) = 1 /\ q[1] = o
OBVIOUS

LEMMA PlannedKept ==
  ASSUME NEW i \in DOMAIN ops, NEW j \in DOMAIN ops', ops'[j] = ops[i],
         store' = store, backend' = backend, Planned(i)
  PROVE  Planned(j)'
BY DEF Planned, Apply, CreateRow, FinishRow, Newest

\* A step that leaves store and operations alone
LEMMA ToldRest ==
  ASSUME Data, Told, ops' = ops, store' = store, disturbed' = disturbed, backend' = backend,
         \A r \in Requests :
           \/ rec'[r].status = rec[r].status /\ rec'[r].row = rec[r].row
           \/ rec'[r].status = "none"
  PROVE  Told'
<1> SUFFICES ASSUME ~disturbed
             PROVE  Told'
  BY DEF Told
<1>1. \A i \in DOMAIN ops : ops[i].req \in Requests
  BY OpFields DEF Data
<1>2. \A i \in DOMAIN ops : Planned(i)'
  BY PlannedKept DEF Told
<1>3. \A r \in Requests : Finishes(r)' = Finishes(r)
  BY DEF Finishes
<1>4. \A i \in DOMAIN ops :
        ops[i].kind = "finish" => rec'[ops[i].req].status \in {"none", ops[i].status}
  BY <1>1 DEF Told
<1>5. ASSUME NEW r \in Requests
      PROVE  /\ rec'[r].status # "none" => rec'[r].row
             /\ rec'[r].status \in Settled =>
                  \A i \in DOMAIN store : store[i].req = r =>
                    store[i].status = rec'[r].status \/ Finishes(r)
  <2>1. CASE rec'[r].status = rec[r].status /\ rec'[r].row = rec[r].row
    BY <2>1 DEF Told
  <2>2. CASE rec'[r].status = "none"
    BY <2>2 DEF Settled
  <2> QED  BY <2>1, <2>2
<1> QED  BY <1>2, <1>3, <1>4, <1>5 DEF Told

\* A step that calls the store while no operation is in flight
LEMMA ToldCall ==
  ASSUME Data, Told, NEW o \in Op, ops' = Append(ops, o), ~o.writing,
         disturbed' = (disturbed \/ ops # <<>>), store' = store,
         \A r \in Requests :
           /\ rec'[r].status # "none" => rec[r].status # "none" /\ rec'[r].row = rec[r].row
           /\ rec'[r].status # rec[r].status => o.kind = "finish" /\ o.req = r,
         o.kind = "finish" => rec'[o.req].status = o.status
  PROVE  Told'
<1> SUFFICES ASSUME ~disturbed, ops = <<>>
             PROVE  Told'
  BY DEF Told
<1>1. DOMAIN ops' = {1} /\ Len(ops') = 1 /\ ops'[1] = o
  BY FirstOp
<1>2. Planned(1)'
  BY <1>1 DEF Planned
<1>3. \A r \in Requests : ~Finishes(r) /\ (Finishes(r)' <=> o.kind = "finish" /\ o.req = r)
  BY <1>1 DEF Finishes
<1>4. ASSUME NEW r \in Requests
      PROVE  /\ rec'[r].status # "none" => rec'[r].row
             /\ rec'[r].status \in Settled =>
                  \A i \in DOMAIN store : store[i].req = r =>
                    store[i].status = rec'[r].status \/ Finishes(r)'
  <2>1. CASE rec'[r].status = rec[r].status
    BY <1>3, <2>1 DEF Told
  <2>2. CASE rec'[r].status # rec[r].status
    BY <1>3, <2>2 DEF Told
  <2> QED  BY <2>1, <2>2
<1> QED  BY <1>1, <1>2, <1>4 DEF Told

\* The one operation in flight ends and is not disturbed.
LEMMA ToldEnd ==
  ASSUME MaxRecords \in Nat, Data, Awaited, Recorded, Cut, Told, ~disturbed',
         NEW i \in DOMAIN ops, NEW ok \in BOOLEAN, EndOf(i, ok)
  PROVE  Told'
<1> DEFINE o == ops[i]
           q == o.req
           a == NewOp(q, "accept", "RUNNING")
<1>1. ~disturbed /\ ok
  BY EndEffect
<1>2. Len(ops) <= 1 /\ i = 1 /\ Len(ops) = 1 /\ RemoveAt(ops, i) = <<>>
  BY <1>1, OnlyOp DEF Told
<1>3. o \in Op /\ q \in Requests
  BY OpFields DEF Data
<1>4. Newest(store) = store
  BY NewestKeeps DEF Cut, Data
<1>5. /\ Planned(i)
      /\ o.kind = "finish" => rec[q].status \in {"none", o.status}
      /\ \A r \in Requests :
           /\ rec[r].status # "none" => rec[r].row
           /\ rec[r].status \in Settled =>
                \A k \in DOMAIN store : store[k].req = r =>
                  store[k].status = rec[r].status \/ (o.kind = "finish" /\ q = r)
  BY <1>1, <1>2 DEF Told, Finishes
\* the rows after the step
<1>6. \/ store' = store /\ o.kind # "create" /\ ~HasRow(store, q)
      \/ store' = Apply(store, o)
  BY <1>1, <1>4, <1>5 DEF EndOf, Planned
<1>7. \A k \in DOMAIN store' :
        \/ o.kind = "create" /\ store'[k].req = q
        \/ \E j \in DOMAIN store :
             /\ store'[k].req = store[j].req
             /\ \/ store'[k].status = store[j].status
                \/ o.kind = "finish" /\ store[j].req = q
             /\ o.kind = "finish" /\ store[j].req = q => store'[k].status = o.status
  <2>1. CASE store' = store /\ ~HasRow(store, q)
    BY <2>1 DEF HasRow
  <2>2. CASE store' = Apply(store, o)
    <3> DEFINE new == Apply(store, o)
    <3>1. \A k \in DOMAIN new :
            \/ o.kind = "create" /\ new[k].req = q
            \/ \E j \in DOMAIN store :
                 /\ new[k].req = store[j].req
                 /\ \/ new[k].status = store[j].status
                    \/ o.kind = "finish" /\ store[j].req = q
                 /\ o.kind = "finish" /\ store[j].req = q => new[k].status = o.status
      BY <1>3, ApplyKeeps DEF Data
    <3> HIDE DEF new, o
    <3> QED  BY <2>2, <3>1 DEF new
  <2> QED  BY <1>6, <2>1, <2>2
\* the records after the step
<1>8. \/ /\ o.kind = "create"
         /\ rec'[q].status = "RUNNING" /\ rec'[q].row
         /\ \A r \in Requests \ {q} : rec'[r] = rec[r]
         /\ ops' = Append(<<>>, a)
      \/ o.kind # "create" /\ rec' = rec /\ ops' = <<>>
  BY <1>1, <1>2, EndEffect
<1>9. a \in Op /\ a.kind = "accept" /\ ~a.writing
  BY <1>3, NewOpIsOp
<1> HIDE DEF a, o, q
<1>10. /\ Len(ops') <= 1
       /\ \A k \in DOMAIN ops' : ops'[k].kind # "finish" /\ ~ops'[k].writing
  <2>1. CASE ops' = Append(<<>>, a)
    <3>1. DOMAIN ops' = {1} /\ Len(ops') = 1 /\ ops'[1] = a
      BY <1>9, <2>1, FirstOp
    <3> QED  BY <1>9, <3>1
  <2>2. CASE ops' = <<>>
    BY <2>2
  <2> QED  BY <1>8, <2>1, <2>2
<1>11. ASSUME NEW r \in Requests
       PROVE  /\ rec'[r].status # "none" => rec'[r].row
              /\ rec'[r].status \in Settled =>
                   \A k \in DOMAIN store' : store'[k].req = r => store'[k].status = rec'[r].status
  <2>1. CASE o.kind = "create" /\ r = q
    BY <1>8, <2>1 DEF Settled
  <2>2. CASE ~(o.kind = "create" /\ r = q)
    <3>1. rec'[r] = rec[r]
      BY <1>8, <2>2
    <3>2. SUFFICES ASSUME rec[r].status \in Settled,
                          NEW k \in DOMAIN store', store'[k].req = r
                   PROVE  store'[k].status = rec[r].status
      BY <1>5, <3>1
    <3>3. PICK j \in DOMAIN store :
             /\ store'[k].req = store[j].req
             /\ \/ store'[k].status = store[j].status
                \/ o.kind = "finish" /\ store[j].req = q
             /\ o.kind = "finish" /\ store[j].req = q => store'[k].status = o.status
      BY <1>7, <2>2, <3>2
    <3>4. CASE o.kind = "finish" /\ q = r
      <4>1. rec[r].status = o.status
        BY <1>5, <3>2, <3>4 DEF Settled
      <4> QED  BY <3>2, <3>3, <3>4, <4>1
    <3>5. CASE ~(o.kind = "finish" /\ q = r)
      BY <1>5, <3>2, <3>3, <3>5
    <3> QED  BY <3>4, <3>5
  <2> QED  BY <2>1, <2>2
<1> QED  BY <1>10, <1>11 DEF Told, Planned

LEMMA ToldNext ==
  ASSUME MaxRecords \in Nat, Data, Awaited, Recorded, Cut, Told, AsyncStep
  PROVE  Told'
<1> SUFFICES ASSUME ~disturbed'
             PROVE  Told'
  BY DEF Told
<1>1. CASE RestOf
  BY <1>1, ToldRest DEF RestOf
<1>2. CASE ReadOf
  <2> DEFINE o == ops[1]
             w == Wrote(o)
  <2>1. ~disturbed /\ store' = store /\ rec' = rec /\ backend' = backend
    BY <1>2 DEF ReadOf
  <2>2. o \in Op /\ 1 \in DOMAIN ops
    BY <1>2 DEF ReadOf, Data
  <2>3. Len(ops) <= 1 /\ Len(ops) = 1 /\ RemoveAt(ops, 1) = <<>>
    BY <2>1, <2>2, OnlyOp DEF Told
  <2>4. Newest(store) = store
    BY NewestKeeps DEF Cut, Data
  <2>5. /\ w \in Op /\ w.req = o.req /\ w.kind = o.kind /\ w.status = o.status
        /\ w.list = Apply(store, o)
    BY <2>2, <2>4, WroteIsOp DEF Data
  <2>6. ops' = Append(<<>>, w)
    BY <1>2, <2>3 DEF ReadOf
  <2> HIDE DEF w
  <2>7. DOMAIN ops' = {1} /\ Len(ops') = 1 /\ ops'[1] = w
    BY <2>5, <2>6, FirstOp
  <2>8. Planned(1)'
    BY <2>1, <2>5, <2>7 DEF Planned, Apply, CreateRow, FinishRow, Newest
  <2>9. \A r \in Requests : Finishes(r)' = Finishes(r)
    BY <2>3, <2>5, <2>7 DEF Finishes
  <2>10. o.kind = "finish" => rec[o.req].status \in {"none", o.status}
    BY <2>1, <2>2 DEF Told
  <2>11. \A i \in DOMAIN ops' :
           ops'[i].kind = "finish" => rec'[ops'[i].req].status \in {"none", ops'[i].status}
    BY <2>1, <2>5, <2>7, <2>10
  <2> HIDE DEF o
  <2> QED  BY <2>1, <2>7, <2>8, <2>9, <2>11 DEF Told
<1>3. CASE Restart
  <2>1. ops' = <<>> /\ \A r \in Requests : rec'[r].status = "none"
    BY <1>3 DEF Restart, NoRecord
  <2> QED  BY <2>1 DEF Told, Settled
<1>4. ASSUME NEW r \in Requests, Admit(r)
      PROVE  Told'
  <2> DEFINE n == NewOp(r, "create", "RUNNING")
  <2>1. n \in Op /\ n.kind = "create" /\ ~n.writing
    BY NewOpIsOp
  <2>2. ops' = Append(ops, n) /\ disturbed' = (disturbed \/ ops # <<>>)
    BY <1>4, AdmitEffect
  <2>3. rec' = rec /\ store' = store
    BY <1>4 DEF Admit
  <2> HIDE DEF n
  <2> QED  BY <2>1, <2>2, <2>3, ToldCall
<1>5. ASSUME NEW r \in Requests, Refuse(r)
      PROVE  Told'
  BY <1>5, ToldRest DEF Refuse, processVars
<1>6. ASSUME NEW r \in Requests, Fork(r)
      PROVE  Told'
  <2>1. \A q \in Requests : rec'[q].status = rec[q].status /\ rec'[q].row = rec[q].row
    BY <1>6, TimerSet DEF Fork, Data
  <2>2. ops' = ops /\ store' = store /\ disturbed' = disturbed /\ backend' = backend
    BY <1>6 DEF Fork, processVars
  <2> QED  BY <2>1, <2>2, ToldRest
<1>7. ASSUME NEW r \in Requests, ForkFails(r)
      PROVE  Told'
  <2>1. \A q \in Requests : rec'[q] = rec[q] \/ rec'[q].status = "none"
    BY <1>7 DEF ForkFails, NoRecord, Data
  <2>2. ops' = ops /\ store' = store /\ disturbed' = disturbed /\ backend' = backend
    BY <1>7 DEF ForkFails, processVars
  <2> QED  BY <2>1, <2>2, ToldRest
<1>8. ASSUME NEW r \in Requests, SettleOf(r)
      PROVE  Told'
  <2>1. PICK status \in Settled :
          /\ rec'[r].status = status /\ rec'[r].row = rec[r].row
          /\ \A q \in Requests \ {r} : rec'[q] = rec[q]
          /\ rec[r].row => /\ ops' = Append(ops, NewOp(r, "finish", status))
                           /\ disturbed' = (disturbed \/ ops # <<>>)
          /\ ~rec[r].row => ops' = ops /\ disturbed' = disturbed
    BY <1>8, SettleEffect
  <2>2. ~disturbed /\ rec[r].status # "none" /\ store' = store
    BY <1>8 DEF SettleOf, Settle, CallStore
  <2>3. rec[r].row
    BY <2>2 DEF Told
  <2> DEFINE n == NewOp(r, "finish", status)
  <2>4. n \in Op /\ n.kind = "finish" /\ n.req = r /\ n.status = status /\ ~n.writing
    BY FinishOpIsOp
  <2>5. ops' = Append(ops, n) /\ disturbed' = (disturbed \/ ops # <<>>)
    BY <2>1, <2>3
  <2> HIDE DEF n
  <2> QED  BY <2>1, <2>2, <2>4, <2>5, ToldCall
<1>9. ASSUME NEW r \in Requests, ClearOf(r)
      PROVE  Told'
  <2>1. \A q \in Requests : rec'[q].status = rec[q].status /\ rec'[q].row = rec[q].row
    BY <1>9, TimerSet DEF ClearOf, ClearTimer, Data
  <2>2. ops' = ops /\ store' = store /\ disturbed' = disturbed /\ backend' = backend
    BY <1>9 DEF ClearOf, ClearTimer
  <2> QED  BY <2>1, <2>2, ToldRest
<1>10. ASSUME NEW r \in Requests, ProgressOf(r)
       PROVE  Told'
  <2> DEFINE n == NewOp(r, "progress", "RUNNING")
  <2>1. n \in Op /\ n.kind = "progress" /\ ~n.writing
    BY NewOpIsOp
  <2>2. rec' = rec /\ store' = store /\ backend' = backend
    BY <1>10 DEF ProgressOf
  <2>3. CASE ops' = ops /\ disturbed' = disturbed
    BY <2>2, <2>3, ToldRest
  <2>4. CASE ops' = Append(ops, n) /\ disturbed' = (disturbed \/ ops # <<>>)
    <3> HIDE DEF n
    <3> QED  BY <2>1, <2>2, <2>4, ToldCall
  <2> QED  BY <1>10, <2>3, <2>4, ProgressEffect
<1>11. ASSUME NEW i \in DOMAIN ops, NEW ok \in BOOLEAN, EndOf(i, ok)
       PROVE  Told'
  BY <1>11, ToldEnd
<1> QED  BY <1>1, <1>2, <1>3, <1>4, <1>5, <1>6, <1>7, <1>8, <1>9, <1>10, <1>11 DEF AsyncStep

-----------------------------------------------------------------------------
(* Children and their messages                                             *)

Children == {"none", "running", "broken", "exited", "gone", "orphan"}
Messages == {"progress", "ok", "error"}
Listening ==
  /\ child \in [Requests -> Children]
  /\ ipc \in [Requests -> Seq(Messages)]
Counted == sent \in 0 .. MaxProgress /\ faults \in 0 .. MaxFaults

\* A message is taken from the front or put at the end.
LEMMA MessageStep ==
  ASSUME Listening, NEW r \in Requests
  PROVE  /\ ipc[r] # <<>> => [ipc EXCEPT ![r] = Tail(@)] \in [Requests -> Seq(Messages)]
         /\ \A m \in Messages : [ipc EXCEPT ![r] = Append(@, m)] \in [Requests -> Seq(Messages)]
<1>1. ipc[r] \in Seq(Messages)
  BY DEF Listening
<1>2. ipc[r] # <<>> => Tail(ipc[r]) \in Seq(Messages)
  BY <1>1
<1>3. \A m \in Messages : Append(ipc[r], m) \in Seq(Messages)
  BY <1>1
<1> QED  BY <1>2, <1>3 DEF Listening

LEMMA ListeningNext ==
  ASSUME Listening, [Next]_vars
  PROVE  Listening'
<1>1. ASSUME UNCHANGED <<child, ipc>>
      PROVE  Listening'
  BY <1>1 DEF Listening
<1>2. CASE UNCHANGED vars
  BY <1>1, <1>2 DEF vars
<1>3. CASE StoreStep
  BY <1>1, <1>3 DEF StoreStep, JsonRead, JsonWrite, PostgresStatement, StoreFails
<1>4. ASSUME NEW r \in Requests, Fork(r) \/ ForkFails(r) \/ Admit(r) \/ Refuse(r)
      PROVE  Listening'
  BY <1>4 DEF Fork, ForkFails, Admit, Refuse, Listening, Children
<1>5. ASSUME NEW r \in Requests, Progress(r) \/ Result(r)
      PROVE  Listening'
  BY <1>5, MessageStep DEF Progress, Result, Listening
<1>6. ASSUME NEW r \in Requests, OnError(r) \/ OnExit(r) \/ Timeout(r) \/ Cancel(r)
      PROVE  Listening'
  BY <1>6 DEF OnError, OnExit, Timeout, Cancel, Kill, Listening, Children
<1>7. ASSUME NEW r \in Requests, ChildProgress(r) \/ ChildExit(r)
      PROVE  Listening'
  <2>1. CASE ChildProgress(r)
    <3>1. "progress" \in Messages
      BY DEF Messages
    <3> QED  BY <2>1, <3>1, MessageStep DEF ChildProgress, Listening
  <2>2. CASE ChildExit(r)
    BY <2>2 DEF ChildExit, Listening, Children
  <2> QED  BY <1>7, <2>1, <2>2
<1>8. ASSUME NEW r \in Requests, ChildAnswer(r)
      PROVE  Listening'
  <2>1. PICK m \in {"ok", "error"} :
          ipc' = IF pc[r] = "done" THEN [ipc EXCEPT ![r] = Append(@, m)] ELSE ipc
    BY <1>8 DEF ChildAnswer
  <2>2. ipc' \in [Requests -> Seq(Messages)]
    BY <2>1, MessageStep DEF Messages, Listening
  <2> QED  BY <1>8, <2>2 DEF ChildAnswer, Listening, Children
<1>9. CASE Restart
  BY <1>9 DEF Restart, Listening, Children
<1> QED  BY <1>2, <1>3, <1>4, <1>5, <1>6, <1>7, <1>8, <1>9 DEF Next, Continue, Serve

LEMMA CountedNext ==
  ASSUME MaxProgress \in Nat, MaxFaults \in Nat, Counted, [Next]_vars
  PROVE  Counted'
<1>1. ASSUME UNCHANGED <<sent, faults>>
      PROVE  Counted'
  BY <1>1 DEF Counted
<1>2. CASE UNCHANGED vars
  BY <1>1, <1>2 DEF vars
<1>3. CASE JsonRead \/ JsonWrite \/ PostgresStatement
  BY <1>1, <1>3 DEF JsonRead, JsonWrite, PostgresStatement, processVars
<1>4. CASE StoreFails \/ Restart
  <2>1. sent' = sent /\ faults < MaxFaults /\ faults' = faults + 1
    BY <1>4 DEF StoreFails, Restart
  <2> QED  BY <2>1 DEF Counted
<1>5. ASSUME NEW r \in Requests,
             \/ Fork(r) \/ ForkFails(r) \/ Admit(r) \/ Refuse(r) \/ Progress(r) \/ Result(r)
             \/ OnError(r) \/ OnExit(r) \/ Timeout(r) \/ Cancel(r)
             \/ ChildAnswer(r) \/ ChildExit(r)
      PROVE  Counted'
  BY <1>1, <1>5 DEF Fork, ForkFails, Admit, Refuse, Progress, Result, OnError, OnExit,
                    Timeout, Cancel, ChildAnswer, ChildExit, processVars
<1>6. ASSUME NEW r \in Requests, ChildProgress(r)
      PROVE  Counted'
  BY <1>6 DEF ChildProgress, Counted, processVars
<1> QED  BY <1>2, <1>3, <1>4, <1>5, <1>6 DEF Next, Continue, Serve, StoreStep

-----------------------------------------------------------------------------
(* The theorems about background executions                                *)

\* The inductive invariant of the background executions
AsyncInv ==
  /\ Data /\ Listening /\ Awaited /\ Recorded /\ RunningIsWatched
  /\ WithinCapacity /\ Unwritten /\ Cut /\ Told

LEMMA AsyncInvInit ==
  ASSUME MaxRecords \in Nat, MaxBackground \in Nat, Init
  PROVE  AsyncInv
<1>1. Data
  BY DataInit
<1>2. ops = <<>> /\ store = <<>> /\ \A r \in Requests : rec[r] = NoRecord /\ pc[r] = "idle"
  BY DEF Init
<1>3. Awaited /\ Unwritten /\ Cut
  BY <1>2 DEF Awaited, Unwritten, Cut, HasRow
<1>4. Recorded /\ RunningIsWatched /\ Told
  BY <1>2 DEF Recorded, RunningIsWatched, Told, NoRecord, Settled
<1>5. WithinCapacity
  <2>1. Running \cup Creating = {}
    BY <1>2 DEF Running, Creating, NoRecord
  <2>2. Cardinality({}) = 0
    BY FS_EmptySet
  <2> QED  BY <2>1, <2>2 DEF WithinCapacity
<1>6. Listening
  BY DEF Init, Listening, Children
<1> QED  BY <1>1, <1>3, <1>4, <1>5, <1>6 DEF AsyncInv

LEMMA AsyncInvNext ==
  ASSUME IsFiniteSet(Requests), MaxBackground \in Nat, MaxRecords \in Nat, AsyncInv, [Next]_vars
  PROVE  AsyncInv'
<1>1. /\ Data /\ Listening /\ Awaited /\ Recorded /\ RunningIsWatched
      /\ WithinCapacity /\ Unwritten /\ Cut /\ Told
  BY DEF AsyncInv
<1>2. AsyncStep
  BY <1>1, StepShapes DEF Data
<1>3. Data'
  BY <1>1, <1>2, DataNext
<1>4. Awaited' /\ Recorded' /\ RunningIsWatched'
  BY <1>1, <1>2, AwaitedNext, RecordedNext, WatchedNext
<1>5. WithinCapacity'
  BY <1>1, <1>2, CapacityNext
<1>6. Unwritten' /\ Cut' /\ Told'
  BY <1>1, <1>2, UnwrittenNext, CutNext, ToldNext
<1>7. Listening'
  BY <1>1, ListeningNext
<1> QED  BY <1>3, <1>4, <1>5, <1>6, <1>7 DEF AsyncInv

LEMMA AsyncInvHolds ==
  ASSUME IsFiniteSet(Requests), MaxBackground \in Nat, MaxRecords \in Nat
  PROVE  Spec => []AsyncInv
<1>1. Init => AsyncInv
  BY AsyncInvInit
<1>2. AsyncInv /\ [Next]_vars => AsyncInv'
  BY AsyncInvNext
<1> QED  BY <1>1, <1>2, PTL DEF Spec

\* Every record that runs has something left that will end it, and more than the
\* capacity run only when two were let in before either was recorded, for any
\* number of requests and any capacity (operator-api.js:1255-1361).
THEOREM ExecutionsControlled ==
  ASSUME IsFiniteSet(Requests), MaxBackground \in Nat, MaxRecords \in Nat
  PROVE  Spec => []RunningIsControlled
<1>1. ASSUME AsyncInv
      PROVE  RunningIsControlled
  <2>1. RunningIsWatched /\ WithinCapacity
    BY <1>1 DEF AsyncInv
  <2>2. CapacityUnlessRaced
    <3>1. SUFFICES ASSUME \A pair \in rivals : ~(pair \subseteq Running)
                   PROVE  ~(Cardinality(Running) > MaxBackground)
      BY DEF CapacityUnlessRaced
    <3>2. Running \in SUBSET (Running \cup Creating)
      OBVIOUS
    <3>3. Cardinality(Running) <= MaxBackground
      BY <2>1, <3>1, <3>2 DEF WithinCapacity
    <3>4. Cardinality(Running) \in Nat
      BY FS_Subset, FS_CardinalityType DEF Running
    <3> QED  BY <3>3, <3>4
  <2> QED  BY <2>1, <2>2 DEF RunningIsControlled
<1>2. Spec => []AsyncInv
  BY AsyncInvHolds
<1> QED  BY <1>1, <1>2, PTL

\* Memory and a quiet store that no fault and no overlap disturbed agree on how
\* executions ended (persistent-execution-store.js:20-110).
THEOREM StoreAgrees ==
  ASSUME IsFiniteSet(Requests), MaxBackground \in Nat, MaxRecords \in Nat
  PROVE  Spec => []QuietStoreAgrees
<1>1. ASSUME AsyncInv
      PROVE  QuietStoreAgrees
  <2>1. Told
    BY <1>1 DEF AsyncInv
  <2>2. ops = <<>> => \A r \in Requests : ~Finishes(r)
    BY DEF Finishes
  <2> QED  BY <2>1, <2>2 DEF Told, QuietStoreAgrees
<1>2. Spec => []AsyncInv
  BY AsyncInvHolds
<1> QED  BY <1>1, <1>2, PTL

\* A settled record is settled anew only by an answer of its child.
LEMMA SettledStands ==
  ASSUME Data, Awaited, Recorded, Listening, [Next]_vars, NEW r \in Requests
  PROVE  SettledOnlyByAnswer(r)
<1> SUFFICES ASSUME rec[r].status \in Settled, rec'[r].status # rec[r].status,
                    rec'[r].status # "none"
             PROVE  /\ ipc[r] # <<>> /\ ipc'[r] = Tail(ipc[r])
                    /\ rec'[r].status = IF Head(ipc[r]) = "ok" THEN "COMPLETED" ELSE "FAILED"
  BY DEF SettledOnlyByAnswer
<1>1. pc[r] \in {"accepting", "forking", "done"} /\ rec[r].status # "RUNNING"
  BY DEF Recorded, Settled
<1>2. CASE UNCHANGED vars
  BY <1>2 DEF vars
<1>3. ASSUME NEW q \in Requests, Fork(q)
      PROVE  FALSE
  BY <1>3, TimerSet DEF Fork, Data
<1>4. ASSUME NEW q \in Requests, ForkFails(q)
      PROVE  FALSE
  BY <1>4 DEF ForkFails, NoRecord, Data
<1>5. ASSUME NEW i \in DOMAIN ops, NEW ok \in BOOLEAN, OpEnds(ops[i], RemoveAt(ops, i), ok)
      PROVE  FALSE
  <2>1. ops[i].req \in Requests
    BY OpFields DEF Data
  <2>2. CASE ops[i].kind = "create"
    <3>1. pc[ops[i].req] = "creating"
      BY <2>2 DEF Awaited
    <3>2. rec' = [rec EXCEPT ![ops[i].req] = [status |-> "RUNNING", row |-> ok, timer |-> FALSE]]
      BY <1>5, <2>2 DEF OpEnds
    <3> QED  BY <1>1, <2>1, <3>1, <3>2 DEF Data
  <2>3. CASE ops[i].kind # "create"
    <3>1. rec' = rec
      BY <1>5, <2>3 DEF OpEnds
    <3> QED  BY <3>1
  <2> QED  BY <2>2, <2>3
<1>6. CASE StoreStep
  <2>1. CASE JsonRead \/ JsonWrite
    <3>1. 1 \in DOMAIN ops /\ Head(ops) = ops[1] /\ Tail(ops) = RemoveAt(ops, 1)
      BY <2>1, TailIsRemoveAt DEF JsonRead, JsonWrite, Data
    <3>2. rec' = rec \/ OpEnds(ops[1], RemoveAt(ops, 1), TRUE)
      BY <2>1, <3>1 DEF JsonRead, JsonWrite
    <3> QED  BY <1>5, <3>1, <3>2
  <2>2. CASE PostgresStatement
    BY <1>5, <2>2 DEF PostgresStatement
  <2>3. CASE StoreFails
    BY <1>5, <2>3 DEF StoreFails
  <2> QED  BY <1>6, <2>1, <2>2, <2>3 DEF StoreStep
<1>7. ASSUME NEW q \in Requests, NEW status \in Settled, Settle(q, status)
      PROVE  q = r
  BY <1>7, StatusSet DEF Settle, Data
<1>8. ASSUME NEW q \in Requests, ClearTimer(q)
      PROVE  FALSE
  BY <1>8, TimerSet DEF ClearTimer, Data
<1>9. ASSUME NEW q \in Requests, OnError(q) \/ OnExit(q) \/ Timeout(q) \/ Cancel(q)
      PROVE  FALSE
  <2>1. ClearTimer(q) \/ (rec[q].status = "RUNNING" /\ \E status \in Settled : Settle(q, status))
    BY <1>9 DEF OnError, OnExit, Timeout, Cancel, Settled
  <2> QED  BY <1>1, <1>7, <1>8, <2>1
<1>10. ASSUME NEW q \in Requests, Result(q)
       PROVE  /\ ipc[r] # <<>> /\ ipc'[r] = Tail(ipc[r])
              /\ rec'[r].status = IF Head(ipc[r]) = "ok" THEN "COMPLETED" ELSE "FAILED"
  <2> DEFINE status == IF Head(ipc[q]) = "ok" THEN "COMPLETED" ELSE "FAILED"
  <2>1. status \in Settled /\ Settle(q, status)
    BY <1>10 DEF Result, Settled
  <2> HIDE DEF status
  <2>2. q = r
    BY <1>7, <2>1
  <2>3. rec'[q].status = status
    BY <2>1, StatusSet DEF Settle, Data
  <2> QED  BY <1>10, <2>2, <2>3 DEF Result, Listening, status
<1>11. ASSUME NEW q \in Requests,
              \/ Admit(q) \/ Refuse(q) \/ Progress(q)
              \/ ChildProgress(q) \/ ChildAnswer(q) \/ ChildExit(q)
       PROVE  FALSE
  BY <1>11 DEF Admit, Refuse, Progress, ChildProgress, ChildAnswer, ChildExit
<1>12. CASE Restart
  BY <1>12 DEF Restart, NoRecord
<1> QED  BY <1>2, <1>3, <1>4, <1>6, <1>9, <1>10, <1>11, <1>12 DEF Next, Continue, Serve

\* Records, handlers, children, messages, rows and operations keep their types,
\* for any number of requests and faults.
THEOREM ExecutionTypes ==
  ASSUME IsFiniteSet(Requests), MaxBackground \in Nat, MaxRecords \in Nat,
         MaxProgress \in Nat, MaxFaults \in Nat
  PROVE  Spec => []TypeOK
<1>1. Init => Counted
  BY DEF Init, Counted
<1>2. Counted /\ [Next]_vars => Counted'
  BY CountedNext
<1>3. AsyncInv /\ Counted => TypeOK
  BY DEF AsyncInv, Counted, Data, Listening, TypeOK, Places, Children, Messages
<1>4. Spec => []AsyncInv
  BY AsyncInvHolds
<1> QED  BY <1>1, <1>2, <1>3, <1>4, PTL DEF Spec

\* An execution is reported RUNNING again only after its record is gone.
LEMMA ReportedStands ==
  ASSUME AsyncInv, AsyncInv', [Next]_vars, NEW r \in Requests
  PROVE  RunningAgainOnlyIfDisturbed(r)
<1> SUFFICES ASSUME Reported(r) \in Settled, Reported(r)' = "RUNNING"
             PROVE  rec'[r].status = "none" /\ (disturbed \/ ops # <<>>)
  BY DEF RunningAgainOnlyIfDisturbed
<1> USE DEF AsyncInv
<1>1. AsyncStep
  BY StepShapes DEF Data
<1>2. rec[r].status \in {"none", "RUNNING"} \cup Settled /\ "RUNNING" \notin Settled
      /\ "none" \notin Settled /\ "NOT_FOUND" \notin Settled
  BY DEF Data, Record, Settled
\* a record that is there does not begin to run again
<1>3. rec'[r].status = "none"
  <2>1. SUFFICES ASSUME rec'[r].status # "none"
                 PROVE  FALSE
    OBVIOUS
  <2>2. rec'[r].status = "RUNNING"
    BY <2>1 DEF Reported
  <2>3. rec[r].status \notin Settled
    BY <1>2, <2>2, SettledStands DEF SettledOnlyByAnswer
  <2>4. rec[r].status = "none"
    BY <1>2, <2>3 DEF Reported
  <2>5. HasRow(store, r)
    BY <1>2, <2>4 DEF Reported
  <2>6. pc[r] \notin {"accepting", "forking", "done"} /\ pc'[r] \in {"accepting", "forking", "done"}
    BY <2>1, <2>4 DEF Recorded
  <2>7. pc[r] = "creating"
    <3>1. ASSUME NEW i \in DOMAIN ops, NEW ok \in BOOLEAN, EndOf(i, ok)
          PROVE  pc[r] = "creating"
      <4>1. ops[i].req \in Requests
        BY OpFields DEF Data
      <4>2. \/ ops[i].kind = "create" /\ pc' = [pc EXCEPT ![ops[i].req] = "accepting"]
            \/ ops[i].kind = "accept" /\ pc' = [pc EXCEPT ![ops[i].req] = "forking"]
            \/ pc' = pc
        BY <3>1, EndEffect
      <4> QED  BY <2>6, <4>1, <4>2 DEF Awaited, Data
    <3>2. CASE RestOf \/ ReadOf \/ Restart
      BY <2>6, <3>2 DEF RestOf, ReadOf, Restart
    <3>3. ASSUME NEW q \in Requests, Admit(q) \/ Refuse(q) \/ Fork(q) \/ ForkFails(q)
          PROVE  FALSE
      BY <2>6, <3>3 DEF Admit, Refuse, Fork, ForkFails, Data
    <3>4. ASSUME NEW q \in Requests, SettleOf(q) \/ ClearOf(q) \/ ProgressOf(q)
          PROVE  FALSE
      BY <2>6, <3>4 DEF SettleOf, ClearOf, ProgressOf
    <3> QED  BY <1>1, <3>1, <3>2, <3>3, <3>4 DEF AsyncStep
  <2> QED  BY <2>5, <2>7 DEF Unwritten
\* the store alone does not say RUNNING of what memory or store called settled
<1>4. disturbed \/ ops # <<>>
  <2>1. SUFFICES ASSUME ~disturbed, ops = <<>>
                 PROVE  FALSE
    OBVIOUS
  <2>2. store' = store /\ backend' = backend
    <3>1. DOMAIN ops = {}
      BY <2>1
    <3> QED  BY <1>1, <3>1, StoreOrigin
  <2> DEFINE row == CHOOSE i \in DOMAIN store : store[i].req = r
  <2>3. HasRow(store, r) /\ store[row].status = "RUNNING"
    BY <1>3, <2>2 DEF Reported, HasRow
  <2>4. row \in DOMAIN store /\ store[row].req = r
    BY <2>3 DEF HasRow
  <2>5. rec[r].status \in Settled
    BY <1>2, <2>3 DEF Reported
  <2>6. ~Finishes(r)
    BY <2>1 DEF Finishes
  <2>7. store[row].status = rec[r].status
    BY <2>1, <2>4, <2>5, <2>6 DEF Told
  <2> QED  BY <1>2, <2>3, <2>5, <2>7
<1> QED  BY <1>3, <1>4

\* What a client was told of an execution that ended stands, but for a late result
\* and for a disturbed store (operator-api.js:1303-1406).
THEOREM ToldStands ==
  ASSUME IsFiniteSet(Requests), MaxBackground \in Nat, MaxRecords \in Nat
  PROVE  Spec => AnswersStand
<1> DEFINE Stand == \A r \in Requests : RunningAgainOnlyIfDisturbed(r) /\ SettledOnlyByAnswer(r)
<1>1. ASSUME AsyncInv, AsyncInv', [Next]_vars
      PROVE  Stand
  <2>1. \A r \in Requests : RunningAgainOnlyIfDisturbed(r)
    BY <1>1, ReportedStands
  <2>2. Data /\ Awaited /\ Recorded /\ Listening
    BY <1>1 DEF AsyncInv
  <2>3. \A r \in Requests : SettledOnlyByAnswer(r)
    BY <1>1, <2>2, SettledStands
  <2> QED  BY <2>1, <2>3
<1> HIDE DEF Stand
<1>2. AsyncInv /\ AsyncInv' /\ [Next]_vars => [Stand]_vars
  BY <1>1
<1>3. Spec => []AsyncInv
  BY AsyncInvHolds
<1>4. Spec => [][Stand]_vars
  BY <1>2, <1>3, PTL DEF Spec
<1> QED  BY <1>4 DEF AnswersStand, Stand

-----------------------------------------------------------------------------
(* The local queue                                                         *)

LocalRow == [id : Clients, status : {"QUEUED", "RUNNING", "SUCCEEDED", "DEAD_LETTER"},
             attempts : Nat, worker : Consumers \cup {NoJob}]
LocalText == [parses : BOOLEAN, list : Seq(LocalRow)]
LocalCall == [at : {"idle", "load", "loaded", "save", "open", "write", "rename"},
              call : {"none", "enqueue", "claim", "complete", "fail"},
              job : Clients \cup {NoJob}, list : Seq(LocalRow), inode : Local!Inodes \cup {Local!Absent}]

LocalDisk == [file : Local!Inodes \cup {Local!Absent}, temp : Local!Inodes \cup {Local!Absent},
              data : [Local!Inodes -> LocalText]]

LocalTypes ==
  /\ localJobs \in Seq(LocalRow) /\ loaded \in BOOLEAN
  /\ disk \in LocalDisk
  /\ op \in [Local!Callers -> LocalCall]
  /\ asked \subseteq Clients /\ accepted \subseteq Clients
  /\ held \in [Consumers -> Clients \cup {NoJob}]
  /\ replaced \in BOOLEAN /\ crossed \in BOOLEAN

\* Who makes which call, and what a call at a place stands on
Makes(c, name) ==
  \/ name = "enqueue" /\ c \in Clients
  \/ name \in {"claim", "complete", "fail"} /\ c \in Consumers

Calling ==
  \A c \in Local!Callers :
    /\ op[c].at # "idle" => Makes(c, op[c].call)
    /\ op[c].inode # Local!Absent => op[c].at = "write"
    /\ op[c].at \in {"save", "open", "write", "rename"} => loaded

\* A text that a call writes has what was accepted, and the job it enqueues
Saves(c, list) ==
  /\ accepted \subseteq Local!Ids(list)
  /\ op[c].call = "enqueue" => c \in Local!Ids(list)

\* What memory has, while no load replaced it
InMemory ==
  /\ loaded => accepted \subseteq Local!Ids(localJobs)
  /\ \A c \in Local!Callers :
       /\ op[c].at \in {"save", "open", "write", "rename"} /\ op[c].call = "enqueue" => c \in Local!Ids(localJobs)
       /\ op[c].at = "loaded" /\ ~loaded => accepted \subseteq Local!Ids(op[c].list)
  /\ ~loaded => ~crossed

\* What the file and the one temporary file have, while no two calls wrote the latter
OnDisk ==
  /\ accepted \subseteq Local!Ids(Local!FileJobs)
  /\ disk.temp # Local!Absent => disk.temp # disk.file
  /\ \A c, d \in Local!Callers : op[c].at \in Local!Writing /\ op[d].at \in Local!Writing => c = d
  /\ \A c \in Local!Callers :
       /\ op[c].at \in {"open", "write"} => Saves(c, op[c].list)
       /\ op[c].at = "write" => /\ disk.temp # Local!Absent /\ op[c].inode = disk.temp
                                /\ disk.data[disk.temp] = Local!Torn
       /\ op[c].at = "rename" => disk.temp # Local!Absent /\ Saves(c, disk.data[disk.temp].list)

LocalInv == LocalTypes /\ Calling /\ (~replaced => InMemory /\ (crossed \/ OnDisk))

-----------------------------------------------------------------------------
(* Lists of jobs, calls, and the temporary file                            *)

Calls == {"enqueue", "claim", "complete", "fail"}

LEMMA JobIsRow ==
  ASSUME NEW c \in Clients
  PROVE  Local!Job(c) \in LocalRow /\ Local!Job(c).id = c
BY DEF Local!Job, LocalRow

LEMMA ChangedIsRow ==
  ASSUME NEW row \in LocalRow, NEW c \in Consumers, NEW name \in {"claim", "complete", "fail"}
  PROVE  Local!Changed(name, c, row) \in LocalRow /\ Local!Changed(name, c, row).id = row.id
<1>1. CASE name = "claim"
  <2>1. Local!Changed(name, c, row) =
          [row EXCEPT !.status = "RUNNING", !.worker = c, !.attempts = row.attempts + 1]
    BY <1>1 DEF Local!Changed
  <2> DEFINE n == row.attempts + 1
  <2>2. n \in Nat
    BY DEF LocalRow
  <2>3. Local!Changed(name, c, row) = [row EXCEPT !.status = "RUNNING", !.worker = c, !.attempts = n]
    BY <2>1
  <2> HIDE DEF n
  <2> QED  BY <2>2, <2>3 DEF LocalRow
<1>2. CASE name = "complete"
  <2>1. Local!Changed(name, c, row) = [row EXCEPT !.status = "SUCCEEDED"]
    BY <1>2 DEF Local!Changed
  <2> QED  BY <2>1 DEF LocalRow
<1>3. CASE name = "fail"
  <2>1. \/ Local!Changed(name, c, row) = [row EXCEPT !.status = "QUEUED"]
        \/ Local!Changed(name, c, row) = [row EXCEPT !.status = "DEAD_LETTER"]
    BY <1>3 DEF Local!Changed
  <2> QED  BY <2>1 DEF LocalRow
<1> QED  BY <1>1, <1>2, <1>3

\* A call keeps every job of the list it works on.
LEMMA ListKept ==
  ASSUME NEW list \in Seq(LocalRow), NEW c \in Local!Callers, NEW name \in Calls, Makes(c, name),
         NEW i \in Local!Chosen(name, c, list)
  PROVE  LET new == IF name = "enqueue" THEN Append(list, Local!Job(c))
                    ELSE [list EXCEPT ![i] = Local!Changed(name, c, list[i])]
         IN  /\ new \in Seq(LocalRow) /\ Local!Ids(list) \subseteq Local!Ids(new)
             /\ new[i].id \in Clients
             /\ name = "enqueue" => c \in Local!Ids(new)
<1> DEFINE new == IF name = "enqueue" THEN Append(list, Local!Job(c))
                  ELSE [list EXCEPT ![i] = Local!Changed(name, c, list[i])]
<1> SUFFICES /\ new \in Seq(LocalRow) /\ Local!Ids(list) \subseteq Local!Ids(new)
             /\ new[i].id \in Clients
             /\ name = "enqueue" => c \in Local!Ids(new)
  OBVIOUS
<1>1. CASE name = "enqueue"
  <2>1. Local!Job(c) \in LocalRow /\ Local!Job(c).id = c /\ c \in Clients
    BY <1>1, JobIsRow DEF Makes
  <2>2. i = Len(list) + 1
    BY <1>1 DEF Local!Chosen
  <2> DEFINE job == Local!Job(c)
  <2> HIDE DEF job
  <2>3. new = Append(list, job) /\ job \in LocalRow
    BY <1>1, <2>1 DEF job
  <2>4. /\ new \in Seq(LocalRow) /\ new[i] = job /\ i \in DOMAIN new
        /\ \A k \in DOMAIN list : k \in DOMAIN new /\ new[k] = list[k]
    BY <2>2, <2>3
  <2> QED  BY <2>1, <2>4 DEF Local!Ids, job
<1>2. CASE name # "enqueue"
  <2>1. i \in DOMAIN list
    BY <1>2 DEF Local!Chosen, Local!Queued, Local!Owned, Calls
  <2>2. list[i] \in LocalRow /\ c \in Consumers /\ name \in {"claim", "complete", "fail"}
    BY <1>2, <2>1 DEF Makes
  <2> DEFINE job == Local!Changed(name, c, list[i])
  <2>3. job \in LocalRow /\ job.id = list[i].id
    BY <2>2, ChangedIsRow
  <2>4. new = [list EXCEPT ![i] = job]
    BY <1>2
  <2> HIDE DEF job
  <2>5. /\ new \in Seq(LocalRow) /\ DOMAIN new = DOMAIN list
        /\ new[i] = job /\ \A k \in DOMAIN list \ {i} : new[k] = list[k]
    BY <2>1, <2>3, <2>4
  <2>6. job.id \in Clients
    BY <2>3 DEF LocalRow
  <2>7. \A k \in DOMAIN list : new[k].id = list[k].id
    BY <2>3, <2>5
  <2> QED  BY <1>2, <2>1, <2>5, <2>6, <2>7 DEF Local!Ids
<1> QED  BY <1>1, <1>2

\* What the steps of a call make of its entry
LEMMA EntryAt ==
  ASSUME NEW at \in {"load", "save"}, NEW name \in Calls, NEW job \in Clients \cup {NoJob}
  PROVE  LET new == [Local!Idle EXCEPT !.at = at, !.call = name, !.job = job]
         IN  /\ new \in LocalCall /\ new.at = at /\ new.call = name /\ new.inode = Local!Absent
<1>1. <<>> \in Seq(LocalRow)
  OBVIOUS
<1> QED  BY <1>1 DEF Local!Idle, LocalCall, Calls, Local!Absent

LEMMA IdleEntry ==
  /\ Local!Idle \in LocalCall /\ Local!Idle.at = "idle" /\ Local!Idle.inode = Local!Absent
  /\ \A name \in Calls :
       LET new == [Local!Idle EXCEPT !.at = "load", !.call = name]
       IN  /\ new \in LocalCall /\ new.at = "load" /\ new.call = name /\ new.inode = Local!Absent
<1>1. <<>> \in Seq(LocalRow)
  OBVIOUS
<1> QED  BY <1>1 DEF Local!Idle, LocalCall, Calls, Local!Absent

LEMMA EntryMoves ==
  ASSUME NEW e \in LocalCall, NEW at \in {"loaded", "open"}, NEW list \in Seq(LocalRow)
  PROVE  LET new == [e EXCEPT !.at = at, !.list = list]
         IN  /\ new \in LocalCall /\ new.at = at /\ new.call = e.call /\ new.inode = e.inode
             /\ new.list = list
BY DEF LocalCall

LEMMA EntryOpens ==
  ASSUME NEW e \in LocalCall, NEW inode \in Local!Inodes
  PROVE  LET new == [e EXCEPT !.at = "write", !.inode = inode]
         IN  /\ new \in LocalCall /\ new.at = "write" /\ new.call = e.call /\ new.inode = inode
             /\ new.list = e.list
BY DEF LocalCall

LEMMA EntryWrites ==
  ASSUME NEW e \in LocalCall
  PROVE  LET new == [e EXCEPT !.at = "rename", !.list = <<>>, !.inode = Local!Absent]
         IN  /\ new \in LocalCall /\ new.at = "rename" /\ new.call = e.call
             /\ new.inode = Local!Absent
<1>1. <<>> \in Seq(LocalRow)
  OBVIOUS
<1> QED  BY <1>1 DEF LocalCall, Local!Absent

\* There is an inode for the temporary file.
LEMMA FreshInode ==
  ASSUME IsFiniteSet(Clients), IsFiniteSet(Consumers), LocalTypes, disk.temp = Local!Absent
  PROVE  \E i \in Local!Inodes : i \notin Local!InUse
<1> DEFINE n == Cardinality(Local!Callers)
           f == [d \in Local!Callers |-> op[d].inode]
           Held == {op[d].inode : d \in Local!Callers}
<1>1. IsFiniteSet(Local!Callers) /\ n \in Nat
  BY FS_Union, FS_CardinalityType DEF Local!Callers
<1>2. f \in Surjection(Local!Callers, Held)
  BY DEF Surjection
<1>3. IsFiniteSet(Held) /\ Cardinality(Held) <= n /\ Cardinality(Held) \in Nat
  BY <1>1, <1>2, FS_Surjection, FS_CardinalityType
<1> HIDE DEF f, Held
<1>4. IsFiniteSet(Held \cup {disk.file}) /\ Cardinality(Held \cup {disk.file}) <= n + 1
  <2>1. /\ IsFiniteSet(Held \cup {disk.file})
        /\ disk.file \in Held => Cardinality(Held \cup {disk.file}) = Cardinality(Held)
        /\ disk.file \notin Held => Cardinality(Held \cup {disk.file}) = Cardinality(Held) + 1
    BY <1>3, FS_AddElement
  <2> QED  BY <1>1, <1>3, <2>1
<1>5. Local!Inodes = 1 .. n + 2 /\ IsFiniteSet(Local!Inodes) /\ Cardinality(Local!Inodes) = n + 2
  <2>1. Local!Inodes = 1 .. n + 2
    BY DEF Local!Inodes, Local!Cardinality, Cardinality
  <2>2. 1 \in Int /\ n + 2 \in Int /\ ~(1 > n + 2) /\ n + 2 - 1 + 1 = n + 2
    BY <1>1
  <2>3. IsFiniteSet(1 .. n + 2) /\ Cardinality(1 .. n + 2) = n + 2 - 1 + 1
    BY <2>2, FS_Interval
  <2> QED  BY <2>1, <2>2, <2>3
<1>6. SUFFICES ASSUME Local!Inodes \subseteq Local!InUse
               PROVE  FALSE
  OBVIOUS
<1>7. Local!Inodes \subseteq Held \cup {disk.file}
  <2>1. Local!InUse = {disk.file, disk.temp} \cup Held
    BY DEF Local!InUse, Held
  <2>2. Local!Absent \notin Local!Inodes
    BY <1>1, <1>5 DEF Local!Absent
  <2> QED  BY <1>6, <2>1, <2>2
<1>8. Cardinality(Local!Inodes) <= Cardinality(Held \cup {disk.file})
  BY <1>4, <1>7, FS_Subset
<1>9. Cardinality(Held \cup {disk.file}) \in Nat
  BY <1>4, FS_CardinalityType
<1> QED  BY <1>1, <1>4, <1>5, <1>8, <1>9

LEMMA AbsentIsNone ==
  ASSUME IsFiniteSet(Clients), IsFiniteSet(Consumers)
  PROVE  Local!Absent \notin Local!Inodes
<1> DEFINE n == Cardinality(Local!Callers)
<1>1. n \in Nat
  BY FS_Union, FS_CardinalityType DEF Local!Callers
<1>2. Local!Inodes = 1 .. n + 2
  BY DEF Local!Inodes, Local!Cardinality, Cardinality
<1> QED  BY <1>1, <1>2 DEF Local!Absent

LEMMA FileHasRows ==
  ASSUME LocalTypes
  PROVE  Local!FileJobs \in Seq(LocalRow)
<1>1. <<>> \in Seq(LocalRow)
  OBVIOUS
<1>2. disk.file \in Local!Inodes \cup {Local!Absent} /\ disk.data \in [Local!Inodes -> LocalText]
  BY DEF LocalTypes, LocalDisk
<1>3. disk.file # Local!Absent => disk.data[disk.file].list \in Seq(LocalRow)
  BY <1>2 DEF LocalText
<1> QED  BY <1>1, <1>3 DEF Local!FileJobs

-----------------------------------------------------------------------------
(* What a step keeps that only moves one call                              *)

LEMMA TypesKept ==
  ASSUME LocalTypes, NEW c \in Local!Callers, NEW e \in LocalCall, op' = [op EXCEPT ![c] = e],
         localJobs' \in Seq(LocalRow), loaded' \in BOOLEAN, disk' \in LocalDisk,
         asked' \subseteq Clients, accepted' \subseteq Clients,
         held' \in [Consumers -> Clients \cup {NoJob}], replaced' \in BOOLEAN, crossed' \in BOOLEAN
  PROVE  LocalTypes'
BY DEF LocalTypes, LocalDisk, Local!Inodes, Local!Callers, LocalCall, Local!Absent

LEMMA CallingKept ==
  ASSUME LocalTypes, Calling, NEW c \in Local!Callers, NEW e, op' = [op EXCEPT ![c] = e],
         e.at # "idle" => Makes(c, e.call), e.inode # Local!Absent => e.at = "write",
         e.at \in {"save", "open", "write", "rename"} => loaded', loaded => loaded'
  PROVE  Calling'
<1>1. op'[c] = e /\ \A d \in Local!Callers \ {c} : op'[d] = op[d]
  BY DEF LocalTypes
<1>2. \A d \in Local!Callers :
        /\ op'[d].at # "idle" => Makes(d, op'[d].call)
        /\ op'[d].inode # Local!Absent => op'[d].at = "write"
        /\ op'[d].at \in {"save", "open", "write", "rename"} => loaded'
  BY <1>1 DEF Calling
<1> QED  BY <1>2 DEF Calling, Makes, Local!Callers, Local!Absent

\* Only calls that write touch the files.
LEMMA DiskKept ==
  ASSUME LocalTypes, OnDisk, NEW c \in Local!Callers, NEW e, op' = [op EXCEPT ![c] = e],
         e.at \notin Local!Writing, disk' = disk, accepted' = accepted
  PROVE  OnDisk'
<1>1. op'[c] = e /\ \A d \in Local!Callers \ {c} : op'[d] = op[d]
  BY DEF LocalTypes
<1>2. \A d \in Local!Callers : op'[d].at \in {"open", "write", "rename"} => op'[d] = op[d] /\ d # c
  BY <1>1 DEF Local!Writing
<1>3. \A d \in Local!Callers :
        /\ op'[d].at \in {"open", "write"} => Saves(d, op[d].list)'
        /\ op'[d].at = "write" => /\ disk.temp # Local!Absent /\ op'[d].inode = disk.temp
                                  /\ disk.data[disk.temp] = Local!Torn
        /\ op'[d].at = "rename" => disk.temp # Local!Absent /\ Saves(d, disk.data[disk.temp].list)'
  BY <1>2 DEF OnDisk, Saves, Local!Ids
<1>4. \A d, b \in Local!Callers : op'[d].at \in Local!Writing /\ op'[b].at \in Local!Writing => d = b
  BY <1>2 DEF OnDisk, Local!Writing
<1>5. accepted' \subseteq Local!Ids(Local!FileJobs)' /\ (disk.temp # Local!Absent => disk.temp # disk.file)
  BY DEF OnDisk, Local!Ids, Local!FileJobs, Local!Absent
<1> QED  BY <1>3, <1>4, <1>5 DEF OnDisk, Local!Writing, Local!Absent, Local!Torn, Local!Callers

\* What is left of a call between _load() and _save()
Applied(c, name, e, list) ==
  /\ op' = [op EXCEPT ![c] = e] /\ e.inode = Local!Absent
  /\ \/ e.at = "idle"
     \/ e.at = "save" /\ e.call = name /\ (name = "enqueue" => c \in Local!Ids(localJobs'))
  /\ localJobs' \in Seq(LocalRow) /\ Local!Ids(list) \subseteq Local!Ids(localJobs')
  /\ loaded' = TRUE /\ held' \in [Consumers -> Clients \cup {NoJob}]

LEMMA ApplyEffect ==
  ASSUME LocalTypes, NEW c \in Local!Callers, NEW name \in Calls, Makes(c, name),
         NEW list \in Seq(LocalRow), Local!Apply(name, c, list)
  PROVE  \E e \in LocalCall : Applied(c, name, e, list)
<1>1. CASE Local!Chosen(name, c, list) = {}
  <2> DEFINE e == Local!Idle
  <2>1. e \in LocalCall /\ e.at = "idle" /\ e.inode = Local!Absent
    BY IdleEntry
  <2>2. /\ op' = [op EXCEPT ![c] = e] /\ localJobs' = list /\ loaded' = TRUE
        /\ held' = IF c \in Consumers THEN [held EXCEPT ![c] = NoJob] ELSE held
    BY <1>1 DEF Local!Apply
  <2> HIDE DEF e
  <2>3. held' \in [Consumers -> Clients \cup {NoJob}]
    BY <2>2 DEF LocalTypes
  <2> QED  BY <2>1, <2>2, <2>3 DEF Applied
<1>2. CASE Local!Chosen(name, c, list) # {}
  <2>1. PICK i \in Local!Chosen(name, c, list) :
          /\ localJobs' = IF name = "enqueue" THEN Append(list, Local!Job(c))
                     ELSE [list EXCEPT ![i] = Local!Changed(name, c, list[i])]
          /\ op' = [op EXCEPT ![c] = [Local!Idle EXCEPT !.at = "save", !.call = name, !.job = localJobs'[i].id]]
    BY <1>2 DEF Local!Apply
  <2>2. /\ localJobs' \in Seq(LocalRow) /\ Local!Ids(list) \subseteq Local!Ids(localJobs')
        /\ localJobs'[i].id \in Clients
        /\ name = "enqueue" => c \in Local!Ids(localJobs')
    <3> DEFINE new == IF name = "enqueue" THEN Append(list, Local!Job(c))
                      ELSE [list EXCEPT ![i] = Local!Changed(name, c, list[i])]
    <3>1. /\ new \in Seq(LocalRow) /\ Local!Ids(list) \subseteq Local!Ids(new)
          /\ new[i].id \in Clients
          /\ name = "enqueue" => c \in Local!Ids(new)
      BY ListKept
    <3>2. localJobs' = new
      BY <2>1
    <3> HIDE DEF new
    <3> QED  BY <3>1, <3>2
  <2> DEFINE job == localJobs'[i].id
             e == [Local!Idle EXCEPT !.at = "save", !.call = name, !.job = job]
  <2>4. op' = [op EXCEPT ![c] = e] /\ job \in Clients \cup {NoJob}
    BY <2>1, <2>2
  <2> HIDE DEF job
  <2>3. e \in LocalCall /\ e.at = "save" /\ e.call = name /\ e.inode = Local!Absent
    BY <2>4, EntryAt
  <2> HIDE DEF e
  <2>5. loaded' = TRUE /\ held' = held
    BY <1>2 DEF Local!Apply
  <2> QED  BY <2>2, <2>3, <2>4, <2>5 DEF Applied, LocalTypes
<1> QED  BY <1>1, <1>2

\* The calls that go on at once, over the state in memory
LEMMA AppliedKeeps ==
  ASSUME LocalInv, NEW c \in Local!Callers, NEW name \in Calls, Makes(c, name), NEW e \in LocalCall,
         NEW list, Applied(c, name, e, list),
         asked' \subseteq Clients, UNCHANGED <<disk, accepted, crossed>>, replaced' \in BOOLEAN,
         replaced => replaced',
         ~replaced' => IF loaded THEN list = localJobs ELSE accepted \subseteq Local!Ids(list)
  PROVE  LocalInv'
<1> USE DEF Applied
<1>0. op'[c] = e /\ \A d \in Local!Callers \ {c} : op'[d] = op[d]
  BY DEF LocalTypes, LocalInv
<1>1. LocalTypes'
  BY TypesKept DEF LocalInv, LocalTypes
<1>2. Calling'
  BY CallingKept DEF LocalInv
<1>3. ASSUME ~replaced'
      PROVE  InMemory' /\ (crossed' \/ OnDisk')
  <2>1. InMemory /\ (crossed \/ OnDisk)
    BY <1>3 DEF LocalInv, LocalTypes
  <2>2. accepted' \subseteq Local!Ids(localJobs')
    BY <1>3, <2>1 DEF InMemory
  <2>3. ASSUME NEW d \in Local!Callers, op'[d].at \in {"save", "open", "write", "rename"},
               op'[d].call = "enqueue"
        PROVE  d \in Local!Ids(localJobs')
    <3>1. CASE d = c
      BY <1>0, <2>3, <3>1
    <3>2. CASE d # c
      <4>1. op[d].at \in {"save", "open", "write", "rename"} /\ op[d].call = "enqueue"
        BY <1>0, <2>3, <3>2
      <4>2. loaded
        BY <4>1 DEF LocalInv, Calling
      <4>3. d \in Local!Ids(localJobs)
        BY <2>1, <4>1 DEF InMemory
      <4> QED  BY <1>3, <4>2, <4>3
    <3> QED  BY <3>1, <3>2
  <2>4. InMemory'
    BY <2>2, <2>3 DEF InMemory, Local!Ids, Local!Callers
  <2>5. OnDisk => OnDisk'
    BY DiskKept DEF LocalInv, Local!Writing
  <2> QED  BY <2>1, <2>4, <2>5
<1> QED  BY <1>1, <1>2, <1>3 DEF LocalInv

-----------------------------------------------------------------------------
(* The steps of a call                                                     *)

LEMMA BeginKeepsInv ==
  ASSUME LocalInv, NEW c \in Local!Callers, NEW name \in Calls, Makes(c, name),
         Local!Begin(c, name), asked' \subseteq Clients
  PROVE  LocalInv'
<1>0. UNCHANGED <<disk, accepted, replaced, crossed>> /\ op[c].at = "idle"
  BY DEF Local!Begin, Local!Is
<1>1. CASE loaded
  <2>1. Local!Apply(name, c, localJobs) /\ localJobs \in Seq(LocalRow) /\ LocalTypes
    BY <1>1 DEF Local!Begin, LocalInv, LocalTypes
  <2>2. PICK e \in LocalCall : Applied(c, name, e, localJobs)
    BY <2>1, ApplyEffect
  <2>3. replaced' \in BOOLEAN
    BY <1>0 DEF LocalInv, LocalTypes
  <2> QED  BY <1>0, <1>1, <2>2, <2>3, AppliedKeeps
<1>2. CASE ~loaded
  <2> DEFINE e == [Local!Idle EXCEPT !.at = "load", !.call = name]
  <2>1. e \in LocalCall /\ e.at = "load" /\ e.call = name /\ e.inode = Local!Absent
    BY IdleEntry
  <2>2. op' = [op EXCEPT ![c] = e] /\ UNCHANGED <<localJobs, loaded, held>>
    BY <1>2 DEF Local!Begin
  <2> HIDE DEF e
  <2>3. LocalTypes'
    BY <1>0, <2>1, <2>2, TypesKept DEF LocalInv, LocalTypes
  <2>4. Calling'
    BY <2>1, <2>2, CallingKept DEF LocalInv
  <2>5. op'[c] = e /\ \A d \in Local!Callers \ {c} : op'[d] = op[d]
    BY <2>2 DEF LocalTypes, LocalInv
  <2>6. InMemory => InMemory'
    BY <1>0, <2>1, <2>2, <2>5 DEF InMemory, Local!Ids, Local!Callers
  <2>7. OnDisk => OnDisk'
    BY <1>0, <2>1, <2>2, DiskKept DEF LocalInv, Local!Writing
  <2> QED  BY <1>0, <2>3, <2>4, <2>6, <2>7 DEF LocalInv
<1> QED  BY <1>1, <1>2

LEMMA ReadKeepsInv ==
  ASSUME LocalInv, NEW c \in Local!Callers, Local!Read(c)
  PROVE  LocalInv'
<1>0. /\ UNCHANGED <<localJobs, loaded, disk, asked, held, accepted, replaced, crossed>>
      /\ op[c].at = "load" /\ LocalTypes /\ op[c] \in LocalCall
  BY DEF Local!Read, Local!Is, LocalInv, LocalTypes
<1> DEFINE list == Local!FileJobs
           e == [op[c] EXCEPT !.at = "loaded", !.list = list]
<1>1. op' = [op EXCEPT ![c] = e] /\ list \in Seq(LocalRow)
  BY <1>0, FileHasRows DEF Local!Read
<1> HIDE DEF list
<1>2. /\ e \in LocalCall /\ e.at = "loaded" /\ e.call = op[c].call /\ e.inode = op[c].inode
      /\ e.list = list
  BY <1>0, <1>1, EntryMoves
<1> HIDE DEF e
<1>3. op'[c] = e /\ \A d \in Local!Callers \ {c} : op'[d] = op[d]
  BY <1>0, <1>1 DEF LocalTypes
<1>4. e.inode = Local!Absent /\ Makes(c, e.call)
  BY <1>0, <1>2 DEF LocalInv, Calling
<1>5. LocalTypes'
  BY <1>0, <1>1, <1>2, TypesKept DEF LocalTypes
<1>6. Calling'
  BY <1>0, <1>1, <1>2, <1>4, CallingKept DEF LocalInv
<1>7. InMemory /\ (crossed \/ OnDisk) => InMemory'
  <2> SUFFICES ASSUME InMemory, crossed \/ OnDisk
               PROVE  InMemory'
    OBVIOUS
  <2>1. ~loaded => accepted \subseteq Local!Ids(list)
    BY DEF InMemory, OnDisk, list
  <2> QED  BY <1>0, <1>2, <1>3, <2>1 DEF InMemory, Local!Ids, Local!Callers
<1>8. OnDisk => OnDisk'
  BY <1>0, <1>1, <1>2, DiskKept DEF LocalInv, Local!Writing
<1> QED  BY <1>0, <1>5, <1>6, <1>7, <1>8 DEF LocalInv

LEMMA AssignKeepsInv ==
  ASSUME LocalInv, NEW c \in Local!Callers, Local!Assign(c)
  PROVE  LocalInv'
<1>0. /\ UNCHANGED <<disk, asked, accepted, crossed>> /\ replaced' = (replaced \/ loaded)
      /\ op[c].at = "loaded" /\ LocalTypes /\ op[c] \in LocalCall
      /\ Local!Apply(op[c].call, c, op[c].list)
  BY DEF Local!Assign, Local!Is, LocalInv, LocalTypes
<1>1. op[c].list \in Seq(LocalRow) /\ Makes(c, op[c].call) /\ op[c].call \in Calls
  BY <1>0 DEF LocalCall, LocalInv, Calling, Makes, Calls
<1>2. PICK e \in LocalCall : Applied(c, op[c].call, e, op[c].list)
  BY <1>0, <1>1, ApplyEffect
<1>3. ~replaced' => ~loaded /\ accepted \subseteq Local!Ids(op[c].list)
  BY <1>0 DEF LocalInv, InMemory, LocalTypes
<1>4. replaced' \in BOOLEAN /\ asked' \subseteq Clients /\ (replaced => replaced')
  BY <1>0 DEF LocalTypes
<1> QED  BY <1>0, <1>1, <1>2, <1>3, <1>4, AppliedKeeps

LEMMA RenameFailsKeepsInv ==
  ASSUME LocalInv, NEW c \in Local!Callers, Local!RenameFails(c)
  PROVE  LocalInv'
<1> DEFINE e == Local!Idle
<1>0. /\ UNCHANGED <<localJobs, loaded, disk, asked, accepted, replaced, crossed>>
      /\ op' = [op EXCEPT ![c] = e] /\ LocalTypes
  BY DEF Local!RenameFails, LocalInv
<1>1. e \in LocalCall /\ e.at = "idle" /\ e.inode = Local!Absent
  BY IdleEntry
<1> HIDE DEF e
<1>2. held' \in [Consumers -> Clients \cup {NoJob}]
  BY <1>0 DEF Local!RenameFails, LocalTypes
<1>3. op'[c] = e /\ \A d \in Local!Callers \ {c} : op'[d] = op[d]
  BY <1>0 DEF LocalTypes
<1>4. LocalTypes'
  BY <1>0, <1>1, <1>2, TypesKept DEF LocalTypes
<1>5. Calling'
  BY <1>0, <1>1, CallingKept DEF LocalInv
<1>6. InMemory => InMemory'
  BY <1>0, <1>1, <1>3 DEF InMemory, Local!Ids, Local!Callers
<1>7. OnDisk => OnDisk'
  BY <1>0, <1>1, DiskKept DEF LocalInv, Local!Writing
<1> QED  BY <1>0, <1>4, <1>5, <1>6, <1>7 DEF LocalInv

LEMMA SerializeKeepsInv ==
  ASSUME LocalInv, NEW c \in Local!Callers, Local!Serialize(c)
  PROVE  LocalInv'
<1> DEFINE e == [op[c] EXCEPT !.at = "open", !.list = localJobs]
<1>0. /\ UNCHANGED <<localJobs, loaded, disk, asked, held, accepted, replaced>>
      /\ op' = [op EXCEPT ![c] = e]
      /\ crossed' = (crossed \/ \E d \in Local!Callers : op[d].at \in Local!Writing)
      /\ op[c].at = "save" /\ LocalTypes /\ op[c] \in LocalCall /\ localJobs \in Seq(LocalRow)
  BY DEF Local!Serialize, Local!Is, LocalInv, LocalTypes
<1>1. /\ e \in LocalCall /\ e.at = "open" /\ e.call = op[c].call /\ e.inode = op[c].inode
      /\ e.list = localJobs
  BY <1>0, EntryMoves
<1> HIDE DEF e
<1>2. op'[c] = e /\ \A d \in Local!Callers \ {c} : op'[d] = op[d]
  BY <1>0 DEF LocalTypes
<1>3. e.inode = Local!Absent /\ Makes(c, e.call) /\ loaded
  BY <1>0, <1>1 DEF LocalInv, Calling
<1>4. crossed' \in BOOLEAN
  BY <1>0 DEF LocalTypes
<1>5. LocalTypes'
  BY <1>0, <1>1, <1>4, TypesKept DEF LocalTypes
<1>6. Calling'
  BY <1>0, <1>1, <1>3, CallingKept DEF LocalInv
<1>7. InMemory => InMemory'
  BY <1>0, <1>1, <1>2, <1>3 DEF InMemory, Local!Ids, Local!Callers
<1>8. ASSUME InMemory, OnDisk, ~crossed'
      PROVE  OnDisk'
  <2>1. \A d \in Local!Callers : op'[d].at \in Local!Writing => d = c
    BY <1>0, <1>2, <1>8
  <2>2. Saves(c, localJobs)
    BY <1>0, <1>3, <1>8 DEF InMemory, Saves
  <2>3. Saves(c, op[c].list)'
    BY <1>0, <1>1, <1>2, <2>2 DEF Saves, Local!Ids
  <2>4. op'[c].at = "open"
    BY <1>1, <1>2
  <2>5. \A d \in Local!Callers :
          /\ op'[d].at \in {"open", "write"} => d = c
          /\ op'[d].at # "write" /\ op'[d].at # "rename"
    BY <2>1, <2>4 DEF Local!Writing
  <2>6. accepted' \subseteq Local!Ids(Local!FileJobs)'
        /\ (disk.temp # Local!Absent => disk.temp # disk.file)
    BY <1>0, <1>8 DEF OnDisk, Local!Ids, Local!FileJobs, Local!Absent
  <2> QED  BY <1>0, <2>1, <2>3, <2>5, <2>6 DEF OnDisk, Local!Writing, Local!Absent, Local!Callers
<1> QED  BY <1>0, <1>5, <1>6, <1>7, <1>8 DEF LocalInv

\* While one call writes, the file that is to be read is not the one it writes.
LEMMA OpenKeepsInv ==
  ASSUME IsFiniteSet(Clients), IsFiniteSet(Consumers), LocalInv, NEW c \in Local!Callers, Local!Open(c)
  PROVE  LocalInv'
<1> DEFINE inode == IF disk.temp # Local!Absent THEN disk.temp
                    ELSE CHOOSE i \in Local!Inodes : i \notin Local!InUse
           e == [op[c] EXCEPT !.at = "write", !.inode = inode]
<1>0. /\ UNCHANGED <<localJobs, loaded, asked, held, accepted, replaced, crossed>>
      /\ op' = [op EXCEPT ![c] = e]
      /\ disk' = [disk EXCEPT !.temp = inode, !.data[inode] = Local!Torn]
      /\ op[c].at = "open" /\ LocalTypes /\ op[c] \in LocalCall
  BY DEF Local!Open, Local!Is, LocalInv, LocalTypes
<1>1. Local!Absent \notin Local!Inodes
  BY AbsentIsNone
<1>2. inode \in Local!Inodes /\ (OnDisk => inode # disk.file)
  <2>1. CASE disk.temp # Local!Absent
    BY <1>0, <2>1 DEF LocalTypes, LocalDisk, OnDisk
  <2>2. CASE disk.temp = Local!Absent
    <3>1. \E i \in Local!Inodes : i \notin Local!InUse
      BY <1>0, <2>2, FreshInode
    <3> QED  BY <2>2, <3>1 DEF Local!InUse
  <2> QED  BY <2>1, <2>2
<1> HIDE DEF inode
<1>3. /\ e \in LocalCall /\ e.at = "write" /\ e.call = op[c].call /\ e.inode = inode
      /\ e.list = op[c].list
  BY <1>0, <1>2, EntryOpens
<1> HIDE DEF e
<1>4. op'[c] = e /\ \A d \in Local!Callers \ {c} : op'[d] = op[d]
  BY <1>0 DEF LocalTypes
<1>5. /\ disk' \in LocalDisk /\ disk'.file = disk.file /\ disk'.temp = inode
      /\ disk'.data[inode] = Local!Torn
      /\ \A i \in Local!Inodes \ {inode} : disk'.data[i] = disk.data[i]
  <2>1. Local!Torn \in LocalText
    <3>1. <<>> \in Seq(LocalRow)
      OBVIOUS
    <3> QED  BY <3>1 DEF Local!Torn, LocalText
  <2> DEFINE torn == Local!Torn
  <2> HIDE DEF torn
  <2>2. disk' = [disk EXCEPT !.temp = inode, !.data[inode] = torn] /\ torn \in LocalText
        /\ disk \in LocalDisk
    BY <1>0, <2>1 DEF torn, LocalTypes
  <2>3. /\ disk' \in LocalDisk /\ disk'.file = disk.file /\ disk'.temp = inode
        /\ disk'.data[inode] = torn
        /\ \A i \in Local!Inodes \ {inode} : disk'.data[i] = disk.data[i]
    BY <1>2, <2>2 DEF LocalDisk
  <2> QED  BY <2>3 DEF torn
<1>6. Makes(c, e.call) /\ loaded
  BY <1>0, <1>3 DEF LocalInv, Calling
<1>7. LocalTypes'
  BY <1>0, <1>3, <1>5, TypesKept DEF LocalTypes
<1>8. Calling'
  BY <1>0, <1>3, <1>6, CallingKept DEF LocalInv
<1>9. InMemory => InMemory'
  BY <1>0, <1>3, <1>4, <1>6 DEF InMemory, Local!Ids, Local!Callers
<1>10. ASSUME OnDisk
       PROVE  OnDisk'
  <2>1. \A d \in Local!Callers : op'[d].at \in Local!Writing => d = c
    BY <1>0, <1>4, <1>10 DEF OnDisk, Local!Writing
  <2>2. Saves(c, op[c].list)
    BY <1>0, <1>10 DEF OnDisk
  <2>3. Saves(c, op[c].list)'
    BY <1>0, <1>3, <1>4, <2>2 DEF Saves, Local!Ids
  <2>4. op'[c].at = "write" /\ op'[c].inode = inode
    BY <1>3, <1>4
  <2>5. \A d \in Local!Callers :
          /\ op'[d].at \in {"open", "write"} => d = c
          /\ op'[d].at # "rename"
    BY <2>1, <2>4 DEF Local!Writing
  <2>6. accepted' \subseteq Local!Ids(Local!FileJobs)'
    <3>1. Local!FileJobs' = Local!FileJobs
      BY <1>0, <1>2, <1>5, <1>10 DEF Local!FileJobs, Local!Absent, LocalTypes, LocalDisk
    <3> QED  BY <1>0, <1>10, <3>1 DEF OnDisk, Local!Ids
  <2>7. disk'.temp # disk'.file /\ disk'.temp # Local!Absent
    BY <1>1, <1>2, <1>5, <1>10
  <2> QED  BY <1>5, <2>1, <2>3, <2>4, <2>5, <2>6, <2>7
           DEF OnDisk, Local!Writing, Local!Absent, Local!Torn, Local!Callers
<1> QED  BY <1>0, <1>7, <1>8, <1>9, <1>10 DEF LocalInv

LEMMA WriteKeepsInv ==
  ASSUME LocalInv, NEW c \in Local!Callers, Local!Write(c)
  PROVE  LocalInv'
<1> DEFINE e == [op[c] EXCEPT !.at = "rename", !.list = <<>>, !.inode = Local!Absent]
           inode == op[c].inode
           list == op[c].list
<1>0. /\ UNCHANGED <<localJobs, loaded, asked, held, accepted, replaced, crossed>>
      /\ op' = [op EXCEPT ![c] = e]
      /\ op[c].at = "write" /\ LocalTypes /\ op[c] \in LocalCall /\ list \in Seq(LocalRow)
      /\ disk \in LocalDisk
  BY DEF Local!Write, Local!Is, LocalInv, LocalTypes, LocalCall
<1>1. /\ e \in LocalCall /\ e.at = "rename" /\ e.call = op[c].call /\ e.inode = Local!Absent
  BY <1>0, EntryWrites
<1> HIDE DEF e
<1>2. op'[c] = e /\ \A d \in Local!Callers \ {c} : op'[d] = op[d]
  BY <1>0 DEF LocalTypes
<1>3. PICK data : /\ disk' = [disk EXCEPT !.data[inode] = data]
                  /\ data \in {Local!Text(list), Local!Torn}
                  /\ disk.data[inode] = Local!Torn => data = Local!Text(list)
  <2>1. PICK data \in (IF Len(list) >= Len(disk.data[inode].list) THEN {Local!Text(list)} ELSE {})
                      \cup (IF disk.data[inode].parses /\ Len(list) <= Len(disk.data[inode].list)
                            THEN {Local!Torn} ELSE {}) :
          disk' = [disk EXCEPT !.data[inode] = data]
    BY DEF Local!Write
  <2>2. Local!Torn.parses = FALSE
    BY DEF Local!Torn
  <2> QED  BY <2>1, <2>2
<1>4. data \in LocalText
  <2>1. <<>> \in Seq(LocalRow)
    OBVIOUS
  <2>2. Local!Torn \in LocalText
    BY <2>1 DEF Local!Torn, LocalText
  <2>3. Local!Text(list) \in LocalText
    BY <1>0 DEF Local!Text, LocalText
  <2> QED  BY <1>3, <2>2, <2>3
<1>5. /\ disk' \in LocalDisk /\ disk'.file = disk.file /\ disk'.temp = disk.temp
      /\ inode \in Local!Inodes => disk'.data[inode] = data
      /\ \A i \in Local!Inodes \ {inode} : disk'.data[i] = disk.data[i]
  <2> HIDE DEF inode
  <2> QED  BY <1>0, <1>3, <1>4 DEF LocalDisk
<1>6. Makes(c, e.call) /\ loaded
  BY <1>0, <1>1 DEF LocalInv, Calling
<1>7. LocalTypes'
  BY <1>0, <1>1, <1>5, TypesKept DEF LocalTypes
<1>8. Calling'
  BY <1>0, <1>1, <1>6, CallingKept DEF LocalInv
<1>9. InMemory => InMemory'
  BY <1>0, <1>1, <1>2, <1>6 DEF InMemory, Local!Ids, Local!Callers
<1>10. ASSUME OnDisk
       PROVE  OnDisk'
  <2>1. \A d \in Local!Callers : op'[d].at \in Local!Writing => d = c
    BY <1>0, <1>2, <1>10 DEF OnDisk, Local!Writing
  <2>2. /\ Saves(c, list) /\ inode = disk.temp /\ disk.temp # Local!Absent
        /\ disk.data[inode] = Local!Torn /\ disk.temp # disk.file
    BY <1>0, <1>10 DEF OnDisk
  <2>3. disk.temp \in Local!Inodes
    BY <1>0, <2>2 DEF LocalDisk
  <2>4. disk'.data[disk'.temp].list = list
    BY <1>3, <1>5, <2>2, <2>3 DEF Local!Text
  <2>5. Saves(c, disk.data[disk.temp].list)'
    BY <1>0, <1>1, <1>2, <2>2, <2>4 DEF Saves, Local!Ids
  <2>6. op'[c].at = "rename"
    BY <1>1, <1>2
  <2>7. \A d \in Local!Callers :
          /\ op'[d].at # "open" /\ op'[d].at # "write"
          /\ op'[d].at = "rename" => d = c
    BY <2>1, <2>6 DEF Local!Writing
  <2>8. accepted' \subseteq Local!Ids(Local!FileJobs)'
    <3>1. Local!FileJobs' = Local!FileJobs
      BY <1>0, <1>5, <2>2 DEF Local!FileJobs, Local!Absent, LocalDisk
    <3> QED  BY <1>0, <1>10, <3>1 DEF OnDisk, Local!Ids
  <2>9. disk'.temp # disk'.file /\ disk'.temp # Local!Absent
    BY <1>5, <2>2
  <2> QED  BY <1>5, <2>1, <2>5, <2>7, <2>8, <2>9
           DEF OnDisk, Local!Writing, Local!Absent, Local!Torn, Local!Callers
<1> QED  BY <1>0, <1>7, <1>8, <1>9, <1>10 DEF LocalInv

\* The rename puts a text in place that has what was accepted and the new job.
LEMMA RenameKeepsInv ==
  ASSUME LocalInv, NEW c \in Local!Callers, Local!Rename(c)
  PROVE  LocalInv'
<1> DEFINE e == Local!Idle
           data == [i \in Local!Inodes |->
                      IF i = disk.temp \/ \E d \in Local!Callers \ {c} : op[d].inode = i
                      THEN disk.data[i] ELSE Local!Torn]
<1>0. /\ UNCHANGED <<localJobs, loaded, asked, replaced, crossed>>
      /\ op' = [op EXCEPT ![c] = e]
      /\ disk' = [file |-> disk.temp, temp |-> Local!Absent, data |-> data]
      /\ accepted' = IF op[c].call = "enqueue" THEN accepted \cup {c} ELSE accepted
      /\ op[c].at = "rename" /\ disk.temp # Local!Absent /\ LocalTypes /\ op[c] \in LocalCall
      /\ disk \in LocalDisk
  BY DEF Local!Rename, Local!Is, LocalInv, LocalTypes
<1>1. e \in LocalCall /\ e.at = "idle" /\ e.inode = Local!Absent
  BY IdleEntry
<1> HIDE DEF e
<1>2. op'[c] = e /\ \A d \in Local!Callers \ {c} : op'[d] = op[d]
  BY <1>0 DEF LocalTypes
<1>3. disk.temp \in Local!Inodes /\ data \in [Local!Inodes -> LocalText]
      /\ data[disk.temp] = disk.data[disk.temp]
  <2>1. Local!Torn \in LocalText
    <3>1. <<>> \in Seq(LocalRow)
      OBVIOUS
    <3> QED  BY <3>1 DEF Local!Torn, LocalText
  <2>2. disk.temp \in Local!Inodes /\ disk.data \in [Local!Inodes -> LocalText]
    BY <1>0 DEF LocalDisk
  <2> QED  BY <2>1, <2>2
<1> HIDE DEF data
<1>4. disk' \in LocalDisk /\ disk'.file = disk.temp /\ disk'.temp = Local!Absent /\ disk'.data = data
  BY <1>0, <1>3 DEF LocalDisk
<1>5. Makes(c, op[c].call) /\ loaded
  BY <1>0 DEF LocalInv, Calling
<1>6. held' \in [Consumers -> Clients \cup {NoJob}]
  <2>1. op[c].job \in Clients \cup {NoJob} /\ held \in [Consumers -> Clients \cup {NoJob}]
    BY <1>0 DEF LocalCall, LocalTypes
  <2> QED  BY <2>1 DEF Local!Rename
<1>7. LocalTypes'
  <2>1. accepted' \subseteq Clients
    BY <1>0, <1>5 DEF Makes, LocalTypes
  <2> QED  BY <1>0, <1>1, <1>4, <1>6, <2>1, TypesKept DEF LocalTypes
<1>8. Calling'
  BY <1>0, <1>1, <1>5, CallingKept DEF LocalInv
<1>9. InMemory => InMemory'
  <2> SUFFICES ASSUME InMemory
               PROVE  InMemory'
    OBVIOUS
  <2>1. accepted' \subseteq Local!Ids(localJobs)
    BY <1>0, <1>5 DEF InMemory
  <2> QED  BY <1>0, <1>1, <1>2, <1>5, <2>1 DEF InMemory, Local!Ids, Local!Callers
<1>10. ASSUME OnDisk
       PROVE  OnDisk'
  <2>1. \A d \in Local!Callers : op'[d].at \notin Local!Writing
    BY <1>0, <1>1, <1>2, <1>10 DEF OnDisk, Local!Writing
  <2>2. Saves(c, disk.data[disk.temp].list)
    BY <1>0, <1>10 DEF OnDisk
  <2>3. accepted' \subseteq Local!Ids(disk.data[disk.temp].list)
    BY <1>0, <2>2 DEF Saves
  <2>4. Local!FileJobs' = disk.data[disk.temp].list
    BY <1>0, <1>3, <1>4 DEF Local!FileJobs, Local!Absent
  <2>5. accepted' \subseteq Local!Ids(Local!FileJobs)'
    BY <2>3, <2>4 DEF Local!Ids
  <2> QED  BY <1>4, <2>1, <2>5 DEF OnDisk, Local!Writing, Local!Absent, Local!Torn, Local!Callers
<1> QED  BY <1>0, <1>7, <1>8, <1>9, <1>10 DEF LocalInv

LEMMA LocalRestartKeepsInv ==
  ASSUME LocalInv, Local!Restart
  PROVE  LocalInv'
<1>0. /\ localJobs' = <<>> /\ loaded' = FALSE /\ UNCHANGED <<disk, asked, accepted, crossed>>
      /\ op' = [c \in Local!Callers |-> Local!Idle] /\ held' = [w \in Consumers |-> NoJob]
      /\ replaced' = (replaced \/ crossed) /\ LocalTypes
  BY DEF Local!Restart, LocalInv
<1>1. Local!Idle \in LocalCall /\ Local!Idle.at = "idle" /\ Local!Idle.inode = Local!Absent
  BY IdleEntry
<1>2. \A d \in Local!Callers : op'[d].at = "idle" /\ op'[d].inode = Local!Absent
  BY <1>0, <1>1
<1>3. LocalTypes'
  <2>1. localJobs' \in Seq(LocalRow) /\ held' \in [Consumers -> Clients \cup {NoJob}]
    BY <1>0
  <2>2. op' \in [Local!Callers -> LocalCall]
    BY <1>0, <1>1
  <2> QED  BY <1>0, <2>1, <2>2
           DEF LocalTypes, LocalDisk, Local!Inodes, Local!Callers, LocalCall, Local!Absent
<1>4. Calling'
  BY <1>2 DEF Calling, Local!Callers, Local!Absent
<1>5. ASSUME ~replaced'
      PROVE  InMemory' /\ OnDisk'
  <2>1. ~crossed /\ OnDisk
    BY <1>0, <1>5 DEF LocalInv, LocalTypes
  <2>2. InMemory'
    BY <1>0, <1>2, <2>1 DEF InMemory, Local!Callers
  <2>3. accepted' \subseteq Local!Ids(Local!FileJobs)'
        /\ (disk.temp # Local!Absent => disk.temp # disk.file)
    BY <1>0, <2>1 DEF OnDisk, Local!Ids, Local!FileJobs, Local!Absent
  <2> QED  BY <1>0, <1>2, <2>2, <2>3
           DEF OnDisk, Local!Writing, Local!Absent, Local!Torn, Local!Callers
<1> QED  BY <1>3, <1>4, <1>5 DEF LocalInv

LEMMA LocalInvHolds ==
  ASSUME IsFiniteSet(Clients), IsFiniteSet(Consumers)
  PROVE  Local!Spec => []LocalInv
<1>1. Local!Init => LocalInv
  <2> SUFFICES ASSUME Local!Init
               PROVE  LocalInv
    OBVIOUS
  <2>1. Local!Idle \in LocalCall /\ Local!Idle.at = "idle" /\ Local!Idle.inode = Local!Absent
    BY IdleEntry
  <2>2. \A d \in Local!Callers : op[d].at = "idle" /\ op[d].inode = Local!Absent
    BY <2>1 DEF Local!Init
  <2>3. LocalTypes
    <3>1. <<>> \in Seq(LocalRow)
      OBVIOUS
    <3>2. op \in [Local!Callers -> LocalCall] /\ localJobs \in Seq(LocalRow) /\ loaded \in BOOLEAN
      BY <2>1, <3>1 DEF Local!Init
    <3>3. disk \in LocalDisk
      <4>1. [i \in Local!Inodes |-> Local!Torn] \in [Local!Inodes -> LocalText]
        BY <3>1 DEF Local!Torn, LocalText
      <4> QED  BY <4>1 DEF Local!Init, LocalDisk
    <3> QED  BY <3>2, <3>3 DEF Local!Init, LocalTypes
  <2>4. Calling
    BY <2>2 DEF Calling
  <2>5. InMemory /\ OnDisk
    BY <2>2 DEF InMemory, OnDisk, Local!Init, Local!Ids, Local!Writing
  <2> QED  BY <2>3, <2>4, <2>5 DEF LocalInv
<1>2. LocalInv /\ [Local!Next]_(Local!vars) => LocalInv'
  <2> SUFFICES ASSUME LocalInv, [Local!Next]_(Local!vars)
               PROVE  LocalInv'
    OBVIOUS
  <2> USE DEF Local!Callers
  <2>1. ASSUME NEW c \in Clients, Local!Enqueue(c)
        PROVE  LocalInv'
    <3>1. Local!Begin(c, "enqueue") /\ asked' \subseteq Clients
      BY <2>1 DEF Local!Enqueue, LocalInv, LocalTypes
    <3> QED  BY <3>1, BeginKeepsInv DEF Makes, Calls
  <2>2. ASSUME NEW w \in Consumers, Local!Claim(w) \/ Local!Settle(w)
        PROVE  LocalInv'
    <3>1. asked' \subseteq Clients
          /\ (Local!Begin(w, "claim") \/ Local!Begin(w, "complete") \/ Local!Begin(w, "fail"))
      BY <2>2 DEF Local!Claim, Local!Settle, LocalInv, LocalTypes
    <3> QED  BY <3>1, BeginKeepsInv DEF Makes, Calls
  <2>3. ASSUME NEW c \in Local!Callers,
               \/ Local!Read(c) \/ Local!Assign(c) \/ Local!Serialize(c) \/ Local!Open(c)
               \/ Local!Write(c) \/ Local!Rename(c) \/ Local!RenameFails(c)
        PROVE  LocalInv'
    BY <2>3, ReadKeepsInv, AssignKeepsInv, SerializeKeepsInv, OpenKeepsInv, WriteKeepsInv,
       RenameKeepsInv, RenameFailsKeepsInv
  <2>4. CASE UNCHANGED Local!vars
    <3>1. UNCHANGED <<localJobs, loaded, disk, op, asked, held, accepted, replaced, crossed>>
      BY <2>4 DEF Local!vars
    <3>2. LocalTypes'
      BY <3>1 DEF LocalInv, LocalTypes, LocalDisk, LocalCall, Local!Inodes, Local!Absent
    <3>3. Calling'
      BY <3>1 DEF LocalInv, Calling, Makes, Local!Absent
    <3>4. InMemory => InMemory'
      BY <3>1 DEF InMemory, Local!Ids
    <3>5. OnDisk => OnDisk'
      <4>1. Local!FileJobs' = Local!FileJobs
        BY <3>1 DEF Local!FileJobs, Local!Absent
      <4>2. \A d \in Local!Callers :
              Saves(d, op[d].list)' = Saves(d, op[d].list)
              /\ Saves(d, disk.data[disk.temp].list)' = Saves(d, disk.data[disk.temp].list)
        BY <3>1 DEF Saves, Local!Ids
      <4> HIDE DEF Local!Callers
      <4>3. Local!Callers' = Local!Callers
        BY DEF Local!Callers
      <4> QED  BY <3>1, <4>1, <4>2, <4>3 DEF OnDisk, Local!Ids, Local!Absent, Local!Torn, Local!Writing
    <3> QED  BY <3>1, <3>2, <3>3, <3>4, <3>5 DEF LocalInv
  <2> QED  BY <2>1, <2>2, <2>3, <2>4, LocalRestartKeepsInv DEF Local!Next
<1> QED  BY <1>1, <1>2, PTL DEF Local!Spec

\* A job that enqueue() returned is in memory and in the file, but for a second load
\* over a state in use and for two writes under the one temporary name
\* (execution-platform-v2.js:53-97).
THEOREM AcceptedStays ==
  ASSUME IsFiniteSet(Clients), IsFiniteSet(Consumers)
  PROVE  Local!Spec => []AcceptedIsKept
<1>1. LocalInv => AcceptedIsKept
  BY DEF LocalInv, InMemory, OnDisk, AcceptedIsKept, Local!AcceptedIsKept
<1> QED  BY <1>1, LocalInvHolds, PTL

-----------------------------------------------------------------------------
(* The local queue has one job at most of each client                      *)

\* The clients whose job was put into a list, and the calls about to put theirs
Entering(e) == e.at \in {"load", "loaded"} /\ e.call = "enqueue"
Entered == {c \in asked : ~Entering(op[c])}

\* A list has jobs of those who entered, and no two of one
Once(list, who) ==
  /\ \A i \in DOMAIN list : list[i].id \in who
  /\ \A i, k \in DOMAIN list : list[i].id = list[k].id => i = k

OnceInv ==
  /\ Once(localJobs, Entered)
  /\ \A c \in Local!Callers : /\ Once(op[c].list, Entered)
                              /\ op[c].at # "idle" /\ op[c].call = "enqueue" => c \in asked
  /\ \A i \in Local!Inodes : Once(disk.data[i].list, Entered)
  /\ accepted \subseteq Entered
  /\ restarts \in 0 .. MaxRestarts

LEMMA OnceGrows ==
  ASSUME NEW list, NEW A, NEW B, A \subseteq B, Once(list, A)
  PROVE  Once(list, B)
BY DEF Once

LEMMA OnceEmpty ==
  ASSUME NEW A
  PROVE  Once(<<>>, A) /\ Once(Local!Idle.list, A) /\ Once(Local!Torn.list, A)
BY DEF Once, Local!Idle, Local!Torn

LEMMA OnceFile ==
  ASSUME LocalTypes, OnceInv
  PROVE  Once(Local!FileJobs, Entered)
<1>1. Once(<<>>, Entered)
  BY OnceEmpty
<1>2. disk.file \in Local!Inodes \cup {Local!Absent}
  BY DEF LocalTypes, LocalDisk
<1> QED  BY <1>1, <1>2 DEF OnceInv, Local!FileJobs

\* A call that puts no job again keeps who has entered.
LEMMA EnteredGrows ==
  ASSUME LocalTypes, NEW c \in Local!Callers, NEW e, op' = [op EXCEPT ![c] = e],
         asked \subseteq asked', c \in Entered => ~Entering(e)
  PROVE  Entered \subseteq Entered'
<1>1. op'[c] = e /\ \A d \in Local!Callers \ {c} : op'[d] = op[d]
  BY DEF LocalTypes
<1>2. asked \subseteq Local!Callers
  BY DEF LocalTypes, Local!Callers
<1>3. Entered' = {d \in asked' : ~Entering(op'[d])}
  BY DEF Entered, Entering
<1>4. ASSUME NEW d \in Entered
      PROVE  d \in asked' /\ ~Entering(op'[d])
  BY <1>1, <1>2, <1>4 DEF Entered
<1> QED  BY <1>3, <1>4

\* A call moves, with lists that have no job twice.
LEMMA OnceMoves ==
  ASSUME LocalTypes, OnceInv, NEW c \in Local!Callers, NEW e, op' = [op EXCEPT ![c] = e],
         Entered \subseteq Entered', asked \subseteq asked',
         e.at # "idle" /\ e.call = "enqueue" => c \in asked',
         Once(e.list, Entered'), Once(localJobs', Entered'),
         \A i \in Local!Inodes : disk'.data[i] = disk.data[i] \/ Once(disk'.data[i].list, Entered'),
         accepted' \subseteq Entered', restarts' \in 0 .. MaxRestarts
  PROVE  OnceInv'
<1>1. op'[c] = e /\ \A d \in Local!Callers \ {c} : op'[d] = op[d]
  BY DEF LocalTypes
<1> DEFINE who == Entered'
<1>2. \A d \in Local!Callers : /\ Once(op'[d].list, who)
                               /\ op'[d].at # "idle" /\ op'[d].call = "enqueue" => d \in asked'
  <2> SUFFICES ASSUME NEW d \in Local!Callers
               PROVE  /\ Once(op'[d].list, who)
                      /\ op'[d].at # "idle" /\ op'[d].call = "enqueue" => d \in asked'
    OBVIOUS
  <2>1. Once(op[d].list, Entered) /\ (op[d].at # "idle" /\ op[d].call = "enqueue" => d \in asked)
    BY DEF OnceInv
  <2>2. Once(op[d].list, who)
    BY <2>1, OnceGrows
  <2> QED  BY <1>1, <2>1, <2>2
<1>3. \A i \in Local!Inodes : Once(disk'.data[i].list, who)
  <2> SUFFICES ASSUME NEW i \in Local!Inodes
               PROVE  Once(disk'.data[i].list, who)
    OBVIOUS
  <2>1. Once(disk.data[i].list, Entered)
    BY DEF OnceInv
  <2>2. Once(disk.data[i].list, who)
    BY <2>1, OnceGrows
  <2> QED  BY <2>2
<1> QED  BY <1>2, <1>3 DEF OnceInv, Once, Local!Callers, Local!Inodes

\* An enqueue adds the job of its client, the others leave the ids as they are.
LEMMA OnceAdded ==
  ASSUME NEW list \in Seq(LocalRow), NEW c \in Local!Callers, NEW name \in Calls, Makes(c, name),
         NEW i \in Local!Chosen(name, c, list), NEW A, NEW B, A \subseteq B, Once(list, A),
         name = "enqueue" => c \in B /\ c \notin A
  PROVE  Once(IF name = "enqueue" THEN Append(list, Local!Job(c))
              ELSE [list EXCEPT ![i] = Local!Changed(name, c, list[i])], B)
<1>1. CASE name = "enqueue"
  <2> DEFINE job == Local!Job(c)
             new == Append(list, job)
  <2>1. job.id = c
    BY DEF Local!Job
  <2> HIDE DEF job
  <2>2. /\ Len(list) \in Nat /\ DOMAIN list = 1 .. Len(list) /\ DOMAIN new = 1 .. Len(list) + 1
        /\ new[Len(list) + 1] = job /\ \A k \in 1 .. Len(list) : new[k] = list[k]
    OBVIOUS
  <2> HIDE DEF new
  <2>3. \A k \in DOMAIN new : k \in DOMAIN list \/ k = Len(list) + 1
    BY <2>2
  <2>4. \A k \in DOMAIN list : new[k].id \in A /\ new[k].id = list[k].id
    BY <2>2 DEF Once
  <2>5. new[Len(list) + 1].id = c /\ c \in B /\ c \notin A
    BY <1>1, <2>1, <2>2
  <2>6. \A k \in DOMAIN new : new[k].id \in B
    BY <2>3, <2>4, <2>5
  <2>7. \A k, l \in DOMAIN new : new[k].id = new[l].id => k = l
    <3> SUFFICES ASSUME NEW k \in DOMAIN new, NEW l \in DOMAIN new, new[k].id = new[l].id
                 PROVE  k = l
      OBVIOUS
    <3>1. CASE k \in DOMAIN list /\ l \in DOMAIN list
      BY <2>4, <3>1 DEF Once
    <3>2. CASE k \notin DOMAIN list \/ l \notin DOMAIN list
      BY <2>3, <2>4, <2>5, <3>2
    <3> QED  BY <3>1, <3>2
  <2>8. Once(new, B)
    BY <2>6, <2>7 DEF Once
  <2> QED  BY <1>1, <2>8 DEF new, job
<1>2. CASE name # "enqueue"
  <2>1. i \in DOMAIN list
    BY <1>2 DEF Local!Chosen, Local!Queued, Local!Owned, Calls
  <2>2. list[i] \in LocalRow /\ c \in Consumers /\ name \in {"claim", "complete", "fail"}
    BY <1>2, <2>1 DEF Makes
  <2> DEFINE job == Local!Changed(name, c, list[i])
             new == [list EXCEPT ![i] = job]
  <2>3. job.id = list[i].id
    BY <2>2, ChangedIsRow
  <2> HIDE DEF job
  <2>4. DOMAIN new = DOMAIN list /\ \A k \in DOMAIN list : new[k].id = list[k].id
    BY <2>1, <2>3
  <2> HIDE DEF new
  <2>5. Once(new, B)
    BY <2>4 DEF Once
  <2> QED  BY <1>2, <2>5 DEF new, job
<1> QED  BY <1>1, <1>2

LEMMA OnceApplied ==
  ASSUME LocalTypes, OnceInv, NEW c \in Local!Callers, NEW name \in Calls, Makes(c, name),
         NEW list \in Seq(LocalRow), Once(list, Entered), Local!Apply(name, c, list),
         asked \subseteq asked', name = "enqueue" => c \in asked' /\ c \notin Entered,
         UNCHANGED <<disk, accepted, restarts>>
  PROVE  OnceInv'
<1> DEFINE who == Entered'
<1>1. CASE Local!Chosen(name, c, list) = {}
  <2> DEFINE e == Local!Idle
  <2>1. e.at = "idle" /\ ~Entering(e) /\ Once(e.list, who)
    BY OnceEmpty DEF Local!Idle, Entering
  <2>2. op' = [op EXCEPT ![c] = e] /\ localJobs' = list
    BY <1>1 DEF Local!Apply
  <2> HIDE DEF e
  <2>3. Entered \subseteq Entered'
    BY <2>1, <2>2, EnteredGrows
  <2>4. Once(list, who)
    BY <2>3, OnceGrows
  <2>5. accepted' \subseteq Entered' /\ restarts' \in 0 .. MaxRestarts
    BY <2>3 DEF OnceInv
  <2> QED  BY <2>1, <2>2, <2>3, <2>4, <2>5, OnceMoves
<1>2. CASE Local!Chosen(name, c, list) # {}
  <2>1. PICK i \in Local!Chosen(name, c, list) :
          /\ localJobs' = IF name = "enqueue" THEN Append(list, Local!Job(c))
                     ELSE [list EXCEPT ![i] = Local!Changed(name, c, list[i])]
          /\ op' = [op EXCEPT ![c] = [Local!Idle EXCEPT !.at = "save", !.call = name, !.job = localJobs'[i].id]]
    BY <1>2 DEF Local!Apply
  <2> DEFINE job == localJobs'[i].id
             e == [Local!Idle EXCEPT !.at = "save", !.call = name, !.job = job]
  <2>2. op' = [op EXCEPT ![c] = e]
    BY <2>1
  <2> HIDE DEF job
  <2>3. e.at = "save" /\ e.call = name /\ ~Entering(e) /\ Once(e.list, who)
    BY OnceEmpty DEF Local!Idle, Entering
  <2> HIDE DEF e
  <2>4. Entered \subseteq Entered'
    BY <2>2, <2>3, EnteredGrows
  <2>5. name = "enqueue" => c \in Entered' /\ c \notin Entered
    <3>1. op'[c] = e
      BY <2>2 DEF LocalTypes
    <3> QED  BY <2>3, <3>1 DEF Entered, Entering
  <2>6. Once(localJobs', who)
    <3> DEFINE new == IF name = "enqueue" THEN Append(list, Local!Job(c))
                      ELSE [list EXCEPT ![i] = Local!Changed(name, c, list[i])]
    <3>1. Once(new, who)
      BY <2>4, <2>5, OnceAdded
    <3>2. localJobs' = new
      BY <2>1
    <3> HIDE DEF new
    <3> QED  BY <3>1, <3>2
  <2>7. accepted' \subseteq Entered' /\ restarts' \in 0 .. MaxRestarts
    BY <2>4 DEF OnceInv
  <2> QED  BY <2>2, <2>3, <2>4, <2>6, <2>7, OnceMoves
<1> QED  BY <1>1, <1>2

LEMMA OnceBegin ==
  ASSUME LocalInv, OnceInv, NEW c \in Local!Callers, NEW name \in Calls, Makes(c, name),
         Local!Begin(c, name), asked \subseteq asked',
         name = "enqueue" => c \in asked' /\ c \notin asked
  PROVE  OnceInv'
<1>0. UNCHANGED <<disk, accepted, restarts>> /\ LocalTypes /\ localJobs \in Seq(LocalRow)
  BY DEF Local!Begin, LocalInv, LocalTypes
<1>1. CASE loaded
  <2>1. Local!Apply(name, c, localJobs) /\ Once(localJobs, Entered)
    BY <1>1 DEF Local!Begin, OnceInv
  <2>2. name = "enqueue" => c \in asked' /\ c \notin Entered
    BY DEF Entered
  <2> QED  BY <1>0, <2>1, <2>2, OnceApplied
<1>2. CASE ~loaded
  <2> DEFINE e == [Local!Idle EXCEPT !.at = "load", !.call = name]
             who == Entered'
  <2>1. op' = [op EXCEPT ![c] = e] /\ localJobs' = localJobs
    BY <1>2 DEF Local!Begin
  <2>2. e.at = "load" /\ e.call = name /\ Once(e.list, who)
    BY OnceEmpty DEF Local!Idle
  <2> HIDE DEF e
  <2>3. c \in Entered => ~Entering(e)
    BY <2>2 DEF Entered, Entering
  <2>4. Entered \subseteq Entered'
    BY <1>0, <2>1, <2>3, EnteredGrows
  <2>5. Once(localJobs', who) /\ accepted' \subseteq Entered' /\ restarts' \in 0 .. MaxRestarts
    BY <1>0, <2>1, <2>4, OnceGrows DEF OnceInv
  <2> QED  BY <1>0, <2>1, <2>2, <2>4, <2>5, OnceMoves
<1> QED  BY <1>1, <1>2

\* Read, Serialize, Open, Write, Rename and RenameFails: a text that is one of those
\* there were, or none.
LEMMA OnceFiles ==
  ASSUME LocalInv, OnceInv, NEW c \in Local!Callers,
         \/ Local!Read(c) \/ Local!Serialize(c) \/ Local!Open(c)
         \/ Local!Write(c) \/ Local!Rename(c) \/ Local!RenameFails(c)
  PROVE  OnceInv'
<1>0. /\ UNCHANGED <<localJobs, asked, restarts>> /\ LocalTypes /\ op[c] \in LocalCall
      /\ disk \in LocalDisk
  BY DEF Local!Read, Local!Serialize, Local!Open, Local!Write, Local!Rename, Local!RenameFails,
         LocalInv, LocalTypes
<1> DEFINE who == Entered'
<1>1. Once(op[c].list, Entered) /\ Once(localJobs, Entered) /\ Once(Local!FileJobs, Entered)
      /\ accepted \subseteq Entered /\ restarts \in 0 .. MaxRestarts
  BY <1>0, OnceFile DEF OnceInv
<1>2. PICK e :
        /\ op' = [op EXCEPT ![c] = e]
        /\ \/ e.at = "idle"
           \/ e.call = op[c].call /\ op[c].at # "idle"
              /\ (e.at \in {"load", "loaded"} => op[c].at \in {"load", "loaded"})
        /\ \/ e.list \in {<<>>, op[c].list}
           \/ e.list \in {localJobs, Local!FileJobs}
  <2>1. CASE Local!Read(c)
    <3> DEFINE e == [op[c] EXCEPT !.at = "loaded", !.list = Local!FileJobs]
    <3>1. op' = [op EXCEPT ![c] = e] /\ op[c].at = "load"
      BY <2>1 DEF Local!Read, Local!Is
    <3>2. e.at = "loaded" /\ e.call = op[c].call /\ e.list = Local!FileJobs
      BY <1>0 DEF LocalCall
    <3> HIDE DEF e
    <3> QED  BY <3>1, <3>2
  <2>2. CASE Local!Serialize(c)
    <3> DEFINE e == [op[c] EXCEPT !.at = "open", !.list = localJobs]
    <3>1. op' = [op EXCEPT ![c] = e] /\ op[c].at = "save"
      BY <2>2 DEF Local!Serialize, Local!Is
    <3>2. e.at = "open" /\ e.call = op[c].call /\ e.list = localJobs
      BY <1>0 DEF LocalCall
    <3> HIDE DEF e
    <3> QED  BY <3>1, <3>2
  <2>3. CASE Local!Open(c)
    <3> DEFINE inode == IF disk.temp # Local!Absent THEN disk.temp
                        ELSE CHOOSE i \in Local!Inodes : i \notin Local!InUse
               e == [op[c] EXCEPT !.at = "write", !.inode = inode]
    <3>1. op' = [op EXCEPT ![c] = e] /\ op[c].at = "open"
      BY <2>3 DEF Local!Open, Local!Is
    <3> HIDE DEF inode
    <3>2. e.at = "write" /\ e.call = op[c].call /\ e.list = op[c].list
      BY <1>0 DEF LocalCall
    <3> HIDE DEF e
    <3> QED  BY <3>1, <3>2
  <2>4. CASE Local!Write(c)
    <3> DEFINE e == [op[c] EXCEPT !.at = "rename", !.list = <<>>, !.inode = Local!Absent]
    <3>1. op' = [op EXCEPT ![c] = e] /\ op[c].at = "write"
      BY <2>4 DEF Local!Write, Local!Is
    <3>2. e.at = "rename" /\ e.call = op[c].call /\ e.list = <<>>
      BY <1>0 DEF LocalCall
    <3> HIDE DEF e
    <3> QED  BY <3>1, <3>2
  <2>5. CASE Local!Rename(c) \/ Local!RenameFails(c)
    <3>1. op' = [op EXCEPT ![c] = Local!Idle]
      BY <2>5 DEF Local!Rename, Local!RenameFails
    <3>2. Local!Idle.at = "idle" /\ Local!Idle.list = <<>>
      BY DEF Local!Idle
    <3> QED  BY <3>1, <3>2
  <2> QED  BY <2>1, <2>2, <2>3, <2>4, <2>5
<1>3. c \in Entered => ~Entering(e)
  BY <1>2 DEF Entered, Entering
<1>4. Entered \subseteq Entered'
  BY <1>0, <1>2, <1>3, EnteredGrows
<1>5. Once(<<>>, who) /\ Once(op[c].list, who) /\ Once(localJobs, who) /\ Once(Local!FileJobs, who)
  BY <1>1, <1>4, OnceEmpty, OnceGrows
<1>6. Once(e.list, who) /\ Once(localJobs', who)
  BY <1>0, <1>2, <1>5
<1>7. \A i \in Local!Inodes : disk'.data[i] = disk.data[i] \/ Once(disk'.data[i].list, who)
  <2>1. CASE Local!Read(c) \/ Local!Serialize(c) \/ Local!RenameFails(c)
    BY <2>1 DEF Local!Read, Local!Serialize, Local!RenameFails
  <2>2. CASE Local!Open(c)
    <3> DEFINE inode == IF disk.temp # Local!Absent THEN disk.temp
                        ELSE CHOOSE i \in Local!Inodes : i \notin Local!InUse
               torn == Local!Torn
    <3>1. disk' = [disk EXCEPT !.temp = inode, !.data[inode] = torn]
      BY <2>2 DEF Local!Open
    <3>2. Once(torn.list, who)
      BY OnceEmpty
    <3> HIDE DEF inode, torn
    <3>3. \A i \in Local!Inodes : disk'.data[i] = disk.data[i] \/ disk'.data[i] = torn
      BY <1>0, <3>1 DEF LocalDisk
    <3> QED  BY <3>2, <3>3
  <2>3. CASE Local!Write(c)
    <3> DEFINE list == op[c].list
               inode == op[c].inode
               torn == Local!Torn
               text == Local!Text(list)
    <3>1. PICK data \in {text, torn} : disk' = [disk EXCEPT !.data[inode] = data]
      BY <2>3 DEF Local!Write
    <3>2. Once(torn.list, who) /\ Once(text.list, who)
      BY <1>5, OnceEmpty DEF Local!Text
    <3> HIDE DEF inode, torn, text
    <3>3. \A i \in Local!Inodes : disk'.data[i] = disk.data[i] \/ disk'.data[i] = data
      BY <1>0, <3>1 DEF LocalDisk
    <3> QED  BY <3>1, <3>2, <3>3
  <2>4. CASE Local!Rename(c)
    <3> DEFINE torn == Local!Torn
    <3>1. \A i \in Local!Inodes : disk'.data[i] = disk.data[i] \/ disk'.data[i] = torn
      BY <2>4 DEF Local!Rename
    <3>2. Once(torn.list, who)
      BY OnceEmpty
    <3> HIDE DEF torn
    <3> QED  BY <3>1, <3>2
  <2> QED  BY <2>1, <2>2, <2>3, <2>4
<1>8. accepted' \subseteq Entered'
  <2>1. CASE Local!Rename(c)
    <3>1. accepted' \subseteq accepted \cup {d \in {c} : op[c].call = "enqueue"} /\ op[c].at = "rename"
      BY <2>1 DEF Local!Rename, Local!Is
    <3>2. op[c].call = "enqueue" => c \in Entered
      BY <3>1 DEF OnceInv, Entered, Entering
    <3> QED  BY <1>1, <1>4, <3>1, <3>2
  <2>2. CASE ~Local!Rename(c)
    <3>1. accepted' = accepted
      BY <2>2 DEF Local!Read, Local!Serialize, Local!Open, Local!Write, Local!RenameFails
    <3> QED  BY <1>1, <1>4, <3>1
  <2> QED  BY <2>1, <2>2
<1>9. e.at # "idle" /\ e.call = "enqueue" => c \in asked'
  BY <1>0, <1>2 DEF OnceInv
<1> QED  BY <1>0, <1>1, <1>2, <1>4, <1>6, <1>7, <1>8, <1>9, OnceMoves

LEMMA OnceNext ==
  ASSUME LocalInv, OnceInv, [Local!Next]_(Local!vars)
  PROVE  OnceInv'
<1> USE DEF Local!Callers
<1>1. ASSUME NEW c \in Clients, Local!Enqueue(c)
      PROVE  OnceInv'
  <2>1. Local!Begin(c, "enqueue") /\ asked' = asked \cup {c} /\ c \notin asked
    BY <1>1 DEF Local!Enqueue
  <2> QED  BY <2>1, OnceBegin DEF Makes, Calls
<1>2. ASSUME NEW w \in Consumers, Local!Claim(w) \/ Local!Settle(w)
      PROVE  OnceInv'
  <2>1. asked' = asked
        /\ (Local!Begin(w, "claim") \/ Local!Begin(w, "complete") \/ Local!Begin(w, "fail"))
    BY <1>2 DEF Local!Claim, Local!Settle
  <2> QED  BY <2>1, OnceBegin DEF Makes, Calls
<1>3. ASSUME NEW c \in Local!Callers, Local!Assign(c)
      PROVE  OnceInv'
  <2>1. /\ UNCHANGED <<disk, asked, accepted, restarts>> /\ op[c].at = "loaded" /\ LocalTypes
        /\ Local!Apply(op[c].call, c, op[c].list)
    BY <1>3 DEF Local!Assign, Local!Is, LocalInv
  <2> DEFINE name == op[c].call
             list == op[c].list
  <2>2. list \in Seq(LocalRow) /\ Makes(c, name) /\ name \in Calls /\ Once(list, Entered)
    BY <2>1 DEF LocalTypes, LocalCall, LocalInv, Calling, Makes, Calls, OnceInv
  <2>3. name = "enqueue" => c \in asked' /\ c \notin Entered
    BY <2>1 DEF OnceInv, Entered, Entering
  <2>4. Local!Apply(name, c, list) /\ UNCHANGED <<disk, accepted, restarts>> /\ asked \subseteq asked'
    BY <2>1
  <2> HIDE DEF name, list, Local!Callers
  <2> QED  BY <1>3, <2>1, <2>2, <2>3, <2>4, OnceApplied
<1>4. ASSUME NEW c \in Local!Callers,
             \/ Local!Read(c) \/ Local!Serialize(c) \/ Local!Open(c)
             \/ Local!Write(c) \/ Local!Rename(c) \/ Local!RenameFails(c)
      PROVE  OnceInv'
  BY <1>4, OnceFiles
<1>5. CASE Local!Restart
  <2>1. /\ localJobs' = <<>> /\ op' = [c \in Local!Callers |-> Local!Idle]
        /\ UNCHANGED <<disk, asked, accepted>> /\ restarts' = restarts + 1 /\ restarts < MaxRestarts
    BY <1>5 DEF Local!Restart
  <2>2. Local!Idle.at = "idle" /\ Local!Idle.list = <<>>
    BY DEF Local!Idle
  <2>3. asked \subseteq Local!Callers
    BY DEF LocalInv, LocalTypes
  <2>4. Entered' = asked /\ Entered \subseteq Entered'
    BY <2>1, <2>2, <2>3 DEF Entered, Entering
  <2> DEFINE who == Entered'
  <2>5. Once(<<>>, who)
    BY OnceEmpty
  <2>6. \A i \in Local!Inodes : Once(disk.data[i].list, who)
    BY <2>4, OnceGrows DEF OnceInv
  <2>7. restarts' \in 0 .. MaxRestarts /\ accepted' \subseteq Entered'
    BY <2>1, <2>4, QueuesAssumption DEF OnceInv
  <2>8. \A c \in Local!Callers : op'[c].at = "idle" /\ op'[c].list = <<>>
    BY <2>1, <2>2
  <2>9. /\ Once(localJobs', who) /\ \A i \in Local!Inodes : Once(disk'.data[i].list, who)
        /\ \A c \in Local!Callers : Once(op'[c].list, who) /\ op'[c].at = "idle"
    BY <2>1, <2>5, <2>6, <2>8
  <2> QED  BY <2>7, <2>9 DEF OnceInv, Once, Local!Inodes
<1>6. CASE UNCHANGED Local!vars
  <2>1. UNCHANGED <<localJobs, disk, op, asked, accepted, restarts>>
    BY <1>6 DEF Local!vars
  <2>2. Entered' = Entered
    BY <2>1 DEF Entered, Entering
  <2> QED  BY <2>1, <2>2 DEF OnceInv, Once, Local!Inodes
<1> QED  BY <1>1, <1>2, <1>3, <1>4, <1>5, <1>6 DEF Local!Next

LEMMA LocalTypesHold ==
  Local!Spec => []Local!TypeOK
<1>1. Local!Init => OnceInv
  <2> SUFFICES ASSUME Local!Init
               PROVE  OnceInv
    OBVIOUS
  <2>1. Once(<<>>, Entered) /\ Once(Local!Idle.list, Entered) /\ Once(Local!Torn.list, Entered)
    BY OnceEmpty
  <2>2. Local!Idle.at = "idle"
    BY DEF Local!Idle
  <2> QED  BY <2>1, <2>2, QueuesAssumption DEF Local!Init, OnceInv
<1>2. LocalInv /\ OnceInv /\ [Local!Next]_(Local!vars) => OnceInv'
  BY OnceNext
<1>3. LocalInv /\ OnceInv => Local!TypeOK
  <2> SUFFICES ASSUME LocalInv, OnceInv
               PROVE  Local!TypeOK
    OBVIOUS
  <2>1. Entered \subseteq asked /\ Once(localJobs, Entered) /\ accepted \subseteq Entered
        /\ restarts \in 0 .. MaxRestarts
    BY DEF OnceInv, Entered
  <2>2. Local!Ids(localJobs) \subseteq asked
        /\ \A i, k \in DOMAIN localJobs : localJobs[i].id = localJobs[k].id => i = k
    BY <2>1 DEF Once, Local!Ids
  <2>3. /\ {disk.file, disk.temp} \subseteq Local!Inodes \cup {Local!Absent}
        /\ DOMAIN disk.data = Local!Inodes
    BY DEF LocalInv, LocalTypes, LocalDisk
  <2>4. \A c \in Local!Callers :
          /\ op[c].at \in {"idle", "load", "loaded", "save", "open", "write", "rename"}
          /\ op[c].call \in {"none", "enqueue", "claim", "complete", "fail"}
          /\ op[c].inode \in Local!Inodes \cup {Local!Absent}
    BY DEF LocalInv, LocalTypes, LocalCall
  <2> QED  BY <2>1, <2>2, <2>3, <2>4 DEF LocalInv, LocalTypes, Local!TypeOK
<1>4. Local!Spec => []LocalInv
  BY LocalInvHolds, QueuesAssumption
<1> QED  BY <1>1, <1>2, <1>3, <1>4, PTL DEF Local!Spec

-----------------------------------------------------------------------------
(* The ledger of executions                                                *)

LedgerRow == {x \in [key : BOOLEAN, result : Executions \cup {NoResult}, fresh : BOOLEAN] :
                x.key => x.result \in Executions}
LedgerCall == [at : {"idle", "loading", "read", "executing", "writing", "writing old", "end"},
               list : Seq(LedgerRow), answer : Executions \cup {NoResult}, fresh : BOOLEAN]

LedgerTypes ==
  /\ memory \in Executions \cup {NoResult}
  /\ records \in Seq(LedgerRow) /\ ledgerFile \in Seq(LedgerRow)
  /\ call \in [Ledger!KeyUsers -> LedgerCall]
  /\ {ledgerLoaded, raced, forgotten, shadowed} \subseteq BOOLEAN

\* The answers of the key that are within the ttl, in memory and in the file
FreshIn(list) == {list[i].result : i \in {k \in DOMAIN list : list[k].key /\ list[k].fresh}}
FreshNow == FreshIn(records)
FreshKept == FreshIn(ledgerFile)

\* Where the calls are, whatever happened
Underway ==
  /\ \A c \in Ledger!KeyUsers :
       /\ call[c].at = "executing" => c \in Executions
       /\ call[c].answer # NoResult => call[c].at = "end"
       /\ call[c].at = "idle" => ~call[c].fresh
       /\ call[c].at \in {"executing", "writing", "writing old"} => ledgerLoaded
  /\ ~ledgerLoaded => memory = NoResult

\* An answer that was given can be found again, also by the next process
Known(a) ==
  /\ ledgerLoaded => a \in FreshNow
  /\ a \in FreshKept \/ (ledgerLoaded /\ call[a].at # "end")

\* One answer is within the ttl, wherever it is looked up
OneFresh ==
  /\ \A v, w \in FreshNow \cup FreshKept : v = w
  /\ ledgerLoaded => FreshKept \subseteq FreshNow
  /\ memory # NoResult => memory \in FreshNow
  /\ \A c \in Ledger!KeyUsers :
       /\ call[c].at # "writing old"
       /\ call[c].at = "executing" => FreshNow = {}
       /\ call[c].at = "read" /\ ~ledgerLoaded => call[c].list = ledgerFile
  /\ \A c \in Executions :
       /\ call[c].at = "writing" /\ call[c].fresh => c \in FreshNow
       /\ call[c].at = "end" /\ c \in FreshNow => c \in FreshKept
       /\ c \in FreshNow \cup FreshKept => call[c].at \in {"writing", "end"}
       /\ call[c].fresh /\ call[c].answer # NoResult => Known(call[c].answer)

LedgerInv == LedgerTypes /\ Underway /\ (raced \/ forgotten \/ shadowed \/ OneFresh)

-----------------------------------------------------------------------------
(* Records and what is found in them                                       *)

LEMMA LeastOf ==
  ASSUME NEW S \in SUBSET Nat, S # {}
  PROVE  \E x \in S : \A y \in S : x <= y
<1>1. PICK x \in S : \A y \in S : ~(<<y, x>> \in OpToRel(<, Nat))
  <2> HIDE DEF OpToRel
  <2> QED  BY NatLessThanWellFounded, WFMin
<1>2. \A y \in S : x <= y
  <2> SUFFICES ASSUME NEW y \in S, y < x
               PROVE  FALSE
    OBVIOUS
  <2>1. <<y, x>> \in OpToRel(<, Nat)
    BY DEF OpToRel
  <2> QED  BY <1>1, <2>1
<1> QED  BY <1>2

LEMMA FreshAreExecutions ==
  ASSUME NEW list \in Seq(LedgerRow)
  PROVE  FreshIn(list) \subseteq Executions
BY DEF FreshIn, LedgerRow

LEMMA FreshOfAppend ==
  ASSUME NEW list \in Seq(LedgerRow), NEW row \in LedgerRow
  PROVE  /\ Append(list, row) \in Seq(LedgerRow)
         /\ FreshIn(Append(list, row)) =
              FreshIn(list) \cup (IF row.key /\ row.fresh THEN {row.result} ELSE {})
<1> DEFINE new == Append(list, row)
<1>1. /\ new \in Seq(LedgerRow) /\ Len(list) \in Nat /\ DOMAIN list = 1 .. Len(list)
      /\ DOMAIN new = 1 .. Len(list) + 1 /\ new[Len(list) + 1] = row
      /\ \A k \in 1 .. Len(list) : new[k] = list[k]
  OBVIOUS
<1> HIDE DEF new
<1>2. ASSUME NEW a
      PROVE  a \in FreshIn(new) <=>
               a \in FreshIn(list) \/ (row.key /\ row.fresh /\ a = row.result)
  <2>1. a \in FreshIn(new) <=>
          \E k \in 1 .. Len(list) + 1 : new[k].key /\ new[k].fresh /\ a = new[k].result
    BY <1>1 DEF FreshIn
  <2>2. a \in FreshIn(list) <=>
          \E k \in 1 .. Len(list) : list[k].key /\ list[k].fresh /\ a = list[k].result
    BY <1>1 DEF FreshIn
  <2>3. \A k \in 1 .. Len(list) + 1 : k \in 1 .. Len(list) \/ k = Len(list) + 1
    BY <1>1
  <2>4. Len(list) + 1 \in 1 .. Len(list) + 1 /\ \A k \in 1 .. Len(list) : k \in 1 .. Len(list) + 1
    BY <1>1
  <2> QED  BY <1>1, <2>1, <2>2, <2>3, <2>4
<1> QED  BY <1>1, <1>2 DEF new

LEMMA FreshOfAged ==
  ASSUME NEW list \in Seq(LedgerRow)
  PROVE  Ledger!Aged(list) \in Seq(LedgerRow) /\ FreshIn(Ledger!Aged(list)) = {}
<1> DEFINE old == Ledger!Aged(list)
<1>1. \A i \in DOMAIN list : [list[i] EXCEPT !.fresh = FALSE] \in LedgerRow
                             /\ [list[i] EXCEPT !.fresh = FALSE].fresh = FALSE
  <2> TAKE i \in DOMAIN list
  <2> DEFINE row == list[i]
  <2>1. row \in LedgerRow
    OBVIOUS
  <2> HIDE DEF row
  <2>2. [row EXCEPT !.fresh = FALSE] \in LedgerRow /\ [row EXCEPT !.fresh = FALSE].fresh = FALSE
    BY <2>1 DEF LedgerRow
  <2> QED  BY <2>2 DEF row
<1>2. old = [i \in 1 .. Len(list) |-> [list[i] EXCEPT !.fresh = FALSE]] /\ Len(list) \in Nat
      /\ DOMAIN list = 1 .. Len(list)
  BY DEF Ledger!Aged
<1> HIDE DEF old
<1>3. old \in [1 .. Len(list) -> LedgerRow]
  BY <1>1, <1>2
<1>4. old \in Seq(LedgerRow)
  BY <1>2, <1>3
<1>5. \A k \in DOMAIN old : old[k].fresh = FALSE
  BY <1>1, <1>2
<1> QED  BY <1>4, <1>5 DEF FreshIn, old

\* findByIdempotencyKey() returns a record of the key, and one when there is any.
LEMMA FindsTheKey ==
  ASSUME NEW list \in Seq(LedgerRow)
  PROVE  /\ \A x \in Ledger!Find(list) : x \in LedgerRow /\ (x.fresh => x.result \in FreshIn(list))
         /\ Ledger!Find(list) = {} => FreshIn(list) = {}
<1>1. ASSUME NEW x \in Ledger!Find(list)
      PROVE  x \in LedgerRow /\ (x.fresh => x.result \in FreshIn(list))
  BY DEF Ledger!Find, FreshIn
<1>2. ASSUME FreshIn(list) # {}
      PROVE  Ledger!Find(list) # {}
  <2> DEFINE keyed == {k \in DOMAIN list : list[k].key}
  <2>1. keyed \in SUBSET Nat /\ keyed # {}
    BY <1>2 DEF FreshIn
  <2>2. PICK i \in keyed : \A k \in keyed : i <= k
    BY <2>1, LeastOf
  <2>3. \A j \in 1 .. i - 1 : j \in DOMAIN list /\ ~(i <= j)
    BY <2>2
  <2>4. \A j \in 1 .. i - 1 : ~list[j].key
    BY <2>2, <2>3
  <2> QED  BY <2>2, <2>4 DEF Ledger!Find
<1> QED  BY <1>1, <1>2

-----------------------------------------------------------------------------
(* The steps of a call under the key                                       *)

Ends(e, a) == e.at = "end" /\ e.answer = a /\ e.fresh = TRUE

\* check() either repeats a fresh answer or there is none to repeat.
LEMMA DecideEffect ==
  ASSUME LedgerTypes, NEW c \in Executions, NEW list \in Seq(LedgerRow), NEW calls,
         Ledger!Decide(c, calls, list)
  PROVE  \E e \in LedgerCall :
           /\ call' = [calls EXCEPT ![c] = e]
           /\ \/ \E a \in FreshIn(list) : Ends(e, a) /\ memory' = a /\ shadowed' = shadowed
              \/ /\ e.at = "executing" /\ e.answer = NoResult /\ memory' = memory
                 /\ shadowed' \in BOOLEAN /\ (shadowed => shadowed')
                 /\ ~shadowed' => FreshIn(list) = {}
<1> DEFINE found == {x \in Ledger!Find(list) : x.fresh}
<1>0. <<>> \in Seq(LedgerRow)
  OBVIOUS
<1>1. CASE \E x \in found : /\ memory' = x.result
                            /\ call' = [calls EXCEPT ![c] = Ledger!Ended(x.result, TRUE)]
                            /\ UNCHANGED shadowed
  <2>1. PICK x \in found : /\ memory' = x.result
                           /\ call' = [calls EXCEPT ![c] = Ledger!Ended(x.result, TRUE)]
                           /\ UNCHANGED shadowed
    BY <1>1
  <2>2. x.result \in FreshIn(list) /\ x.result \in Executions
    BY FindsTheKey, FreshAreExecutions
  <2> DEFINE a == x.result
             e == Ledger!Ended(a, TRUE)
  <2>3. call' = [calls EXCEPT ![c] = e] /\ memory' = a /\ shadowed' = shadowed
        /\ a \in FreshIn(list) /\ a \in Executions
    BY <2>1, <2>2
  <2> HIDE DEF a
  <2>4. e \in LedgerCall /\ Ends(e, a)
    BY <1>0, <2>3 DEF Ledger!Ended, LedgerCall, Ends
  <2> HIDE DEF e
  <2> QED  BY <2>3, <2>4
<1>2. CASE /\ found = {}
           /\ call' = [calls EXCEPT ![c] = [Ledger!Idle EXCEPT !.at = "executing"]]
           /\ shadowed' = (shadowed \/ (/\ Ledger!Find(list) # {}
                                        /\ \E i \in DOMAIN list : list[i].key /\ list[i].fresh))
           /\ UNCHANGED memory
  <2> DEFINE e == [Ledger!Idle EXCEPT !.at = "executing"]
  <2>1. e \in LedgerCall /\ e.at = "executing" /\ e.answer = NoResult
    BY <1>0 DEF Ledger!Idle, LedgerCall
  <2>2. call' = [calls EXCEPT ![c] = e] /\ memory' = memory
    BY <1>2
  <2>3. shadowed' \in BOOLEAN /\ (shadowed => shadowed')
    BY <1>2 DEF LedgerTypes
  <2>4. ASSUME ~shadowed'
        PROVE  FreshIn(list) = {}
    <3>1. CASE Ledger!Find(list) = {}
      BY <3>1, FindsTheKey
    <3>2. CASE Ledger!Find(list) # {}
      BY <1>2, <2>4, <3>2 DEF FreshIn
    <3> QED  BY <3>1, <3>2
  <2> HIDE DEF e
  <2> QED  BY <2>1, <2>2, <2>3, <2>4
<1> QED  BY <1>1, <1>2 DEF Ledger!Decide

\* Calls move within their types.
LEMMA MoveTypes ==
  ASSUME LedgerTypes, NEW c \in Ledger!KeyUsers, NEW e \in LedgerCall, call' = [call EXCEPT ![c] = e]
  PROVE  /\ call' \in [Ledger!KeyUsers -> LedgerCall]
         /\ call'[c] = e /\ \A d \in Ledger!KeyUsers \ {c} : call'[d] = call[d]
BY DEF LedgerTypes

\* A call that has given no answer yet moves, and the ledger stays.
LEMMA MoveKeepsOneFresh ==
  ASSUME LedgerTypes, OneFresh, NEW c \in Ledger!KeyUsers, NEW e \in LedgerCall,
         call' = [call EXCEPT ![c] = e], UNCHANGED <<FreshNow, FreshKept, ledgerLoaded, ledgerFile>>,
         call[c].at \notin {"writing", "end"}, FreshNow \cup FreshKept \subseteq Executions,
         memory' # NoResult => memory' \in FreshNow,
         e.at # "writing old", e.at = "writing" => ~e.fresh, e.at = "executing" => FreshNow = {},
         e.at = "read" /\ ~ledgerLoaded => e.list = ledgerFile,
         e.fresh /\ e.answer # NoResult => e.answer \in Executions /\ Known(e.answer)
  PROVE  OneFresh'
<1>1. call'[c] = e /\ \A d \in Ledger!KeyUsers \ {c} : call'[d] = call[d]
  BY MoveTypes
<1>2. c \notin FreshNow \cup FreshKept /\ Executions \subseteq Ledger!KeyUsers
  BY DEF OneFresh, Ledger!KeyUsers
<1>3. ASSUME NEW a \in Executions, Known(a)
      PROVE  Known(a)'
  BY <1>1, <1>2, <1>3 DEF Known
<1>4. ASSUME NEW d \in Ledger!KeyUsers
      PROVE  /\ call'[d].at # "writing old"
             /\ call'[d].at = "executing" => FreshNow = {}
             /\ call'[d].at = "read" /\ ~ledgerLoaded => call'[d].list = ledgerFile
  BY <1>1 DEF OneFresh
<1>5. ASSUME NEW d \in Executions
      PROVE  /\ call'[d].at = "writing" /\ call'[d].fresh => d \in FreshNow
             /\ call'[d].at = "end" /\ d \in FreshNow => d \in FreshKept
             /\ d \in FreshNow \cup FreshKept => call'[d].at \in {"writing", "end"}
             /\ call'[d].fresh /\ call'[d].answer # NoResult => Known(call[d].answer)'
  <2>1. CASE d = c
    BY <1>1, <1>2, <1>3, <2>1
  <2>2. CASE d # c
    <3>1. call'[d] = call[d]
      BY <1>1, <1>2, <2>2
    <3>2. call[d].fresh /\ call[d].answer # NoResult => call[d].answer \in Executions
      BY <1>2 DEF LedgerTypes, LedgerCall
    <3> QED  BY <1>3, <3>1, <3>2 DEF OneFresh
  <2> QED  BY <2>1, <2>2
<1> QED  BY <1>4, <1>5 DEF OneFresh, Ledger!KeyUsers

LEMMA CheckKeepsInv ==
  ASSUME LedgerInv, NEW c \in Ledger!KeyUsers, Ledger!Check(c)
  PROVE  LedgerInv'
<1>0. /\ c \in Executions /\ call[c].at = "idle" /\ LedgerTypes /\ Underway
      /\ UNCHANGED <<records, ledgerLoaded, ledgerFile, raced, forgotten>>
  BY DEF Ledger!Check, Ledger!Is, LedgerInv
<1>1. /\ FreshNow' = FreshNow /\ FreshKept' = FreshKept
      /\ FreshNow \subseteq Executions /\ FreshKept \subseteq Executions
  BY <1>0, FreshAreExecutions DEF FreshNow, FreshKept, FreshIn, LedgerTypes
<1>2. PICK e \in LedgerCall :
        /\ call' = [call EXCEPT ![c] = e]
        /\ \/ /\ memory # NoResult /\ Ends(e, memory) /\ memory' = memory /\ shadowed' = shadowed
           \/ /\ ledgerLoaded /\ \E a \in FreshNow : Ends(e, a) /\ memory' = a /\ shadowed' = shadowed
           \/ /\ ledgerLoaded /\ e.at = "executing" /\ e.answer = NoResult /\ memory' = memory
              /\ shadowed' \in BOOLEAN /\ (shadowed => shadowed')
              /\ ~shadowed' => FreshNow = {}
           \/ /\ e.at = "loading" /\ e.answer = NoResult /\ memory' = memory /\ shadowed' = shadowed
  <2>1. CASE memory # NoResult /\ call' = [call EXCEPT ![c] = Ledger!Ended(memory, TRUE)]
             /\ UNCHANGED <<memory, shadowed>>
    <3> DEFINE e == Ledger!Ended(memory, TRUE)
    <3>1. <<>> \in Seq(LedgerRow)
      OBVIOUS
    <3>2. e \in LedgerCall /\ Ends(e, memory)
      BY <1>0, <3>1 DEF Ledger!Ended, LedgerCall, Ends, LedgerTypes
    <3>3. call' = [call EXCEPT ![c] = e]
      BY <2>1
    <3> HIDE DEF e
    <3> QED  BY <2>1, <3>2, <3>3
  <2>2. CASE ledgerLoaded /\ Ledger!Decide(c, call, records)
    <3>1. records \in Seq(LedgerRow)
      BY <1>0 DEF LedgerTypes
    <3> QED  BY <1>0, <2>2, <3>1, DecideEffect DEF FreshNow
  <2>3. CASE call' = Ledger!At(c, "loading") /\ UNCHANGED <<memory, shadowed>>
    <3> DEFINE e == [call[c] EXCEPT !.at = "loading"]
    <3>1. call[c] \in LedgerCall /\ call[c].answer = NoResult
      BY <1>0 DEF LedgerTypes, Underway
    <3>2. e \in LedgerCall /\ e.at = "loading" /\ e.answer = NoResult
      BY <3>1 DEF LedgerCall
    <3>3. call' = [call EXCEPT ![c] = e]
      BY <2>3 DEF Ledger!At
    <3> HIDE DEF e
    <3> QED  BY <2>3, <3>2, <3>3
  <2> QED  BY <2>1, <2>2, <2>3 DEF Ledger!Check
<1>3. /\ call' \in [Ledger!KeyUsers -> LedgerCall]
      /\ call'[c] = e /\ \A d \in Ledger!KeyUsers \ {c} : call'[d] = call[d]
  BY <1>0, <1>2, MoveTypes
<1>4. LedgerTypes'
  BY <1>0, <1>1, <1>2, <1>3 DEF LedgerTypes, Ledger!KeyUsers, LedgerCall
<1>5. Underway'
  <2>1. ASSUME NEW d \in Ledger!KeyUsers
        PROVE  /\ call'[d].at = "executing" => d \in Executions
               /\ call'[d].answer # NoResult => call'[d].at = "end"
               /\ call'[d].at = "idle" => ~call'[d].fresh
               /\ call'[d].at \in {"executing", "writing", "writing old"} => ledgerLoaded
    <3>1. CASE d = c
      BY <1>0, <1>2, <1>3, <3>1 DEF Ends
    <3>2. CASE d # c
      BY <1>0, <1>3, <3>2 DEF Underway
    <3> QED  BY <3>1, <3>2
  <2>2. ~ledgerLoaded => memory' = NoResult
    BY <1>0, <1>2 DEF Underway
  <2> QED  BY <1>0, <2>1, <2>2 DEF Underway, Ledger!KeyUsers
<1>6. ASSUME ~raced', ~forgotten', ~shadowed'
      PROVE  OneFresh'
  <2>1. OneFresh
    BY <1>0, <1>2, <1>6 DEF LedgerInv, LedgerTypes
  <2>2. \A a \in FreshNow : ledgerLoaded => a \in Executions /\ Known(a)
    <3> SUFFICES ASSUME NEW a \in FreshNow, ledgerLoaded
                 PROVE  a \in Executions /\ Known(a)
      OBVIOUS
    <3>1. a \in Executions
      BY <1>1
    <3>2. call[a].at = "end" => a \in FreshKept
      BY <2>1, <3>1 DEF OneFresh
    <3> QED  BY <3>1, <3>2 DEF Known
  <2>3. memory' # NoResult => memory' \in FreshNow
    BY <1>2, <2>1 DEF OneFresh
  <2>4. memory # NoResult => ledgerLoaded /\ memory \in FreshNow
    BY <1>0, <2>1 DEF OneFresh, Underway
  <2>5. e.fresh /\ e.answer # NoResult => e.answer \in Executions /\ Known(e.answer)
    BY <1>2, <2>2, <2>4 DEF Ends
  <2>6. e.at \in {"end", "executing", "loading"} /\ (e.at = "executing" => FreshNow = {})
    BY <1>2, <1>6 DEF Ends
  <2> QED  BY <1>0, <1>1, <1>2, <2>1, <2>3, <2>5, <2>6, MoveKeepsOneFresh
<1> QED  BY <1>4, <1>5, <1>6 DEF LedgerInv

\* What an evaluation appends has no key.
LEMMA KeylessRow ==
  /\ Ledger!Record(FALSE, NoResult) \in LedgerRow /\ ~Ledger!Record(FALSE, NoResult).key
BY DEF Ledger!Record, LedgerRow

LEMMA EvaluateKeepsInv ==
  ASSUME LedgerInv, NEW c \in Ledger!KeyUsers, Ledger!Evaluate(c)
  PROVE  LedgerInv'
<1>0. /\ call[c].at = "idle" /\ LedgerTypes /\ Underway /\ ~call[c].fresh
      /\ UNCHANGED <<memory, ledgerLoaded, ledgerFile, raced, forgotten, shadowed>>
  BY DEF Ledger!Evaluate, Ledger!Is, LedgerInv, Underway
<1>1. call[c] \in LedgerCall /\ call[c].answer = NoResult /\ records \in Seq(LedgerRow)
      /\ ledgerFile \in Seq(LedgerRow)
  BY <1>0 DEF LedgerTypes, Underway
<1>2. PICK e \in LedgerCall :
        /\ call' = [call EXCEPT ![c] = e] /\ e.answer = NoResult /\ ~e.fresh
        /\ \/ e.at = "loading" /\ records' = records
           \/ e.at = "writing" /\ ledgerLoaded
              /\ records' = Append(records, Ledger!Record(FALSE, NoResult))
  <2>1. CASE ledgerLoaded
    <3> DEFINE e == [call[c] EXCEPT !.at = "writing"]
    <3>1. e \in LedgerCall /\ e.at = "writing" /\ e.answer = NoResult /\ ~e.fresh
      BY <1>0, <1>1 DEF LedgerCall
    <3>2. call' = [call EXCEPT ![c] = e]
          /\ records' = Append(records, Ledger!Record(FALSE, NoResult))
      BY <2>1 DEF Ledger!Evaluate, Ledger!Append_, Ledger!At
    <3> HIDE DEF e
    <3> QED  BY <2>1, <3>1, <3>2
  <2>2. CASE ~ledgerLoaded
    <3> DEFINE e == [call[c] EXCEPT !.at = "loading"]
    <3>1. e \in LedgerCall /\ e.at = "loading" /\ e.answer = NoResult /\ ~e.fresh
      BY <1>0, <1>1 DEF LedgerCall
    <3>2. call' = [call EXCEPT ![c] = e] /\ records' = records
      BY <2>2 DEF Ledger!Evaluate, Ledger!At
    <3> HIDE DEF e
    <3> QED  BY <3>1, <3>2
  <2> QED  BY <2>1, <2>2
<1>3. /\ records' \in Seq(LedgerRow) /\ FreshNow' = FreshNow /\ FreshKept' = FreshKept
      /\ FreshNow \cup FreshKept \subseteq Executions
  <2>1. records' \in Seq(LedgerRow) /\ FreshIn(records') = FreshIn(records)
    <3> DEFINE row == Ledger!Record(FALSE, NoResult)
    <3>1. row \in LedgerRow /\ ~row.key
      BY KeylessRow
    <3>2. records' = records \/ records' = Append(records, row)
      BY <1>2
    <3> HIDE DEF row
    <3> QED  BY <1>1, <3>1, <3>2, FreshOfAppend
  <2> QED  BY <1>0, <1>1, <2>1, FreshAreExecutions DEF FreshNow, FreshKept, FreshIn
<1>4. /\ call' \in [Ledger!KeyUsers -> LedgerCall]
      /\ call'[c] = e /\ \A d \in Ledger!KeyUsers \ {c} : call'[d] = call[d]
  BY <1>0, <1>2, MoveTypes
<1>5. LedgerTypes'
  BY <1>0, <1>3, <1>4 DEF LedgerTypes, Ledger!KeyUsers, LedgerCall
<1>6. Underway'
  BY <1>0, <1>2, <1>4 DEF Underway, Ledger!KeyUsers
<1>7. OneFresh => OneFresh'
  <2> SUFFICES ASSUME OneFresh
               PROVE  OneFresh'
    OBVIOUS
  <2>1. memory' # NoResult => memory' \in FreshNow
    BY <1>0 DEF OneFresh
  <2>2. e.at \in {"loading", "writing"}
    BY <1>2
  <2> QED  BY <1>0, <1>2, <1>3, <2>1, <2>2, MoveKeepsOneFresh
<1> QED  BY <1>0, <1>5, <1>6, <1>7 DEF LedgerInv

LEMMA ReadsKeepsInv ==
  ASSUME LedgerInv, NEW c \in Ledger!KeyUsers, Ledger!Read(c)
  PROVE  LedgerInv'
<1> DEFINE e == [call[c] EXCEPT !.at = "read", !.list = ledgerFile]
<1>0. /\ call[c].at = "loading" /\ LedgerTypes /\ Underway /\ call' = [call EXCEPT ![c] = e]
      /\ UNCHANGED <<memory, records, ledgerLoaded, ledgerFile, raced, forgotten, shadowed>>
  BY DEF Ledger!Read, Ledger!Is, LedgerInv
<1>1. call[c] \in LedgerCall /\ call[c].answer = NoResult /\ records \in Seq(LedgerRow)
      /\ ledgerFile \in Seq(LedgerRow)
  BY <1>0 DEF LedgerTypes, Underway
<1>2. e \in LedgerCall /\ e.at = "read" /\ e.list = ledgerFile /\ e.answer = NoResult
  BY <1>1 DEF LedgerCall
<1> HIDE DEF e
<1>3. /\ FreshNow' = FreshNow /\ FreshKept' = FreshKept
      /\ FreshNow \cup FreshKept \subseteq Executions
  BY <1>0, <1>1, FreshAreExecutions DEF FreshNow, FreshKept, FreshIn
<1>4. /\ call' \in [Ledger!KeyUsers -> LedgerCall]
      /\ call'[c] = e /\ \A d \in Ledger!KeyUsers \ {c} : call'[d] = call[d]
  BY <1>0, <1>2, MoveTypes
<1>5. LedgerTypes'
  BY <1>0, <1>4 DEF LedgerTypes, Ledger!KeyUsers, LedgerCall
<1>6. Underway'
  BY <1>0, <1>2, <1>4 DEF Underway, Ledger!KeyUsers
<1>7. OneFresh => OneFresh'
  <2> SUFFICES ASSUME OneFresh
               PROVE  OneFresh'
    OBVIOUS
  <2>1. memory' # NoResult => memory' \in FreshNow
    BY <1>0 DEF OneFresh
  <2> QED  BY <1>0, <1>2, <1>3, <2>1, MoveKeepsOneFresh
<1> QED  BY <1>0, <1>5, <1>6, <1>7 DEF LedgerInv

LEMMA ThrowsKeepsInv ==
  ASSUME LedgerInv, NEW c \in Ledger!KeyUsers, Ledger!ExecuteThrows(c)
  PROVE  LedgerInv'
<1> DEFINE e == Ledger!Ended(NoResult, FALSE)
<1>0. /\ call[c].at = "executing" /\ LedgerTypes /\ Underway /\ call' = [call EXCEPT ![c] = e]
      /\ UNCHANGED <<memory, records, ledgerLoaded, ledgerFile, raced, forgotten, shadowed>>
  BY DEF Ledger!ExecuteThrows, Ledger!Is, LedgerInv
<1>1. e \in LedgerCall /\ e.at = "end" /\ e.answer = NoResult
  <2>1. <<>> \in Seq(LedgerRow)
    OBVIOUS
  <2> QED  BY <2>1 DEF Ledger!Ended, LedgerCall
<1> HIDE DEF e
<1>2. /\ FreshNow' = FreshNow /\ FreshKept' = FreshKept
      /\ FreshNow \cup FreshKept \subseteq Executions
  BY <1>0, FreshAreExecutions DEF FreshNow, FreshKept, FreshIn, LedgerTypes
<1>3. /\ call' \in [Ledger!KeyUsers -> LedgerCall]
      /\ call'[c] = e /\ \A d \in Ledger!KeyUsers \ {c} : call'[d] = call[d]
  BY <1>0, <1>1, MoveTypes
<1>4. LedgerTypes'
  BY <1>0, <1>3 DEF LedgerTypes, Ledger!KeyUsers, LedgerCall
<1>5. Underway'
  BY <1>0, <1>1, <1>3 DEF Underway, Ledger!KeyUsers
<1>6. OneFresh => OneFresh'
  <2> SUFFICES ASSUME OneFresh
               PROVE  OneFresh'
    OBVIOUS
  <2>1. memory' # NoResult => memory' \in FreshNow
    BY <1>0 DEF OneFresh
  <2> QED  BY <1>0, <1>1, <1>2, <2>1, MoveKeepsOneFresh
<1> QED  BY <1>0, <1>4, <1>5, <1>6 DEF LedgerInv

\* An execution that ran alone under the key is the one answer from now on.
LEMMA ExecuteKeepsInv ==
  ASSUME LedgerInv, NEW c \in Ledger!KeyUsers, Ledger!Execute(c)
  PROVE  LedgerInv'
<1> DEFINE e == [call[c] EXCEPT !.at = "writing", !.fresh = TRUE]
           row == Ledger!Record(TRUE, c)
<1>0. /\ call[c].at = "executing" /\ LedgerTypes /\ Underway /\ call' = [call EXCEPT ![c] = e]
      /\ memory' = c /\ records' = Append(records, row)
      /\ raced' = (raced \/ \E d \in Executions \ {c} : call[d].at = "executing")
      /\ UNCHANGED <<ledgerLoaded, ledgerFile, forgotten, shadowed>>
  BY DEF Ledger!Execute, Ledger!Is, LedgerInv, Ledger!Append_
<1>1. call[c] \in LedgerCall /\ call[c].answer = NoResult /\ records \in Seq(LedgerRow)
      /\ ledgerFile \in Seq(LedgerRow) /\ c \in Executions /\ ledgerLoaded
  BY <1>0 DEF LedgerTypes, Underway
<1>2. e \in LedgerCall /\ e.at = "writing" /\ e.fresh /\ e.answer = NoResult
  BY <1>1 DEF LedgerCall
<1>3. row \in LedgerRow /\ row.key /\ row.fresh /\ row.result = c
  BY <1>1 DEF Ledger!Record, LedgerRow
<1> HIDE DEF e, row
<1>4. /\ records' \in Seq(LedgerRow) /\ FreshNow' = FreshNow \cup {c} /\ FreshKept' = FreshKept
      /\ FreshNow \cup FreshKept \subseteq Executions
  <2>1. records' \in Seq(LedgerRow) /\ FreshIn(records') = FreshIn(records) \cup {c}
    BY <1>0, <1>1, <1>3, FreshOfAppend
  <2> QED  BY <1>0, <1>1, <2>1, FreshAreExecutions DEF FreshNow, FreshKept, FreshIn
<1>5. /\ call' \in [Ledger!KeyUsers -> LedgerCall]
      /\ call'[c] = e /\ \A d \in Ledger!KeyUsers \ {c} : call'[d] = call[d]
  BY <1>0, <1>2, MoveTypes
<1>6. LedgerTypes'
  BY <1>0, <1>1, <1>4, <1>5 DEF LedgerTypes, Ledger!KeyUsers, LedgerCall
<1>7. Underway'
  BY <1>0, <1>1, <1>2, <1>5 DEF Underway, Ledger!KeyUsers
<1>8. ASSUME OneFresh, ~raced'
      PROVE  OneFresh'
  <2>1. FreshNow = {} /\ FreshKept = {}
    BY <1>0, <1>1, <1>8 DEF OneFresh
  <2>2. FreshNow' = {c} /\ FreshKept' = {} /\ Executions \subseteq Ledger!KeyUsers
    BY <1>4, <2>1 DEF Ledger!KeyUsers
  <2>3. ASSUME NEW d \in Executions
        PROVE  /\ call'[d].at = "writing" /\ call'[d].fresh => d \in FreshNow'
               /\ call'[d].at = "end" /\ d \in FreshNow' => d \in FreshKept'
               /\ d \in FreshNow' \cup FreshKept' => call'[d].at \in {"writing", "end"}
               /\ ~(call'[d].fresh /\ call'[d].answer # NoResult)
    <3>1. CASE d = c
      BY <1>2, <1>5, <2>2, <3>1
    <3>2. CASE d # c
      <4>1. call'[d] = call[d]
        BY <1>5, <2>2, <3>2
      <4>2. ~(call[d].fresh /\ call[d].answer # NoResult)
        BY <1>1, <1>8, <2>1 DEF OneFresh, Known
      <4>3. ~(call[d].at = "writing" /\ call[d].fresh)
        BY <1>8, <2>1 DEF OneFresh
      <4> QED  BY <2>2, <3>2, <4>1, <4>2, <4>3
    <3> QED  BY <3>1, <3>2
  <2>4. ASSUME NEW d \in Ledger!KeyUsers
        PROVE  call'[d].at # "writing old" /\ call'[d].at # "executing"
    <3>1. CASE d = c
      BY <1>2, <1>5, <3>1
    <3>2. CASE d # c
      BY <1>0, <1>5, <1>8, <3>2 DEF OneFresh, Underway
    <3> QED  BY <3>1, <3>2
  <2> QED  BY <1>0, <1>1, <2>2, <2>3, <2>4 DEF OneFresh, Ledger!KeyUsers
<1> QED  BY <1>0, <1>6, <1>7, <1>8 DEF LedgerInv, LedgerTypes

\* The write puts into the file what is fresh in memory.
LEMMA WritesKeepsInv ==
  ASSUME LedgerInv, NEW c \in Ledger!KeyUsers, Ledger!Write(c)
  PROVE  LedgerInv'
<1> DEFINE a == IF c \in Executions THEN c ELSE NoResult
           e == Ledger!Ended(a, call[c].fresh)
<1>0. /\ call[c].at \in {"writing", "writing old"} /\ LedgerTypes /\ Underway
      /\ call' = [call EXCEPT ![c] = e]
      /\ ledgerFile' = IF call[c].at = "writing" THEN records ELSE call[c].list
      /\ UNCHANGED <<memory, records, ledgerLoaded, raced, forgotten, shadowed>>
  BY DEF Ledger!Write, Ledger!Is, LedgerInv
<1>1. call[c] \in LedgerCall /\ records \in Seq(LedgerRow) /\ ledgerLoaded
      /\ ledgerFile' \in Seq(LedgerRow) /\ a \in Executions \cup {NoResult}
  BY <1>0 DEF LedgerTypes, Underway, LedgerCall
<1>2. e \in LedgerCall /\ e.at = "end" /\ e.answer = a /\ e.fresh = call[c].fresh
  <2>1. <<>> \in Seq(LedgerRow)
    OBVIOUS
  <2>2. call[c].fresh \in BOOLEAN
    BY <1>1 DEF LedgerCall
  <2> HIDE DEF a
  <2> QED  BY <1>1, <2>1, <2>2 DEF Ledger!Ended, LedgerCall
<1> HIDE DEF e
<1>3. /\ call' \in [Ledger!KeyUsers -> LedgerCall]
      /\ call'[c] = e /\ \A d \in Ledger!KeyUsers \ {c} : call'[d] = call[d]
  BY <1>0, <1>2, MoveTypes
<1>4. LedgerTypes'
  BY <1>0, <1>1, <1>3 DEF LedgerTypes, Ledger!KeyUsers, LedgerCall
<1>5. Underway'
  BY <1>0, <1>1, <1>2, <1>3 DEF Underway, Ledger!KeyUsers
<1>6. ASSUME OneFresh
      PROVE  OneFresh'
  <2>1. call[c].at = "writing" /\ ledgerFile' = records
    BY <1>0, <1>6 DEF OneFresh
  <2>2. FreshNow' = FreshNow /\ FreshKept' = FreshNow /\ FreshNow \subseteq Executions
        /\ Executions \subseteq Ledger!KeyUsers
    BY <1>0, <1>1, <2>1, FreshAreExecutions DEF FreshNow, FreshKept, FreshIn, Ledger!KeyUsers
  <2>3. \A b \in FreshNow : Known(b)'
    BY <2>2 DEF Known
  <2>4. ASSUME NEW d \in Executions
        PROVE  /\ call'[d].at = "writing" /\ call'[d].fresh => d \in FreshNow
               /\ d \in FreshNow => call'[d].at \in {"writing", "end"}
               /\ call'[d].fresh /\ call'[d].answer # NoResult => Known(call[d].answer)'
    <3>1. CASE d = c
      <4>1. call'[d].at = "end" /\ call'[d].answer = c /\ call'[d].fresh = call[c].fresh
        BY <1>2, <1>3, <3>1
      <4>2. call[c].fresh => c \in FreshNow
        BY <1>6, <2>1, <3>1 DEF OneFresh
      <4> QED  BY <2>3, <4>1, <4>2
    <3>2. CASE d # c
      <4>1. call'[d] = call[d]
        BY <1>3, <2>2, <3>2
      <4>2. call[d].fresh /\ call[d].answer # NoResult => call[d].answer \in FreshNow
        BY <1>1, <1>6 DEF OneFresh, Known
      <4> QED  BY <1>6, <2>3, <4>1, <4>2 DEF OneFresh
    <3> QED  BY <3>1, <3>2
  <2>5. ASSUME NEW d \in Ledger!KeyUsers
        PROVE  call'[d].at # "writing old" /\ (call'[d].at = "executing" => FreshNow = {})
    <3>1. CASE d = c
      BY <1>2, <1>3, <3>1
    <3>2. CASE d # c
      BY <1>3, <1>6, <3>2 DEF OneFresh
    <3> QED  BY <3>1, <3>2
  <2>6. memory' # NoResult => memory' \in FreshNow
    BY <1>0, <1>6 DEF OneFresh
  <2>7. \A v, w \in FreshNow : v = w
    BY <1>6 DEF OneFresh
  <2> QED  BY <1>0, <1>1, <2>2, <2>4, <2>5, <2>6, <2>7 DEF OneFresh, Ledger!KeyUsers
<1> QED  BY <1>0, <1>4, <1>5, <1>6 DEF LedgerInv

\* A load that comes first gives every call the file, and its answers.
LEMMA AssignsKeepsInv ==
  ASSUME LedgerInv, NEW c \in Ledger!KeyUsers, Ledger!Assign(c)
  PROVE  LedgerInv'
<1> DEFINE calls == [d \in Ledger!KeyUsers |->
                       IF Ledger!Is(d, "writing")
                       THEN [call[d] EXCEPT !.at = "writing old", !.list = records] ELSE call[d]]
           list == call[c].list
<1>0. /\ call[c].at = "read" /\ LedgerTypes /\ Underway /\ ledgerLoaded' = TRUE
      /\ raced' = (raced \/ ledgerLoaded) /\ UNCHANGED <<ledgerFile, forgotten>>
      /\ \/ c \in Executions /\ records' = list /\ Ledger!Decide(c, calls, list)
         \/ /\ records' = Append(list, Ledger!Record(FALSE, NoResult))
            /\ call' = [calls EXCEPT ![c] = [Ledger!Idle EXCEPT !.at = "writing"]]
            /\ UNCHANGED <<memory, shadowed>>
  BY DEF Ledger!Assign, Ledger!Is, LedgerInv, Ledger!Append_
<1>1. call[c] \in LedgerCall /\ records \in Seq(LedgerRow) /\ list \in Seq(LedgerRow)
  BY <1>0 DEF LedgerTypes, LedgerCall
<1>2. /\ calls \in [Ledger!KeyUsers -> LedgerCall]
      /\ \A d \in Ledger!KeyUsers :
           /\ calls[d].answer = call[d].answer /\ calls[d].fresh = call[d].fresh
           /\ calls[d].at = call[d].at \/ (call[d].at = "writing" /\ calls[d].at = "writing old")
           /\ call[d].at # "writing" => calls[d] = call[d]
  <2>1. ASSUME NEW d \in Ledger!KeyUsers
        PROVE  LET new == [call[d] EXCEPT !.at = "writing old", !.list = records]
               IN  /\ new \in LedgerCall /\ new.answer = call[d].answer /\ new.fresh = call[d].fresh
                   /\ new.at = "writing old"
    <3>1. call[d] \in LedgerCall
      BY <1>0 DEF LedgerTypes
    <3> QED  BY <1>1, <3>1 DEF LedgerCall
  <2>2. \A d \in Ledger!KeyUsers : call[d] \in LedgerCall
    BY <1>0 DEF LedgerTypes
  <2> QED  BY <2>1, <2>2 DEF Ledger!Is
<1> HIDE DEF calls
<1>3. PICK e \in LedgerCall :
        /\ call' = [calls EXCEPT ![c] = e]
        /\ \/ \E a \in FreshIn(list) : Ends(e, a) /\ memory' = a /\ shadowed' = shadowed
           \/ /\ e.at = "executing" /\ c \in Executions /\ e.answer = NoResult /\ memory' = memory
              /\ shadowed' \in BOOLEAN /\ (shadowed => shadowed')
              /\ ~shadowed' => FreshIn(list) = {}
           \/ /\ e.at = "writing" /\ ~e.fresh /\ e.answer = NoResult
              /\ memory' = memory /\ shadowed' = shadowed
  <2>1. CASE c \in Executions /\ Ledger!Decide(c, calls, list)
    BY <1>0, <1>1, <2>1, DecideEffect
  <2>2. CASE /\ call' = [calls EXCEPT ![c] = [Ledger!Idle EXCEPT !.at = "writing"]]
             /\ UNCHANGED <<memory, shadowed>>
    <3> DEFINE e == [Ledger!Idle EXCEPT !.at = "writing"]
    <3>1. <<>> \in Seq(LedgerRow)
      OBVIOUS
    <3>2. e \in LedgerCall /\ e.at = "writing" /\ ~e.fresh /\ e.answer = NoResult
      BY <3>1 DEF Ledger!Idle, LedgerCall
    <3>3. call' = [calls EXCEPT ![c] = e]
      BY <2>2
    <3> HIDE DEF e
    <3> QED  BY <2>2, <3>2, <3>3
  <2> QED  BY <1>0, <2>1, <2>2
<1>4. /\ records' \in Seq(LedgerRow) /\ FreshNow' = FreshIn(list) /\ FreshKept' = FreshKept
      /\ FreshIn(list) \subseteq Executions
  <2>1. records' \in Seq(LedgerRow) /\ FreshIn(records') = FreshIn(list)
    <3> DEFINE row == Ledger!Record(FALSE, NoResult)
    <3>1. row \in LedgerRow /\ ~row.key
      BY KeylessRow
    <3>2. records' = list \/ records' = Append(list, row)
      BY <1>0
    <3> HIDE DEF row
    <3> QED  BY <1>1, <3>1, <3>2, FreshOfAppend
  <2>2. FreshNow' = FreshIn(records')
    BY DEF FreshNow, FreshIn
  <2>3. FreshKept' = FreshKept
    BY <1>0 DEF FreshKept, FreshIn
  <2> QED  BY <1>1, <2>1, <2>2, <2>3, FreshAreExecutions
<1>5. /\ call' \in [Ledger!KeyUsers -> LedgerCall]
      /\ call'[c] = e /\ \A d \in Ledger!KeyUsers \ {c} : call'[d] = calls[d]
  BY <1>2, <1>3
<1>6. LedgerTypes'
  <2>1. memory' \in Executions \cup {NoResult}
    BY <1>0, <1>3, <1>4 DEF LedgerTypes
  <2>2. ledgerFile' \in Seq(LedgerRow) /\ {ledgerLoaded', raced', forgotten', shadowed'} \subseteq BOOLEAN
    BY <1>0, <1>3 DEF LedgerTypes
  <2> QED  BY <1>4, <1>5, <2>1, <2>2 DEF LedgerTypes, Ledger!KeyUsers, LedgerCall
<1>7. Underway'
  <2>1. ASSUME NEW d \in Ledger!KeyUsers
        PROVE  /\ call'[d].at = "executing" => d \in Executions
               /\ call'[d].answer # NoResult => call'[d].at = "end"
               /\ call'[d].at = "idle" => ~call'[d].fresh
    <3>1. CASE d = c
      BY <1>3, <1>5, <3>1 DEF Ends
    <3>2. CASE d # c
      <4>1. /\ call[d].at = "executing" => d \in Executions
            /\ call[d].answer # NoResult => call[d].at = "end"
            /\ call[d].at = "idle" => ~call[d].fresh
        BY <1>0 DEF Underway
      <4>2. call'[d] = calls[d]
        BY <1>5, <3>2
      <4>3. /\ calls[d].at = call[d].at \/ (call[d].at = "writing" /\ calls[d].at = "writing old")
            /\ calls[d].answer = call[d].answer /\ calls[d].fresh = call[d].fresh
        BY <1>2
      <4> QED  BY <4>1, <4>2, <4>3
    <3> QED  BY <3>1, <3>2
  <2> QED  BY <1>0, <2>1 DEF Underway, Ledger!KeyUsers
<1>8. ASSUME OneFresh, ~raced', ~shadowed'
      PROVE  OneFresh'
  <2>1. ~ledgerLoaded /\ list = ledgerFile /\ memory = NoResult
    BY <1>0, <1>8 DEF OneFresh, Underway
  <2>2. /\ FreshNow' = FreshKept /\ FreshKept' = FreshKept /\ c \notin FreshKept
        /\ FreshKept \subseteq Executions /\ Executions \subseteq Ledger!KeyUsers
    BY <1>0, <1>4, <1>8, <2>1 DEF FreshKept, OneFresh, Ledger!KeyUsers
  <2>3. \A d \in Ledger!KeyUsers : d # c =>
          call'[d] = call[d] /\ call[d].at \notin {"writing", "writing old", "executing"}
    BY <1>0, <1>2, <1>5, <2>1 DEF Underway
  <2>4. \A b \in FreshKept : Known(b)'
    BY <2>2 DEF Known
  <2>5. ASSUME NEW d \in Executions
        PROVE  /\ call'[d].at = "writing" /\ call'[d].fresh => d \in FreshKept
               /\ d \in FreshKept => call'[d].at \in {"writing", "end"}
               /\ call'[d].fresh /\ call'[d].answer # NoResult => Known(call[d].answer)'
    <3>1. CASE d = c
      BY <1>3, <1>4, <1>5, <2>1, <2>2, <2>4, <3>1 DEF Ends
    <3>2. CASE d # c
      <4>1. call'[d] = call[d] /\ call[d].at # "writing"
        BY <2>2, <2>3, <3>2
      <4>2. call[d].fresh /\ call[d].answer # NoResult => call[d].answer \in FreshKept
        BY <1>8, <2>1 DEF OneFresh, Known
      <4> QED  BY <1>8, <2>4, <4>1, <4>2 DEF OneFresh
    <3> QED  BY <3>1, <3>2
  <2>6. ASSUME NEW d \in Ledger!KeyUsers
        PROVE  call'[d].at # "writing old" /\ (call'[d].at = "executing" => FreshKept = {})
    <3>1. CASE d = c
      BY <1>3, <1>4, <1>5, <1>8, <2>2, <3>1 DEF Ends
    <3>2. CASE d # c
      BY <2>3, <3>2
    <3> QED  BY <3>1, <3>2
  <2>7. memory' # NoResult => memory' \in FreshKept
    BY <1>3, <1>4, <2>1, <2>2
  <2>8. \A v, w \in FreshKept : v = w
    BY <1>8 DEF OneFresh
  <2> QED  BY <1>0, <2>2, <2>5, <2>6, <2>7, <2>8 DEF OneFresh, Ledger!KeyUsers
<1> QED  BY <1>0, <1>3, <1>6, <1>7, <1>8 DEF LedgerInv, LedgerTypes

\* When the ttl passes nothing is fresh.
LEMMA ExpireKeepsInv ==
  ASSUME LedgerInv, Ledger!Expire
  PROVE  LedgerInv'
<1>0. /\ LedgerTypes /\ Underway /\ memory' = NoResult
      /\ records' = Ledger!Aged(records) /\ ledgerFile' = Ledger!Aged(ledgerFile)
      /\ call' = [c \in Ledger!KeyUsers |-> [call[c] EXCEPT !.list = Ledger!Aged(call[c].list),
                                                            !.fresh = FALSE]]
      /\ UNCHANGED <<ledgerLoaded, raced, forgotten, shadowed>>
  BY DEF Ledger!Expire, LedgerInv
<1>1. /\ records' \in Seq(LedgerRow) /\ ledgerFile' \in Seq(LedgerRow)
      /\ FreshNow' = {} /\ FreshKept' = {}
  <2>1. records \in Seq(LedgerRow) /\ ledgerFile \in Seq(LedgerRow)
    BY <1>0 DEF LedgerTypes
  <2>2. /\ records' \in Seq(LedgerRow) /\ ledgerFile' \in Seq(LedgerRow)
        /\ FreshIn(records') = {} /\ FreshIn(ledgerFile') = {}
    BY <1>0, <2>1, FreshOfAged
  <2> QED  BY <2>2 DEF FreshNow, FreshKept, FreshIn
<1>2. /\ call' \in [Ledger!KeyUsers -> LedgerCall]
      /\ \A c \in Ledger!KeyUsers :
           /\ call'[c].at = call[c].at /\ call'[c].answer = call[c].answer /\ ~call'[c].fresh
           /\ call'[c].list = Ledger!Aged(call[c].list)
  <2>1. ASSUME NEW c \in Ledger!KeyUsers
        PROVE  LET new == [call[c] EXCEPT !.list = Ledger!Aged(call[c].list), !.fresh = FALSE]
               IN  /\ new \in LedgerCall /\ new.at = call[c].at /\ new.answer = call[c].answer
                   /\ ~new.fresh /\ new.list = Ledger!Aged(call[c].list)
    <3> DEFINE list == Ledger!Aged(call[c].list)
    <3>1. call[c] \in LedgerCall /\ call[c].list \in Seq(LedgerRow)
      BY <1>0 DEF LedgerTypes, LedgerCall
    <3>2. list \in Seq(LedgerRow)
      BY <3>1, FreshOfAged
    <3> HIDE DEF list
    <3>3. LET new == [call[c] EXCEPT !.list = list, !.fresh = FALSE]
          IN  /\ new \in LedgerCall /\ new.at = call[c].at /\ new.answer = call[c].answer
              /\ ~new.fresh /\ new.list = list
      BY <3>1, <3>2 DEF LedgerCall
    <3> QED  BY <3>3 DEF list
  <2> QED  BY <1>0, <2>1
<1>3. LedgerTypes'
  BY <1>0, <1>1, <1>2 DEF LedgerTypes, Ledger!KeyUsers, LedgerCall
<1>4. Underway'
  BY <1>0, <1>2 DEF Underway, Ledger!KeyUsers
<1>5. OneFresh => OneFresh'
  <2> SUFFICES ASSUME OneFresh
               PROVE  OneFresh'
    OBVIOUS
  <2>1. \A c \in Ledger!KeyUsers :
          call[c].at = "read" /\ ~ledgerLoaded => call'[c].list = ledgerFile'
    BY <1>0, <1>2 DEF OneFresh
  <2>2. \A c \in Executions : ~call'[c].fresh
    BY <1>2 DEF Ledger!KeyUsers
  <2>3. \A c \in Ledger!KeyUsers : call'[c].at # "writing old"
    BY <1>2 DEF OneFresh
  <2> QED  BY <1>0, <1>1, <1>2, <2>1, <2>2, <2>3 DEF OneFresh, Ledger!KeyUsers
<1> QED  BY <1>0, <1>3, <1>4, <1>5 DEF LedgerInv

\* A new process finds the answers that were given in the file.
LEMMA LedgerRestartKeepsInv ==
  ASSUME LedgerInv, Ledger!Restart
  PROVE  LedgerInv'
<1> DEFINE gone == [Ledger!Idle EXCEPT !.at = "end"]
<1>0. /\ LedgerTypes /\ Underway /\ memory' = NoResult /\ records' = <<>> /\ ledgerLoaded' = FALSE
      /\ call' = [c \in Ledger!KeyUsers |->
                    IF call[c].at \in {"idle", "end"} THEN call[c] ELSE gone]
      /\ forgotten' = (forgotten \/ \E c, d \in Executions :
                                      c # d /\ call[c].answer = d /\ call[d].at # "end")
      /\ UNCHANGED <<ledgerFile, raced, shadowed>>
  BY DEF Ledger!Restart, Ledger!Is, LedgerInv
<1>1. gone \in LedgerCall /\ gone.at = "end" /\ gone.answer = NoResult /\ ~gone.fresh
      /\ records' \in Seq(LedgerRow)
  <2>1. <<>> \in Seq(LedgerRow)
    OBVIOUS
  <2> QED  BY <1>0, <2>1 DEF Ledger!Idle, LedgerCall
<1> HIDE DEF gone
<1>2. /\ call' \in [Ledger!KeyUsers -> LedgerCall]
      /\ \A c \in Ledger!KeyUsers :
           /\ call'[c].at \in {"idle", "end"}
           /\ call'[c] = call[c] \/ call'[c] = gone
           /\ call[c].at \in {"idle", "end"} => call'[c] = call[c]
           /\ call'[c].at = "idle" => call'[c] = call[c]
  BY <1>0, <1>1 DEF LedgerTypes
<1>3. FreshNow' = {} /\ FreshKept' = FreshKept /\ FreshKept \subseteq Executions
  BY <1>0, FreshAreExecutions DEF FreshNow, FreshKept, FreshIn, LedgerTypes
<1>4. LedgerTypes'
  <2>1. forgotten' \in BOOLEAN
    BY <1>0 DEF LedgerTypes
  <2> QED  BY <1>0, <1>1, <1>2, <2>1 DEF LedgerTypes, Ledger!KeyUsers, LedgerCall
<1>5. Underway'
  BY <1>0, <1>1, <1>2 DEF Underway, Ledger!KeyUsers
<1>6. ASSUME OneFresh, ~forgotten'
      PROVE  OneFresh'
  <2>1. ASSUME NEW c \in Executions, call'[c].fresh, call'[c].answer # NoResult
        PROVE  Known(call[c].answer)'
    <3>1. call'[c] = call[c] /\ c \in Ledger!KeyUsers
      BY <1>1, <1>2, <2>1 DEF Ledger!KeyUsers
    <3> DEFINE a == call[c].answer
    <3>2. a \in Executions /\ Known(a) /\ call[c].at = "end"
      BY <1>0, <1>6, <2>1, <3>1 DEF OneFresh, LedgerTypes, LedgerCall, Underway
    <3>3. call[a].at = "end"
      BY <1>0, <1>6, <3>2
    <3>4. call'[c].answer \in FreshKept
      BY <3>1, <3>2, <3>3 DEF Known
    <3> QED  BY <1>0, <1>3, <3>4 DEF Known
  <2>2. ASSUME NEW d \in Executions, d \in FreshKept
        PROVE  call'[d].at = "end"
    <3>1. call[d].at \in {"writing", "end"} /\ d \in Ledger!KeyUsers
      BY <1>6, <2>2 DEF OneFresh, Ledger!KeyUsers
    <3> QED  BY <1>0, <1>1, <3>1
  <2>3. \A v, w \in FreshKept : v = w
    BY <1>6 DEF OneFresh
  <2>4. Executions \subseteq Ledger!KeyUsers
    BY DEF Ledger!KeyUsers
  <2> QED  BY <1>0, <1>2, <1>3, <2>1, <2>2, <2>3, <2>4 DEF OneFresh, Ledger!KeyUsers
<1> QED  BY <1>0, <1>4, <1>5, <1>6 DEF LedgerInv, LedgerTypes

LEMMA LedgerInvHolds ==
  Ledger!Spec => []LedgerInv
<1>1. Ledger!Init => LedgerInv
  <2> SUFFICES ASSUME Ledger!Init
               PROVE  LedgerInv
    OBVIOUS
  <2>1. <<>> \in Seq(LedgerRow) /\ FreshIn(<<>>) = {}
    BY DEF FreshIn
  <2>2. Ledger!Idle \in LedgerCall /\ Ledger!Idle.at = "idle" /\ Ledger!Idle.answer = NoResult
        /\ ~Ledger!Idle.fresh
    BY <2>1 DEF Ledger!Idle, LedgerCall
  <2>3. \A c \in Ledger!KeyUsers : call[c] = Ledger!Idle
    BY DEF Ledger!Init
  <2>4. LedgerTypes
    BY <2>1, <2>2 DEF Ledger!Init, LedgerTypes
  <2>5. Underway
    BY <2>2, <2>3 DEF Underway, Ledger!Init
  <2>6. FreshNow = {} /\ FreshKept = {} /\ Executions \subseteq Ledger!KeyUsers
    BY <2>1 DEF Ledger!Init, FreshNow, FreshKept, Ledger!KeyUsers
  <2>7. OneFresh
    BY <2>2, <2>3, <2>6 DEF OneFresh, Ledger!Init
  <2> QED  BY <2>4, <2>5, <2>7 DEF LedgerInv
<1>2. LedgerInv /\ [Ledger!Next]_(Ledger!vars) => LedgerInv'
  <2> SUFFICES ASSUME LedgerInv, [Ledger!Next]_(Ledger!vars)
               PROVE  LedgerInv'
    OBVIOUS
  <2>1. ASSUME NEW c \in Ledger!KeyUsers,
               \/ Ledger!Check(c) \/ Ledger!Evaluate(c) \/ Ledger!Read(c) \/ Ledger!Assign(c)
               \/ Ledger!Execute(c) \/ Ledger!ExecuteThrows(c) \/ Ledger!Write(c)
        PROVE  LedgerInv'
    BY <2>1, CheckKeepsInv, EvaluateKeepsInv, ReadsKeepsInv, AssignsKeepsInv, ExecuteKeepsInv,
       ThrowsKeepsInv, WritesKeepsInv
  <2>2. CASE UNCHANGED Ledger!vars
    <3>1. UNCHANGED <<memory, records, ledgerLoaded, ledgerFile, call, raced, forgotten, shadowed>>
      BY <2>2 DEF Ledger!vars
    <3>2. FreshNow' = FreshNow /\ FreshKept' = FreshKept
      BY <3>1 DEF FreshNow, FreshKept, FreshIn
    <3>3. LedgerTypes' /\ Underway'
      BY <3>1 DEF LedgerInv, LedgerTypes, Underway, LedgerCall, Ledger!KeyUsers
    <3>4. OneFresh => OneFresh'
      BY <3>1, <3>2 DEF OneFresh, Known, Ledger!KeyUsers
    <3> QED  BY <3>1, <3>3, <3>4 DEF LedgerInv
  <2> QED  BY <2>1, <2>2, ExpireKeepsInv, LedgerRestartKeepsInv DEF Ledger!Next
<1> QED  BY <1>1, <1>2, PTL DEF Ledger!Spec

\* Within the ttl the calls under one idempotency key get one answer, but for the
\* cases the property names (autonomous-control-plane-v2.js:5-27).
THEOREM OneAnswer ==
  Ledger!Spec => []OneAnswerPerKey
<1>1. LedgerInv => OneAnswerPerKey
  <2> SUFFICES ASSUME LedgerInv, ~raced, ~forgotten, ~shadowed
               PROVE  \A c, d \in {k \in Executions : call[k].fresh /\ call[k].answer # NoResult} :
                        call[c].answer = call[d].answer
    BY DEF OneAnswerPerKey, Ledger!OneAnswerPerKey
  <2>1. OneFresh
    BY DEF LedgerInv
  <2>2. \A k \in Executions : call[k].fresh /\ call[k].answer # NoResult =>
          call[k].answer \in FreshNow \cup FreshKept
    BY <2>1 DEF OneFresh, Known
  <2>3. \A v, w \in FreshNow \cup FreshKept : v = w
    BY <2>1 DEF OneFresh
  <2> QED  BY <2>2, <2>3
<1> QED  BY <1>1, LedgerInvHolds, PTL

-----------------------------------------------------------------------------
(* The ledger has one record at most of each call                          *)

\* The calls that have appended their record, or never will
Appended == {"writing", "writing old", "end"}
Through == {c \in Ledger!KeyUsers : call[c].at \in Appended}

ShortLists ==
  /\ Len(records) <= Cardinality(Through) /\ Len(ledgerFile) <= Cardinality(Through)
  /\ \A c \in Ledger!KeyUsers : Len(call[c].list) <= Cardinality(Through)
  /\ expiries \in 0 .. MaxExpiries /\ ledgerRestarts \in 0 .. MaxRestarts

LEMMA ThroughFinite ==
  IsFiniteSet(Ledger!KeyUsers) /\ IsFiniteSet(Through) /\ Cardinality(Through) \in Nat
<1>1. IsFiniteSet(Ledger!KeyUsers)
  BY QueuesAssumption, FS_Union DEF Ledger!KeyUsers
<1>2. Through \subseteq Ledger!KeyUsers
  BY DEF Through
<1> QED  BY <1>1, <1>2, FS_Subset, FS_CardinalityType

\* The lists of a step are as short as before, but for the one record of a call that
\* gets through.
LEMMA ShortKept ==
  ASSUME ShortLists, Through \subseteq Through',
         Len(records') \in Nat, Len(ledgerFile') \in Nat, \A d \in Ledger!KeyUsers : Len(call'[d].list) \in Nat,
         \/ Len(records') <= Cardinality(Through)
         \/ Len(records') <= Cardinality(Through) + 1 /\ \E c \in Through' : c \notin Through,
         Len(ledgerFile') <= Cardinality(Through),
         \A d \in Ledger!KeyUsers : Len(call'[d].list) <= Cardinality(Through),
         expiries' \in 0 .. MaxExpiries, ledgerRestarts' \in 0 .. MaxRestarts
  PROVE  ShortLists'
<1> DEFINE after == Through'
           n == Cardinality(Through)
           m == Cardinality(after)
<1>1. n \in Nat /\ IsFiniteSet(Through)
  BY ThroughFinite
<1>2. m \in Nat /\ IsFiniteSet(after)
  <2>1. after \subseteq Ledger!KeyUsers
    BY DEF Through, Appended, Ledger!KeyUsers
  <2> QED  BY <2>1, ThroughFinite, FS_Subset, FS_CardinalityType
<1>3. n <= m /\ ((\E c \in after : c \notin Through) => n + 1 <= m)
  <2>1. Cardinality(Through) <= Cardinality(after)
        /\ (Cardinality(Through) = Cardinality(after) => Through = after)
    BY <1>2, FS_Subset
  <2>2. (\E c \in after : c \notin Through) => n # m
    BY <2>1
  <2> QED  BY <1>1, <1>2, <2>1, <2>2
<1> HIDE DEF n, m
<1>4. Len(records') <= m /\ Len(ledgerFile') <= m /\ \A d \in Ledger!KeyUsers : Len(call'[d].list) <= m
  BY <1>1, <1>2, <1>3 DEF n
<1>5. m = Cardinality(Through')
  BY DEF m
<1>6. Cardinality(Through)' = Cardinality(Through')
  BY DEF Cardinality
<1> QED  BY <1>4, <1>5, <1>6 DEF ShortLists, Ledger!KeyUsers

LEMMA ShortMoves ==
  ASSUME LedgerTypes, ShortLists, NEW c \in Ledger!KeyUsers, NEW e \in LedgerCall,
         call' = [call EXCEPT ![c] = e], call[c].at \in Appended => e.at \in Appended,
         Len(e.list) <= Cardinality(Through),
         records' \in Seq(LedgerRow), ledgerFile' \in Seq(LedgerRow),
         \/ Len(records') <= Cardinality(Through)
         \/ Len(records') <= Cardinality(Through) + 1 /\ call[c].at \notin Appended /\ e.at \in Appended,
         Len(ledgerFile') <= Cardinality(Through), UNCHANGED <<expiries, ledgerRestarts>>
  PROVE  ShortLists'
<1>1. call'[c] = e /\ \A d \in Ledger!KeyUsers \ {c} : call'[d] = call[d]
  BY MoveTypes
<1>2. Through' = {d \in Ledger!KeyUsers : call'[d].at \in Appended}
  BY DEF Through, Appended, Ledger!KeyUsers
<1>3. Through \subseteq Through'
  BY <1>1, <1>2 DEF Through
<1>4. call[c].at \notin Appended /\ e.at \in Appended => c \in Through' /\ c \notin Through
  BY <1>1, <1>2 DEF Through
<1>5. \A d \in Ledger!KeyUsers : Len(call'[d].list) \in Nat /\ Len(call'[d].list) <= Cardinality(Through)
  <2> SUFFICES ASSUME NEW d \in Ledger!KeyUsers
               PROVE  Len(call'[d].list) \in Nat /\ Len(call'[d].list) <= Cardinality(Through)
    OBVIOUS
  <2>1. call[d] \in LedgerCall /\ Len(call[d].list) <= Cardinality(Through)
    BY DEF LedgerTypes, ShortLists
  <2>2. call[d].list \in Seq(LedgerRow) /\ e.list \in Seq(LedgerRow)
    BY <2>1 DEF LedgerCall
  <2>3. Len(call[d].list) \in Nat /\ Len(e.list) \in Nat
    BY <2>2
  <2> QED  BY <1>1, <2>1, <2>3
<1>6. Len(records') \in Nat /\ Len(ledgerFile') \in Nat
  OBVIOUS
<1>7. expiries' \in 0 .. MaxExpiries /\ ledgerRestarts' \in 0 .. MaxRestarts
  BY DEF ShortLists
<1> QED  BY <1>3, <1>4, <1>5, <1>6, <1>7, ShortKept

\* What check() decides is an answer or an execution.
LEMMA DecideMoves ==
  ASSUME LedgerTypes, NEW c \in Executions, NEW list \in Seq(LedgerRow), NEW calls,
         Ledger!Decide(c, calls, list)
  PROVE  \E e \in LedgerCall :
           call' = [calls EXCEPT ![c] = e] /\ e.at \in {"executing", "end"} /\ e.list = <<>>
<1>0. <<>> \in Seq(LedgerRow)
  OBVIOUS
<1>1. ASSUME NEW x \in Ledger!Find(list), x.fresh, call' = [calls EXCEPT ![c] = Ledger!Ended(x.result, TRUE)]
      PROVE  \E e \in LedgerCall :
               call' = [calls EXCEPT ![c] = e] /\ e.at \in {"executing", "end"} /\ e.list = <<>>
  <2>1. x.result \in Executions
    BY <1>1, FindsTheKey, FreshAreExecutions
  <2> DEFINE a == x.result
             e == Ledger!Ended(a, TRUE)
  <2>2. call' = [calls EXCEPT ![c] = e] /\ a \in Executions
    BY <1>1, <2>1
  <2> HIDE DEF a
  <2>3. e \in LedgerCall /\ e.at = "end" /\ e.list = <<>>
    BY <1>0, <2>2 DEF Ledger!Ended, LedgerCall
  <2> HIDE DEF e
  <2> QED  BY <2>2, <2>3
<1>2. ASSUME call' = [calls EXCEPT ![c] = [Ledger!Idle EXCEPT !.at = "executing"]]
      PROVE  \E e \in LedgerCall :
               call' = [calls EXCEPT ![c] = e] /\ e.at \in {"executing", "end"} /\ e.list = <<>>
  <2> DEFINE e == [Ledger!Idle EXCEPT !.at = "executing"]
  <2>1. e \in LedgerCall /\ e.at = "executing" /\ e.list = <<>>
    BY <1>0 DEF Ledger!Idle, LedgerCall
  <2>2. call' = [calls EXCEPT ![c] = e]
    BY <1>2
  <2> HIDE DEF e
  <2> QED  BY <2>1, <2>2
<1> QED  BY <1>1, <1>2 DEF Ledger!Decide

\* The steps that move one call
LEMMA ShortSteps ==
  ASSUME LedgerInv, ShortLists, NEW c \in Ledger!KeyUsers,
         \/ Ledger!Check(c) \/ Ledger!Evaluate(c) \/ Ledger!Read(c)
         \/ Ledger!Execute(c) \/ Ledger!ExecuteThrows(c) \/ Ledger!Write(c)
  PROVE  ShortLists'
<1>i. LedgerTypes /\ Underway
  BY DEF LedgerInv
<1>0. /\ call[c] \in LedgerCall /\ records \in Seq(LedgerRow) /\ ledgerFile \in Seq(LedgerRow)
      /\ call[c].list \in Seq(LedgerRow) /\ <<>> \in Seq(LedgerRow)
  <2>1. call[c] \in LedgerCall /\ records \in Seq(LedgerRow) /\ ledgerFile \in Seq(LedgerRow)
    BY <1>i DEF LedgerTypes
  <2>2. call[c].list \in Seq(LedgerRow)
    BY <2>1 DEF LedgerCall
  <2>3. <<>> \in Seq(LedgerRow)
    OBVIOUS
  <2> QED  BY <2>1, <2>2, <2>3
<1> DEFINE n == Cardinality(Through)
<1>1. /\ n \in Nat /\ Len(records) <= n /\ Len(ledgerFile) <= n /\ Len(call[c].list) <= n
      /\ Len(<<>>) <= n
  <2>1. Len(<<>>) = 0
    OBVIOUS
  <2> QED  BY <1>0, <2>1, ThroughFinite DEF ShortLists
<1>2. UNCHANGED <<expiries, ledgerRestarts>>
  BY DEF Ledger!Check, Ledger!Evaluate, Ledger!Read, Ledger!Execute, Ledger!ExecuteThrows, Ledger!Write
<1>3. ASSUME NEW row \in LedgerRow
      PROVE  Append(records, row) \in Seq(LedgerRow) /\ Len(Append(records, row)) <= n + 1
  BY <1>0, <1>1
<1>4. CASE Ledger!Check(c)
  <2>1. PICK e \in LedgerCall :
          /\ call' = [call EXCEPT ![c] = e]
          /\ e.list \in {<<>>, call[c].list}
    <3>1. CASE call' = [call EXCEPT ![c] = Ledger!Ended(memory, TRUE)]
      <4> DEFINE e == Ledger!Ended(memory, TRUE)
      <4>1. e \in LedgerCall /\ e.list = <<>>
        BY <1>0, <1>i DEF Ledger!Ended, LedgerCall, LedgerTypes
      <4>2. call' = [call EXCEPT ![c] = e]
        BY <3>1
      <4> HIDE DEF e
      <4> QED  BY <4>1, <4>2
    <3>2. CASE c \in Executions /\ Ledger!Decide(c, call, records)
      BY <1>0, <3>2, <1>i, DecideMoves
    <3>3. CASE call' = Ledger!At(c, "loading")
      <4> DEFINE e == [call[c] EXCEPT !.at = "loading"]
      <4>1. e \in LedgerCall /\ e.list = call[c].list
        BY <1>0 DEF LedgerCall
      <4>2. call' = [call EXCEPT ![c] = e]
        BY <3>3 DEF Ledger!At
      <4> HIDE DEF e
      <4> QED  BY <4>1, <4>2
    <3> QED  BY <1>4, <3>1, <3>2, <3>3 DEF Ledger!Check
  <2>2. call[c].at \notin Appended /\ records' = records /\ ledgerFile' = ledgerFile
    BY <1>4 DEF Ledger!Check, Ledger!Is, Appended
  <2>3. Len(e.list) <= n
    BY <1>1, <2>1
  <2> QED  BY <1>0, <1>1, <1>2, <2>1, <2>2, <2>3, <1>i, ShortMoves
<1>5. CASE Ledger!Evaluate(c)
  <2>1. call[c].at \notin Appended /\ ledgerFile' = ledgerFile
    BY <1>5 DEF Ledger!Evaluate, Ledger!Is, Appended
  <2>2. CASE ledgerLoaded
    <3> DEFINE e == [call[c] EXCEPT !.at = "writing"]
               row == Ledger!Record(FALSE, NoResult)
    <3>1. e \in LedgerCall /\ e.at \in Appended /\ e.list = call[c].list /\ row \in LedgerRow
      BY <1>0, KeylessRow DEF LedgerCall, Appended
    <3>2. call' = [call EXCEPT ![c] = e] /\ records' = Append(records, row)
      BY <1>5, <2>2 DEF Ledger!Evaluate, Ledger!Append_, Ledger!At
    <3> HIDE DEF e, row
    <3>3. records' \in Seq(LedgerRow) /\ Len(records') <= n + 1 /\ Len(e.list) <= n
      BY <1>1, <1>3, <3>1, <3>2
    <3> QED  BY <1>0, <1>1, <1>2, <2>1, <3>1, <3>2, <3>3, <1>i, ShortMoves
  <2>3. CASE ~ledgerLoaded
    <3> DEFINE e == [call[c] EXCEPT !.at = "loading"]
    <3>1. e \in LedgerCall /\ e.list = call[c].list
      BY <1>0 DEF LedgerCall
    <3>2. call' = [call EXCEPT ![c] = e] /\ records' = records
      BY <1>5, <2>3 DEF Ledger!Evaluate, Ledger!At
    <3> HIDE DEF e
    <3>3. Len(e.list) <= n
      BY <1>1, <3>1
    <3> QED  BY <1>0, <1>1, <1>2, <2>1, <3>1, <3>2, <3>3, <1>i, ShortMoves
  <2> QED  BY <2>2, <2>3
<1>6. CASE Ledger!Read(c)
  <2> DEFINE e == [call[c] EXCEPT !.at = "read", !.list = ledgerFile]
  <2>1. e \in LedgerCall /\ e.list = ledgerFile
    BY <1>0 DEF LedgerCall
  <2>2. /\ call' = [call EXCEPT ![c] = e] /\ call[c].at \notin Appended
        /\ records' = records /\ ledgerFile' = ledgerFile
    BY <1>6 DEF Ledger!Read, Ledger!Is, Appended
  <2> HIDE DEF e
  <2>3. Len(e.list) <= n
    BY <1>1, <2>1
  <2> QED  BY <1>0, <1>1, <1>2, <2>1, <2>2, <2>3, <1>i, ShortMoves
<1>7. CASE Ledger!Execute(c) /\ c \in Executions
  <2> DEFINE e == [call[c] EXCEPT !.at = "writing", !.fresh = TRUE]
             row == Ledger!Record(TRUE, c)
  <2>1. e \in LedgerCall /\ e.at \in Appended /\ e.list = call[c].list
    BY <1>0 DEF LedgerCall, Appended
  <2>2. row \in LedgerRow
    BY <1>7 DEF Ledger!Record, LedgerRow
  <2>3. /\ call' = [call EXCEPT ![c] = e] /\ records' = Append(records, row)
        /\ call[c].at \notin Appended /\ ledgerFile' = ledgerFile
    BY <1>7 DEF Ledger!Execute, Ledger!Append_, Ledger!Is, Appended
  <2> HIDE DEF e, row
  <2>4. records' \in Seq(LedgerRow) /\ Len(records') <= n + 1 /\ Len(e.list) <= n
    BY <1>1, <1>3, <2>1, <2>2, <2>3
  <2> QED  BY <1>0, <1>1, <1>2, <2>1, <2>3, <2>4, <1>i, ShortMoves
<1>8. CASE Ledger!ExecuteThrows(c)
  <2> DEFINE e == Ledger!Ended(NoResult, FALSE)
  <2>1. e \in LedgerCall /\ e.at \in Appended /\ e.list = <<>>
    BY <1>0 DEF Ledger!Ended, LedgerCall, Appended
  <2>2. call' = [call EXCEPT ![c] = e] /\ records' = records /\ ledgerFile' = ledgerFile
    BY <1>8 DEF Ledger!ExecuteThrows
  <2> HIDE DEF e
  <2>3. Len(e.list) <= n
    BY <1>1, <2>1
  <2> QED  BY <1>0, <1>1, <1>2, <2>1, <2>2, <2>3, <1>i, ShortMoves
<1>9. CASE Ledger!Write(c)
  <2> DEFINE a == IF c \in Executions THEN c ELSE NoResult
             f == call[c].fresh
             e == Ledger!Ended(a, f)
  <2>1. a \in Executions \cup {NoResult} /\ f \in BOOLEAN /\ call' = [call EXCEPT ![c] = e]
    BY <1>0, <1>9 DEF Ledger!Write, LedgerCall
  <2> HIDE DEF a, f
  <2>2. e \in LedgerCall /\ e.at \in Appended /\ e.list = <<>>
    BY <1>0, <2>1 DEF Ledger!Ended, LedgerCall, Appended
  <2>3. /\ records' = records /\ ledgerFile' \in Seq(LedgerRow) /\ Len(ledgerFile') <= n
    BY <1>0, <1>1, <1>9 DEF Ledger!Write
  <2> HIDE DEF e
  <2>4. Len(e.list) <= n
    BY <1>1, <2>2
  <2> QED  BY <1>0, <1>1, <1>2, <2>1, <2>2, <2>3, <2>4, <1>i, ShortMoves
<1>10. Ledger!Execute(c) => c \in Executions
  BY <1>i DEF Ledger!Execute, Ledger!Is, Underway
<1> QED  BY <1>4, <1>5, <1>6, <1>7, <1>8, <1>9, <1>10

\* A load that finds calls between append() and their write: they keep the list they
\* have appended to.
LEMMA ShortAssign ==
  ASSUME LedgerInv, ShortLists, NEW c \in Ledger!KeyUsers, Ledger!Assign(c)
  PROVE  ShortLists'
<1> DEFINE calls == [d \in Ledger!KeyUsers |->
                       IF Ledger!Is(d, "writing")
                       THEN [call[d] EXCEPT !.at = "writing old", !.list = records] ELSE call[d]]
           list == call[c].list
           n == Cardinality(Through)
<1>0. /\ call[c].at = "read" /\ LedgerTypes
      /\ UNCHANGED <<ledgerFile, expiries, ledgerRestarts>>
      /\ \/ c \in Executions /\ records' = list /\ Ledger!Decide(c, calls, list)
         \/ /\ records' = Append(list, Ledger!Record(FALSE, NoResult))
            /\ call' = [calls EXCEPT ![c] = [Ledger!Idle EXCEPT !.at = "writing"]]
  BY DEF Ledger!Assign, Ledger!Is, LedgerInv, Ledger!Append_
<1>1. /\ records \in Seq(LedgerRow) /\ list \in Seq(LedgerRow) /\ ledgerFile \in Seq(LedgerRow)
      /\ n \in Nat /\ Len(records) \in Nat /\ Len(records) <= n /\ Len(list) \in Nat /\ Len(list) <= n
      /\ Len(ledgerFile) \in Nat /\ Len(ledgerFile) <= n
      /\ <<>> \in Seq(LedgerRow) /\ Len(<<>>) = 0
  <2>1. /\ records \in Seq(LedgerRow) /\ list \in Seq(LedgerRow) /\ ledgerFile \in Seq(LedgerRow)
    BY <1>0 DEF LedgerTypes, LedgerCall
  <2>0. <<>> \in Seq(LedgerRow)
    OBVIOUS
  <2>2. Len(records) <= n /\ Len(list) <= n /\ Len(ledgerFile) <= n /\ n \in Nat
    BY ThroughFinite DEF ShortLists
  <2> HIDE DEF list, n
  <2>3. Len(records) \in Nat /\ Len(list) \in Nat /\ Len(ledgerFile) \in Nat
    BY <2>1
  <2>4. Len(<<>>) = 0
    OBVIOUS
  <2> QED  BY <2>0, <2>1, <2>2, <2>3, <2>4
<1>2. /\ DOMAIN calls = Ledger!KeyUsers
      /\ \A d \in Ledger!KeyUsers :
           /\ call[d].at \in Appended => calls[d].at \in Appended
           /\ Len(calls[d].list) \in Nat /\ Len(calls[d].list) <= n
  <2> SUFFICES ASSUME NEW d \in Ledger!KeyUsers
               PROVE  /\ call[d].at \in Appended => calls[d].at \in Appended
                      /\ Len(calls[d].list) \in Nat /\ Len(calls[d].list) <= n
    OBVIOUS
  <2>1. call[d] \in LedgerCall /\ call[d].list \in Seq(LedgerRow) /\ Len(call[d].list) <= n
    BY <1>0 DEF LedgerTypes, LedgerCall, ShortLists
  <2>2. LET new == [call[d] EXCEPT !.at = "writing old", !.list = records]
        IN  new.at \in Appended /\ new.list = records
    BY <2>1 DEF LedgerCall, Appended
  <2>3. Len(call[d].list) \in Nat
    BY <2>1
  <2> QED  BY <1>1, <2>1, <2>2, <2>3
<1> HIDE DEF calls
<1>3. PICK e \in LedgerCall :
        /\ call' = [calls EXCEPT ![c] = e] /\ e.list = <<>>
        /\ \/ records' = list
           \/ e.at \in Appended /\ records' = Append(list, Ledger!Record(FALSE, NoResult))
  <2>1. CASE c \in Executions /\ records' = list /\ Ledger!Decide(c, calls, list)
    BY <1>0, <1>1, <2>1, DecideMoves
  <2>2. CASE /\ records' = Append(list, Ledger!Record(FALSE, NoResult))
             /\ call' = [calls EXCEPT ![c] = [Ledger!Idle EXCEPT !.at = "writing"]]
    <3> DEFINE e == [Ledger!Idle EXCEPT !.at = "writing"]
    <3>1. e \in LedgerCall /\ e.at \in Appended /\ e.list = <<>>
      BY <1>1 DEF Ledger!Idle, LedgerCall, Appended
    <3>2. call' = [calls EXCEPT ![c] = e]
      BY <2>2
    <3> HIDE DEF e
    <3> QED  BY <2>2, <3>1, <3>2
  <2> QED  BY <1>0, <2>1, <2>2
<1>4. call'[c] = e /\ \A d \in Ledger!KeyUsers \ {c} : call'[d] = calls[d]
  BY <1>2, <1>3
<1>5. Through' = {d \in Ledger!KeyUsers : call'[d].at \in Appended}
  BY DEF Through, Appended, Ledger!KeyUsers
<1>6. c \notin Through /\ (e.at \in Appended => c \in Through')
  BY <1>0, <1>4, <1>5 DEF Through, Appended
<1>7. Through \subseteq Through'
  BY <1>2, <1>4, <1>5, <1>6 DEF Through
<1>8. \A d \in Ledger!KeyUsers : Len(call'[d].list) \in Nat /\ Len(call'[d].list) <= n
  BY <1>1, <1>2, <1>3, <1>4
<1>9. \/ records' = list
      \/ e.at \in Appended /\ Len(records') = Len(list) + 1
  <2> DEFINE row == Ledger!Record(FALSE, NoResult)
  <2>1. row \in LedgerRow
    BY KeylessRow
  <2>2. records' = list \/ (e.at \in Appended /\ records' = Append(list, row))
    BY <1>3
  <2> HIDE DEF row, list
  <2>3. Len(Append(list, row)) = Len(list) + 1
    BY <1>1, <2>1
  <2> QED  BY <2>2, <2>3
<1>10. /\ Len(records') \in Nat /\ Len(ledgerFile') \in Nat /\ Len(ledgerFile') <= n
       /\ \/ Len(records') <= n
          \/ Len(records') <= n + 1 /\ \E d \in Through' : d \notin Through
  BY <1>0, <1>1, <1>6, <1>9
<1>11. expiries' \in 0 .. MaxExpiries /\ ledgerRestarts' \in 0 .. MaxRestarts
  BY <1>0 DEF ShortLists
<1> QED  BY <1>7, <1>8, <1>10, <1>11, ShortKept

LEMMA ShortExpire ==
  ASSUME LedgerInv, ShortLists, Ledger!Expire
  PROVE  ShortLists'
<1>0. /\ LedgerTypes /\ expiries < MaxExpiries /\ expiries' = expiries + 1
      /\ ledgerRestarts' = ledgerRestarts
      /\ records' = Ledger!Aged(records) /\ ledgerFile' = Ledger!Aged(ledgerFile)
      /\ call' = [c \in Ledger!KeyUsers |-> [call[c] EXCEPT !.list = Ledger!Aged(call[c].list),
                                                            !.fresh = FALSE]]
  BY DEF Ledger!Expire, LedgerInv
<1>1. ASSUME NEW list \in Seq(LedgerRow)
      PROVE  Len(Ledger!Aged(list)) = Len(list) /\ Len(list) \in Nat
  <2>1. Ledger!Aged(list) \in Seq(LedgerRow)
    BY FreshOfAged
  <2>2. DOMAIN Ledger!Aged(list) = DOMAIN list
    BY DEF Ledger!Aged
  <2> HIDE DEF Ledger!Aged
  <2> QED  BY <2>1, <2>2
<1>2. ASSUME NEW c \in Ledger!KeyUsers
      PROVE  call'[c].at = call[c].at /\ Len(call'[c].list) = Len(call[c].list)
             /\ Len(call[c].list) \in Nat
  <2> DEFINE list == Ledger!Aged(call[c].list)
  <2>1. call[c] \in LedgerCall /\ call[c].list \in Seq(LedgerRow)
    BY <1>0 DEF LedgerTypes, LedgerCall
  <2>2. call'[c] = [call[c] EXCEPT !.list = list, !.fresh = FALSE]
    BY <1>0
  <2>3. Len(list) = Len(call[c].list) /\ Len(call[c].list) \in Nat
    BY <1>1, <2>1
  <2> HIDE DEF list
  <2>4. call'[c].at = call[c].at /\ call'[c].list = list
    BY <2>1, <2>2 DEF LedgerCall
  <2> QED  BY <2>3, <2>4
<1>3. Through' = {d \in Ledger!KeyUsers : call'[d].at \in Appended}
  BY DEF Through, Appended, Ledger!KeyUsers
<1>4. Through \subseteq Through'
  BY <1>2, <1>3 DEF Through
<1>5. /\ Len(records') \in Nat /\ Len(records') <= Cardinality(Through)
      /\ Len(ledgerFile') \in Nat /\ Len(ledgerFile') <= Cardinality(Through)
  BY <1>0, <1>1 DEF LedgerTypes, ShortLists
<1>6. \A d \in Ledger!KeyUsers : Len(call'[d].list) \in Nat /\ Len(call'[d].list) <= Cardinality(Through)
  BY <1>2 DEF ShortLists
<1>7. expiries' \in 0 .. MaxExpiries /\ ledgerRestarts' \in 0 .. MaxRestarts
  <2>1. MaxExpiries \in Nat /\ MaxRestarts \in Nat
    BY QueuesAssumption
  <2>2. expiries \in 0 .. MaxExpiries /\ ledgerRestarts \in 0 .. MaxRestarts
    BY DEF ShortLists
  <2>3. expiries < MaxExpiries /\ expiries' = expiries + 1 /\ ledgerRestarts' = ledgerRestarts
    BY <1>0
  <2> QED  BY <2>1, <2>2, <2>3
<1> QED  BY <1>4, <1>5, <1>6, <1>7, ShortKept

LEMMA ShortRestart ==
  ASSUME LedgerInv, ShortLists, Ledger!Restart
  PROVE  ShortLists'
<1> DEFINE gone == [Ledger!Idle EXCEPT !.at = "end"]
<1>0. /\ LedgerTypes /\ ledgerRestarts < MaxRestarts /\ ledgerRestarts' = ledgerRestarts + 1
      /\ expiries' = expiries /\ ledgerFile' = ledgerFile /\ records' = <<>>
      /\ call' = [c \in Ledger!KeyUsers |->
                    IF call[c].at \in {"idle", "end"} THEN call[c] ELSE gone]
  BY DEF Ledger!Restart, LedgerInv
<1>1. gone.at = "end" /\ gone.list = <<>> /\ Len(<<>>) = 0
  BY DEF Ledger!Idle
<1> HIDE DEF gone
<1>2. Cardinality(Through) \in Nat
  BY ThroughFinite
<1>3. ASSUME NEW c \in Ledger!KeyUsers
      PROVE  /\ call[c].at \in Appended => call'[c].at \in Appended
             /\ Len(call'[c].list) \in Nat /\ Len(call'[c].list) <= Cardinality(Through)
  <2>1. call[c] \in LedgerCall /\ call[c].list \in Seq(LedgerRow)
        /\ Len(call[c].list) <= Cardinality(Through)
    BY <1>0 DEF LedgerTypes, LedgerCall, ShortLists
  <2>2. Len(call[c].list) \in Nat
    BY <2>1
  <2>3. call'[c] = call[c] \/ call'[c] = gone
    BY <1>0
  <2>4. CASE call'[c] = call[c]
    BY <2>1, <2>2, <2>4
  <2>5. CASE call'[c] = gone
    <3>1. call'[c].at \in Appended /\ Len(call'[c].list) = 0
      BY <1>1, <2>5 DEF Appended
    <3> QED  BY <1>2, <3>1
  <2> QED  BY <2>3, <2>4, <2>5
<1>4. Through' = {d \in Ledger!KeyUsers : call'[d].at \in Appended}
  BY DEF Through, Appended, Ledger!KeyUsers
<1>5. Through \subseteq Through'
  BY <1>3, <1>4 DEF Through
<1>6. /\ Len(records') \in Nat /\ Len(records') <= Cardinality(Through)
      /\ Len(ledgerFile') \in Nat /\ Len(ledgerFile') <= Cardinality(Through)
  BY <1>0, <1>1, <1>2 DEF LedgerTypes, ShortLists
<1>7. expiries' \in 0 .. MaxExpiries /\ ledgerRestarts' \in 0 .. MaxRestarts
  <2>1. MaxExpiries \in Nat /\ MaxRestarts \in Nat
    BY QueuesAssumption
  <2>2. expiries \in 0 .. MaxExpiries /\ ledgerRestarts \in 0 .. MaxRestarts
    BY DEF ShortLists
  <2> QED  BY <1>0, <2>1, <2>2
<1> QED  BY <1>3, <1>5, <1>6, <1>7, ShortKept

\* The ledger keeps its types: it has one record at most of each call.
LEMMA LedgerTypesHold ==
  Ledger!Spec => []Ledger!TypeOK
<1>1. Ledger!Init => ShortLists
  <2> SUFFICES ASSUME Ledger!Init
               PROVE  ShortLists
    OBVIOUS
  <2>1. Ledger!Idle.list = <<>> /\ Len(<<>>) = 0
    BY DEF Ledger!Idle
  <2>2. /\ records = <<>> /\ ledgerFile = <<>> /\ expiries = 0 /\ ledgerRestarts = 0
        /\ \A c \in Ledger!KeyUsers : call[c].list = <<>>
    BY <2>1 DEF Ledger!Init
  <2> QED  BY <2>1, <2>2, ThroughFinite, QueuesAssumption DEF ShortLists
<1>2. LedgerInv /\ ShortLists /\ [Ledger!Next]_(Ledger!vars) => ShortLists'
  <2> SUFFICES ASSUME LedgerInv, ShortLists, [Ledger!Next]_(Ledger!vars)
               PROVE  ShortLists'
    OBVIOUS
  <2>1. ASSUME NEW c \in Ledger!KeyUsers,
               \/ Ledger!Check(c) \/ Ledger!Evaluate(c) \/ Ledger!Read(c) \/ Ledger!Assign(c)
               \/ Ledger!Execute(c) \/ Ledger!ExecuteThrows(c) \/ Ledger!Write(c)
        PROVE  ShortLists'
    BY <2>1, ShortSteps, ShortAssign
  <2>2. CASE UNCHANGED Ledger!vars
    BY <2>2 DEF Ledger!vars, ShortLists, Through, Appended, Ledger!KeyUsers
  <2> QED  BY <2>1, <2>2, ShortExpire, ShortRestart DEF Ledger!Next
<1>3. LedgerInv /\ ShortLists => Ledger!TypeOK
  <2> SUFFICES ASSUME LedgerInv, ShortLists
               PROVE  Ledger!TypeOK
    OBVIOUS
  <2>1. Cardinality(Through) <= Cardinality(Ledger!KeyUsers) /\ Cardinality(Ledger!KeyUsers) \in Nat
        /\ Cardinality(Through) \in Nat
    <3>1. Through \subseteq Ledger!KeyUsers
      BY DEF Through
    <3> QED  BY <3>1, ThroughFinite, FS_Subset, FS_CardinalityType
  <2>2. Cardinality(Ledger!KeyUsers) = Ledger!Cardinality(Ledger!KeyUsers)
    BY DEF Ledger!Cardinality, Cardinality
  <2>3. Len(records) \in Nat /\ Len(ledgerFile) \in Nat
    BY DEF LedgerInv, LedgerTypes
  <2>4. /\ Len(records) <= Ledger!Cardinality(Ledger!KeyUsers)
        /\ Len(ledgerFile) <= Ledger!Cardinality(Ledger!KeyUsers)
    BY <2>1, <2>2, <2>3 DEF ShortLists
  <2>5. \A c \in Ledger!KeyUsers : call[c] \in LedgerCall
    BY DEF LedgerInv, LedgerTypes
  <2>6. {memory} \cup {call[c].answer : c \in Ledger!KeyUsers} \subseteq Executions \cup {NoResult}
    <3>1. memory \in Executions \cup {NoResult}
      BY DEF LedgerInv, LedgerTypes
    <3>2. \A c \in Ledger!KeyUsers : call[c].answer \in Executions \cup {NoResult}
      BY <2>5 DEF LedgerCall
    <3> QED  BY <3>1, <3>2
  <2>7. \A c \in Ledger!KeyUsers :
          call[c].at \in {"idle", "loading", "read", "executing", "writing", "writing old", "end"}
    BY <2>5 DEF LedgerCall
  <2>8. {ledgerLoaded, raced, forgotten, shadowed} \subseteq BOOLEAN
        /\ expiries \in 0 .. MaxExpiries /\ ledgerRestarts \in 0 .. MaxRestarts
    BY DEF LedgerInv, LedgerTypes, ShortLists
  <2> QED  BY <2>4, <2>6, <2>7, <2>8 DEF Ledger!TypeOK
<1> QED  BY <1>1, <1>2, <1>3, LedgerInvHolds, PTL DEF Ledger!Spec

-----------------------------------------------------------------------------
(* The table of the PostgreSQL queue, and the four side by side            *)

\* Each statement leaves rows of the table's form, whoever calls: the count that orders
\* them, the attempts and the recoveries are natural numbers.
LEMMA TableTypesHold ==
  QueueSpec => []QueueTypeOK
<1>0. /\ AbsentRow \in JobRow /\ Cardinality(Enqueued) \in Nat
      /\ \A m \in AttemptLimits : m \in Nat
  <2>1. Enqueued \subseteq Jobs
    BY DEF Enqueued
  <2>2. Cardinality(Enqueued) \in Nat
    BY <2>1, JobsFinite, FS_Subset, FS_CardinalityType
  <2> QED  BY <2>2, LimitsArePositive DEF AbsentRow, JobRow, Status
<1>1. QueueInit => QueueTypeOK
  BY <1>0 DEF QueueInit, QueueTypeOK
<1>2. QueueTypeOK /\ [QueueNext]_queueVars => QueueTypeOK'
  <2> SUFFICES ASSUME QueueTypeOK, [QueueNext]_queueVars
               PROVE  QueueTypeOK'
    OBVIOUS
  <2>0. /\ jobs \in [Jobs -> JobRow] /\ rowLock \in [Jobs -> Workers \cup {NoWorker}]
        /\ recoveries \in [Jobs -> Nat]
    BY DEF QueueTypeOK
  <2>1. ASSUME NEW j \in Jobs, NEW row \in JobRow, jobs' = [jobs EXCEPT ![j] = row],
               UNCHANGED <<rowLock, recoveries>>
        PROVE  QueueTypeOK'
    BY <2>0, <2>1 DEF QueueTypeOK
  <2>2. ASSUME NEW j \in Jobs, NEW m \in AttemptLimits, NEW now \in BOOLEAN, Enqueue(j, m, now)
        PROVE  QueueTypeOK'
    <3> DEFINE n == Cardinality(Enqueued)
               row == [AbsentRow EXCEPT !.status = "QUEUED", !.max = m, !.available = now, !.created = n]
    <3>1. jobs' = [jobs EXCEPT ![j] = row] /\ UNCHANGED <<rowLock, recoveries>>
      BY <2>2 DEF Enqueue
    <3>2. n \in Nat /\ m \in Nat
      BY <1>0
    <3> HIDE DEF n
    <3>3. row \in JobRow
      BY <1>0, <3>2 DEF JobRow, Status
    <3> HIDE DEF row
    <3> QED  BY <2>1, <3>1, <3>3
  <2>3. ASSUME NEW w \in Workers, NEW j \in Jobs,
               ClaimSelect(w, j) \/ ClaimCommit(w, j) \/ ClaimRollback(w, j)
        PROVE  QueueTypeOK'
    <3>1. rowLock' \in [Jobs -> Workers \cup {NoWorker}] /\ recoveries' = recoveries
      BY <2>0, <2>3 DEF ClaimSelect, ClaimCommit, ClaimRollback
    <3>2. jobs' \in [Jobs -> JobRow]
      <4>1. CASE ClaimCommit(w, j)
        <5>1. ASSUME NEW n \in Nat
              PROVE  [jobs[j] EXCEPT !.status = "RUNNING", !.attempts = n, !.lockedBy = w,
                                     !.lapsed = FALSE] \in JobRow
          BY <2>0 DEF JobRow, Status
        <5>2. jobs[j].attempts + 1 \in Nat
          BY <2>0 DEF JobRow
        <5> QED  BY <2>0, <4>1, <5>1, <5>2 DEF ClaimCommit
      <4> QED  BY <2>0, <2>3, <4>1 DEF ClaimSelect, ClaimRollback
    <3> QED  BY <2>0, <3>1, <3>2 DEF QueueTypeOK
  <2>4. ASSUME NEW w \in Workers, NEW j \in Jobs, Complete(w, j)
        PROVE  QueueTypeOK'
    <3>1. [jobs[j] EXCEPT !.status = "SUCCEEDED", !.lockedBy = NoWorker, !.lapsed = FALSE] \in JobRow
      BY <2>0 DEF JobRow, Status
    <3> QED  BY <2>1, <2>4, <3>1 DEF Complete
  <2>5. ASSUME NEW w \in Workers, NEW j \in Jobs, NEW retry \in BOOLEAN, Fail(w, j, retry)
        PROVE  QueueTypeOK'
    <3> DEFINE to == IF MayRetry(j, retry) THEN "QUEUED" ELSE "DEAD_LETTER"
               avail == jobs[j].available /\ ~MayRetry(j, retry)
               row == [jobs[j] EXCEPT !.status = to, !.available = avail, !.lockedBy = NoWorker,
                                      !.lapsed = FALSE]
    <3>1. jobs' = [jobs EXCEPT ![j] = row] /\ UNCHANGED <<rowLock, recoveries>>
      BY <2>5 DEF Fail
    <3>2. to \in Status /\ avail \in BOOLEAN
      BY <2>0 DEF Status, JobRow
    <3> HIDE DEF to, avail
    <3>3. row \in JobRow
      BY <2>0, <3>2 DEF JobRow
    <3> HIDE DEF row
    <3> QED  BY <2>1, <3>1, <3>3
  <2>6. CASE RecoverExpired
    <3>1. ASSUME NEW j \in Jobs
          PROVE  /\ [jobs[j] EXCEPT !.status = "QUEUED", !.lockedBy = NoWorker, !.lapsed = FALSE,
                                    !.available = TRUE] \in JobRow
                 /\ recoveries[j] + 1 \in Nat
      <4>1. recoveries[j] \in Nat
        BY <2>0
      <4>2. jobs[j] \in JobRow
        BY <2>0
      <4>3. [jobs[j] EXCEPT !.status = "QUEUED", !.lockedBy = NoWorker, !.lapsed = FALSE,
                            !.available = TRUE] \in JobRow
        BY <4>2 DEF JobRow, Status
      <4> QED  BY <4>1, <4>3
    <3>2. jobs' \in [Jobs -> JobRow] /\ recoveries' \in [Jobs -> Nat] /\ rowLock' = rowLock
      BY <2>0, <2>6, <3>1 DEF RecoverExpired
    <3> QED  BY <2>0, <3>2 DEF QueueTypeOK
  <2>7. ASSUME NEW j \in Jobs, LockLapses(j) \/ BecomesAvailable(j)
        PROVE  QueueTypeOK'
    <3>1. [jobs[j] EXCEPT !.lapsed = TRUE] \in JobRow /\ [jobs[j] EXCEPT !.available = TRUE] \in JobRow
      BY <2>0 DEF JobRow
    <3> QED  BY <2>1, <2>7, <3>1 DEF LockLapses, BecomesAvailable
  <2>8. CASE UNCHANGED queueVars
    BY <2>8 DEF queueVars, QueueTypeOK
  <2> QED  BY <2>2, <2>3, <2>4, <2>5, <2>6, <2>7, <2>8 DEF QueueNext
<1> QED  BY <1>1, <1>2, PTL DEF QueueSpec

\* Whichever of the four a behaviour is of: rows of the table keep their form; the
\* local queue and its file hold one job at most of each client that asked; the ledger
\* holds one record at most of each call, whoever loads or appends in which order; the
\* background executions and their rows keep within their bounds; for any finitely many
\* callers and any values of the bounds (postgres-task-queue.js, execution-platform-v2.js,
\* autonomous-control-plane-v2.js, operator-api.js).
THEOREM PartsTypes == AllSpec => []AllTypeOK
<1>1. AllInit => QueueInit /\ Local!Init /\ Ledger!Init /\ Init
  BY DEF AllInit
<1>2. [AllNext]_allVars => [QueueNext]_queueVars
  BY DEF AllNext, allVars, queueVars
<1>3. [AllNext]_allVars => [Local!Next]_(Local!vars)
  BY DEF AllNext, allVars, localVars, Local!vars
<1>4. [AllNext]_allVars => [Ledger!Next]_(Ledger!vars)
  BY DEF AllNext, allVars, ledgerVars, Ledger!vars
<1>5. [AllNext]_allVars => [Next]_vars
  BY DEF AllNext, allVars
<1>6. Spec => []TypeOK
  BY ExecutionTypes, QueuesAssumption
<1> QED
  BY <1>1, <1>2, <1>3, <1>4, <1>5, <1>6, TableTypesHold, LocalTypesHold, LedgerTypesHold, PTL
  DEF AllSpec, AllTypeOK, QueueSpec, Local!Spec, Ledger!Spec, Spec

=============================================================================
