---------------------------- MODULE TaskCas_proofs ----------------------------
(* Proof that the durable history of collaboration Tasks is one chain per     *)
(* Task, that what is answered from memory is durable and that a restart      *)
(* keeps it (TaskHistoryKept of TaskCas), for any number of Tasks, Agents and *)
(* operations.                                                                *)
EXTENDS TaskCas, FiniteOrders, TLAPS

\* A leaf that needs arithmetic, sequences or records cites SMT instead.
USE ZenonT(20)

-----------------------------------------------------------------------------
(* The inductive invariant.                                                   *)

Owners == Agents \cup {NoAgent}
TaskStates == States \cup {"None"}
Values == [state : TaskStates, owner : Owners, class : Classes, revision : Nat]
Kinds == {"assign", "mark_running", "handoff", "settle", "skip", "supervisor_retry",
          "workflow_state"}
Mutations == [kind : Kinds, owner : Owners, to : Owners, state : States, class : Classes,
              clear : BOOLEAN]
Created == [type : {"created"}, task : Tasks, result : Values]
Cas == [type : {"cas"}, task : Tasks, op : Operations, mutation : Mutations,
        expected : Values, result : Values]
Left == [type : {"left"}, agent : Agents]
Records == Created \cup Cas \cup Left
Results == [task : Tasks, mutation : Mutations, expected : Nat, result : Values]
Answers == UNION {[D -> Results] : D \in SUBSET Operations}
Calls == [task : Tasks, owner : Owners, step : {"validated", "created", "replayed"}]

Typing ==
  /\ ledger \in Seq(Records) /\ tasks \in [Tasks -> Values] /\ applied \in Answers
  /\ members \in SUBSET Agents /\ admitting \in SUBSET Calls

\* What the ledger says of Task t and of operation o.
Durable(t, v) == \E i \in TaskRecords(t) : ledger[i].result = v
Answered(o, a) ==
  \E i \in cas_records : /\ ledger[i].op = o
                         /\ a = Applied(ledger[i].task, ledger[i].mutation, ledger[i].expected)

\* A Task's history begins with its one creation.
CreatedFirst ==
  \A t \in Tasks : TaskRecords(t) # {} =>
    \E i \in created_record(t) : \A j \in TaskRecords(t) : i = j \/ (i < j /\ ledger[j].type = "cas")

\* What an admission is about to publish is durable.
Publishable ==
  \A call \in admitting : call.step # "validated" => Durable(call.task, NewTask(call.owner))

IInv == Typing /\ OneHistory /\ ReportedIsDurable /\ CreatedFirst /\ Publishable

-----------------------------------------------------------------------------
(* Types.                                                                     *)

LEMMA LedgerTyped ==
  ASSUME Typing
  PROVE  /\ ledger \in Seq(Records) /\ Len(ledger) \in Nat /\ DOMAIN ledger = 1..Len(ledger)
         /\ \A i \in 1..Len(ledger) : ledger[i] \in Records
<1>1. ledger \in Seq(Records)
  BY DEF Typing
<1> QED BY <1>1, SMTT(30)

\* A record is of one of the three types.
LEMMA RecordTypes ==
  ASSUME NEW r \in Records
  PROVE  /\ r.type = "created" <=> r \in Created
         /\ r.type = "cas" <=> r \in Cas
         /\ r.type = "left" <=> r \in Left
         /\ r \in Created => r.task \in Tasks /\ r.result \in Values
         /\ r \in Cas => /\ r.task \in Tasks /\ r.op \in Operations /\ r.mutation \in Mutations
                         /\ r.expected \in Values /\ r.result \in Values
<1>1. /\ r \in Created => r.type = "created" /\ r.task \in Tasks /\ r.result \in Values
      /\ r \in Cas => /\ r.type = "cas" /\ r.task \in Tasks /\ r.op \in Operations
                      /\ r.mutation \in Mutations /\ r.expected \in Values /\ r.result \in Values
      /\ r \in Left => r.type = "left"
  BY DEF Created, Cas, Left
<1>2. "created" # "cas" /\ "created" # "left" /\ "cas" # "left"
  BY SMTT(30)
<1> QED BY <1>1, <1>2 DEF Records

LEMMA ApplyTyped ==
  ASSUME NEW m \in Mutations, NEW v \in Values
  PROVE  apply(m, v) \in Values /\ apply(m, v).revision = v.revision + 1
<1>1. /\ m.owner \in Owners /\ m.to \in Owners /\ m.state \in States /\ m.class \in Classes
      /\ v.owner \in Owners /\ v.class \in Classes /\ v.revision \in Nat
  BY DEF Mutations, Values
<1>2. NoAgent \in Owners /\ m.state \in TaskStates
  BY <1>1 DEF Owners, TaskStates
<1>3. v.revision + 1 \in Nat
  BY <1>1, SMTT(30)
<1>4. PICK o \in Owners : o = CASE m.kind = "assign" -> m.owner
                               [] m.kind = "handoff" -> m.to
                               [] m.clear -> NoAgent
                               [] OTHER -> v.owner
  BY <1>1, <1>2
<1>5. PICK c \in Classes : c = IF m.kind \in {"assign", "mark_running", "handoff"}
                               THEN v.class ELSE m.class
  BY <1>1
<1>6. apply(m, v) = [state |-> m.state, owner |-> o, class |-> c, revision |-> v.revision + 1]
  BY <1>4, <1>5 DEF apply
<1> DEFINE w == [state |-> m.state, owner |-> o, class |-> c, revision |-> v.revision + 1]
<1>7. w \in Values
  BY <1>2, <1>3 DEF Values
<1>8. w.revision = v.revision + 1
  OBVIOUS
<1> QED BY <1>6, <1>7, <1>8

LEMMA AppliedTyped ==
  ASSUME NEW t \in Tasks, NEW m \in Mutations, NEW v \in Values
  PROVE  Applied(t, m, v) \in Results
<1>1. v.revision \in Nat
  BY DEF Values
<1> QED BY <1>1, ApplyTyped DEF Applied, Results

LEMMA InsertTyped ==
  ASSUME NEW f \in Answers, NEW o \in Operations, NEW a \in Results
  PROVE  /\ insert(f, o, a) \in Answers /\ DOMAIN insert(f, o, a) = DOMAIN f \cup {o}
         /\ insert(f, o, a)[o] = a
         /\ \A x \in DOMAIN f : x # o => insert(f, o, a)[x] = f[x]
<1>1. PICK D \in SUBSET Operations : f \in [D -> Results]
  BY DEF Answers
<1>2. insert(f, o, a) \in [D \cup {o} -> Results]
  BY <1>1 DEF insert
<1>3. D \cup {o} \in SUBSET Operations
  OBVIOUS
<1> QED BY <1>1, <1>2, <1>3 DEF Answers, insert

LEMMA NewTaskTyped ==
  ASSUME NEW owner \in Owners
  PROVE  NewTask(owner) \in Values /\ NewTask(owner).revision = 0
<1>1. "Queued" \in TaskStates /\ "Assigned" \in TaskStates /\ "None" \in Classes /\ 0 \in Nat
  BY SMTT(30) DEF TaskStates, States, Classes
<1> QED BY <1>1 DEF NewTask, Values

LEMMA NoTaskTyped == NoTask \in Values /\ NoTask.revision = 0
<1>1. "None" \in TaskStates /\ "None" \in Classes /\ 0 \in Nat
  BY SMTT(30) DEF TaskStates, Classes
<1> QED BY <1>1 DEF NoTask, Values, Owners

LEMMA MutationsTyped ==
  ASSUME NEW a \in Owners, NEW b \in Owners
  PROVE  /\ Assign(a) \in Mutations /\ MarkRunning(a) \in Mutations
         /\ Handoff(a, b) \in Mutations /\ Skip \in Mutations /\ SupervisorRetry \in Mutations
         /\ \A s \in Terminal, f \in {"None", "Retryable"} : Settle(a, s, f) \in Mutations
         /\ \A s \in Terminal \cup {"Skipped", "Queued"}, clear \in BOOLEAN :
              WorkflowState(s, "None", clear) \in Mutations
<1>1. /\ NoAgent \in Owners /\ {"None", "Retryable", "NonRetryable"} \subseteq Classes
      /\ Terminal \cup {"Skipped", "Queued", "Assigned", "Running"} \subseteq States
      /\ TRUE \in BOOLEAN /\ FALSE \in BOOLEAN
  BY SMTT(30) DEF Owners, Classes, States
<1>2. \A k \in Kinds, s \in States, f \in Classes, x \in Owners, y \in Owners, c \in BOOLEAN :
        Mutation(k, x, y, s, f, c) \in Mutations
  BY DEF Mutation, Mutations
<1> QED BY <1>1, <1>2 DEF Assign, MarkRunning, Handoff, Skip, SupervisorRetry, Settle,
                        WorkflowState, Kinds

-----------------------------------------------------------------------------
(* A record more.                                                             *)

LEMMA Appended ==
  ASSUME Typing, NEW r \in Records, ledger' = Append(ledger, r)
  PROVE  /\ ledger' \in Seq(Records) /\ DOMAIN ledger' = 1..Len(ledger')
         /\ Len(ledger) + 1 \in 1..Len(ledger') /\ ledger'[Len(ledger) + 1] = r
         /\ \A i \in 1..Len(ledger) : /\ i \in 1..Len(ledger') /\ ledger'[i] = ledger[i]
                                      /\ i < Len(ledger) + 1
         /\ \A i \in 1..Len(ledger') : i \in 1..Len(ledger) \/ i = Len(ledger) + 1
<1>1. ledger \in Seq(Records) /\ Len(ledger) \in Nat
  BY LedgerTyped
<1>2. /\ ledger' \in Seq(Records) /\ Len(ledger') = Len(ledger) + 1
      /\ DOMAIN ledger' = 1..Len(ledger') /\ ledger'[Len(ledger) + 1] = r
      /\ \A i \in 1..Len(ledger) : ledger'[i] = ledger[i]
  BY <1>1, SMTT(30)
<1>3. /\ Len(ledger) + 1 \in 1..Len(ledger')
      /\ \A i \in 1..Len(ledger) : i \in 1..Len(ledger') /\ i < Len(ledger) + 1
      /\ \A i \in 1..Len(ledger') : i \in 1..Len(ledger) \/ i = Len(ledger) + 1
  BY <1>1, <1>2, SMTT(30)
<1> QED BY <1>2, <1>3

\* The ledger is only appended to.
Grows == ledger' = ledger \/ \E r \in Records : ledger' = Append(ledger, r)

LEMMA RecordsKept ==
  ASSUME Typing, Grows
  PROVE  /\ \A i \in DOMAIN ledger : i \in DOMAIN ledger' /\ ledger'[i] = ledger[i]
         /\ ledger' \in Seq(Records)
BY Appended, LedgerTyped DEF Grows

LEMMA DurableKept ==
  ASSUME Typing, Grows
  PROVE  /\ \A t, v : Durable(t, v) => Durable(t, v)'
         /\ \A o, a : Answered(o, a) => Answered(o, a)'
<1>1. ASSUME NEW t, NEW v, Durable(t, v) PROVE Durable(t, v)'
  BY <1>1, RecordsKept DEF Durable, TaskRecords
<1>2. ASSUME NEW o, NEW a, Answered(o, a) PROVE Answered(o, a)'
  <2>1. PICK i \in cas_records : /\ ledger[i].op = o
                                /\ a = Applied(ledger[i].task, ledger[i].mutation, ledger[i].expected)
    BY <1>2 DEF Answered
  <2>2. i \in cas_records' /\ ledger'[i] = ledger[i]
    BY RecordsKept DEF cas_records
  <2> QED BY <2>1, <2>2 DEF Answered
<1> QED BY <1>1, <1>2

\* The task records after one more.
LEMMA RecordsAppended ==
  ASSUME Typing, NEW r \in Records, ledger' = Append(ledger, r), NEW t
  PROVE  /\ TaskRecords(t)' = IF r.type \in {"created", "cas"} /\ r.task = t
                              THEN TaskRecords(t) \cup {Len(ledger) + 1} ELSE TaskRecords(t)
         /\ \A i \in TaskRecords(t) : i \in 1..Len(ledger)
         /\ created_record(t)' = IF r.type = "created" /\ r.task = t
                                 THEN created_record(t) \cup {Len(ledger) + 1}
                                 ELSE created_record(t)
         /\ cas_records' = IF r.type = "cas" THEN cas_records \cup {Len(ledger) + 1}
                           ELSE cas_records
<1>1. DOMAIN ledger = 1..Len(ledger)
  BY LedgerTyped
<1>2. /\ DOMAIN ledger' = 1..Len(ledger')
      /\ Len(ledger) + 1 \in 1..Len(ledger') /\ ledger'[Len(ledger) + 1] = r
      /\ \A i \in 1..Len(ledger) : i \in 1..Len(ledger') /\ ledger'[i] = ledger[i]
      /\ \A i \in 1..Len(ledger') : i \in 1..Len(ledger) \/ i = Len(ledger) + 1
  BY Appended
<1>3. TaskRecords(t)' = IF r.type \in {"created", "cas"} /\ r.task = t
                        THEN TaskRecords(t) \cup {Len(ledger) + 1} ELSE TaskRecords(t)
  BY <1>1, <1>2 DEF TaskRecords
<1>4. created_record(t)' = IF r.type = "created" /\ r.task = t
                           THEN created_record(t) \cup {Len(ledger) + 1} ELSE created_record(t)
  BY <1>1, <1>2 DEF created_record
<1>5. cas_records' = IF r.type = "cas" THEN cas_records \cup {Len(ledger) + 1} ELSE cas_records
  BY <1>1, <1>2 DEF cas_records
<1> QED BY <1>1, <1>3, <1>4, <1>5 DEF TaskRecords

-----------------------------------------------------------------------------
(* One history: what may be appended.                                         *)

\* A record from whose revision no change starts is the last of its Task.
LEMMA LastOfTask ==
  ASSUME Typing, OneHistory, NEW t \in Tasks, NEW k \in TaskRecords(t),
         \A j \in cas_records : ledger[j].task = t => ledger[j].expected # ledger[k].result
  PROVE  \A j \in TaskRecords(t) : j = k \/ j < k
<1> DEFINE After == {j \in TaskRecords(t) : k < j}
<1>1. TaskRecords(t) \subseteq 1..Len(ledger) /\ Len(ledger) \in Nat
  BY LedgerTyped DEF TaskRecords
<1>2. SUFFICES ASSUME After # {} PROVE FALSE
  BY <1>1, SMTT(30)
<1>3. After \in SUBSET (0..Len(ledger))
  BY <1>1, SMTT(30)
<1>4. PICK m \in After : \A r \in After : m <= r
  BY <1>1, <1>2, <1>3, HasLeast
<1>5. m \in TaskRecords(t) /\ k < m
  BY <1>4
<1>6. ~(\E x \in TaskRecords(t) : k < x /\ x < m)
  BY <1>1, <1>4, <1>5, SMTT(30)
<1>7. ledger[m].type = "cas" /\ ledger[m].expected = ledger[k].result
  BY <1>5, <1>6 DEF OneHistory
<1>8. m \in cas_records /\ ledger[m].task = t
  BY <1>5, <1>7 DEF cas_records, TaskRecords
<1> QED BY <1>7, <1>8

ChainOf(t) ==
  \A i, j \in TaskRecords(t) :
    i < j /\ ~(\E k \in TaskRecords(t) : i < k /\ k < j)
      => ledger[j].type = "cas" /\ ledger[j].expected = ledger[i].result

FirstOf(t) ==
  TaskRecords(t) # {} =>
    \E i \in created_record(t) : \A j \in TaskRecords(t) : i = j \/ (i < j /\ ledger[j].type = "cas")

\* A Task about which nothing is written.
LEMMA TaskKept ==
  ASSUME Typing, Grows, NEW t \in Tasks, ChainOf(t), FirstOf(t),
         TaskRecords(t)' = TaskRecords(t), created_record(t)' = created_record(t)
  PROVE  ChainOf(t)' /\ FirstOf(t)'
<1>1. \A i \in DOMAIN ledger : ledger'[i] = ledger[i]
  BY RecordsKept
<1>2. \A i \in TaskRecords(t) : ledger'[i] = ledger[i]
  BY <1>1 DEF TaskRecords
<1>3. ChainOf(t)'
  <2> SUFFICES ASSUME NEW i \in TaskRecords(t), NEW j \in TaskRecords(t),
                      i < j, ~(\E x \in TaskRecords(t) : i < x /\ x < j)
               PROVE  ledger'[j].type = "cas" /\ ledger'[j].expected = ledger'[i].result
    BY DEF ChainOf
  <2>1. ledger[j].type = "cas" /\ ledger[j].expected = ledger[i].result
    BY DEF ChainOf
  <2> QED BY <1>2, <2>1
<1>4. FirstOf(t)'
  BY <1>2 DEF FirstOf
<1> QED BY <1>3, <1>4

\* The last record of its Task, by a change that starts from it.
LEMMA CasExtends ==
  ASSUME Typing, OneHistory, CreatedFirst, NEW t \in Tasks, NEW k \in TaskRecords(t),
         \A j \in TaskRecords(t) : j = k \/ j < k,
         NEW r \in Cas, r.task = t, r.expected = ledger[k].result,
         \A j \in cas_records : ledger[j].op # r.op,
         ledger' = Append(ledger, r)
  PROVE  OneHistory' /\ CreatedFirst'
<1> DEFINE N == Len(ledger) + 1
<1>1. r \in Records /\ r.type = "cas" /\ r.type \in {"created", "cas"} /\ r.type # "created"
  BY RecordTypes DEF Records, Created
<1>2. /\ ledger'[N] = r
      /\ \A i \in 1..Len(ledger) : ledger'[i] = ledger[i] /\ i < N
  BY <1>1, Appended
<1>3. /\ TaskRecords(t)' = TaskRecords(t) \cup {N}
      /\ \A u \in Tasks : u # t => TaskRecords(u)' = TaskRecords(u)
      /\ \A u \in Tasks : TaskRecords(u) \subseteq 1..Len(ledger)
      /\ \A u \in Tasks : created_record(u)' = created_record(u)
      /\ cas_records' = cas_records \cup {N} /\ cas_records \subseteq 1..Len(ledger)
  BY <1>1, RecordsAppended, LedgerTyped DEF cas_records
<1>4. Len(ledger) \in Nat
  BY LedgerTyped
<1> HIDE DEF N
<1>5. ChainOf(t)'
  <2> SUFFICES ASSUME NEW i \in TaskRecords(t) \cup {N}, NEW j \in TaskRecords(t) \cup {N},
                      i < j, \A x \in TaskRecords(t) \cup {N} : ~(i < x /\ x < j)
               PROVE  ledger'[j].type = "cas" /\ ledger'[j].expected = ledger'[i].result
    BY <1>3 DEF ChainOf
  <2>1. CASE j = N
    <3>1. i \in TaskRecords(t) /\ i = k
      <4>1. i # N
        BY <1>4, <2>1, SMTT(30) DEF N
      <4>2. ~(i < k /\ k < N)
        BY <2>1
      <4>3. k < N
        BY <1>2, <1>3
      <4> QED BY <4>1, <4>2, <4>3
    <3> QED BY <1>1, <1>2, <1>3, <2>1, <3>1
  <2>2. CASE j # N
    <3>1. j \in TaskRecords(t) /\ j \in 1..Len(ledger)
      BY <1>3, <2>2
    <3>2. i # N
      BY <1>4, <3>1, SMTT(30) DEF N
    <3>3. i \in TaskRecords(t) /\ i \in 1..Len(ledger)
      BY <1>3, <3>2
    <3>4. ledger[j].type = "cas" /\ ledger[j].expected = ledger[i].result
      BY <3>1, <3>3 DEF OneHistory
    <3> QED BY <1>2, <3>1, <3>3, <3>4
  <2> QED BY <2>1, <2>2
<1>6. \A u \in Tasks : u # t => ChainOf(u)' /\ FirstOf(u)'
  <2>1. Grows /\ \A u \in Tasks : ChainOf(u) /\ FirstOf(u)
    BY <1>1 DEF Grows, OneHistory, CreatedFirst, ChainOf, FirstOf
  <2> QED BY <1>3, <2>1, TaskKept
<1>7. \A i, j \in cas_records' : ledger'[i].op = ledger'[j].op => i = j
  <2>1. ASSUME NEW i \in cas_records, NEW j \in cas_records, ledger'[i].op = ledger'[j].op
        PROVE  i = j
    <3>1. ledger'[i] = ledger[i] /\ ledger'[j] = ledger[j]
      BY <1>2, <1>3
    <3>2. ledger[i].op = ledger[j].op
      BY <2>1, <3>1
    <3> QED BY <3>2 DEF OneHistory
  <2>2. \A i \in cas_records : ledger'[i].op # ledger'[N].op
    BY <1>2, <1>3
  <2> QED BY <1>3, <2>1, <2>2
<1>8. FirstOf(t)'
  <2>1. PICK i \in created_record(t) : \A j \in TaskRecords(t) :
               i = j \/ (i < j /\ ledger[j].type = "cas")
    BY DEF CreatedFirst
  <2>2. i \in 1..Len(ledger)
    BY LedgerTyped DEF created_record
  <2>3. i < N /\ ledger'[N].type = "cas"
    BY <1>1, <1>2, <2>2
  <2>4. \A j \in TaskRecords(t) : i = j \/ (i < j /\ ledger'[j].type = "cas")
    BY <1>2, <1>3, <2>1
  <2> QED BY <1>3, <2>3, <2>4 DEF FirstOf
<1>9. \A u \in Tasks : ChainOf(u)' /\ FirstOf(u)'
  BY <1>5, <1>6, <1>8
<1>10. OneHistory'
  BY <1>7, <1>9 DEF OneHistory, ChainOf
<1>11. CreatedFirst'
  BY <1>9 DEF CreatedFirst, FirstOf
<1> QED BY <1>10, <1>11

LEMMA OperationsKept ==
  ASSUME Typing, OneHistory, Grows, cas_records' = cas_records
  PROVE  \A i, j \in cas_records' : ledger'[i].op = ledger'[j].op => i = j
<1>1. \A i \in cas_records : ledger'[i] = ledger[i]
  BY RecordsKept DEF cas_records
<1>2. ASSUME NEW i \in cas_records, NEW j \in cas_records, ledger'[i].op = ledger'[j].op
      PROVE  i = j
  <2>1. ledger[i].op = ledger[j].op
    BY <1>1, <1>2
  <2> QED BY <2>1 DEF OneHistory
<1> QED BY <1>2

\* The first record of a Task.
LEMMA Creates ==
  ASSUME Typing, OneHistory, CreatedFirst, NEW t \in Tasks, created_record(t) = {},
         NEW r \in Created, r.task = t, ledger' = Append(ledger, r)
  PROVE  OneHistory' /\ CreatedFirst'
<1> DEFINE N == Len(ledger) + 1
<1>1. /\ r \in Records /\ r.type = "created" /\ r.type \in {"created", "cas"} /\ r.type # "cas"
      /\ Grows
  BY RecordTypes DEF Records, Cas, Grows
<1>2. \A u \in Tasks : ChainOf(u) /\ FirstOf(u)
  BY DEF OneHistory, CreatedFirst, ChainOf, FirstOf
<1>3. TaskRecords(t) = {}
  BY <1>2 DEF FirstOf
<1>4. /\ TaskRecords(t)' = {N} /\ created_record(t)' = {N}
      /\ \A u \in Tasks : u # t => /\ TaskRecords(u)' = TaskRecords(u)
                                   /\ created_record(u)' = created_record(u)
      /\ cas_records' = cas_records
  BY <1>1, <1>3, RecordsAppended
<1>5. ~(N < N)
  BY LedgerTyped, SMTT(30)
<1> HIDE DEF N
<1>6. ChainOf(t)' /\ FirstOf(t)'
  BY <1>4, <1>5 DEF ChainOf, FirstOf
<1>7. \A u \in Tasks : u # t => ChainOf(u)' /\ FirstOf(u)'
  BY <1>1, <1>2, <1>4, TaskKept
<1>8. \A i, j \in cas_records' : ledger'[i].op = ledger'[j].op => i = j
  BY <1>1, <1>4, OperationsKept
<1>9. \A u \in Tasks : ChainOf(u)' /\ FirstOf(u)'
  BY <1>6, <1>7
<1>10. OneHistory'
  BY <1>8, <1>9 DEF OneHistory, ChainOf
<1>11. CreatedFirst'
  BY <1>9 DEF CreatedFirst, FirstOf
<1> QED BY <1>10, <1>11

\* A record about no Task.
LEMMA Leaves ==
  ASSUME Typing, OneHistory, CreatedFirst, NEW r \in Left, ledger' = Append(ledger, r)
  PROVE  OneHistory' /\ CreatedFirst'
<1>1. /\ r \in Records /\ r.type \notin {"created", "cas"} /\ r.type # "created" /\ r.type # "cas"
      /\ Grows
  BY RecordTypes, SMTT(30) DEF Records, Left, Grows
<1>2. \A u \in Tasks : ChainOf(u) /\ FirstOf(u)
  BY DEF OneHistory, CreatedFirst, ChainOf, FirstOf
<1>3. /\ \A u \in Tasks : TaskRecords(u)' = TaskRecords(u) /\ created_record(u)' = created_record(u)
      /\ cas_records' = cas_records
  BY <1>1, RecordsAppended
<1>4. \A u \in Tasks : ChainOf(u)' /\ FirstOf(u)'
  BY <1>1, <1>2, <1>3, TaskKept
<1>5. \A i, j \in cas_records' : ledger'[i].op = ledger'[j].op => i = j
  BY <1>1, <1>3, OperationsKept
<1> QED BY <1>4, <1>5 DEF OneHistory, CreatedFirst, ChainOf, FirstOf

LEMMA NothingWritten ==
  ASSUME Typing, OneHistory, CreatedFirst, ledger' = ledger
  PROVE  OneHistory' /\ CreatedFirst'
<1>1. \A u \in Tasks : ChainOf(u) /\ FirstOf(u)
  BY DEF OneHistory, CreatedFirst, ChainOf, FirstOf
<1>2. /\ \A u \in Tasks : TaskRecords(u)' = TaskRecords(u) /\ created_record(u)' = created_record(u)
      /\ cas_records' = cas_records /\ Grows
  BY DEF TaskRecords, created_record, cas_records, Grows
<1>3. \A u \in Tasks : ChainOf(u)' /\ FirstOf(u)'
  BY <1>1, <1>2, TaskKept
<1>4. \A i, j \in cas_records' : ledger'[i].op = ledger'[j].op => i = j
  BY <1>2, OperationsKept
<1> QED BY <1>3, <1>4 DEF OneHistory, CreatedFirst, ChainOf, FirstOf

-----------------------------------------------------------------------------
(* A restore, record by record.                                               *)

Projections == [tasks : [Tasks -> Values], applied : Answers, members : SUBSET Agents,
                deferred : SUBSET Tasks, ok : BOOLEAN]

LEMMA ProjectionFields ==
  ASSUME NEW p \in Projections
  PROVE  /\ p.tasks \in [Tasks -> Values] /\ p.applied \in Answers /\ p.members \in SUBSET Agents
         /\ p.deferred \in SUBSET Tasks /\ p.ok \in BOOLEAN
BY DEF Projections

LEMMA RestoreCreated ==
  ASSUME NEW p \in Projections, NEW r \in Created, NEW q, q = restore_record(p, r)
  PROVE  /\ q \in Projections /\ q.applied = p.applied /\ q.ok = p.ok
         /\ \/ q.tasks = [p.tasks EXCEPT ![r.task] = r.result] /\ q.deferred = p.deferred
            \/ q.tasks = p.tasks /\ q.deferred = p.deferred \cup {r.task}
<1>1. r \in Records /\ r.type = "created" /\ r.task \in Tasks /\ r.result \in Values
  BY RecordTypes DEF Records
<1>2. q = restore_created(p, r)
  BY <1>1 DEF restore_record
<1>3. CASE r.result.owner \in p.members \cup {NoAgent}
  <2>1. q = [p EXCEPT !.tasks = [p.tasks EXCEPT ![r.task] = r.result]]
    BY <1>2, <1>3 DEF restore_created
  <2>2. [p.tasks EXCEPT ![r.task] = r.result] \in [Tasks -> Values]
    BY <1>1, ProjectionFields
  <2> QED BY <2>1, <2>2 DEF Projections
<1>4. CASE r.result.owner \notin p.members \cup {NoAgent}
  <2>1. q = [p EXCEPT !.deferred = p.deferred \cup {r.task}]
    BY <1>2, <1>4 DEF restore_created
  <2>2. p.deferred \cup {r.task} \in SUBSET Tasks
    BY <1>1, ProjectionFields
  <2> QED BY <2>1, <2>2 DEF Projections
<1> QED BY <1>3, <1>4

LEMMA RestoreCas ==
  ASSUME NEW p \in Projections, NEW r \in Cas, NEW q, q = restore_record(p, r)
  PROVE  /\ q \in Projections /\ q.deferred = p.deferred
         /\ \/ q.tasks = p.tasks /\ q.applied = p.applied /\ ~q.ok
            \/ /\ q.ok = p.ok
               /\ q.applied = insert(p.applied, r.op, Applied(r.task, r.mutation, r.expected))
               /\ q.tasks = [p.tasks EXCEPT ![r.task] =
                               IF p.tasks[r.task].revision >= r.result.revision
                               THEN p.tasks[r.task] ELSE r.result]
<1>1. /\ r \in Records /\ r.type = "cas" /\ r.task \in Tasks /\ r.op \in Operations
      /\ r.mutation \in Mutations /\ r.expected \in Values /\ r.result \in Values
  BY RecordTypes DEF Records
<1>2. q = restore_task_cas_record(p, r)
  <2>1. r.type # "created"
    BY <1>1, SMTT(30)
  <2> QED BY <1>1, <2>1 DEF restore_record
<1> DEFINE Fails == \/ p.tasks[r.task] \notin {NoTask, r.expected} /\ p.tasks[r.task].revision = r.expected.revision
                    \/ ~validate_projected_team_task(p, r.result)
                    \/ restore_cas_conflicts(p, r)
           v == IF p.tasks[r.task].revision >= r.result.revision THEN p.tasks[r.task] ELSE r.result
           a == insert(p.applied, r.op, Applied(r.task, r.mutation, r.expected))
<1>3. CASE Fails
  <2>1. q = [p EXCEPT !.ok = FALSE]
    BY <1>2, <1>3 DEF restore_task_cas_record
  <2> QED BY <2>1 DEF Projections
<1>4. CASE ~Fails
  <2>1. q = [p EXCEPT !.applied = a, !.tasks = [p.tasks EXCEPT ![r.task] = v]]
    BY <1>2, <1>4 DEF restore_task_cas_record
  <2>2. v \in Values
    BY <1>1, ProjectionFields
  <2>3. [p.tasks EXCEPT ![r.task] = v] \in [Tasks -> Values]
    BY <2>2, ProjectionFields
  <2>4. a \in Answers
    BY <1>1, ProjectionFields, AppliedTyped, InsertTyped
  <2> HIDE DEF a, v
  <2>5. q \in Projections /\ q.deferred = p.deferred /\ q.ok = p.ok /\ q.applied = a
        /\ q.tasks = [p.tasks EXCEPT ![r.task] = v]
    BY <2>1, <2>3, <2>4 DEF Projections
  <2> QED BY <2>5 DEF a, v
<1> QED BY <1>3, <1>4

LEMMA RestoreLeft ==
  ASSUME NEW p \in Projections, NEW r \in Left, NEW q, q = restore_record(p, r)
  PROVE  /\ q \in Projections /\ q.tasks = p.tasks /\ q.applied = p.applied
         /\ q.deferred = p.deferred /\ q.ok = p.ok
<1>1. r.type = "left" /\ r.type # "created" /\ r.type # "cas"
  BY SMTT(30) DEF Left
<1>2. q = [p EXCEPT !.members = p.members \ {r.agent}]
  BY <1>1 DEF restore_record
<1>3. p.members \ {r.agent} \in SUBSET Agents
  BY ProjectionFields
<1> QED BY <1>2, <1>3 DEF Projections

\* f[n] is the projection after the first n records.
Replays(f, N, p) ==
  /\ f = [n \in 0..N |-> f[n]]
  /\ f[0] = p
  /\ \A n \in 1..N : f[n] = restore_step(f[n - 1], ledger[n])

\* There is a replay of the whole ledger, and it is what the restore computes.
LEMMA Replay ==
  ASSUME Typing, NEW p
  PROVE  \E f : /\ Replays(f, Len(ledger), p)
                /\ restore_projection_from(p) =
                     [f[Len(ledger)] EXCEPT !.ok = @ /\ f[Len(ledger)].deferred = {}]
<1> DEFINE L == Len(ledger)
           S == {N \in 0..L : \E f : Replays(f, N, p)}
           Is(f) == f = [n \in 0..L |-> IF n = 0 THEN p ELSE restore_step(f[n - 1], ledger[n])]
           after == CHOOSE f : Is(f)
<1>1. L \in Nat
  BY LedgerTyped
<1> HIDE DEF L
<1>2. 0 \in S
  <2> DEFINE f == [n \in 0..0 |-> p]
  <2>1. 0 \in 0..L /\ 0 \in 0..0 /\ \A n \in 1..0 : FALSE
    BY <1>1, SMTT(30)
  <2>2. Replays(f, 0, p)
    BY <2>1 DEF Replays
  <2> QED BY <2>1, <2>2
<1>3. ASSUME NEW N \in 1..L, N - 1 \in S PROVE N \in S
  <2>1. PICK f : Replays(f, N - 1, p)
    BY <1>3
  <2> DEFINE v == restore_step(f[N - 1], ledger[N])
             g == [n \in 0..N |-> IF n = N THEN v ELSE f[n]]
  <2>2. /\ N \in 0..L /\ N \in 0..N /\ 0 \in 0..N /\ 0 # N /\ N - 1 \in 0..N /\ N - 1 # N
        /\ \A n \in 1..N : n \in 0..N /\ n - 1 \in 0..N /\ n - 1 # N /\ (n # N => n \in 1..(N - 1))
    BY <1>1, SMTT(30)
  <2>3. /\ g = [n \in 0..N |-> g[n]] /\ g[N] = v /\ g[N - 1] = f[N - 1]
        /\ g[0] = f[0] /\ \A n \in 0..N : n # N => g[n] = f[n]
    BY <2>2
  <2> HIDE DEF g
  <2>4. \A n \in 1..N : g[n] = restore_step(g[n - 1], ledger[n])
    <3> TAKE n \in 1..N
    <3>1. CASE n = N
      BY <2>3, <3>1
    <3>2. CASE n # N
      <4>1. f[n] = restore_step(f[n - 1], ledger[n])
        BY <2>1, <2>2, <3>2 DEF Replays
      <4> QED BY <2>2, <2>3, <3>2, <4>1
    <3> QED BY <3>1, <3>2
  <2>5. Replays(g, N, p)
    BY <2>1, <2>3, <2>4 DEF Replays
  <2> QED BY <2>2, <2>5
<1>4. L \in S
  <2> HIDE DEF S
  <2>1. L \in 0..L
    BY <1>1, SMTT(30)
  <2> QED BY <1>1, <1>2, <1>3, <2>1, UpTo
<1>5. PICK h : Replays(h, L, p)
  BY <1>4
<1>6. Is(h)
  <2>1. \A n \in 0..L : h[n] = IF n = 0 THEN p ELSE restore_step(h[n - 1], ledger[n])
    <3>1. \A n \in 0..L : n # 0 => n \in 1..L
      BY <1>1, SMTT(30)
    <3> QED BY <1>5, <3>1 DEF Replays
  <2> QED BY <1>5, <2>1 DEF Replays
<1>7. Is(after)
  BY <1>6
<1>8. Replays(after, L, p)
  <2> HIDE DEF after
  <2>1. 0 \in 0..L /\ \A n \in 1..L : n \in 0..L /\ n # 0
    BY <1>1, SMTT(30)
  <2>2. after = [n \in 0..L |-> after[n]]
    BY <1>7
  <2>3. after[0] = p /\ \A n \in 1..L : after[n] = restore_step(after[n - 1], ledger[n])
    BY <1>7, <2>1
  <2> QED BY <2>2, <2>3 DEF Replays
<1>9. restore_projection_from(p) = [after[L] EXCEPT !.ok = @ /\ after[L].deferred = {}]
  BY DEF restore_projection_from, L
<1> QED BY <1>8, <1>9 DEF L

-----------------------------------------------------------------------------
(* What a restore projects is durable.                                        *)

Backed(p) ==
  /\ \A o \in DOMAIN p.applied : Answered(o, p.applied[o])
  /\ \A t \in Tasks : p.tasks[t] # NoTask => Durable(t, p.tasks[t])

Sound(p) == p \in Projections /\ Backed(p)

\* An entry more in the answers, a new value for a Task.
LEMMA InsertBacked ==
  ASSUME NEW p \in Projections, Backed(p), NEW o \in Operations, NEW a \in Results, Answered(o, a)
  PROVE  LET f == insert(p.applied, o, a) IN \A x \in DOMAIN f : Answered(x, f[x])
<1> DEFINE f == insert(p.applied, o, a)
<1>1. /\ DOMAIN f = DOMAIN p.applied \cup {o} /\ f[o] = a
      /\ \A x \in DOMAIN p.applied : x # o => f[x] = p.applied[x]
  <2>1. PICK g \in Answers : g = p.applied
    BY ProjectionFields
  <2>2. f = insert(g, o, a)
    BY <2>1
  <2> HIDE DEF f
  <2> QED BY <2>1, <2>2, InsertTyped
<1> HIDE DEF f
<1>2. ASSUME NEW x \in DOMAIN f PROVE Answered(x, f[x])
  <2>1. CASE x = o
    BY <1>1, <2>1
  <2>2. CASE x # o
    BY <1>1, <2>2 DEF Backed
  <2> QED BY <2>1, <2>2
<1> QED BY <1>2 DEF f

LEMMA SetBacked ==
  ASSUME NEW p \in Projections, Backed(p), NEW t \in Tasks, NEW v, v # NoTask => Durable(t, v)
  PROVE  LET f == [p.tasks EXCEPT ![t] = v] IN \A x \in Tasks : f[x] # NoTask => Durable(x, f[x])
<1> DEFINE f == [p.tasks EXCEPT ![t] = v]
<1>1. f[t] = v /\ \A x \in Tasks : x # t => f[x] = p.tasks[x]
  <2>1. PICK g \in [Tasks -> Values] : g = p.tasks
    BY ProjectionFields
  <2>2. f = [g EXCEPT ![t] = v]
    BY <2>1
  <2> QED BY <2>1, <2>2
<1> HIDE DEF f
<1>2. ASSUME NEW x \in Tasks, f[x] # NoTask PROVE Durable(x, f[x])
  <2>1. CASE x = t
    BY <1>1, <1>2, <2>1
  <2>2. CASE x # t
    BY <1>1, <1>2, <2>2 DEF Backed
  <2> QED BY <2>1, <2>2
<1> QED BY <1>2 DEF f

LEMMA SoundStep ==
  ASSUME Typing, NEW p, Sound(p), NEW i \in 1..Len(ledger)
  PROVE  Sound(restore_step(p, ledger[i]))
<1>1. p \in Projections /\ Backed(p)
  BY DEF Sound
<1>2. PICK r \in Records : r = ledger[i]
  BY LedgerTyped
<1>3. PICK q : q = restore_record(p, r)
  OBVIOUS
<1>4. i \in DOMAIN ledger
  BY LedgerTyped
<1>5. CASE r \in Created
  <2>1. r.type = "created" /\ r.task \in Tasks
    BY <1>5, RecordTypes
  <2>2. Durable(r.task, r.result)
    BY <1>2, <1>4, <2>1 DEF Durable, TaskRecords
  <2>3. q \in Projections /\ q.applied = p.applied
        /\ (q.tasks = [p.tasks EXCEPT ![r.task] = r.result] \/ q.tasks = p.tasks)
    BY <1>1, <1>3, <1>5, RestoreCreated
  <2>4. \A t \in Tasks : q.tasks[t] # NoTask => Durable(t, q.tasks[t])
    <3>1. CASE q.tasks = p.tasks
      BY <1>1, <3>1 DEF Backed
    <3>2. CASE q.tasks = [p.tasks EXCEPT ![r.task] = r.result]
      BY <1>1, <2>1, <2>2, <3>2, SetBacked
    <3> QED BY <2>3, <3>1, <3>2
  <2>5. \A o \in DOMAIN q.applied : Answered(o, q.applied[o])
    BY <1>1, <2>3 DEF Backed
  <2> QED BY <1>2, <1>3, <1>1, <2>3, <2>4, <2>5 DEF Sound, Backed, restore_step
<1>6. CASE r \in Cas
  <2>1. /\ r.type = "cas" /\ r.task \in Tasks /\ r.op \in Operations /\ r.mutation \in Mutations
        /\ r.expected \in Values
    BY <1>6, RecordTypes
  <2>2. Durable(r.task, r.result) /\ i \in cas_records
    BY <1>2, <1>4, <2>1 DEF Durable, TaskRecords, cas_records
  <2>3. PICK a \in Results : a = Applied(r.task, r.mutation, r.expected)
    BY <2>1, AppliedTyped
  <2>4. Answered(r.op, a)
    BY <1>2, <2>2, <2>3 DEF Answered
  <2>5. PICK v : v = IF p.tasks[r.task].revision >= r.result.revision
                     THEN p.tasks[r.task] ELSE r.result
    OBVIOUS
  <2>6. v # NoTask => Durable(r.task, v)
    <3>1. v = p.tasks[r.task] \/ v = r.result
      BY <2>5
    <3> QED BY <1>1, <2>1, <2>2, <3>1 DEF Backed
  <2>7. /\ q \in Projections
        /\ \/ q.tasks = p.tasks /\ q.applied = p.applied
           \/ /\ q.applied = insert(p.applied, r.op, a)
              /\ q.tasks = [p.tasks EXCEPT ![r.task] = v]
    <3>1. /\ q \in Projections
          /\ \/ q.tasks = p.tasks /\ q.applied = p.applied
             \/ /\ q.applied = insert(p.applied, r.op, Applied(r.task, r.mutation, r.expected))
                /\ q.tasks = [p.tasks EXCEPT ![r.task] =
                               IF p.tasks[r.task].revision >= r.result.revision
                               THEN p.tasks[r.task] ELSE r.result]
      BY <1>1, <1>3, <1>6, RestoreCas, SMTT(30)
    <3> QED BY <2>3, <2>5, <3>1
  <2>8. Backed(q)
    <3>1. CASE q.tasks = p.tasks /\ q.applied = p.applied
      BY <1>1, <3>1 DEF Backed
    <3>2. CASE q.applied = insert(p.applied, r.op, a) /\ q.tasks = [p.tasks EXCEPT ![r.task] = v]
      <4>1. \A o \in DOMAIN q.applied : Answered(o, q.applied[o])
        BY <1>1, <2>1, <2>4, <3>2, InsertBacked
      <4>2. \A t \in Tasks : q.tasks[t] # NoTask => Durable(t, q.tasks[t])
        BY <1>1, <2>1, <2>6, <3>2, SetBacked
      <4> QED BY <4>1, <4>2 DEF Backed
    <3> QED BY <2>7, <3>1, <3>2
  <2> QED BY <1>1, <1>2, <1>3, <2>7, <2>8 DEF Sound, restore_step
<1>7. CASE r \in Left
  <2>1. q \in Projections /\ q.tasks = p.tasks /\ q.applied = p.applied
    BY <1>1, <1>3, <1>7, RestoreLeft
  <2> QED BY <1>1, <1>2, <1>3, <2>1 DEF Sound, Backed, restore_step
<1> QED BY <1>5, <1>6, <1>7 DEF Records

LEMMA ReplaySound ==
  ASSUME Typing, NEW p, Sound(p)
  PROVE  Sound(restore_projection_from(p))
<1>1. PICK f : /\ Replays(f, Len(ledger), p)
               /\ restore_projection_from(p) =
                     [f[Len(ledger)] EXCEPT !.ok = @ /\ f[Len(ledger)].deferred = {}]
  BY Replay
<1> DEFINE S == {n \in 0..Len(ledger) : Sound(f[n])}
<1>2. Len(ledger) \in Nat /\ 0 \in 0..Len(ledger) /\ Len(ledger) \in 0..Len(ledger)
      /\ \A n \in 1..Len(ledger) : n \in 0..Len(ledger)
  BY LedgerTyped, SMTT(30)
<1>3. 0 \in S
  BY <1>1, <1>2 DEF Replays
<1>4. ASSUME NEW n \in 1..Len(ledger), n - 1 \in S PROVE n \in S
  <2>1. PICK g : g = f[n - 1] /\ Sound(g)
    BY <1>4
  <2>2. f[n] = restore_step(g, ledger[n])
    BY <1>1, <2>1 DEF Replays
  <2>3. Sound(restore_step(g, ledger[n]))
    BY <2>1, SoundStep
  <2> QED BY <1>2, <2>2, <2>3
<1>5. Len(ledger) \in S
  <2> HIDE DEF S
  <2> QED BY <1>2, <1>3, <1>4, UpTo
<1>6. PICK q : q = f[Len(ledger)] /\ q \in Projections /\ Backed(q)
  BY <1>5 DEF Sound
<1>7. PICK b \in BOOLEAN : b = (q.ok /\ q.deferred = {})
  <2>1. q.ok \in BOOLEAN
    BY <1>6, ProjectionFields
  <2>2. (q.ok /\ q.deferred = {}) \in BOOLEAN
    BY <2>1
  <2> QED BY <2>2
<1>8. restore_projection_from(p) = [q EXCEPT !.ok = b]
  BY <1>1, <1>6, <1>7
<1>9. PICK z : z = [q EXCEPT !.ok = b]
  OBVIOUS
<1>10. z \in Projections /\ z.tasks = q.tasks /\ z.applied = q.applied
  BY <1>6, <1>9 DEF Projections
<1> QED BY <1>6, <1>8, <1>9, <1>10 DEF Sound, Backed

-----------------------------------------------------------------------------
(* A restore that succeeds leaves nothing durable out.                        *)

\* What the projection owes to record i.
Replayed(p, i) ==
  /\ i \in cas_records =>
       /\ ledger[i].op \in DOMAIN p.applied
       /\ p.applied[ledger[i].op] = Applied(ledger[i].task, ledger[i].mutation, ledger[i].expected)
  /\ \A t \in Tasks : i \in TaskRecords(t) /\ t \notin p.deferred =>
       p.tasks[t].revision >= ledger[i].result.revision

ReplayedTo(p, n) == \A i \in 1..n : Replayed(p, i)

\* The creation is before any other record of the Task.
LEMMA NothingBefore ==
  ASSUME Typing, CreatedFirst, NEW t \in Tasks, NEW n \in created_record(t), NEW i \in TaskRecords(t)
  PROVE  i = n \/ n < i
<1>1. n \in TaskRecords(t) /\ ledger[n].type = "created"
  BY DEF created_record, TaskRecords
<1>2. PICK m \in created_record(t) :
        \A j \in TaskRecords(t) : m = j \/ (m < j /\ ledger[j].type = "cas")
  BY <1>1 DEF CreatedFirst
<1>3. m = n
  <2>1. "created" # "cas"
    BY SMTT(30)
  <2> QED BY <1>1, <1>2, <2>1
<1> QED BY <1>2, <1>3

\* The record n takes the projection p to q and is not refused.
RestoresTo(p, n, q) == q = restore_record(p, ledger[n]) /\ q.ok

LEMMA ReplayedStep ==
  ASSUME Typing, OneHistory, CreatedFirst, NEW p \in Projections, NEW n \in 1..Len(ledger),
         NEW q, RestoresTo(p, n, q),
         ReplayedTo(p, n - 1)
  PROVE  ReplayedTo(q, n)
<1>1. PICK r \in Records : r = ledger[n]
  BY LedgerTyped
<1>2. q = restore_record(p, r)
  BY <1>1 DEF RestoresTo
<1>3. q.ok
  BY DEF RestoresTo
<1>4. \A i \in 1..(n - 1) : Replayed(p, i)
  BY DEF ReplayedTo
<1>5. n \in DOMAIN ledger
  BY LedgerTyped
<1>6. \A i \in 1..n : i \in 1..Len(ledger) /\ (i # n => i \in 1..(n - 1) /\ i < n)
  BY LedgerTyped, SMTT(30)
<1>7. p.tasks \in [Tasks -> Values] /\ p.applied \in Answers
  BY ProjectionFields
<1>8. \A v \in Values : v.revision \in Nat
  BY DEF Values
<1>9. CASE r \in Created
  <2>1. r.type = "created" /\ r.task \in Tasks /\ r.result \in Values /\ n \notin cas_records
    <3>1. "created" # "cas"
      BY SMTT(30)
    <3> QED BY <1>1, <1>9, <3>1, RecordTypes DEF cas_records
  <2>2. n \in created_record(r.task)
    BY <1>1, <1>5, <2>1 DEF created_record
  <2>3. /\ q.applied = p.applied
        /\ \/ q.tasks = [p.tasks EXCEPT ![r.task] = r.result] /\ q.deferred = p.deferred
           \/ q.tasks = p.tasks /\ q.deferred = p.deferred \cup {r.task}
    <3>1. /\ q \in Projections /\ q.applied = p.applied /\ q.ok = p.ok
          /\ \/ q.tasks = [p.tasks EXCEPT ![r.task] = r.result] /\ q.deferred = p.deferred
             \/ q.tasks = p.tasks /\ q.deferred = p.deferred \cup {r.task}
      BY <1>2, <1>9, RestoreCreated, SMTT(30)
    <3> QED BY <3>1
  <2>4. \A u \in Tasks : u # r.task =>
          q.tasks[u] = p.tasks[u] /\ (u \notin q.deferred => u \notin p.deferred)
    <3>1. CASE q.tasks = [p.tasks EXCEPT ![r.task] = r.result] /\ q.deferred = p.deferred
      BY <1>7, <3>1
    <3>2. CASE q.tasks = p.tasks /\ q.deferred = p.deferred \cup {r.task}
      BY <3>2
    <3> QED BY <2>3, <3>1, <3>2
  <2>5. r.task \notin q.deferred => q.tasks[r.task] = r.result
    BY <1>7, <2>1, <2>3
  <2> SUFFICES ASSUME NEW i \in 1..n PROVE Replayed(q, i)
    BY DEF ReplayedTo
  <2>6. i \in cas_records => i \in 1..(n - 1)
    BY <1>6, <2>1
  <2>7. i \in cas_records =>
         /\ ledger[i].op \in DOMAIN q.applied
         /\ q.applied[ledger[i].op] = Applied(ledger[i].task, ledger[i].mutation, ledger[i].expected)
    BY <1>4, <2>3, <2>6 DEF Replayed
  <2>8. ASSUME NEW u \in Tasks, i \in TaskRecords(u), u \notin q.deferred
        PROVE  q.tasks[u].revision >= ledger[i].result.revision
    <3>1. CASE u = r.task
      <4>1. i = n
        <5>1. i = n \/ n < i
          BY <2>1, <2>2, <2>8, <3>1, NothingBefore
        <5> QED BY <1>6, <5>1, SMTT(30)
      <4>2. q.tasks[u] = ledger[i].result /\ ledger[i].result \in Values
        BY <1>1, <2>1, <2>5, <2>8, <3>1, <4>1
      <4>3. \A x \in Nat : x >= x
        BY SMTT(30)
      <4> QED BY <1>8, <4>2, <4>3
    <3>2. CASE u # r.task
      <4>1. i # n
        BY <1>1, <2>8, <3>2 DEF TaskRecords
      <4> QED BY <1>4, <1>6, <2>4, <2>8, <3>2, <4>1 DEF Replayed
    <3> QED BY <3>1, <3>2
  <2> QED BY <2>7, <2>8 DEF Replayed
<1>10. CASE r \in Cas
  <2>1. /\ r.type = "cas" /\ r.task \in Tasks /\ r.result \in Values /\ r.op \in Operations
        /\ r.mutation \in Mutations /\ r.expected \in Values /\ n \in cas_records
    BY <1>1, <1>5, <1>10, RecordTypes DEF cas_records
  <2>2. PICK a \in Results : a = Applied(r.task, r.mutation, r.expected)
    BY <2>1, AppliedTyped
  <2>3. PICK v : v = IF p.tasks[r.task].revision >= r.result.revision
                     THEN p.tasks[r.task] ELSE r.result
    OBVIOUS
  <2>4. /\ q.deferred = p.deferred /\ q.applied = insert(p.applied, r.op, a)
        /\ q.tasks = [p.tasks EXCEPT ![r.task] = v]
    <3>1. /\ q.deferred = p.deferred
          /\ q.applied = insert(p.applied, r.op, Applied(r.task, r.mutation, r.expected))
          /\ q.tasks = [p.tasks EXCEPT ![r.task] =
                               IF p.tasks[r.task].revision >= r.result.revision
                               THEN p.tasks[r.task] ELSE r.result]
      BY <1>2, <1>3, <1>10, RestoreCas, SMTT(30)
    <3> QED BY <2>2, <2>3, <3>1
  <2>5. /\ DOMAIN q.applied = DOMAIN p.applied \cup {r.op} /\ q.applied[r.op] = a
        /\ \A x \in DOMAIN p.applied : x # r.op => q.applied[x] = p.applied[x]
    <3>1. PICK g \in Answers : g = p.applied
      BY <1>7
    <3>2. PICK o \in Operations : o = r.op
      BY <2>1
    <3>3. /\ DOMAIN insert(g, o, a) = DOMAIN g \cup {o} /\ insert(g, o, a)[o] = a
          /\ \A x \in DOMAIN g : x # o => insert(g, o, a)[x] = g[x]
      BY InsertTyped
    <3>4. q.applied = insert(g, o, a)
      BY <2>4, <3>1, <3>2
    <3> QED BY <3>1, <3>2, <3>3, <3>4
  <2>6. q.tasks[r.task] = v /\ \A u \in Tasks : u # r.task => q.tasks[u] = p.tasks[u]
    BY <1>7, <2>1, <2>4
  <2>7. v.revision >= r.result.revision /\ v.revision >= p.tasks[r.task].revision
        /\ v.revision \in Nat /\ p.tasks[r.task].revision \in Nat
    <3>1. p.tasks[r.task].revision \in Nat /\ r.result.revision \in Nat
      BY <1>7, <1>8, <2>1
    <3> QED BY <2>3, <3>1, SMTT(30)
  <2> SUFFICES ASSUME NEW i \in 1..n PROVE Replayed(q, i)
    BY DEF ReplayedTo
  <2>8. ASSUME i \in cas_records
        PROVE  /\ ledger[i].op \in DOMAIN q.applied
               /\ q.applied[ledger[i].op] = Applied(ledger[i].task, ledger[i].mutation, ledger[i].expected)
    <3>1. CASE i = n
      BY <1>1, <2>2, <2>5, <3>1
    <3>2. CASE i # n
      <4>1. ledger[i].op # r.op
        BY <1>1, <2>1, <2>8, <3>2 DEF OneHistory
      <4>2. Replayed(p, i)
        BY <1>4, <1>6, <3>2
      <4> QED BY <2>5, <2>8, <4>1, <4>2 DEF Replayed
    <3> QED BY <3>1, <3>2
  <2>9. ASSUME NEW u \in Tasks, i \in TaskRecords(u), u \notin q.deferred
        PROVE  q.tasks[u].revision >= ledger[i].result.revision
    <3>1. CASE i = n
      <4>1. u = r.task
        BY <1>1, <2>9, <3>1 DEF TaskRecords
      <4> QED BY <1>1, <2>6, <2>7, <3>1, <4>1
    <3>2. CASE i # n
      <4>1. p.tasks[u].revision >= ledger[i].result.revision
        BY <1>4, <1>6, <2>4, <2>9, <3>2 DEF Replayed
      <4>2. CASE u # r.task
        BY <2>6, <4>1, <4>2
      <4>3. CASE u = r.task
        <5>1. ledger[i].result.revision \in Nat
          <6>1. ledger[i] \in Records /\ ledger[i].type \in {"created", "cas"}
            BY <1>6, <2>9, LedgerTyped DEF TaskRecords
          <6>2. ledger[i].result \in Values
            BY <6>1, RecordTypes
          <6> QED BY <1>8, <6>2
        <5>2. v.revision >= ledger[i].result.revision
          BY <2>7, <4>1, <4>3, <5>1, SMTT(30)
        <5> QED BY <2>6, <4>3, <5>2
      <4> QED BY <4>2, <4>3
    <3> QED BY <3>1, <3>2
  <2> QED BY <2>8, <2>9 DEF Replayed
<1>11. CASE r \in Left
  <2>1. q.tasks = p.tasks /\ q.applied = p.applied /\ q.deferred = p.deferred
    BY <1>2, <1>11, RestoreLeft
  <2>2. r.type \notin {"created", "cas"} /\ r.type # "cas"
    BY <1>11, SMTT(30) DEF Left
  <2>3. n \notin cas_records /\ \A u \in Tasks : n \notin TaskRecords(u)
    BY <1>1, <2>2 DEF cas_records, TaskRecords
  <2> QED BY <1>4, <1>6, <2>1, <2>3 DEF Replayed, ReplayedTo
<1> QED BY <1>9, <1>10, <1>11 DEF Records

\* Unless an earlier record was refused, the first n records are replayed.
Complete(p, n) == p \in Projections /\ (p.ok => ReplayedTo(p, n))

LEMMA CompleteStep ==
  ASSUME Typing, OneHistory, CreatedFirst, NEW n \in 1..Len(ledger), NEW p, Complete(p, n - 1)
  PROVE  Complete(restore_step(p, ledger[n]), n)
<1>1. p \in Projections
  BY DEF Complete
<1>2. PICK r \in Records : r = ledger[n]
  BY LedgerTyped
<1>3. PICK q : q = restore_record(p, r)
  OBVIOUS
<1>4. q \in Projections
  <2>1. CASE r \in Created
    BY <1>1, <1>3, <2>1, RestoreCreated
  <2>2. CASE r \in Cas
    BY <1>1, <1>3, <2>2, RestoreCas
  <2>3. CASE r \in Left
    BY <1>1, <1>3, <2>3, RestoreLeft
  <2> QED BY <2>1, <2>2, <2>3 DEF Records
<1>5. CASE ~p.ok
  BY <1>1, <1>5 DEF Complete, restore_step
<1>6. CASE p.ok
  <2>1. restore_step(p, ledger[n]) = q
    BY <1>2, <1>3, <1>6 DEF restore_step
  <2>2. ReplayedTo(p, n - 1)
    BY <1>6 DEF Complete
  <2>3. q.ok => RestoresTo(p, n, q)
    BY <1>2, <1>3 DEF RestoresTo
  <2>4. q.ok => ReplayedTo(q, n)
    BY <1>1, <2>2, <2>3, ReplayedStep
  <2> QED BY <1>4, <2>1, <2>4 DEF Complete
<1> QED BY <1>5, <1>6

LEMMA BootedTyped ==
  /\ Booted \in Projections /\ DOMAIN Booted.applied = {}
  /\ \A t \in Tasks : Booted.tasks[t] = NoTask
<1>1. PICK a : a = [o \in {} |-> 0] /\ a \in Answers /\ DOMAIN a = {}
  <2>1. [o \in {} |-> 0] \in [{} -> Results] /\ {} \in SUBSET Operations
    OBVIOUS
  <2> QED BY <2>1 DEF Answers
<1>2. PICK f \in [Tasks -> Values] : f = [t \in Tasks |-> NoTask]
  BY NoTaskTyped
<1>3. Booted = [tasks |-> f, applied |-> a, members |-> Agents, deferred |-> {}, ok |-> TRUE]
  BY <1>1, <1>2 DEF Booted
<1> QED BY <1>1, <1>2, <1>3 DEF Projections

\* Restart: every answer given is known again, and no Task is set back.
LEMMA RestartKept ==
  ASSUME IInv
  PROVE  RestartKeepsReported
<1> USE DEF IInv
<1>1. PICK f : /\ Replays(f, Len(ledger), Booted)
               /\ restore_projection_from(Booted) =
                     [f[Len(ledger)] EXCEPT !.ok = @ /\ f[Len(ledger)].deferred = {}]
  BY Replay
<1> DEFINE S == {n \in 0..Len(ledger) : Complete(f[n], n)}
<1>2. Len(ledger) \in Nat /\ 0 \in 0..Len(ledger) /\ Len(ledger) \in 0..Len(ledger)
      /\ (\A n \in 1..Len(ledger) : n \in 0..Len(ledger)) /\ \A i \in 1..0 : FALSE
  BY LedgerTyped, SMTT(30)
<1>3. 0 \in S
  <2>1. Complete(Booted, 0)
    BY <1>2, BootedTyped DEF Complete, ReplayedTo
  <2> QED BY <1>1, <1>2, <2>1 DEF Replays
<1>4. ASSUME NEW n \in 1..Len(ledger), n - 1 \in S PROVE n \in S
  <2>1. PICK g : g = f[n - 1] /\ Complete(g, n - 1)
    BY <1>4
  <2>2. f[n] = restore_step(g, ledger[n])
    BY <1>1, <2>1 DEF Replays
  <2>3. Complete(restore_step(g, ledger[n]), n)
    BY <2>1, CompleteStep
  <2> QED BY <1>2, <2>2, <2>3
<1>5. Len(ledger) \in S
  <2> HIDE DEF S
  <2> QED BY <1>2, <1>3, <1>4, UpTo
<1>6. PICK q : q = f[Len(ledger)] /\ Complete(q, Len(ledger))
  BY <1>5
<1>7. PICK z : z = restore_projection_from(Booted)
  OBVIOUS
<1>8. /\ z.tasks = q.tasks /\ z.applied = q.applied
      /\ z.ok = (q.ok /\ q.deferred = {})
  <2>1. q \in Projections
    BY <1>6 DEF Complete
  <2>2. z = [q EXCEPT !.ok = q.ok /\ q.deferred = {}]
    BY <1>1, <1>6, <1>7
  <2> QED BY <2>1, <2>2 DEF Projections
<1>9. ASSUME z.ok
      PROVE  /\ \A o \in DOMAIN applied : o \in DOMAIN z.applied /\ z.applied[o] = applied[o]
             /\ \A t \in Tasks : z.tasks[t].revision >= tasks[t].revision
  <2>1. q.deferred = {} /\ \A i \in 1..Len(ledger) : Replayed(q, i)
    BY <1>6, <1>8, <1>9 DEF Complete, ReplayedTo
  <2>2. ASSUME NEW o \in DOMAIN applied
        PROVE  o \in DOMAIN z.applied /\ z.applied[o] = applied[o]
    <3>1. PICK i \in cas_records :
            /\ ledger[i].op = o
            /\ applied[o] = Applied(ledger[i].task, ledger[i].mutation, ledger[i].expected)
      BY DEF ReportedIsDurable
    <3>2. Replayed(q, i)
      BY <2>1, LedgerTyped DEF cas_records
    <3> QED BY <1>8, <3>1, <3>2 DEF Replayed
  <2>3. ASSUME NEW t \in Tasks
        PROVE  z.tasks[t].revision >= tasks[t].revision
    <3>1. CASE tasks[t] # NoTask
      <4>1. PICK i \in TaskRecords(t) : ledger[i].result = tasks[t]
        BY <3>1 DEF ReportedIsDurable
      <4>2. Replayed(q, i)
        BY <2>1, LedgerTyped DEF TaskRecords
      <4> QED BY <1>8, <2>1, <4>1, <4>2 DEF Replayed
    <3>2. CASE tasks[t] = NoTask
      <4>1. z.tasks[t].revision \in Nat
        BY <1>6, <1>8, ProjectionFields DEF Complete, Values
      <4>2. \A x \in Nat : x >= 0
        BY SMTT(30)
      <4> QED BY <3>2, <4>1, <4>2, NoTaskTyped
    <3> QED BY <3>1, <3>2
  <2> QED BY <2>2, <2>3
<1> QED BY <1>7, <1>9 DEF RestartKeepsReported

-----------------------------------------------------------------------------
(* What a step publishes is kept from before it or durable after it.          *)

Founded ==
  /\ \A o \in DOMAIN applied' : \/ o \in DOMAIN applied /\ applied'[o] = applied[o]
                                \/ \E a : a = applied'[o] /\ Answered(o, a)'
  /\ \A t \in Tasks : \/ tasks'[t] \in {tasks[t], NoTask}
                      \/ \E v : v = tasks'[t] /\ Durable(t, v)'
  /\ \A call \in admitting' : \/ call \in admitting \/ call.step = "validated"
                              \/ \E v : v = NewTask(call.owner) /\ Durable(call.task, v)'

RegistryTyping == /\ tasks' \in [Tasks -> Values] /\ applied' \in Answers
                  /\ members' \in SUBSET Agents /\ admitting' \in SUBSET Calls

LEMMA Preserved ==
  ASSUME IInv, Grows, OneHistory', CreatedFirst', RegistryTyping, Founded
  PROVE  IInv'
<1>1. Typing
  BY DEF IInv
<1>2. Typing'
  BY <1>1, RecordsKept DEF Typing, RegistryTyping
<1>3. /\ \A t, v : Durable(t, v) => Durable(t, v)'
      /\ \A o, a : Answered(o, a) => Answered(o, a)'
  BY <1>1, DurableKept
<1>4. ASSUME NEW o \in DOMAIN applied'
      PROVE  \E i \in cas_records' :
               /\ ledger'[i].op = o
               /\ applied'[o] = Applied(ledger'[i].task, ledger'[i].mutation, ledger'[i].expected)
  <2>1. PICK a : a = applied'[o]
    OBVIOUS
  <2>2. Answered(o, a)'
    <3>1. CASE o \in DOMAIN applied /\ applied'[o] = applied[o]
      <4>1. Answered(o, a)
        <5>1. PICK i \in cas_records :
                /\ ledger[i].op = o
                /\ applied[o] = Applied(ledger[i].task, ledger[i].mutation, ledger[i].expected)
          BY <3>1 DEF IInv, ReportedIsDurable
        <5> QED BY <2>1, <3>1, <5>1 DEF Answered
      <4> QED BY <1>3, <4>1
    <3>2. CASE \E x : x = applied'[o] /\ Answered(o, x)'
      BY <2>1, <3>2
    <3> QED BY <1>4, <3>1, <3>2 DEF Founded
  <2> QED BY <2>1, <2>2 DEF Answered
<1>5. ASSUME NEW t \in Tasks, tasks'[t] # NoTask
      PROVE  \E i \in TaskRecords(t)' : ledger'[i].result = tasks'[t]
  <2>1. PICK v : v = tasks'[t]
    OBVIOUS
  <2>2. Durable(t, v)'
    <3>1. CASE tasks'[t] = tasks[t]
      <4>1. Durable(t, v)
        BY <1>5, <2>1, <3>1 DEF IInv, ReportedIsDurable, Durable
      <4> QED BY <1>3, <4>1
    <3>2. CASE \E x : x = tasks'[t] /\ Durable(t, x)'
      BY <2>1, <3>2
    <3> QED BY <1>5, <3>1, <3>2 DEF Founded
  <2> QED BY <2>1, <2>2 DEF Durable
<1>6. ReportedIsDurable'
  BY <1>4, <1>5 DEF ReportedIsDurable
<1>7. ASSUME NEW call \in admitting', call.step # "validated"
      PROVE  Durable(call.task, NewTask(call.owner))'
  <2>1. PICK v : v = NewTask(call.owner)
    OBVIOUS
  <2>2. Durable(call.task, v)'
    <3>1. CASE call \in admitting
      <4>1. Durable(call.task, v)
        BY <1>7, <2>1, <3>1 DEF IInv, Publishable
      <4> QED BY <1>3, <4>1
    <3>2. CASE \E x : x = NewTask(call.owner) /\ Durable(call.task, x)'
      BY <2>1, <3>2
    <3> QED BY <1>7, <3>1, <3>2 DEF Founded
  <2> QED BY <2>1, <2>2
<1>8. Publishable'
  BY <1>7 DEF Publishable
<1> QED BY <1>2, <1>6, <1>8 DEF IInv

\* A step that writes nothing.
LEMMA Silent ==
  ASSUME IInv, ledger' = ledger, RegistryTyping, Founded
  PROVE  IInv'
BY NothingWritten, Preserved DEF IInv, Grows

-----------------------------------------------------------------------------
(* The compare-and-set.                                                       *)

\* The record of a change by operation o of Task t, from its value at revision n.
Proposed(t, n, o, r) ==
  /\ tasks[t] # NoTask /\ tasks[t].revision = n
  /\ r \in Cas /\ r.task = t /\ r.op = o /\ r.expected = tasks[t]

\* persist_task_cas leaves the record durable and the history one chain.
LEMMA Persisted ==
  ASSUME IInv, NEW t \in Tasks, NEW o \in Operations, NEW n, NEW r,
         Proposed(t, n, o, r), persist_task_cas(t, n, o, r)
  PROVE  /\ Grows /\ OneHistory' /\ CreatedFirst'
         /\ \E i \in DOMAIN ledger' : ledger'[i] = r
<1>1. Typing /\ OneHistory /\ CreatedFirst /\ r \in Records
  BY DEF IInv, Records, Proposed
<1>2. CASE bound(t, o, n) = {} /\ append(r)
  <2>1. ledger' = Append(ledger, r)
    BY <1>2 DEF append
  <2>2. PICK k \in TaskRecords(t) : ledger[k].result = tasks[t]
    BY DEF IInv, ReportedIsDurable, Proposed
  <2>3. \A j \in cas_records : /\ ledger[j].op # r.op
                               /\ ledger[j].task = t => ledger[j].expected # ledger[k].result
    BY <1>2, <2>2 DEF bound, Proposed
  <2>4. \A j \in TaskRecords(t) : j = k \/ j < k
    BY <1>1, <2>3, LastOfTask
  <2>5. OneHistory' /\ CreatedFirst'
    <3>1. r \in Cas /\ r.task = t /\ r.expected = ledger[k].result
      BY <2>2 DEF Proposed
    <3> QED BY <1>1, <2>1, <2>3, <2>4, <3>1, CasExtends
  <2> QED BY <1>1, <2>1, <2>5, Appended DEF Grows
<1>3. CASE /\ \E i \in bound(t, o, n) : (\A j \in bound(t, o, n) : i <= j) /\ ledger[i] = r
           /\ UNCHANGED ledger
  <2>1. PICK i \in DOMAIN ledger : ledger[i] = r
    BY <1>3 DEF bound, cas_records
  <2>2. OneHistory' /\ CreatedFirst'
    BY <1>1, <1>3, NothingWritten
  <2> QED BY <1>3, <2>1, <2>2 DEF Grows
<1> QED BY <1>2, <1>3 DEF persist_task_cas

LEMMA CasStep ==
  ASSUME IInv, NEW t \in Tasks, NEW o \in Operations, NEW n, NEW m \in Mutations,
         apply_task_cas_locked(t, n, o, m)
  PROVE  IInv'
<1>1. Typing
  BY DEF IInv
<1>2. PICK task \in Values : task = tasks[t]
  BY <1>1 DEF Typing
<1>3. PICK r : r = CasRecord(t, o, m, task)
  OBVIOUS
<1>4. /\ r \in Cas /\ r \in Records /\ r.type = "cas" /\ r.task = t /\ r.op = o
      /\ r.mutation = m /\ r.expected = task /\ r.result = apply(m, task)
  <2>1. apply(m, task) \in Values
    BY ApplyTyped
  <2>2. PICK v \in Values : v = apply(m, task)
    BY <2>1
  <2>3. r = [type |-> "cas", task |-> t, op |-> o, mutation |-> m, expected |-> task, result |-> v]
    BY <1>3, <2>2 DEF CasRecord
  <2> QED BY <2>2, <2>3 DEF Cas, Records
<1>5. /\ tasks[t] # NoTask /\ tasks[t].revision = n
      /\ persist_task_cas(t, n, o, r)
      /\ UNCHANGED <<members, admitting>>
  BY <1>2, <1>3 DEF apply_task_cas_locked
<1>6. PICK a \in Results : a = Applied(t, m, task)
  BY AppliedTyped
<1>7. PICK v \in Values : v = r.result
  BY <1>4, ApplyTyped
<1>8. \/ tasks' = [tasks EXCEPT ![t] = v] /\ applied' = insert(applied, o, a)
      \/ tasks' = tasks /\ applied' = applied
  <2>1. \/ /\ tasks' = [tasks EXCEPT ![t] = CasRecord(t, o, m, tasks[t]).result]
           /\ applied' = insert(applied, o, Applied(t, m, tasks[t]))
        \/ tasks' = tasks /\ applied' = applied
    BY DEF apply_task_cas_locked
  <2> QED BY <1>2, <1>3, <1>6, <1>7, <2>1
<1>9. /\ Grows /\ OneHistory' /\ CreatedFirst'
      /\ \E i \in DOMAIN ledger' : ledger'[i] = r
  <2>1. Proposed(t, n, o, r)
    BY <1>2, <1>4, <1>5 DEF Proposed
  <2>2. persist_task_cas(t, n, o, r)
    BY <1>5
  <2> QED BY <2>1, <2>2, Persisted
<1>10. Durable(t, v)' /\ Answered(o, a)'
  <2>1. PICK i \in DOMAIN ledger' : ledger'[i] = r
    BY <1>9
  <2>2. i \in TaskRecords(t)' /\ i \in cas_records'
    BY <1>4, <2>1 DEF TaskRecords, cas_records
  <2> QED BY <1>4, <1>6, <1>7, <2>1, <2>2 DEF Durable, Answered
<1>11. RegistryTyping /\ Founded
  <2>1. /\ tasks \in [Tasks -> Values] /\ applied \in Answers
        /\ members' \in SUBSET Agents /\ admitting' = admitting /\ admitting' \in SUBSET Calls
    BY <1>1, <1>5 DEF Typing
  <2>2. CASE tasks' = tasks /\ applied' = applied
    BY <2>1, <2>2 DEF RegistryTyping, Founded
  <2>3. CASE tasks' = [tasks EXCEPT ![t] = v] /\ applied' = insert(applied, o, a)
    <3>1. tasks' \in [Tasks -> Values] /\ tasks'[t] = v /\ \A u \in Tasks : u # t => tasks'[u] = tasks[u]
      BY <2>1, <2>3
    <3>2. /\ applied' \in Answers /\ DOMAIN applied' = DOMAIN applied \cup {o} /\ applied'[o] = a
          /\ \A x \in DOMAIN applied : x # o => applied'[x] = applied[x]
      BY <2>1, <2>3, InsertTyped
    <3>3. \A x \in DOMAIN applied' : \/ x \in DOMAIN applied /\ applied'[x] = applied[x]
                                     \/ \E y : y = applied'[x] /\ Answered(x, y)'
      BY <1>10, <3>2
    <3>4. \A u \in Tasks : \/ tasks'[u] \in {tasks[u], NoTask}
                           \/ \E x : x = tasks'[u] /\ Durable(u, x)'
      BY <1>10, <3>1
    <3> QED BY <2>1, <3>1, <3>2, <3>3, <3>4 DEF RegistryTyping, Founded
  <2> QED BY <1>8, <2>2, <2>3
<1> QED BY <1>9, <1>11, Preserved

-----------------------------------------------------------------------------
(* Admission.                                                                 *)

LEMMA MembersOwn == ASSUME Typing PROVE \A a \in members \cup {NoAgent} : a \in Owners
BY DEF Typing, Owners

\* The record of a Task's creation, written where there is none.
LEMMA CreationWritten ==
  ASSUME IInv, NEW t \in Tasks, NEW owner \in Owners, created_record(t) = {},
         append(CreatedRecord(t, NewTask(owner)))
  PROVE  /\ Grows /\ OneHistory' /\ CreatedFirst'
         /\ \A v : v = NewTask(owner) => Durable(t, v)'
<1>1. Typing /\ OneHistory /\ CreatedFirst
  BY DEF IInv
<1>2. PICK v \in Values : v = NewTask(owner)
  BY NewTaskTyped
<1>3. PICK r : r = CreatedRecord(t, v)
  OBVIOUS
<1>4. r \in Created /\ r \in Records /\ r.type = "created" /\ r.task = t /\ r.result = v
  BY <1>3 DEF CreatedRecord, Created, Records
<1>5. ledger' = Append(ledger, r)
  BY <1>2, <1>3 DEF append
<1>6. OneHistory' /\ CreatedFirst'
  BY <1>1, <1>4, <1>5, Creates
<1>7. PICK i \in DOMAIN ledger' : ledger'[i] = r
  BY <1>1, <1>4, <1>5, Appended
<1>8. Durable(t, v)'
  BY <1>4, <1>7 DEF Durable, TaskRecords
<1> QED BY <1>2, <1>4, <1>5, <1>6, <1>8 DEF Grows

LEMMA CreateStep ==
  ASSUME IInv, NEW t \in Tasks, NEW owner, create_collaboration_task(t, owner)
  PROVE  IInv'
<1>1. Typing
  BY DEF IInv
<1>2. owner \in Owners
  BY <1>1, MembersOwn DEF create_collaboration_task
<1>3. PICK call : call = [task |-> t, owner |-> owner, step |-> "validated"]
  OBVIOUS
<1>4. call \in Calls /\ call.step = "validated"
  BY <1>2, <1>3 DEF Calls
<1>5. /\ admitting' = admitting \cup {call}
      /\ ledger' = ledger /\ tasks' = tasks /\ applied' = applied /\ members' = members
  BY <1>3 DEF create_collaboration_task
<1>6. RegistryTyping
  BY <1>1, <1>4, <1>5 DEF RegistryTyping, Typing
<1>7. Founded
  BY <1>4, <1>5 DEF Founded
<1> QED BY <1>5, <1>6, <1>7, Silent

LEMMA AdmitStep ==
  ASSUME IInv, NEW call \in admitting, admit_collaboration_tasks(call)
  PROVE  IInv'
<1>1. Typing
  BY DEF IInv
<1>2. PICK t \in Tasks, owner \in Owners : t = call.task /\ owner = call.owner
  BY <1>1 DEF Typing, Calls
<1>3. \A s \in {"created", "replayed"} :
        LET c == [call EXCEPT !.step = s] IN c \in Calls /\ c.task = t /\ c.owner = owner
  <2>1. call \in Calls
    BY <1>1 DEF Typing
  <2> QED BY <1>2, <2>1 DEF Calls
<1>4. tasks' = tasks /\ applied' = applied /\ members' = members
  BY DEF admit_collaboration_tasks
<1>5. CASE \E s \in {"created", "replayed"} :
             /\ admitting' = (admitting \ {call}) \cup {[call EXCEPT !.step = s]}
             /\ Grows /\ OneHistory' /\ CreatedFirst'
             /\ \A v : v = NewTask(owner) => Durable(t, v)'
  <2>1. PICK s \in {"created", "replayed"} :
             /\ admitting' = (admitting \ {call}) \cup {[call EXCEPT !.step = s]}
             /\ Grows /\ OneHistory' /\ CreatedFirst'
             /\ \A v : v = NewTask(owner) => Durable(t, v)'
    BY <1>5
  <2>2. PICK c : c = [call EXCEPT !.step = s]
    OBVIOUS
  <2>3. c \in Calls /\ c.task = t /\ c.owner = owner /\ admitting' = (admitting \ {call}) \cup {c}
    BY <1>3, <2>1, <2>2
  <2>4. RegistryTyping
    BY <1>1, <1>4, <2>3 DEF RegistryTyping, Typing
  <2>5. \E v : v = NewTask(c.owner) /\ Durable(c.task, v)'
    BY <2>1, <2>3
  <2>6. Founded
    BY <1>4, <2>3, <2>5 DEF Founded
  <2> QED BY <2>1, <2>4, <2>6, Preserved
<1>6. CASE created_record(t) = {} /\ append(CreatedRecord(t, NewTask(owner)))
           /\ admitting' = (admitting \ {call}) \cup {[call EXCEPT !.step = "created"]}
  <2>1. /\ Grows /\ OneHistory' /\ CreatedFirst'
        /\ \A v : v = NewTask(owner) => Durable(t, v)'
    BY <1>6, CreationWritten
  <2> QED BY <1>5, <1>6, <2>1
<1>7. CASE created_record(t) # {} /\ (\A i \in created_record(t) : ledger[i].result = NewTask(owner))
           /\ admitting' = (admitting \ {call}) \cup {[call EXCEPT !.step = "replayed"]}
           /\ ledger' = ledger
  <2>1. Grows /\ OneHistory' /\ CreatedFirst'
    BY <1>7, NothingWritten DEF IInv, Grows
  <2>2. \A v : v = NewTask(owner) => Durable(t, v)
    BY <1>7 DEF created_record, Durable, TaskRecords
  <2>3. \A v : v = NewTask(owner) => Durable(t, v)'
    BY <1>1, <2>1, <2>2, DurableKept
  <2> QED BY <1>5, <1>7, <2>1, <2>3
<1>8. CASE admitting' = admitting \ {call} /\ ledger' = ledger
  <2>1. RegistryTyping /\ Founded
    BY <1>1, <1>4, <1>8 DEF RegistryTyping, Typing, Founded
  <2> QED BY <1>8, <2>1, Silent
<1> QED BY <1>2, <1>6, <1>7, <1>8 DEF admit_collaboration_tasks

\* A Task's value, the creation's, published.
LEMMA PublishFounded ==
  ASSUME Typing, NEW t \in Tasks, NEW owner \in Owners, tasks' = [tasks EXCEPT ![t] = NewTask(owner)],
         \A v : v = NewTask(owner) => Durable(t, v)'
  PROVE  /\ tasks' \in [Tasks -> Values]
         /\ \A u \in Tasks : \/ tasks'[u] \in {tasks[u], NoTask}
                             \/ \E v : v = tasks'[u] /\ Durable(u, v)'
<1>1. PICK w \in Values : w = NewTask(owner)
  BY NewTaskTyped
<1>2. tasks \in [Tasks -> Values]
  BY DEF Typing
<1>3. tasks' \in [Tasks -> Values] /\ tasks'[t] = w /\ \A u \in Tasks : u # t => tasks'[u] = tasks[u]
  BY <1>1, <1>2
<1>4. Durable(t, w)'
  BY <1>1
<1> QED BY <1>3, <1>4

LEMMA PublishStep ==
  ASSUME IInv, NEW call \in admitting, publish_admission(call)
  PROVE  IInv'
<1>1. Typing
  BY DEF IInv
<1>2. PICK t \in Tasks, owner \in Owners : t = call.task /\ owner = call.owner
  BY <1>1 DEF Typing, Calls
<1>3. /\ tasks' = [tasks EXCEPT ![t] = NewTask(owner)] \/ tasks' = tasks
      /\ admitting' = admitting \ {call}
      /\ ledger' = ledger /\ applied' = applied /\ members' = members
  BY <1>2 DEF publish_admission
<1>4. call.step # "validated"
  BY SMTT(30) DEF publish_admission
<1>5. \A v : v = NewTask(owner) => Durable(t, v)
  BY <1>2, <1>4 DEF IInv, Publishable
<1>6. \A v : v = NewTask(owner) => Durable(t, v)'
  BY <1>1, <1>3, <1>5, DurableKept DEF Grows
<1>7. /\ tasks' \in [Tasks -> Values]
      /\ \A u \in Tasks : \/ tasks'[u] \in {tasks[u], NoTask}
                          \/ \E v : v = tasks'[u] /\ Durable(u, v)'
  <2>1. CASE tasks' = tasks
    BY <1>1, <2>1 DEF Typing
  <2>2. CASE tasks' = [tasks EXCEPT ![t] = NewTask(owner)]
    BY <1>1, <1>6, <2>2, PublishFounded
  <2> QED BY <1>3, <2>1, <2>2
<1>8. RegistryTyping /\ Founded
  BY <1>1, <1>3, <1>7 DEF RegistryTyping, Typing, Founded
<1> QED BY <1>3, <1>8, Silent

LEMMA RegisterStep ==
  ASSUME IInv, NEW t \in Tasks, NEW owner, register_runtime_task(t, owner)
  PROVE  IInv'
<1>1. Typing
  BY DEF IInv
<1>2. owner \in Owners
  BY <1>1, MembersOwn DEF register_runtime_task
<1>3. /\ tasks' = [tasks EXCEPT ![t] = NewTask(owner)]
      /\ applied' = applied /\ members' = members /\ admitting' = admitting
  BY DEF register_runtime_task
<1>4. /\ Grows /\ OneHistory' /\ CreatedFirst'
      /\ \A v : v = NewTask(owner) => Durable(t, v)'
  <2>1. CASE created_record(t) = {}
    <3>1. append(CreatedRecord(t, NewTask(owner)))
      BY <2>1 DEF register_runtime_task
    <3> QED BY <1>2, <2>1, <3>1, CreationWritten
  <2>2. CASE created_record(t) # {}
    <3>1. ledger' = ledger /\ \A i \in created_record(t) : ledger[i].result = NewTask(owner)
      BY <2>2 DEF register_runtime_task
    <3>2. Grows /\ OneHistory' /\ CreatedFirst'
      BY <3>1, NothingWritten DEF IInv, Grows
    <3>3. \A v : v = NewTask(owner) => Durable(t, v)
      BY <2>2, <3>1 DEF created_record, Durable, TaskRecords
    <3>4. \A v : v = NewTask(owner) => Durable(t, v)'
      BY <1>1, <3>2, <3>3, DurableKept
    <3> QED BY <3>2, <3>4
  <2> QED BY <2>1, <2>2
<1>5. /\ tasks' \in [Tasks -> Values]
      /\ \A u \in Tasks : \/ tasks'[u] \in {tasks[u], NoTask}
                          \/ \E v : v = tasks'[u] /\ Durable(u, v)'
  BY <1>1, <1>2, <1>3, <1>4, PublishFounded
<1>6. RegistryTyping /\ Founded
  BY <1>1, <1>3, <1>5 DEF RegistryTyping, Typing, Founded
<1> QED BY <1>4, <1>6, Preserved

-----------------------------------------------------------------------------
(* Leaving the Team, and the two restores.                                    *)

LEMMA LeaveStep ==
  ASSUME IInv, NEW a \in Workers, leave_team(a)
  PROVE  IInv'
<1>1. Typing /\ OneHistory /\ CreatedFirst
  BY DEF IInv
<1>2. PICK r : r = LeftRecord(a)
  OBVIOUS
<1>3. r \in Left /\ r \in Records
  BY <1>2 DEF LeftRecord, Left, Records, Agents
<1>4. /\ ledger' = Append(ledger, r) /\ members' = members \ {a}
      /\ tasks' = tasks /\ applied' = applied /\ admitting' = admitting
  BY <1>2 DEF leave_team, append
<1>5. Grows /\ OneHistory' /\ CreatedFirst'
  BY <1>1, <1>3, <1>4, Leaves DEF Grows
<1>6. RegistryTyping /\ Founded
  BY <1>1, <1>4 DEF RegistryTyping, Typing, Founded
<1> QED BY <1>5, <1>6, Preserved

\* The registries are replaced by a sound projection.
LEMMA ProjectionStep ==
  ASSUME IInv, NEW p, Sound(p), ledger' = ledger,
         tasks' = p.tasks, applied' = p.applied, members' = p.members,
         admitting' \in SUBSET admitting
  PROVE  IInv'
<1>1. Typing /\ p \in Projections /\ Backed(p) /\ Grows
  BY DEF IInv, Sound, Grows
<1>2. RegistryTyping
  BY <1>1, ProjectionFields DEF RegistryTyping, Typing
<1>3. ASSUME NEW o \in DOMAIN applied' PROVE \E a : a = applied'[o] /\ Answered(o, a)'
  <2>1. PICK a : a = p.applied[o] /\ Answered(o, a)
    BY <1>1, <1>3 DEF Backed
  <2> QED BY <1>1, <2>1, DurableKept
<1>4. ASSUME NEW t \in Tasks, tasks'[t] # NoTask PROVE \E v : v = tasks'[t] /\ Durable(t, v)'
  <2>1. PICK v : v = p.tasks[t] /\ Durable(t, v)
    BY <1>1, <1>4 DEF Backed
  <2> QED BY <1>1, <2>1, DurableKept
<1>5. Founded
  BY <1>3, <1>4 DEF Founded
<1> QED BY <1>2, <1>5, Silent

LEMMA RestartStep ==
  ASSUME IInv, Restart
  PROVE  IInv'
<1>1. Typing
  BY DEF IInv
<1>2. PICK p : p = restore_projection_from(Booted)
  OBVIOUS
<1>3. Sound(Booted)
  BY BootedTyped DEF Sound, Backed
<1>4. Sound(p)
  BY <1>1, <1>2, <1>3, ReplaySound
<1>5. /\ tasks' = p.tasks /\ applied' = p.applied /\ members' = p.members
      /\ admitting' \in SUBSET admitting /\ ledger' = ledger
  BY <1>2 DEF Restart
<1> QED BY <1>4, <1>5, ProjectionStep

LEMMA RestoreStep ==
  ASSUME IInv, restore_projection
  PROVE  IInv'
<1>1. Typing
  BY DEF IInv
<1>2. PICK p : p = restore_projection_from(Live)
  OBVIOUS
<1>3. Sound(Live)
  <2>1. Live \in Projections /\ Live.tasks = tasks /\ Live.applied = applied
    BY <1>1 DEF Live, Projections, Typing
  <2> QED BY <2>1 DEF Sound, Backed, IInv, ReportedIsDurable, Answered, Durable
<1>4. Sound(p)
  <2>1. PICK l : l = Live
    OBVIOUS
  <2> QED BY <1>1, <1>2, <1>3, <2>1, ReplaySound
<1>5. /\ tasks' = p.tasks /\ applied' = p.applied /\ members' = p.members
      /\ admitting' \in SUBSET admitting /\ ledger' = ledger
  BY <1>2 DEF restore_projection
<1> QED BY <1>4, <1>5, ProjectionStep

LEMMA Stutters ==
  ASSUME IInv, UNCHANGED <<ledger, tasks, applied, members, admitting>>
  PROVE  IInv'
<1>1. /\ ledger' = ledger /\ tasks' = tasks /\ applied' = applied
      /\ members' = members /\ admitting' = admitting
  OBVIOUS
<1>2. RegistryTyping /\ Founded
  BY <1>1 DEF RegistryTyping, Founded, IInv, Typing
<1> QED BY <1>1, <1>2, Silent

-----------------------------------------------------------------------------
(* The theorems.                                                              *)

LEMMA InitInvariant == Init => IInv
<1> SUFFICES ASSUME Init PROVE IInv
  OBVIOUS
<1>1. DOMAIN ledger = {} /\ ledger \in Seq(Records)
  BY SMTT(30) DEF Init
<1>2. applied \in Answers /\ DOMAIN applied = {}
  <2>1. applied \in [{} -> Results] /\ {} \in SUBSET Operations
    BY DEF Init
  <2> QED BY <2>1 DEF Answers
<1>3. Typing
  BY <1>1, <1>2, NoTaskTyped DEF Init, Typing
<1>4. (\A t \in Tasks : TaskRecords(t) = {}) /\ cas_records = {}
  BY <1>1 DEF TaskRecords, cas_records
<1>5. OneHistory /\ CreatedFirst
  BY <1>4 DEF OneHistory, CreatedFirst
<1>6. ReportedIsDurable /\ Publishable
  BY <1>2 DEF Init, ReportedIsDurable, Publishable
<1> QED BY <1>3, <1>5, <1>6 DEF IInv

\* A compare-and-set by any of its callers.
LEMMA CallStep ==
  ASSUME IInv, NEW t \in Tasks, NEW o \in Operations, NEW n,
         \/ skip_collaboration_task(t, n, o)
         \/ requeue_supervisor_task(t, n, o)
         \/ cancel_supervisor_workflow_task(t, n, o)
         \/ \E a \in Agents :
              \/ assign_task_owner(t, a, n, o) \/ mark_task_running(t, a, n, o)
              \/ \E b \in Agents : handoff_task(t, a, b, n, o)
              \/ \E s \in Terminal, f \in {"None", "Retryable"} :
                   settle_collaboration_task(t, a, n, o, s, f)
         \/ \E s \in Terminal \cup {"Skipped"} : update_workflow_task(t, n, o, s, "None", FALSE)
         \/ update_workflow_task(t, n, o, "Queued", "None", TRUE)
  PROVE  IInv'
<1> SUFFICES \E m \in Mutations : apply_task_cas_locked(t, n, o, m)
  BY CasStep
<1>1. NoAgent \in Owners /\ tasks[t].owner \in Owners /\ \A a \in Agents : a \in Owners
  <2>1. tasks[t] \in Values
    BY DEF IInv, Typing
  <2>2. tasks[t].owner \in Owners
    BY <2>1 DEF Values
  <2> QED BY <2>2 DEF Owners
<1>2. CASE skip_collaboration_task(t, n, o)
  BY <1>1, <1>2, MutationsTyped DEF skip_collaboration_task
<1>3. CASE requeue_supervisor_task(t, n, o)
  BY <1>1, <1>3, MutationsTyped DEF requeue_supervisor_task
<1>4. CASE cancel_supervisor_workflow_task(t, n, o)
  <2>1. "Cancelled" \in Terminal \cup {"Skipped", "Queued"} /\ FALSE \in BOOLEAN
    BY DEF Terminal
  <2> QED BY <1>1, <1>4, <2>1, MutationsTyped DEF cancel_supervisor_workflow_task
<1>5. ASSUME NEW a \in Agents, assign_task_owner(t, a, n, o) \/ mark_task_running(t, a, n, o)
      PROVE  \E m \in Mutations : apply_task_cas_locked(t, n, o, m)
  BY <1>1, <1>5, MutationsTyped DEF assign_task_owner, mark_task_running
<1>6. ASSUME NEW a \in Agents, NEW b \in Agents, handoff_task(t, a, b, n, o)
      PROVE  \E m \in Mutations : apply_task_cas_locked(t, n, o, m)
  <2>1. PICK x \in Owners : x = IF Supervisor THEN tasks[t].owner ELSE a
    BY <1>1
  <2> QED BY <1>1, <1>6, <2>1, MutationsTyped DEF handoff_task
<1>7. ASSUME NEW a \in Agents, NEW s \in Terminal, NEW f \in {"None", "Retryable"},
             settle_collaboration_task(t, a, n, o, s, f)
      PROVE  \E m \in Mutations : apply_task_cas_locked(t, n, o, m)
  BY <1>1, <1>7, MutationsTyped DEF settle_collaboration_task
<1>8. ASSUME NEW s \in Terminal \cup {"Skipped"}, update_workflow_task(t, n, o, s, "None", FALSE)
      PROVE  \E m \in Mutations : apply_task_cas_locked(t, n, o, m)
  <2>1. s \in Terminal \cup {"Skipped", "Queued"} /\ FALSE \in BOOLEAN
    OBVIOUS
  <2> QED BY <1>1, <1>8, <2>1, MutationsTyped DEF update_workflow_task
<1>9. CASE update_workflow_task(t, n, o, "Queued", "None", TRUE)
  <2>1. "Queued" \in Terminal \cup {"Skipped", "Queued"} /\ TRUE \in BOOLEAN
    OBVIOUS
  <2> QED BY <1>1, <1>9, <2>1, MutationsTyped DEF update_workflow_task
<1> QED BY <1>2, <1>3, <1>4, <1>5, <1>6, <1>7, <1>8, <1>9

LEMMA NextInvariant == IInv /\ [Next]_vars => IInv'
<1> SUFFICES ASSUME IInv, [Next]_vars PROVE IInv'
  OBVIOUS
<1>1. ASSUME NEW t \in Tasks, NEW o \in OperationIds, NEW n \in Revisions,
         \/ skip_collaboration_task(t, n, o)
         \/ requeue_supervisor_task(t, n, o)
         \/ cancel_supervisor_workflow_task(t, n, o)
         \/ \E a \in Agents :
              \/ assign_task_owner(t, a, n, o) \/ mark_task_running(t, a, n, o)
              \/ \E b \in Agents : handoff_task(t, a, b, n, o)
              \/ \E s \in Terminal, f \in {"None", "Retryable"} :
                   settle_collaboration_task(t, a, n, o, s, f)
         \/ \E s \in Terminal \cup {"Skipped"} : update_workflow_task(t, n, o, s, "None", FALSE)
         \/ update_workflow_task(t, n, o, "Queued", "None", TRUE)
      PROVE  IInv'
  <2>1. o \in Operations
    BY DEF OperationIds
  <2> QED BY <1>1, <2>1, CallStep
<1>2. ASSUME NEW t \in Tasks, NEW a \in Agents, validate_task_agent(t, a) PROVE IInv'
  BY <1>2, Stutters DEF validate_task_agent
<1>3. ASSUME NEW t \in Tasks, NEW owner \in Workers \cup {NoAgent},
             create_collaboration_task(t, owner) \/ register_runtime_task(t, owner)
      PROVE  IInv'
  BY <1>3, CreateStep, RegisterStep
<1>4. ASSUME NEW call \in admitting, admit_collaboration_tasks(call) \/ publish_admission(call)
      PROVE  IInv'
  BY <1>4, AdmitStep, PublishStep
<1>5. ASSUME NEW a \in Workers, leave_team(a) PROVE IInv'
  BY <1>5, LeaveStep
<1>6. CASE Restart \/ restore_projection
  BY <1>6, RestartStep, RestoreStep
<1>7. CASE UNCHANGED vars
  BY <1>7, Stutters DEF vars
<1> QED BY <1>1, <1>2, <1>3, <1>4, <1>5, <1>6, <1>7 DEF Next

\* The inductive invariant: the durable records of a Task are one chain from its
\* creation, what the registry and the stored answers of cas_durable show is in
\* the ledger, and so is what an admission in progress will still publish.
THEOREM HistoryInvariant == Spec => []IInv
BY InitInvariant, NextInvariant, PTL DEF Spec

\* Whichever calls race, are repeated or fail half way, whoever leaves the Team
\* and whenever the Run is restarted or restored in place: one chain of durable
\* changes per Task, no answer and no Task value that is not durable, and a
\* restart that succeeds knows every answer given and sets no Task back.
THEOREM TaskHistory == Spec => []TaskHistoryKept
<1>1. IInv => TaskHistoryKept
  BY RestartKept DEF IInv, TaskHistoryKept
<1> QED BY <1>1, HistoryInvariant, PTL
=============================================================================
