------------------------------- MODULE TaskCas -------------------------------
(* Durable compare-and-set of collaboration Tasks (solaris-agent,            *)
(* task_registry.rs, collaboration_runtime/tasks.rs and restore.rs): Tasks   *)
(* are admitted, assigned, run, handed off, settled, skipped and requeued,   *)
(* each change by one operation id against one expected revision.            *)
(*                                                                           *)
(* Operations run under the Run's mutation line, one action each, except     *)
(* for the parts of them that the code does before it takes the line or      *)
(* without it: the owner checks of admission, assignment and start, and the  *)
(* publication of an admission's records.  Those are actions of their own,   *)
(* and members may leave the Team in between (their spawn is cancelled).     *)
EXTENDS Integers, Sequences, FiniteSets

CONSTANTS Tasks,
          WorkflowTasks,  \* those with a workflow id
          Workers, Coordinator,
          Supervisor,     \* whether the Team's strategy is Supervisor
          NoAgent,
          Operations,     \* operation ids of compare-and-set calls, as numbers
          MaxRecords      \* bound on the Run's ledger

Agents == Workers \cup {Coordinator}
Terminal == {"Completed", "Failed", "Cancelled"}
Classes == {"None", "Retryable", "NonRetryable"}
States == {"Queued", "Assigned", "Running", "Skipped"} \cup Terminal
NoTask == [state |-> "None", owner |-> NoAgent, class |-> "None", revision |-> 0]

VARIABLES ledger,     \* task_created, task_cas and membership records
          tasks,      \* TaskRegistry.tasks; NoTask where there is none
          applied,    \* TaskRegistry.applied: what each operation did
          members,    \* the Team's members; the coordinator never leaves
          admitting,  \* calls of admit_collaboration_tasks in progress
          validated   \* <<task, agent>> pairs validate_task_agent accepted

vars == <<ledger, tasks, applied, members, admitting, validated>>

Init ==
  /\ ledger = <<>>
  /\ tasks = [t \in Tasks |-> NoTask]
  /\ applied = [o \in {} |-> 0]
  /\ members = Agents
  /\ admitting = {}
  /\ validated = {}

append(r) ==
  /\ Len(ledger) < MaxRecords
  /\ ledger' = Append(ledger, r)

-----------------------------------------------------------------------------
\* TaskCasMutation
Mutation(kind, a, b, s, f, clear) ==
  [kind |-> kind, owner |-> a, to |-> b, state |-> s, class |-> f, clear |-> clear]
Assign(a) == Mutation("assign", a, NoAgent, "Assigned", "None", FALSE)
MarkRunning(a) == Mutation("mark_running", a, NoAgent, "Running", "None", FALSE)
Handoff(a, b) == Mutation("handoff", a, b, "Assigned", "None", FALSE)
Settle(a, s, f) == Mutation("settle", a, NoAgent, s, f, FALSE)
Skip == Mutation("skip", NoAgent, NoAgent, "Skipped", "NonRetryable", FALSE)
SupervisorRetry == Mutation("supervisor_retry", NoAgent, NoAgent, "Queued", "None", TRUE)
WorkflowState(s, f, clear) == Mutation("workflow_state", NoAgent, NoAgent, s, f, clear)

\* The guard and the result of TaskCasMutation::apply.
permits(m, t, task) ==
  \/ m.kind \in {"assign", "skip"} /\ task.state = "Queued" /\ task.owner = NoAgent
  \/ m.kind = "mark_running" /\ task.state = "Assigned" /\ task.owner = m.owner
  \/ /\ m.kind \in {"handoff", "settle"}
     /\ task.state \in {"Assigned", "Running"} /\ task.owner = m.owner
  \/ /\ m.kind = "supervisor_retry" /\ t \notin WorkflowTasks
     /\ task.state = "Failed" /\ task.class = "Retryable" /\ task.owner # NoAgent
  \/ /\ m.kind = "workflow_state" /\ t \in WorkflowTasks
     /\ \/ task.state = "Queued" /\ m.state \in Terminal \cup {"Skipped"}
        \/ task.state \in {"Assigned", "Running"} /\ m.state \in Terminal
        \/ task.state = "Failed" /\ m.state = "Queued" /\ m.clear

apply(m, task) ==
  [state |-> m.state,
   owner |-> CASE m.kind = "assign" -> m.owner
               [] m.kind = "handoff" -> m.to
               [] m.clear -> NoAgent
               [] OTHER -> task.owner,
   class |-> IF m.kind \in {"assign", "mark_running", "handoff"} THEN task.class ELSE m.class,
   revision |-> task.revision + 1]

-----------------------------------------------------------------------------
CreatedRecord(t, task) == [type |-> "created", task |-> t, result |-> task]
CasRecord(t, o, m, task) ==
  [type |-> "cas", task |-> t, op |-> o, mutation |-> m, expected |-> task,
   result |-> apply(m, task)]
LeftRecord(a) == [type |-> "left", agent |-> a]

cas_records == {i \in DOMAIN ledger : ledger[i].type = "cas"}
created_record(t) == {i \in DOMAIN ledger : ledger[i].type = "created" /\ ledger[i].task = t}

\* A map with an entry more, or with that entry replaced.
insert(f, k, v) == [x \in DOMAIN f \cup {k} |-> IF x = k THEN v ELSE f[x]]

Applied(t, m, task) == [task |-> t, mutation |-> m, expected |-> task.revision,
                        result |-> apply(m, task)]

\* Mutant: only the operation id is looked up, not the task revision.
bound_to_operation(t, o, n) == {i \in cas_records : ledger[i].op = o}

bound(t, o, n) ==
  {i \in cas_records : \/ ledger[i].op = o
                       \/ ledger[i].task = t /\ ledger[i].expected.revision = n}

\* Mutant: the registry is changed although the append failed.
cas_before_durable(t, n, o, m) ==
  LET task == tasks[t] IN
  /\ task # NoTask
  /\ o \notin DOMAIN applied
  /\ task.revision = n
  /\ permits(m, t, task)
  /\ tasks' = [tasks EXCEPT ![t] = apply(m, task)]
  /\ applied' = insert(applied, o, Applied(t, m, task))
  /\ UNCHANGED <<ledger, members, admitting>>

\* The persist closure: the first record of the same operation or of the same
\* revision must be this very change, and is then not written again.
persist_task_cas(t, n, o, record) ==
  LET b == bound(t, o, n) IN
  \/ b = {} /\ append(record)
  \/ /\ \E i \in b : (\A j \in b : i <= j) /\ ledger[i] = record
     /\ UNCHANGED ledger

\* apply_task_cas_locked with cas_durable.  A repeated operation returns its
\* stored result.  The append may also fail after the record became durable.
apply_task_cas_locked(t, n, o, m) ==
  LET task == tasks[t]
      record == CasRecord(t, o, m, task)
  IN
  /\ task # NoTask
  /\ o \notin DOMAIN applied
  /\ task.revision = n
  /\ permits(m, t, task)
  /\ persist_task_cas(t, n, o, record)
  /\ \/ /\ tasks' = [tasks EXCEPT ![t] = record.result]
        /\ applied' = insert(applied, o, Applied(t, m, task))
     \/ /\ bound(t, o, n) = {}
        /\ UNCHANGED <<tasks, applied>>
  /\ UNCHANGED <<members, admitting>>

settle_collaboration_task(t, a, n, o, s, f) ==
  /\ tasks[t].owner = a /\ a \in members
  /\ apply_task_cas_locked(t, n, o, Settle(a, s, f))
  /\ UNCHANGED validated

skip_collaboration_task(t, n, o) ==
  /\ apply_task_cas_locked(t, n, o, Skip)
  /\ UNCHANGED validated

requeue_supervisor_task(t, n, o) ==
  /\ Supervisor
  /\ apply_task_cas_locked(t, n, o, SupervisorRetry)
  /\ UNCHANGED validated

cancel_supervisor_workflow_task(t, n, o) ==
  /\ Supervisor
  /\ apply_task_cas_locked(t, n, o, WorkflowState("Cancelled", "None", FALSE))
  /\ UNCHANGED validated

\* The workflow controller's projection of its node onto the Task.
update_workflow_task(t, n, o, s, f, clear) ==
  /\ apply_task_cas_locked(t, n, o, WorkflowState(s, f, clear))
  /\ UNCHANGED validated

\* A Supervisor Team's coordinator takes the Task from whoever owns it.
handoff_task(t, from, to, n, o) ==
  /\ {from, to} \subseteq members
  /\ Supervisor => from = Coordinator /\ tasks[t].owner # NoAgent
  /\ apply_task_cas_locked(t, n, o, Handoff(IF Supervisor THEN tasks[t].owner ELSE from, to))
  /\ UNCHANGED validated

\* Before the line is taken.
validate_task_agent(t, a) ==
  /\ tasks[t] # NoTask /\ a \in members
  /\ validated' = validated \cup {<<t, a>>}
  /\ UNCHANGED <<ledger, tasks, applied, members, admitting>>

assign_task_owner(t, a, n, o) ==
  /\ <<t, a>> \in validated
  /\ apply_task_cas_locked(t, n, o, Assign(a))
  /\ validated' = validated \ {<<t, a>>}

mark_task_running(t, a, n, o) ==
  /\ <<t, a>> \in validated
  /\ apply_task_cas_locked(t, n, o, MarkRunning(a))
  /\ validated' = validated \ {<<t, a>>}

-----------------------------------------------------------------------------
\* Admission: the checks, the ledger's atomic admission, and the publication of
\* what it returned; no line is held over the three.
\* Mutant: the Task is not normalised at its admission.
NewTask_created(owner) == [state |-> "Created", owner |-> owner, class |-> "None", revision |-> 0]

NewTask(owner) == [state |-> IF owner = NoAgent THEN "Queued" ELSE "Assigned",
                   owner |-> owner, class |-> "None", revision |-> 0]

create_collaboration_task(t, owner) ==
  /\ owner \in members \cup {NoAgent}
  /\ admitting' = admitting \cup {[task |-> t, owner |-> owner, step |-> "validated"]}
  /\ UNCHANGED <<ledger, tasks, applied, members, validated>>

\* A replay of the same Task returns no record; another definition is refused.
admit_collaboration_tasks(call) ==
  LET t == call.task  task == NewTask(call.owner) IN
  /\ call.step = "validated"
  /\ \/ /\ created_record(t) = {}
        /\ append(CreatedRecord(t, task))
        /\ admitting' = (admitting \ {call}) \cup {[call EXCEPT !.step = "created"]}
     \/ /\ created_record(t) # {}
        /\ \A i \in created_record(t) : ledger[i].result = task
        /\ admitting' = (admitting \ {call}) \cup {[call EXCEPT !.step = "replayed"]}
        /\ UNCHANGED ledger
     \/ /\ \E i \in created_record(t) : ledger[i].result # task
        /\ admitting' = admitting \ {call}
        /\ UNCHANGED ledger
  /\ UNCHANGED <<tasks, applied, members, validated>>

\* The returned records overwrite the registry; a replay fills a gap only.
publish_admission(call) ==
  /\ call.step \in {"created", "replayed"}
  /\ tasks' = IF call.step = "created" \/ tasks[call.task] = NoTask
              THEN [tasks EXCEPT ![call.task] = NewTask(call.owner)] ELSE tasks
  /\ admitting' = admitting \ {call}
  /\ UNCHANGED <<ledger, applied, members, validated>>

\* Under the line: a created Task is published where it is missing.
register_runtime_task(t, owner) ==
  /\ owner \in members \cup {NoAgent}
  /\ tasks[t] = NoTask
  /\ \A i \in created_record(t) : ledger[i].result = NewTask(owner)
  /\ IF created_record(t) = {} THEN append(CreatedRecord(t, NewTask(owner)))
                               ELSE UNCHANGED ledger
  /\ tasks' = [tasks EXCEPT ![t] = NewTask(owner)]
  /\ UNCHANGED <<applied, members, admitting, validated>>

\* A worker's spawn is cancelled, which takes it out of the Team.
leave_team(a) ==
  /\ a \in members \cap Workers
  /\ append(LeftRecord(a))
  /\ members' = members \ {a}
  /\ UNCHANGED <<tasks, applied, admitting, validated>>

-----------------------------------------------------------------------------
\* restore_projection over p = [tasks, applied, members, deferred, ok].
validate_projected_team_task(p, task) ==
  /\ task.owner # NoAgent => task.owner \in p.members
  /\ task.state = "Queued" => task.owner = NoAgent
  /\ task.state \in {"Assigned", "Running"} => task.owner # NoAgent

restore_created(p, r) ==
  IF r.result.owner \in p.members \cup {NoAgent}
  THEN [p EXCEPT !.tasks[r.task] = r.result]
  ELSE [p EXCEPT !.deferred = @ \cup {r.task}]

restore_cas_conflicts(p, r) ==
  \/ r.op \in DOMAIN p.applied /\ p.applied[r.op] # Applied(r.task, r.mutation, r.expected)
  \/ p.tasks[r.task].revision = r.result.revision /\ p.tasks[r.task] # r.result

restore_task_cas_record(p, r) ==
  IF \/ p.tasks[r.task] \notin {NoTask, r.expected} /\ p.tasks[r.task].revision = r.expected.revision
     \/ ~validate_projected_team_task(p, r.result)
     \/ restore_cas_conflicts(p, r)
  THEN [p EXCEPT !.ok = FALSE]
  ELSE [p EXCEPT !.applied = insert(@, r.op, Applied(r.task, r.mutation, r.expected)),
                 !.tasks[r.task] = IF @.revision >= r.result.revision THEN @ ELSE r.result]

restore_record(p, r) ==
  CASE r.type = "created" -> restore_created(p, r)
    [] r.type = "cas" -> restore_task_cas_record(p, r)
    [] r.type = "left" -> [p EXCEPT !.members = @ \ {r.agent}]

\* An error ends the restore.
restore_step(p, r) == IF p.ok THEN restore_record(p, r) ELSE p

restore_projection_from(p) ==
  LET after[n \in 0..Len(ledger)] ==
        IF n = 0 THEN p ELSE restore_step(after[n - 1], ledger[n])
      last == after[Len(ledger)]
  IN [last EXCEPT !.ok = @ /\ last.deferred = {}]

Booted == [tasks |-> [t \in Tasks |-> NoTask], applied |-> [o \in {} |-> 0],
           members |-> Agents, deferred |-> {}, ok |-> TRUE]
\* The Team's own records come first and join its first members again.
Live == [tasks |-> tasks, applied |-> applied, members |-> Agents,
         deferred |-> {}, ok |-> TRUE]

\* A restart, when the restore succeeds; the calls in progress are lost.
Restart ==
  LET p == restore_projection_from(Booted) IN
  /\ p.ok
  /\ tasks' = p.tasks /\ applied' = p.applied /\ members' = p.members
  /\ admitting' = {} /\ validated' = {}
  /\ UNCHANGED ledger

\* A restore over the live registries leaves what it did before an error.
restore_projection ==
  LET p == restore_projection_from(Live) IN
  /\ tasks' = p.tasks /\ applied' = p.applied /\ members' = p.members
  /\ UNCHANGED <<ledger, admitting, validated>>

Revisions == {tasks[t].revision : t \in Tasks}

\* Operation ids are only compared, so they are numbered as they become durable.
OperationIds == {o \in Operations : o <= Cardinality({ledger[i].op : i \in cas_records}) + 1}

Next ==
  \/ \E t \in Tasks, o \in OperationIds, n \in Revisions :
       \/ skip_collaboration_task(t, n, o)
       \/ requeue_supervisor_task(t, n, o)
       \/ cancel_supervisor_workflow_task(t, n, o)
       \/ \E a \in Agents :
            \/ assign_task_owner(t, a, n, o) \/ mark_task_running(t, a, n, o)
            \/ \E b \in Agents : handoff_task(t, a, b, n, o)
            \/ \E s \in Terminal, f \in {"None", "Retryable"} :
                 settle_collaboration_task(t, a, n, o, s, f)
       \/ \E s \in Terminal \cup {"Skipped"} : update_workflow_task(t, n, o, s, "None", FALSE)
       \/ update_workflow_task(t, n, o, "Queued", "None", TRUE)
  \/ \E t \in Tasks :
       \/ \E a \in Agents : validate_task_agent(t, a)
       \/ \E owner \in Workers \cup {NoAgent} :
            create_collaboration_task(t, owner) \/ register_runtime_task(t, owner)
  \/ \E call \in admitting : admit_collaboration_tasks(call) \/ publish_admission(call)
  \/ \E a \in Workers : leave_team(a)
  \/ Restart \/ restore_projection

Spec == Init /\ [][Next]_vars

-----------------------------------------------------------------------------
TaskValue == [state : States, owner : Agents \cup {NoAgent}, class : Classes,
              revision : 0..MaxRecords]

TypeOK ==
  /\ Len(ledger) <= MaxRecords
  /\ tasks \in [Tasks -> TaskValue \cup {NoTask}]
  /\ DOMAIN applied \subseteq Operations
  /\ members \subseteq Agents /\ Coordinator \in members
  /\ admitting \subseteq [task : Tasks, owner : Agents \cup {NoAgent},
                          step : {"validated", "created", "replayed"}]
  /\ validated \subseteq Tasks \X Agents

TaskRecords(t) == {i \in DOMAIN ledger : /\ ledger[i].type \in {"created", "cas"}
                                         /\ ledger[i].task = t}

\* The durable history of a Task is one chain from its creation: every change
\* starts from the result of the one before it, no operation id is used twice,
\* whichever calls race, fail half way or are repeated after a restart, and
\* even while an admission's late publication has set the registry back.
OneHistory ==
  /\ \A t \in Tasks : \A i, j \in TaskRecords(t) :
       i < j /\ ~(\E k \in TaskRecords(t) : i < k /\ k < j)
         => ledger[j].type = "cas" /\ ledger[j].expected = ledger[i].result
  /\ \A i, j \in cas_records : ledger[i].op = ledger[j].op => i = j

\* cas_durable returns a stored result for a repeated operation id without
\* looking at the ledger: what it returns is what the ledger holds, and the
\* registry shows no Task value that is not durable.
ReportedIsDurable ==
  /\ \A o \in DOMAIN applied : \E i \in cas_records :
       ledger[i].op = o /\ applied[o] = Applied(ledger[i].task, ledger[i].mutation, ledger[i].expected)
  /\ \A t \in Tasks : tasks[t] # NoTask => \E i \in TaskRecords(t) : ledger[i].result = tasks[t]

\* A restart that succeeds loses nothing that a caller was told: every Task is
\* at its last durable value and every operation reported as applied still is.
RestartKeepsReported ==
  LET p == restore_projection_from(Booted) IN
  p.ok => /\ \A o \in DOMAIN applied : o \in DOMAIN p.applied /\ p.applied[o] = applied[o]
          /\ \A t \in Tasks : p.tasks[t].revision >= tasks[t].revision

\* The durable history of a Task is one chain of changes whichever calls race,
\* and cas_durable answers a repeated operation id from memory: what it answers
\* is durable, no Task value in the registry is not, and a restart that succeeds
\* knows every answer given and has no Task at an earlier revision.
TaskHistoryKept == OneHistory /\ ReportedIsDurable /\ RestartKeepsReported

\* "The check and the registration happen under the Run's mutation line so
\* they are one indivisible step" (admit_collaboration_tasks): then the
\* registration could not set a Task back behind changes made since.
AdmissionIndivisible == [][\A t \in Tasks : tasks'[t].revision >= tasks[t].revision]_vars

\* Task identities and outcomes are kept for restart recovery (advanced.md):
\* the runtime writes no Task record that its own restore refuses.
Restorable == restore_projection_from(Booted).ok
=============================================================================
