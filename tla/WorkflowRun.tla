----------------------------- MODULE WorkflowRun -----------------------------
(* One durable workflow Run (solaris-agent, workflow_controller.rs and       *)
(* workflow_controller/): nodes are skipped, attempted, completed, failed,   *)
(* retried and cancelled, and the Run is settled.  A controller (a Host)     *)
(* keeps a projection of the Run and a registry of the nodes' Tasks; both    *)
(* are rebuilt from the ledger after a restart.                              *)
(*                                                                           *)
(* A mutation of the Run runs under the Run's mutation line and lease, so it *)
(* is one action, but it appends several records and may stop after any of   *)
(* them: an append may fail, or become durable and still report an error, or *)
(* the lease may be lost.  The executor loop reads the projection outside    *)
(* the line, and a cancellation may come between any two of its steps.       *)
EXTENDS Integers, Sequences, FiniteSets, SequencesExt

CONSTANTS Hosts,          \* controllers that share the ledger
          Nodes,
          depends_on,     \* the nodes each node depends on
          FalseWhen,      \* nodes whose condition does not hold
          Unbindable,     \* nodes whose input bindings cannot be resolved
          AgentNodes,     \* nodes whose Task is assigned to an Agent
          max_attempts,   \* retry.max_attempts of each node
          MaxRecords,     \* bound on the ledger
          MaxFaults       \* bound on failing appends

VARIABLES ledger,      \* records of the Run and the root Run's task_cas records
          projection,  \* runs[run_id] of every controller
          tasks,       \* TaskRegistry of every controller
          executor,    \* execute_until_settled of every controller
          faults

vars == <<ledger, projection, tasks, executor, faults>>

Classes == {"None", "Retryable", "NonRetryable", "Reconcile", "Cancelled"}
NodeStatus == {"Pending", "Running", "Completed", "Failed", "Skipped", "Cancelled"}
RunStatus == {"Running", "Completed", "Failed", "Cancelled"}

\* Attempt ids are the ledger positions of the records that started them.
FreshNode == [status |-> "Pending", attempt |-> 0, number |-> 0, resume |-> FALSE,
              class |-> "None", deferred |-> FALSE]
FreshRun == [status |-> "Running", summary |-> {}, nodes |-> [n \in Nodes |-> FreshNode]]
NoRun == [status |-> "None", summary |-> {}, nodes |-> [n \in Nodes |-> FreshNode]]
Absent == [run |-> NoRun, durable |-> 0]
NoTask == [state |-> "None", revision |-> 0]
FreshTask == [state |-> "Queued", revision |-> 0]
Idle == [pc |-> "idle", todo |-> {}, contexts |-> {}]

Init ==
  /\ ledger = <<>>
  /\ projection = [h \in Hosts |-> Absent]
  /\ tasks = [h \in Hosts |-> [n \in Nodes |-> NoTask]]
  /\ executor = [h \in Hosts |-> Idle]
  /\ faults = 0

-----------------------------------------------------------------------------
StartedRecord == [type |-> "workflow_started"]
NodeStarted(n, a) == [type |-> "node_started", node |-> n, attempt |-> a]
NodeCompleted(n) == [type |-> "node_completed", node |-> n]
NodeFailed(n, s, c, d) ==
  [type |-> "node_failed", node |-> n, state |-> s, class |-> c, deferred |-> d]
NodeSkipped(n) == [type |-> "node_skipped", node |-> n]
CancelledRecord(run) == [type |-> "workflow_cancelled", run |-> run]
SettledRecord(s, f) == [type |-> "workflow_settled", status |-> s, summary |-> f]
Reconciled(n, a) == [type |-> "terminal_reconciled", node |-> n, attempt |-> a]
TaskCas(n, s, op, r, root) ==
  [type |-> "task_cas", node |-> n, state |-> s, op |-> op, expected |-> r, root |-> root]

IsCas(r) == r.type = "task_cas"
InRun(r) == IF IsCas(r) THEN ~r.root ELSE TRUE

\* The Run's last sequence; root Run records do not count.
run_sequence(log) ==
  LET own == {i \in DOMAIN log : InRun(log[i])}
  IN IF own = {} THEN 0 ELSE CHOOSE i \in own : \A j \in own : j <= i

durable_task(log, n) ==
  LET cas == SelectSeq(log, LAMBDA r : IsCas(r) /\ r.node = n) IN
  IF log = <<>> THEN NoTask
  ELSE IF cas = <<>> THEN FreshTask
  ELSE [state |-> Last(cas).state, revision |-> Last(cas).expected + 1]

\* TaskCasMutation::WorkflowState
legal(from, to) ==
  \/ from = "Queued" /\ to \in {"Completed", "Failed", "Skipped", "Cancelled"}
  \/ from = "Active" /\ to \in {"Completed", "Failed", "Cancelled"}
  \/ from = "Failed" /\ to = "Queued"

\* update_workflow_task: the change is refused when the transition is illegal
\* or when the operation or the revision is bound to another mutation, adopted
\* when the very same record is already durable, and appended otherwise.
update_workflow_task(n, s, op, at) ==
  LET task == at.tasks[n]
      bound == {i \in DOMAIN at.log : /\ IsCas(at.log[i]) /\ ~at.log[i].root
                                      /\ \/ at.log[i].op = op
                                         \/ at.log[i].node = n /\ at.log[i].expected = task.revision}
      record == TaskCas(n, s, op, task.revision, FALSE)
      next == [at EXCEPT !.tasks[n] = [state |-> s, revision |-> task.revision + 1]]
  IN IF ~legal(task.state, s) \/ \E i \in bound : at.log[i] # record
     THEN [at EXCEPT !.ok = FALSE]
     ELSE IF bound # {} THEN next ELSE [next EXCEPT !.log = Append(@, record)]

\* restore_durable_task_projection: the registry adopts the durable Task.
restore_durable_task(n, at) == [at EXCEPT !.tasks[n] = durable_task(at.log, n)]

\* A mutation is a sequence of steps: a record to append, a Task to change, a
\* Task to read back.
Put(r) == [kind |-> "put", record |-> r]
Cas(n, s, op) == [kind |-> "cas", node |-> n, state |-> s, op |-> op]
ReadBack(n) == [kind |-> "read", node |-> n]
Find(n) == [kind |-> "find", node |-> n]  \* refused without a durable change

perform(step, at) ==
  CASE ~at.ok -> at
    [] at.ok /\ step.kind = "put" -> [at EXCEPT !.log = Append(@, step.record)]
    [] at.ok /\ step.kind = "cas" -> update_workflow_task(step.node, step.state, step.op, at)
    [] at.ok /\ step.kind = "read" -> restore_durable_task(step.node, at)
    [] at.ok /\ step.kind = "find" ->
         [restore_durable_task(step.node, at) EXCEPT
            !.ok = \E i \in DOMAIN at.log : IsCas(at.log[i]) /\ at.log[i].node = step.node]

Progress(h, steps) ==
  LET after[i \in 0..Len(steps)] ==
        IF i = 0 THEN [log |-> ledger, tasks |-> tasks[h], ok |-> TRUE]
        ELSE perform(steps[i], after[i - 1])
  IN after

\* Mutant: a projection behind the ledger is accepted.
require_projection_not_ahead(h) == projection[h].durable <= run_sequence(ledger)

require_current_projection(h) == projection[h].durable = run_sequence(ledger)

publish(h, run, log) == projection' = [projection EXCEPT ![h] = [run |-> run, durable |-> run_sequence(log)]]

\* mutate_projection: a stale projection is refused.  Otherwise the steps are
\* taken in order; the prepared snapshot is published when all are done and
\* dropped when one is refused or fails, while the records already appended
\* stay.  A failing append may have become durable; when only the release of
\* the lease fails the snapshot stays published and the caller gets the error.
mutate_projection(h, steps, run, done, failed) ==
  LET after == Progress(h, steps)
      end == after[Len(steps)]
      caller(e) == executor' = [executor EXCEPT ![h] = e]
      durable(log, registry) == ledger' = log /\ tasks' = [tasks EXCEPT ![h] = registry]
  IN
  \/ /\ ~require_current_projection(h)
     /\ caller(failed)
     /\ UNCHANGED <<ledger, projection, tasks, faults>>
  \/ /\ require_current_projection(h)
     /\ Len(end.log) <= MaxRecords
     /\ durable(end.log, end.tasks)
     /\ \/ end.ok /\ publish(h, run, end.log) /\ caller(done) /\ UNCHANGED faults
        \/ ~end.ok /\ caller(failed) /\ UNCHANGED <<projection, faults>>
        \/ /\ end.ok /\ faults < MaxFaults /\ faults' = faults + 1
           /\ publish(h, run, end.log) /\ caller(failed)
  \/ /\ require_current_projection(h)
     /\ faults < MaxFaults /\ faults' = faults + 1
     /\ \E i \in 0..Len(steps) : \E j \in {i, i - 1} \cap (0..i) :
          Len(after[i].log) <= MaxRecords /\ durable(after[i].log, after[j].tasks)
     /\ caller(failed)
     /\ UNCHANGED projection

-----------------------------------------------------------------------------
\* start_internal: the admission writes the Tasks and the snapshot in one
\* transaction; the Tasks enter the registry after the mutation.
start_internal(h) ==
  /\ executor[h].pc = "idle"
  /\ projection[h] = Absent
  /\ mutate_projection(h, <<Put(StartedRecord)>>, FreshRun, [Idle EXCEPT !.pc = "upsert"], Idle)

upsert_tasks(h) ==
  /\ executor[h].pc = "upsert"
  /\ tasks' = [tasks EXCEPT ![h] = [n \in Nodes |-> FreshTask]]
  /\ executor' = [executor EXCEPT ![h] = Idle]
  /\ UNCHANGED <<ledger, projection, faults>>

-----------------------------------------------------------------------------
Settled == {"Completed", "Skipped"}

\* Mutant: a skipped dependency is not a settled one.
dependencies_completed(n, nodes) == \A d \in depends_on[n] : nodes[d].status = "Completed"

dependencies_complete(n, nodes) == \A d \in depends_on[n] : nodes[d].status \in Settled

\* Mutant: every pending node is ready.
undecided_pending(run) == {n \in Nodes : run.nodes[n].status = "Pending"}

undecided(run) ==
  {n \in Nodes : run.nodes[n].status = "Pending" /\ dependencies_complete(n, run.nodes)}

goto(h, pc, todo) ==
  /\ executor' = [executor EXCEPT ![h].pc = pc, ![h].todo = todo]
  /\ UNCHANGED <<ledger, projection, tasks, faults>>

execute_until_settled(h) ==
  /\ executor[h].pc = "idle"
  /\ projection[h] # Absent
  /\ goto(h, "conditions", {})

\* skip_false_conditions reads the projection once for a round of nodes, and
\* goes round until none is left.
skip_false_conditions(h) ==
  /\ executor[h].pc = "conditions"
  /\ LET skipped == undecided(projection[h].run) \cap FalseWhen IN
     goto(h, IF skipped = {} THEN "ready" ELSE "skip", skipped)

\* Neither the Run's status nor the node's is looked at again.
skip_node(h, n) ==
  /\ executor[h].pc = "skip" /\ n \in executor[h].todo
  /\ LET left == executor[h].todo \ {n}
         next == [Idle EXCEPT !.pc = IF left = {} THEN "conditions" ELSE "skip", !.todo = left]
     IN mutate_projection(h, <<Put(NodeSkipped(n)), Cas(n, "Skipped", <<n, 0, "skipped">>)>>,
                          [projection[h].run EXCEPT !.nodes[n].status = "Skipped"], next, Idle)

ready_nodes(h) ==
  /\ executor[h].pc = "ready"
  /\ LET ready == undecided(projection[h].run) \ FalseWhen IN
     goto(h, IF ready = {} THEN "settle" ELSE "begin", ready)

\* The node after begin_attempt: an interrupted attempt keeps id and number.
begun(n, node) ==
  [node EXCEPT !.status = "Running", !.class = "None", !.resume = FALSE,
               !.attempt = IF node.resume THEN @ ELSE Len(ledger) + 1,
               !.number = IF node.resume THEN @ ELSE @ + 1]

After(h, n, contexts) ==
  LET left == executor[h].todo \ {n} IN
  [pc |-> IF left = {} THEN "report" ELSE "begin", todo |-> left, contexts |-> contexts]

\* Compare-and-set from Pending in a Running Run; anything else is an error,
\* which ends the executor.
begin_attempt(h, n) ==
  LET run == projection[h].run
      node == begun(n, run.nodes[n])
      next == After(h, n, executor[h].contexts \cup {<<n, node.attempt>>})
  IN
  /\ executor[h].pc = "begin" /\ n \in executor[h].todo \ Unbindable
  /\ IF run.status = "Running" /\ run.nodes[n].status = "Pending"
     THEN mutate_projection(h, <<Put(NodeStarted(n, node.attempt))>>,
                            [run EXCEPT !.nodes[n] = node], next, Idle)
     ELSE mutate_projection(h, <<>>, run, Idle, Idle)

\* begin_attempt of a node whose bindings cannot be resolved; a Run that is not
\* Running is the earlier error.
binding_fails(h, n) ==
  /\ executor[h].pc = "begin" /\ n \in executor[h].todo \cap Unbindable
  /\ mutate_projection(h, <<>>, projection[h].run,
       IF projection[h].run.status = "Running" THEN [executor[h] EXCEPT !.pc = "unbound"] ELSE Idle,
       Idle)

\* The Run may have been cancelled since: then there is nothing to do.
fail_before_attempt(h, n) ==
  LET run == projection[h].run
      node == [run.nodes[n] EXCEPT !.status = "Failed", !.class = "NonRetryable", !.resume = FALSE]
      next == After(h, n, executor[h].contexts)
  IN
  /\ executor[h].pc = "unbound" /\ n \in executor[h].todo \cap Unbindable
  /\ IF run.status = "Running" /\ run.nodes[n].status = "Pending"
     THEN mutate_projection(h, <<Put(NodeFailed(n, "Failed", "NonRetryable", FALSE)),
                                 Cas(n, "Failed", <<n, node.attempt, "pre-dispatch-failed">>)>>,
                            [run EXCEPT !.nodes[n] = node], next, Idle)
     ELSE mutate_projection(h, <<>>, run, next, Idle)

-----------------------------------------------------------------------------
\* SpawnService assigns the node's Task and marks it running while the attempt
\* executes; those records belong to the root Run.
assign_task(h, n) ==
  LET task == tasks[h][n] IN
  /\ executor[h].pc = "report" /\ n \in AgentNodes
  /\ \E c \in executor[h].contexts : c[1] = n
  /\ task.state = "Queued" /\ Len(ledger) < MaxRecords
  /\ ledger' = Append(ledger, TaskCas(n, "Active", <<n, Len(ledger), "assign">>, task.revision, TRUE))
  /\ tasks' = [tasks EXCEPT ![h][n] = [state |-> "Active", revision |-> task.revision + 1]]
  /\ UNCHANGED <<projection, executor, faults>>

Reported(h, c) ==
  LET left == executor[h].contexts \ {c} IN
  [pc |-> IF left = {} THEN "conditions" ELSE "report", todo |-> {}, contexts |-> left]

\* Mutant: only the attempt is compared.
runs_attempt(run, c) == run.nodes[c[1]].attempt = c[2]

runs(run, c) ==
  /\ run.status = "Running"
  /\ run.nodes[c[1]].status = "Running" /\ run.nodes[c[1]].attempt = c[2]

\* A late result changes nothing.
complete_node(h, c) ==
  LET run == projection[h].run
      n == c[1]
  IN
  /\ executor[h].pc = "report" /\ c \in executor[h].contexts
  /\ IF runs(run, c)
     THEN mutate_projection(h, <<Put(NodeCompleted(n)), Cas(n, "Completed", <<n, c[2], "completed">>)>>,
                            [run EXCEPT !.nodes[n].status = "Completed", !.nodes[n].class = "None"],
                            Reported(h, c), Idle)
     ELSE mutate_projection(h, <<>>, run, Reported(h, c), Idle)

\* Mutant: the retry is recorded with the Task's state.
failed_status_of_task(n, node, class) ==
  IF class = "Retryable" /\ node.number < max_attempts[n] THEN "Queued" ELSE "Failed"

\* Mutant: attempts are not counted.
failed_status_unlimited(n, node, class) == IF class = "Retryable" THEN "Pending" ELSE "Failed"

failed_status(n, node, class) ==
  IF class = "Retryable" /\ node.number < max_attempts[n] THEN "Pending" ELSE "Failed"

\* fail_node: the Task goes to Failed and, for a retry, back to Queued.  When a
\* reconciliation is required the Task is read back first; if that fails, which
\* takes a fault, its terminal state is left to settle (deferred).
fail_node(h, c, class, deferred) ==
  LET run == projection[h].run
      n == c[1]
      status == failed_status(n, run.nodes[n], class)
      read == IF class = "Reconcile" /\ ~deferred THEN <<ReadBack(n)>> ELSE <<>>
      write == IF deferred THEN <<>>
               ELSE <<Cas(n, "Failed", <<n, c[2], "failed">>)>>
                    \o (IF status = "Pending" THEN <<Cas(n, "Queued", <<n, c[2], "retry-queued">>)>>
                        ELSE <<>>)
  IN
  /\ executor[h].pc = "report" /\ c \in executor[h].contexts
  /\ deferred => class = "Reconcile" /\ faults < MaxFaults
  /\ IF runs(run, c)
     THEN mutate_projection(h, read \o <<Put(NodeFailed(n, status, class, deferred))>> \o write,
                            [run EXCEPT !.nodes[n].status = status, !.nodes[n].class = class,
                                        !.nodes[n].deferred = deferred],
                            Reported(h, c), Idle)
     ELSE mutate_projection(h, read, run, Reported(h, c), Idle)

-----------------------------------------------------------------------------
\* recover_deferred_task_terminals_locked: the Task's terminal state is written
\* unless it is durable, and then the marker unless that is.
deferred_steps(nodes) ==
  LET step(n) ==
        LET op == <<n, nodes[n].attempt, "failed">>
            written == \E i \in DOMAIN ledger : IsCas(ledger[i]) /\ ledger[i].op = op
            marked == \E i \in DOMAIN ledger : ledger[i] = Reconciled(n, nodes[n].attempt)
        IN <<Find(n)>> \o (IF written THEN <<>> ELSE <<Cas(n, "Failed", op)>>)
           \o (IF marked THEN <<>> ELSE <<Put(Reconciled(n, nodes[n].attempt))>>)
  IN FlattenSeq([i \in 1..Cardinality(Nodes) |->
       LET n == SetToSeq(Nodes)[i] IN IF nodes[n].deferred THEN step(n) ELSE <<>>])

aggregate_workflow_failures(nodes) ==
  {<<n, nodes[n].class>> : n \in {m \in Nodes : nodes[m].status = "Failed"}}

settled_status(run) ==
  CASE \E n \in Nodes : run.nodes[n].status = "Failed" -> "Failed"
    [] \A n \in Nodes : run.nodes[n].status \in Settled -> "Completed"
    [] OTHER -> run.status

\* The Run's own status is not looked at: a cancelled Run is settled as well.
settle(h) ==
  LET run == projection[h].run
      recovered == [run EXCEPT !.nodes = [n \in Nodes |-> [run.nodes[n] EXCEPT !.deferred = FALSE]]]
      busy == \E n \in Nodes : run.nodes[n].status = "Running"
      status == settled_status(run)
      summary == IF status = "Failed" THEN aggregate_workflow_failures(run.nodes) ELSE {}
  IN
  /\ executor[h].pc = "settle"
  /\ IF busy
     THEN mutate_projection(h, deferred_steps(run.nodes), recovered, Idle, Idle)
     ELSE mutate_projection(h, deferred_steps(run.nodes) \o <<Put(SettledRecord(status, summary))>>,
                            [recovered EXCEPT !.status = status, !.summary = summary], Idle, Idle)

stopped(node) ==
  IF node.status \in {"Pending", "Running"}
  THEN [node EXCEPT !.status = "Cancelled", !.class = "Cancelled"] ELSE node

\* cancel comes from another thread; the executor goes on with what it read.
cancel(h) ==
  LET run == projection[h].run
      next == [run EXCEPT !.status = "Cancelled", !.nodes = [n \in Nodes |-> stopped(run.nodes[n])]]
      open == SelectSeq(SetToSeq(Nodes), LAMBDA n : next.nodes[n].status = "Cancelled")
  IN
  /\ run.status = "Running"
  /\ mutate_projection(h, <<Put(CancelledRecord(next))>>
                          \o [i \in DOMAIN open |-> Cas(open[i], "Cancelled", <<open[i], 0, "cancelled">>)],
                       next, executor[h], executor[h])

-----------------------------------------------------------------------------
\* One record after workflow_started.  Every start counts as a new attempt; a
\* settlement is put off while a node's terminal Task write is deferred.
replay_record(at, r) ==
  LET node(x) == [at EXCEPT !.run.nodes[r.node] = x]
      old == at.run.nodes[r.node]
  IN
  CASE r.type = "node_started" ->
         node([old EXCEPT !.number = @ + 1, !.attempt = r.attempt, !.status = "Running",
                          !.class = "None", !.resume = FALSE])
    [] r.type = "node_completed" -> node([old EXCEPT !.status = "Completed", !.resume = FALSE])
    [] r.type = "node_failed" ->
         node([old EXCEPT !.status = r.state, !.class = r.class, !.resume = FALSE,
                          !.deferred = r.deferred])
    [] r.type = "node_skipped" -> node([old EXCEPT !.status = "Skipped", !.resume = FALSE])
    [] r.type = "workflow_cancelled" -> [at EXCEPT !.run = r.run]
    [] r.type = "workflow_settled" ->
         IF \E n \in Nodes : at.run.nodes[n].deferred
         THEN [at EXCEPT !.run.summary = r.summary, !.put_off = r.status]
         ELSE [at EXCEPT !.run.summary = r.summary, !.run.status = r.status]
    [] OTHER -> at

replay(log) == FoldLeft(replay_record, [run |-> FreshRun, put_off |-> "None"], log)

\* validate_restored_checkpoints: a settled node whose dependencies are not
\* settled runs again, and so does the Run.
validate_restored_checkpoints(run) ==
  LET invalid(x) == {n \in Nodes : x.nodes[n].status \in Settled
                                   /\ ~dependencies_complete(n, x.nodes)}
      round[i \in 0..Cardinality(Nodes)] ==
        IF i = 0 THEN run
        ELSE LET x == round[i - 1] IN
             IF invalid(x) = {} THEN x
             ELSE [x EXCEPT !.status = "Running",
                            !.nodes = [n \in Nodes |->
                              IF n \in invalid(x)
                              THEN [x.nodes[n] EXCEPT !.status = "Pending", !.resume = FALSE]
                              ELSE x.nodes[n]]]
  IN round[Cardinality(Nodes)]

\* Mutant: an interrupted attempt is not resumed but started anew.
interrupted_anew(node) ==
  IF node.status = "Running" THEN [node EXCEPT !.status = "Pending"] ELSE node

interrupted(node) ==
  IF node.status = "Running" THEN [node EXCEPT !.status = "Pending", !.resume = TRUE] ELSE node

\* validate_terminal_reconciled_marker_locked: a marker needs the deferred write
\* it settles and the durable operation that wrote the Task's terminal state.
marker_valid(nodes, r) ==
  /\ nodes[r.node].deferred /\ nodes[r.node].attempt = r.attempt
  /\ \E i \in DOMAIN ledger : IsCas(ledger[i]) /\ ledger[i].op = <<r.node, r.attempt, "failed">>

\* The summary is computed anew from the nodes of a Run that failed, and attempts
\* of a Run that goes on were interrupted.
resume(run, effective) ==
  [run EXCEPT !.summary = IF effective = "Failed" THEN aggregate_workflow_failures(run.nodes) ELSE {},
              !.nodes = [n \in Nodes |-> IF run.status = "Running" THEN interrupted(run.nodes[n])
                                         ELSE run.nodes[n]]]

clear_marked(run, marked) ==
  [run EXCEPT !.nodes = [n \in Nodes |-> IF n \in marked THEN [run.nodes[n] EXCEPT !.deferred = FALSE]
                                         ELSE run.nodes[n]]]

\* A settlement that was put off takes effect when no deferred write is left.
take_effect(run, put_off) ==
  IF put_off = "None" \/ \E n \in Nodes : run.nodes[n].deferred
  THEN run ELSE [run EXCEPT !.status = put_off]

summary_differs(run, effective) ==
  /\ effective = "Failed"
  /\ run.summary # {} /\ run.summary # aggregate_workflow_failures(run.nodes)

\* restore_workflow_run_locked, from the checked Run on: "ok", or "reconcile" when
\* the settled summary does not match the nodes, or "error".
restore_checked(checked, put_off, markers) ==
  LET effective == IF put_off = "None" THEN checked.status ELSE put_off
      resumed == resume(checked, effective)
      marked == {markers[i].node : i \in DOMAIN markers}
  IN [kind |-> CASE summary_differs(checked, effective) -> "reconcile"
                 [] \E i \in DOMAIN markers : ~marker_valid(resumed.nodes, markers[i]) -> "error"
                 [] OTHER -> "ok",
      run |-> take_effect(clear_marked(resumed, marked), put_off)]

restore_replayed(at) ==
  restore_checked(validate_restored_checkpoints(at.run), at.put_off,
                  SelectSeq(ledger, LAMBDA r : r.type = "terminal_reconciled"))

restored == restore_replayed(replay(ledger))

\* The Host stops, in the middle of anything.
crash(h) ==
  /\ projection[h] # Absent \/ executor[h] # Idle
  /\ projection' = [projection EXCEPT ![h] = Absent]
  /\ tasks' = [tasks EXCEPT ![h] = [n \in Nodes |-> NoTask]]
  /\ executor' = [executor EXCEPT ![h] = Idle]
  /\ UNCHANGED <<ledger, faults>>

\* Bootstrap: the collaboration runtime restores the Tasks, the controller then
\* the Run.
restore_workflow_run(h) ==
  /\ projection[h] = Absent /\ ledger # <<>>
  /\ \E durable \in {restored} : durable.kind = "ok" /\ publish(h, durable.run, ledger)
  /\ tasks' = [tasks EXCEPT ![h] = [n \in Nodes |-> durable_task(ledger, n)]]
  /\ UNCHANGED <<ledger, executor, faults>>

Execute(h) ==
  \/ skip_false_conditions(h) \/ ready_nodes(h) \/ settle(h) \/ upsert_tasks(h)
  \/ \E n \in Nodes : skip_node(h, n) \/ begin_attempt(h, n) \/ binding_fails(h, n) \/ fail_before_attempt(h, n)
  \/ \E c \in executor[h].contexts :
       \/ complete_node(h, c)
       \/ \E class \in {"Retryable", "NonRetryable", "Reconcile"}, d \in BOOLEAN : fail_node(h, c, class, d)

Next ==
  \E h \in Hosts :
    \/ start_internal(h) \/ execute_until_settled(h) \/ Execute(h)
    \/ cancel(h) \/ crash(h) \/ restore_workflow_run(h)
    \/ \E n \in Nodes : assign_task(h, n)

Spec == Init /\ [][Next]_vars

\* The loop's own steps are taken, and a Run is executed: weak fairness of both,
\* with the enabling conditions spelled out.  A Host that crashes for ever
\* settles nothing, so there are no crashes here.  Nothing is assumed once the
\* ledger may be too full for the next mutation: a Run that got there unsettled
\* is a counterexample, not an unfair behaviour.
LargestMutation == 2 * Cardinality(Nodes) + 1
LedgerFull == Len(ledger) + LargestMutation > MaxRecords
LiveNext ==
  \E h \in Hosts :
    \/ start_internal(h) \/ execute_until_settled(h) \/ Execute(h) \/ cancel(h)
    \/ \E n \in Nodes : assign_task(h, n)
Fairness ==
  \A h \in Hosts :
    /\ []<>(executor[h].pc = "idle" \/ LedgerFull) \/ []<><<Execute(h)>>_vars
    /\ []<>(executor[h].pc # "idle" \/ projection[h] = Absent \/ LedgerFull)
       \/ []<><<execute_until_settled(h)>>_vars

-----------------------------------------------------------------------------
Attempts(i) == ledger[i].type = "node_started"
NodeRecord == [status : NodeStatus, attempt : Nat, number : Nat, resume : BOOLEAN,
               class : Classes, deferred : BOOLEAN]
TaskRecord == [state : {"None", "Queued", "Active", "Completed", "Failed", "Skipped", "Cancelled"},
               revision : Nat]

TypeOK ==
  /\ \A h \in Hosts :
       /\ projection[h].durable \in 0..MaxRecords
       /\ projection[h].run.status \in RunStatus \cup {"None"}
       /\ projection[h].run.summary \subseteq Nodes \X Classes
       /\ projection[h].run.nodes \in [Nodes -> NodeRecord]
       /\ tasks[h] \in [Nodes -> TaskRecord]
       /\ executor[h].todo \subseteq Nodes
  /\ Len(ledger) <= MaxRecords
  /\ faults \in 0..MaxFaults

\* What a restarted controller would rebuild from the ledger is what a
\* controller with a current projection has, interrupted attempts aside: no
\* partial mutation leaves a projection that passes require_current_projection
\* and disagrees with the records.  Attempt numbers are AttemptNumberKept's.
RestoreMatchesLive ==
  LET view(run) == [status |-> run.status, summary |-> run.summary,
                    nodes |-> [n \in Nodes |->
                      [(IF run.status = "Running" THEN interrupted(run.nodes[n]) ELSE run.nodes[n])
                       EXCEPT !.number = 0]]]
      durable == restored
  IN \A h \in Hosts :
       projection[h] # Absent /\ require_current_projection(h) /\ durable.kind = "ok"
         => view(projection[h].run) = view(durable.run)

\* begin_attempt is reached only after skip_false_conditions and ready_nodes
\* read the projection outside the line: still, whatever restarts and other
\* Hosts do, a node is started only after each of its dependencies settled.
DependenciesFirst ==
  \A i \in DOMAIN ledger : Attempts(i) =>
    \A d \in depends_on[ledger[i].node] :
      \E j \in 1..(i - 1) : ledger[j].type \in {"node_completed", "node_skipped"} /\ ledger[j].node = d

\* fail_node's retry limit, over restarts and Hosts: at most max_attempts
\* attempts of a node are ever started.
AttemptsBounded ==
  \A n \in Nodes :
    Cardinality({ledger[i].attempt : i \in {j \in DOMAIN ledger : Attempts(j) /\ ledger[j].node = n}})
      <= max_attempts[n]

\* Two attempts of a node are never open together, and none is started once the
\* node completed: a second one is started only after the first was recorded as
\* failed, also by a Host restored before the first began
\* (sqlite_stale_restored_controller_cannot_begin_a_second_attempt).
AttemptsAreSerial ==
  \A i, j \in DOMAIN ledger :
    i < j /\ Attempts(i) /\ Attempts(j)
    /\ ledger[i].node = ledger[j].node /\ ledger[i].attempt # ledger[j].attempt
      => \E k \in i..j : ledger[k].type = "node_failed" /\ ledger[k].node = ledger[i].node

\* Nothing is started, completed or failed after the record of a cancellation,
\* however late the attempt's result arrives.
CancelStopsWork ==
  \A i, j \in DOMAIN ledger :
    i < j /\ ledger[i].type = "workflow_cancelled"
      => ledger[j].type \notin {"node_started", "node_completed", "node_failed"}

\* When the executor settles a Run that is up to date and has nothing running,
\* the Run is decided: no node is left Pending behind one that can never settle.
SettleDecides ==
  \A h \in Hosts :
    executor[h].pc = "settle" /\ require_current_projection(h)
    /\ (\A n \in Nodes : projection[h].run.nodes[n].status # "Running")
      => settled_status(projection[h].run) # "Running"

\* execute_until_settled ends: the records of a started Run say in the end that
\* it is settled or cancelled, whatever its attempts return.
RunSettles == ledger # <<>> ~> replay(ledger).run.status # "Running"

\* "settled.status" is still Cancelled after a cancellation
\* (late_node_completion_cannot_change_cancelled_terminal_state).
CancelledStays ==
  \A i, j \in DOMAIN ledger :
    i < j /\ ledger[i].type = "workflow_cancelled" /\ ledger[j].type = "workflow_settled"
      => ledger[j].status = "Cancelled"

\* A restart keeps the number of an interrupted attempt
\* (sqlite_restart_reuses_running_attempt_identity_and_settles).
AttemptNumberKept ==
  LET run == restored.run IN
  \A n \in Nodes :
    run.nodes[n].number =
      Cardinality({ledger[i].attempt : i \in {j \in DOMAIN ledger : Attempts(j) /\ ledger[j].node = n}})

\* A terminal Task write is deferred "because durable projection recovery
\* failed", to be made up when the Run is settled: then it has to be possible.
DeferredIsRecoverable ==
  LET nodes == replay(ledger).run.nodes IN
  \A n \in Nodes : nodes[n].deferred => \E i \in DOMAIN ledger : IsCas(ledger[i]) /\ ledger[i].node = n

\* A deferred terminal write is recovered by later restores, in whatever order
\* they and a cancellation come: the records of a Run can be restored.
Restorable == restored.kind = "ok"
=============================================================================
