------------------------------- MODULE Spawner -------------------------------
(* A Spawn request run as a collaboration (solaris-agent, spawner.rs,         *)
(* spawner/service.rs, spawner/fork.rs, spawn_tool.rs): Tasks are admitted    *)
(* and run in dependency waves, each by a child Agent that is reserved by     *)
(* spawn and executed by join; under the Supervisor strategy a retryable      *)
(* failure is tried once more under an operation id of its own.               *)
(*                                                                            *)
(* The records of the Run's Ledger are kept per operation.  Between any two   *)
(* appends the process may die; the request is then made again.  A holder of  *)
(* a handle may cancel it at any time, without the operation's lock.          *)
EXTENDS Integers, FiniteSets

CONSTANTS Tasks, Reviewer,   \* the independent reviewer's Task
          Graphs,            \* depends_on of the other Tasks, in a request
          Selections,        \* strategies a request may name
          MaxCrashes, MaxCancels  \* deaths of the process, calls of cancel

Attempts == 1..2             \* DIRECT_SUPERVISOR_MAX_ATTEMPTS
ChildOperations == (Tasks \cup {Reviewer}) \X Attempts
Results == {"Completed", "Retryable", "Failed", "Cancelled", "Unknown"}

VARIABLES graph, selection,
          task,       \* the Task records, and retry: what the Ledger says of it
          agent,      \* Task -> its child: lifecycle state and bound attempt
          effect,     \* operation -> effect_intent and effect_outcome records
          outcome,    \* operation -> the agent_outcome record
          ran,        \* operation -> how often its child was run
          pc, pending, summary, attempt,  \* spawn_collaboration
          call,       \* Task -> its spawn and join
          cancelled, active, notified,    \* SpawnControl
          canceller,  \* a call of cancel, and the operations it has confirmed
          faults

durable == <<task, agent, effect, outcome>>
control == <<cancelled, active, notified>>
local == <<pc, pending, summary, attempt>>
request == <<graph, selection>>
vars == <<request, durable, ran, local, call, control, canceller, faults>>

AllTasks == Tasks \cup {Reviewer}
NoTask == [state |-> "none", class |-> "none", intents |-> {}, requeued |-> FALSE]
NoChild == [state |-> "none", attempt |-> 0]
NoEffect == [intent |-> FALSE, first |-> "none", fresh |-> FALSE]
NoCall == [pc |-> "none", result |-> "none", reattached |-> FALSE]
NoCancel == [pc |-> "none", op |-> <<Reviewer, 1>>, ok |-> {}]

\* resolve_collaboration_strategy of a request with more than one Task.
strategy == IF selection # "Auto" THEN selection
            ELSE IF \E t \in Tasks : graph[t] # {} THEN "Supervisor" ELSE "Fanout"

\* The independent reviewer is a further Task that depends on all others.
tasks_for_run == IF strategy = "IndependentReviewer" THEN AllTasks ELSE Tasks
depends_on(t) == IF t = Reviewer THEN Tasks ELSE graph[t]

Idle ==
  /\ pc = "idle" /\ pending = {} /\ canceller = NoCancel
  /\ summary = [t \in AllTasks |-> "none"] /\ attempt = [t \in AllTasks |-> 1]
  /\ call = [t \in AllTasks |-> NoCall]
  /\ cancelled = {} /\ active = {} /\ notified = {}

Init ==
  /\ graph \in Graphs /\ selection \in Selections
  /\ task = [t \in AllTasks |-> NoTask]
  /\ agent = [t \in AllTasks |-> NoChild]
  /\ effect = [o \in ChildOperations |-> NoEffect]
  /\ outcome = [o \in ChildOperations |-> "none"]
  /\ ran = [o \in ChildOperations |-> 0]
  /\ Idle /\ faults = [crashes |-> 0, cancels |-> 0]

operation_id(t) == <<t, attempt[t]>>
at(t, p) == call[t].pc = p
go(t, p) == call' = [call EXCEPT ![t].pc = p]
return(t, result) == call' = [call EXCEPT ![t] = [NoCall EXCEPT !.pc = "joined", !.result = result]]
\* A task whose call failed leaves the wave with its summary.
report(t, result) ==
  /\ summary' = [summary EXCEPT ![t] = result]
  /\ pending' = pending \ {t}

\* recover_effect: the outcome after the last intent, if there is one.
recover_effect(o) ==
  CASE ~effect[o].intent -> "execute"
    [] effect[o].intent /\ effect[o].fresh /\ effect[o].first # "Unknown" -> effect[o].first
    [] OTHER -> "reconcile"

record_effect_intent(o) ==
  effect' = [effect EXCEPT ![o].intent = TRUE, ![o].fresh = FALSE]

\* The first outcome of an effect is canonical; another one is refused.
may_complete(o, result) == effect[o].first \in {"none", result}
record_effect_outcome(o, result) ==
  effect' = [effect EXCEPT ![o].first = IF @ = "none" THEN result ELSE @,
                           ![o].fresh = @ \/ effect[o].first = "none"]

-----------------------------------------------------------------------------
\* spawn_collaboration up to its first wave.

\* No Task depends on itself, on a missing one or on a cycle.
validate_task_graph ==
  \E rank \in [Tasks -> 1..Cardinality(Tasks)] :
    \A t \in Tasks : graph[t] \subseteq {d \in Tasks : rank[d] < rank[t]}

parse_spawn_request ==
  /\ pc = "idle" /\ ~validate_task_graph
  /\ pc' = "refused"
  /\ UNCHANGED <<request, durable, ran, pending, summary, attempt, call, control,
                 canceller, faults>>

\* Single creates no child.
single_strategy_summary ==
  /\ pc = "idle" /\ validate_task_graph /\ strategy = "Single"
  /\ pc' = "done"
  /\ summary' = [t \in AllTasks |-> IF t \in tasks_for_run THEN "Skipped" ELSE "none"]
  /\ UNCHANGED <<request, durable, ran, pending, attempt, call, control, canceller, faults>>

\* One commit of all Tasks with the Team; made again, it finds them.
prepare_collaboration_task_batch ==
  /\ pc = "idle" /\ validate_task_graph /\ strategy # "Single"
  /\ task' = [t \in AllTasks |->
                IF t \in tasks_for_run /\ task[t] = NoTask
                THEN [NoTask EXCEPT !.state = "Queued"] ELSE task[t]]
  /\ pc' = "recover"
  /\ pending' = tasks_for_run
  /\ UNCHANGED <<request, agent, effect, outcome, ran, summary, attempt, call,
                 control, canceller, faults>>

\* A recorded retry that has not been requeued is requeued now; an attempt in
\* progress that no requeue explains stops the whole request.
retry_ambiguous(t) ==
  /\ task[t].intents # {} /\ ~task[t].requeued
  /\ \/ task[t].state \in {"Assigned", "Running"}
     \/ task[t].state = "Failed" /\ task[t].class # "Retryable"

unknown_collaboration_summary ==
  [t \in AllTasks |-> IF t \in tasks_for_run THEN "Unknown" ELSE "none"]

recover_supervisor_retry_intents ==
  /\ pc = "recover"
  /\ LET retried == {t \in tasks_for_run :
                       /\ strategy = "Supervisor" /\ task[t].intents # {}
                       /\ task[t].state \notin {"Completed", "Skipped", "Cancelled"}}
     IN IF \E t \in retried : retry_ambiguous(t)
        THEN /\ pc' = "done" /\ pending' = {}
             /\ summary' = unknown_collaboration_summary
             /\ UNCHANGED <<task, attempt>>
        ELSE /\ pc' = "wave"
             /\ attempt' = [t \in AllTasks |-> IF t \in retried THEN 2 ELSE attempt[t]]
             /\ task' = [t \in AllTasks |->
                           IF t \in retried /\ ~task[t].requeued /\ task[t].state = "Failed"
                           THEN [task[t] EXCEPT !.state = "Queued", !.class = "none",
                                                !.requeued = TRUE]
                           ELSE task[t]]
             /\ UNCHANGED <<pending, summary>>
  /\ UNCHANGED <<request, agent, effect, outcome, ran, call, control, canceller, faults>>

-----------------------------------------------------------------------------
\* One wave.
did_not_complete(t) == summary[t] \in {"Retryable", "Failed", "Cancelled", "Skipped", "Unknown"}
blocked(t) == \E d \in depends_on(t) : did_not_complete(d)

\* Mutant: a Task is ready when one of its dependencies has been settled.
ready_after_any(t) ==
  t \in pending /\ (depends_on(t) # {} => \E d \in depends_on(t) : d \notin pending)

ready(t) == t \in pending /\ depends_on(t) \cap pending = {}

\* The skip's operation id is fixed: once applied it is refused for the new
\* revision, and the skip of a Task that is no longer queued is refused too.
skip_collaboration_task(t) ==
  /\ pc = "wave" /\ t \in pending /\ blocked(t)
  /\ task' = IF task[t].state = "Queued"
             THEN [task EXCEPT ![t].state = "Skipped", ![t].class = "Failed"] ELSE task
  /\ report(t, IF task[t].state = "Queued" THEN "Skipped" ELSE "Unknown")
  /\ UNCHANGED <<request, agent, effect, outcome, ran, pc, attempt, call, control,
                 canceller, faults>>

\* Every ready Task gets a call, unless a durable outcome is its answer
\* already; a retryable one of a requeued Task is not.
reusable(t) ==
  /\ agent[t].attempt # 0 /\ outcome[operation_id(t)] # "none"
  /\ ~ /\ strategy = "Supervisor" /\ outcome[operation_id(t)] = "Retryable"
       /\ task[t].state = "Queued"

start_wave ==
  /\ pc = "wave" /\ pending # {}
  /\ \A t \in pending : ~blocked(t)
  /\ LET starting == {t \in pending : ready(t)}
         reused == {t \in starting : reusable(t)}
     IN /\ summary' = [t \in AllTasks |-> IF t \in reused THEN outcome[operation_id(t)]
                                          ELSE summary[t]]
        /\ pending' = pending \ reused
        /\ attempt' = [t \in AllTasks |->
                         IF t \in starting \ reused /\ agent[t].attempt # 0
                            /\ outcome[operation_id(t)] # "none"
                         THEN 2 ELSE attempt[t]]
        /\ call' = [t \in AllTasks |-> IF t \in starting \ reused
                                       THEN [NoCall EXCEPT !.pc = "spawn"] ELSE NoCall]
        /\ pc' = IF starting = reused THEN "wave" ELSE "spawning"
  /\ UNCHANGED <<request, durable, ran, control, canceller, faults>>

-----------------------------------------------------------------------------
\* AgentSpawnService::spawn reserves the child and assigns the Task to it.

reservable(t, n) == agent[t].attempt \in {0, n} \/ agent[t].state = "Failed"
reserved(t, n) ==
  CASE agent[t].state = "none" -> [state |-> "Reserved", attempt |-> 0]
    [] agent[t].attempt \notin {0, n} -> [state |-> "Active", attempt |-> n]
    [] OTHER -> agent[t]

reserve_spawn_typed(t) ==
  /\ pc = "spawning" /\ at(t, "spawn")
  /\ LET decision == recover_effect(operation_id(t))
     IN \/ /\ decision = "execute" /\ reservable(t, attempt[t])
           /\ agent' = [agent EXCEPT ![t] = reserved(t, attempt[t])]
           /\ go(t, "assign")
           /\ UNCHANGED <<pending, summary>>
        \/ /\ decision \notin {"execute", "reconcile"}
           /\ go(t, "handle")
           /\ UNCHANGED <<agent, pending, summary>>
        \/ /\ \/ decision = "reconcile"
              \/ decision = "execute" /\ ~reservable(t, attempt[t])
           /\ report(t, "Unknown")
           /\ go(t, "none")
           /\ UNCHANGED agent
  /\ UNCHANGED <<request, task, effect, outcome, ran, pc, attempt, control, canceller, faults>>

\* A child without a relationship is removed whatever its state is, a committed
\* one is cancelled, a reattached one is left alone.
abort_spawn(t, reattached) ==
  IF reattached \/ agent[t].state \in {"Completed", "Failed"} THEN agent
  ELSE IF agent[t].attempt = 0 THEN [agent EXCEPT ![t] = NoChild]
  ELSE [agent EXCEPT ![t].state = "Cancelled"]

\* The assignment's operation id is fixed; after a restart the Task is assigned
\* already, and the exact replay against the new revision is refused.
assign_task_owner(t) ==
  /\ pc = "spawning" /\ at(t, "assign")
  /\ IF task[t].state = "Queued" /\ agent[t].state \notin {"none", "Cancelled"}
     THEN /\ task' = [task EXCEPT ![t].state = "Assigned"]
          /\ go(t, "handle")
          /\ UNCHANGED <<agent, pending, summary>>
     ELSE /\ agent' = abort_spawn(t, agent[t].attempt = attempt[t])
          /\ report(t, "Unknown")
          /\ go(t, "none")
          /\ UNCHANGED task
  /\ UNCHANGED <<request, effect, outcome, ran, pc, attempt, control, canceller, faults>>

\* All spawns have returned; the handles' Agents join the Team in one batch,
\* which fails when one of them has been removed.
prepare_spawn_batch ==
  /\ pc = "spawning"
  /\ \A t \in AllTasks : call[t].pc \in {"none", "handle"}
  /\ LET handles == {t \in AllTasks : at(t, "handle")}
         lost == {t \in handles : agent[t].state = "none"}
     IN IF lost = {}
        THEN /\ call' = [t \in AllTasks |-> IF t \in handles
                           THEN [NoCall EXCEPT !.pc = "join"] ELSE NoCall]
             /\ pc' = IF handles = {} THEN "wave" ELSE "joining"
             /\ UNCHANGED <<pending, summary>>
        ELSE /\ call' = [t \in AllTasks |-> NoCall]
             /\ pending' = pending \ handles
             /\ summary' = [t \in AllTasks |-> IF t \in handles THEN "Unknown" ELSE summary[t]]
             /\ pc' = "wave"
  /\ UNCHANGED <<request, durable, ran, attempt, control, canceller, faults>>

-----------------------------------------------------------------------------
\* AgentSpawnService::join.
mark_task_running(t) ==
  /\ pc = "joining" /\ at(t, "join")
  /\ IF task[t].state \in {"Assigned", "Running"}
     THEN /\ task' = [task EXCEPT ![t].state = "Running"]
          /\ go(t, "check")
     ELSE /\ return(t, "Unknown")
          /\ UNCHANGED task
  /\ UNCHANGED <<request, agent, effect, outcome, ran, local, control, canceller, faults>>

\* The cancellation is looked for first and the notification registered after;
\* it reaches the waiter only once select has made one.
check_cancelled(t) ==
  /\ at(t, "check")
  /\ IF operation_id(t) \in cancelled THEN return(t, "Cancelled") ELSE go(t, "register")
  /\ UNCHANGED <<request, durable, ran, local, control, canceller, faults>>

register_active(t) ==
  /\ at(t, "register")
  /\ active' = active \cup {operation_id(t)}
  /\ go(t, "select")
  /\ UNCHANGED <<request, durable, ran, local, cancelled, notified, canceller, faults>>

join_select(t) ==
  /\ at(t, "select")
  /\ go(t, "execute")
  /\ UNCHANGED <<request, durable, ran, local, control, canceller, faults>>

\* execute_spawn_spec, under the operation's lock.
execute_spawn_spec(t) ==
  /\ at(t, "execute")
  /\ LET decision == recover_effect(operation_id(t))
     IN IF decision = "execute" THEN go(t, "intent") /\ UNCHANGED active
        ELSE /\ return(t, IF decision = "reconcile" THEN "Unknown" ELSE decision)
             /\ active' = active \ {operation_id(t)}
  /\ UNCHANGED <<request, durable, ran, local, cancelled, notified, canceller, faults>>

execute_intent(t) ==
  /\ at(t, "intent")
  /\ record_effect_intent(operation_id(t))
  /\ go(t, "reserve")
  /\ UNCHANGED <<request, task, agent, outcome, ran, local, control, canceller, faults>>

\* spawn_fork_authorized reserves again; a reattached child with an outcome is
\* not run.
spawn_fork_authorized(t) ==
  /\ at(t, "reserve")
  /\ LET n == attempt[t]
         reattached == agent[t].attempt # 0
     IN \/ /\ ~reservable(t, n)
           /\ call' = [call EXCEPT ![t].pc = "complete", ![t].result = "Failed"]
           /\ UNCHANGED agent
        \/ /\ reservable(t, n) /\ reattached /\ outcome[operation_id(t)] # "none"
           /\ call' = [call EXCEPT ![t].pc = "complete", ![t].result = outcome[operation_id(t)]]
           /\ UNCHANGED agent
        \/ /\ reservable(t, n) /\ ~(reattached /\ outcome[operation_id(t)] # "none")
           /\ agent' = [agent EXCEPT ![t] = reserved(t, n)]
           /\ call' = [call EXCEPT ![t].pc = "build", ![t].reattached = reattached]
  /\ UNCHANGED <<request, task, effect, outcome, ran, local, control, canceller, faults>>

\* SpawnExecutionGuard::fail: a resource, boundary or session error before the
\* spawn is committed rolls it back.
spawn_fails(t) ==
  /\ at(t, "build")
  /\ agent' = abort_spawn(t, call[t].reattached)
  /\ call' = [call EXCEPT ![t].pc = "complete", ![t].result = "Failed"]
  /\ UNCHANGED <<request, task, effect, outcome, ran, local, control, canceller, faults>>

commit_spawn(t) ==
  /\ at(t, "build")
  /\ call[t].reattached \/ agent[t].state = "Reserved"
  /\ agent' = IF call[t].reattached THEN agent
              ELSE [agent EXCEPT ![t] = [state |-> "Active", attempt |-> attempt[t]]]
  /\ ran' = [ran EXCEPT ![operation_id(t)] = @ + 1]
  /\ go(t, "run")
  /\ UNCHANGED <<request, task, effect, outcome, local, control, canceller, faults>>

\* The engine returns, or its wall time is over; the outcome becomes durable
\* unless the Agent has another terminal state.
final_state(result) == IF result \in {"Completed", "Cancelled"} THEN result ELSE "Failed"

records(t, result) ==
  /\ outcome[operation_id(t)] \in {"none", result}
  /\ agent[t].state \in {"Reserved", "Active", final_state(result)}

persist_outcome(t, result) ==
  /\ at(t, "run")
  /\ IF records(t, result)
     THEN /\ outcome' = [outcome EXCEPT ![operation_id(t)] = result]
          /\ agent' = [agent EXCEPT ![t].state = final_state(result)]
          /\ call' = [call EXCEPT ![t].pc = "complete", ![t].result = result]
     ELSE /\ call' = [call EXCEPT ![t].pc = "complete", ![t].result = "Unknown"]
          /\ UNCHANGED <<outcome, agent>>
  /\ UNCHANGED <<request, task, effect, ran, local, control, canceller, faults>>

\* An unknown result leaves the effect for reconciliation.
complete_effect(t) ==
  /\ at(t, "complete")
  /\ LET o == operation_id(t)
         result == call[t].result
     IN CASE result = "Unknown" -> return(t, "Unknown") /\ UNCHANGED effect
          [] result # "Unknown" /\ may_complete(o, result) ->
               record_effect_outcome(o, result) /\ return(t, result)
          [] OTHER -> return(t, "Failed") /\ UNCHANGED effect
  /\ active' = active \ {operation_id(t)}
  /\ UNCHANGED <<request, task, agent, outcome, ran, local, cancelled, notified,
                 canceller, faults>>

\* The other branch of join's select: the execution is dropped, and its guards
\* cancel a committed child and leave the effect unknown if it has no outcome.
drop_execution(t) ==
  /\ call[t].pc \in {"execute", "intent", "build", "run"}
  /\ operation_id(t) \in notified
  /\ LET o == operation_id(t)
         committed == at(t, "run")
         guarded == call[t].pc \in {"build", "run"}
     IN /\ IF committed /\ agent[t].state \in {"Reserved", "Active", "Cancelled"}
           THEN /\ agent' = [agent EXCEPT ![t].state = "Cancelled"]
                /\ outcome' = [outcome EXCEPT ![o] = IF @ = "none" THEN "Cancelled" ELSE @]
           ELSE IF at(t, "build") THEN agent' = abort_spawn(t, call[t].reattached) /\ UNCHANGED outcome
           ELSE UNCHANGED <<agent, outcome>>
        /\ IF guarded /\ recover_effect(o) = "reconcile" /\ effect[o].first = "none"
           THEN record_effect_outcome(o, "Unknown") ELSE UNCHANGED effect
        /\ return(t, "Cancelled")
        /\ active' = active \ {o}
  /\ UNCHANGED <<request, task, ran, local, cancelled, notified, canceller, faults>>

-----------------------------------------------------------------------------
\* What the coordinator makes of a joined result: the Task is settled, and a
\* retryable one recorded for retry and then requeued.
may_retry(t) == strategy = "Supervisor" /\ call[t].result = "Retryable" /\ attempt[t] < 2

\* The settlement is refused when the child has left the Team.
settles(t) == task[t].state = "Running" /\ agent[t].state \notin {"none", "Cancelled"}

settle_collaboration_task(t) ==
  /\ \A u \in AllTasks : call[u].pc \in {"none", "joined"}
  /\ at(t, "joined")
  /\ task' = IF ~settles(t) THEN task
             ELSE [task EXCEPT ![t].state = final_state(call[t].result), ![t].class = call[t].result]
  /\ IF may_retry(t) /\ settles(t)
     THEN go(t, "retry") /\ UNCHANGED <<pending, summary>>
     ELSE report(t, call[t].result) /\ go(t, "none")
  /\ UNCHANGED <<request, agent, effect, outcome, ran, pc, attempt, control, canceller, faults>>

record_supervisor_retry(t) ==
  /\ at(t, "retry")
  /\ task' = [task EXCEPT ![t].intents = @ \cup {attempt[t]}]
  /\ go(t, "requeue")
  /\ UNCHANGED <<request, agent, effect, outcome, ran, local, control, canceller, faults>>

requeue_supervisor_task(t) ==
  /\ at(t, "requeue")
  /\ task' = [task EXCEPT ![t].state = "Queued", ![t].class = "none", ![t].requeued = TRUE]
  /\ attempt' = [attempt EXCEPT ![t] = 2]
  /\ go(t, "none")
  /\ UNCHANGED <<request, agent, effect, outcome, ran, pc, pending, summary, control,
                 canceller, faults>>

record_supervisor_round_completed ==
  /\ pc = "joining"
  /\ \A t \in AllTasks : at(t, "none")
  /\ pc' = "wave"
  /\ UNCHANGED <<request, durable, ran, pending, summary, attempt, call, control, canceller, faults>>

collaboration_summary ==
  /\ pc = "wave" /\ pending = {}
  /\ pc' = "done"
  /\ UNCHANGED <<request, durable, ran, pending, summary, attempt, call, control, canceller, faults>>

-----------------------------------------------------------------------------
\* AgentSpawnService::cancel, for a handle that spawn has returned.
cancels(step) == canceller.pc = step
cancel_goes(step) == canceller' = [canceller EXCEPT !.pc = step]

\* Mutant: any outcome that is found is taken for a cancelled one.
cancel_finds_outcome(t) ==
  LET decision == recover_effect(operation_id(t)) IN
  CASE decision = "execute" -> "intent"
    [] decision = "reconcile" -> "failed"
    [] OTHER -> "reused"

\* An effect that has its outcome is not cancelled again: the call succeeds if
\* the child was cancelled or is gone.  One that has started is refused.
cancel_decision(t) ==
  LET decision == recover_effect(operation_id(t)) IN
  CASE decision = "execute" -> "intent"
    [] decision = "reconcile" -> "failed"
    [] OTHER -> IF agent[t].state \in {"none", "Cancelled"} THEN "reused" ELSE "failed"

cancel(t) ==
  /\ canceller.pc \in {"none", "failed", "reused", "ok"} /\ faults.cancels < MaxCancels
  /\ call[t].pc \in {"handle", "join", "check", "register", "select", "execute", "intent",
                     "reserve", "build", "run", "complete", "joined"}
  /\ canceller' = [canceller EXCEPT !.pc = cancel_decision(t), !.op = operation_id(t)]
  /\ faults' = [faults EXCEPT !.cancels = @ + 1]
  /\ UNCHANGED <<request, durable, ran, local, call, control>>

cancel_intent ==
  /\ cancels("intent")
  /\ record_effect_intent(canceller.op)
  /\ cancel_goes("spawn")
  /\ UNCHANGED <<request, task, agent, outcome, ran, local, call, control, faults>>

cancel_spawn ==
  LET t == canceller.op[1] IN
  /\ cancels("spawn")
  /\ IF agent[t].state \in {"Reserved", "Active", "Cancelled"}
     THEN agent' = [agent EXCEPT ![t].state = "Cancelled"] /\ cancel_goes("outcome")
     ELSE cancel_goes("failed") /\ UNCHANGED agent
  /\ UNCHANGED <<request, task, effect, outcome, ran, local, call, control, faults>>

\* The child may have been removed or have recorded another outcome meanwhile.
cancel_outcome ==
  LET t == canceller.op[1] IN
  /\ cancels("outcome")
  /\ IF outcome[canceller.op] \in {"none", "Cancelled"} /\ agent[t].state = "Cancelled"
     THEN outcome' = [outcome EXCEPT ![canceller.op] = "Cancelled"] /\ cancel_goes("effect")
     ELSE cancel_goes("failed") /\ UNCHANGED outcome
  /\ UNCHANGED <<request, task, agent, effect, ran, local, call, control, faults>>

cancel_effect ==
  /\ cancels("effect")
  /\ IF may_complete(canceller.op, "Cancelled")
     THEN record_effect_outcome(canceller.op, "Cancelled") /\ cancel_goes("mark")
     ELSE cancel_goes("failed") /\ UNCHANGED effect
  /\ UNCHANGED <<request, task, agent, outcome, ran, local, call, control, faults>>

cancel_mark ==
  /\ cancels("mark")
  /\ cancelled' = cancelled \cup {canceller.op}
  /\ cancel_goes("notify")
  /\ UNCHANGED <<request, durable, ran, local, call, active, notified, faults>>

\* Mutant: the running execution is not told.
cancel_unnotified ==
  /\ cancels("notify")
  /\ canceller' = [canceller EXCEPT !.pc = "ok", !.ok = @ \cup {canceller.op}]
  /\ UNCHANGED <<request, durable, ran, local, call, control, faults>>

cancel_notify ==
  /\ cancels("notify")
  /\ notified' = IF canceller.op \in active /\ ~at(canceller.op[1], "select")
                 THEN notified \cup {canceller.op} ELSE notified
  /\ canceller' = [canceller EXCEPT !.pc = "ok", !.ok = @ \cup {canceller.op}]
  /\ UNCHANGED <<request, durable, ran, local, call, cancelled, active, faults>>

\* The process dies and the same request is made again in a new one.
crash ==
  /\ pc \notin {"idle", "done", "refused"} /\ faults.crashes < MaxCrashes
  /\ faults' = [faults EXCEPT !.crashes = @ + 1]
  /\ pc' = "idle" /\ pending' = {}
  /\ canceller' = [NoCancel EXCEPT !.ok = canceller.ok]
  /\ summary' = [t \in AllTasks |-> "none"] /\ attempt' = [t \in AllTasks |-> 1]
  /\ call' = [t \in AllTasks |-> NoCall]
  /\ cancelled' = {} /\ active' = {} /\ notified' = {}
  /\ UNCHANGED <<request, durable, ran>>

Next ==
  \/ parse_spawn_request \/ single_strategy_summary \/ prepare_collaboration_task_batch
  \/ recover_supervisor_retry_intents \/ start_wave \/ prepare_spawn_batch
  \/ record_supervisor_round_completed \/ collaboration_summary
  \/ \E t \in AllTasks :
       \/ skip_collaboration_task(t) \/ reserve_spawn_typed(t) \/ assign_task_owner(t)
       \/ mark_task_running(t) \/ check_cancelled(t) \/ register_active(t)
       \/ join_select(t) \/ execute_spawn_spec(t) \/ execute_intent(t) \/ spawn_fork_authorized(t)
       \/ spawn_fails(t) \/ commit_spawn(t) \/ complete_effect(t) \/ drop_execution(t)
       \/ \E result \in Results : persist_outcome(t, result)
       \/ settle_collaboration_task(t) \/ record_supervisor_retry(t)
       \/ requeue_supervisor_task(t) \/ cancel(t)
  \/ cancel_intent \/ cancel_spawn \/ cancel_outcome \/ cancel_effect
  \/ cancel_mark \/ cancel_notify \/ crash

Spec == Init /\ [][Next]_vars

-----------------------------------------------------------------------------
TypeOK ==
  /\ pending \subseteq AllTasks /\ attempt \in [AllTasks -> Attempts]
  /\ cancelled \cup active \cup notified \subseteq ChildOperations
  /\ \A o \in ChildOperations : outcome[o] \in Results \cup {"none"}
  /\ \A t \in AllTasks : agent[t].attempt \in 0..2

completed(t) == \E n \in Attempts : outcome[<<t, n>>] = "Completed"

\* The child of a Task runs at most once for each of its operation ids, the
\* second one only after a recorded retryable failure of the first, and only
\* after every dependency of the Task has a durable completed outcome,
\* whatever is cancelled and wherever the process dies in between.
ChildrenRunOnceInOrder ==
  \A t \in AllTasks :
    /\ \A n \in Attempts : ran[<<t, n>>] <= 1
    /\ ran[<<t, 2>>] > 0 => outcome[<<t, 1>>] = "Retryable"
    /\ (\E n \in Attempts : ran[<<t, n>>] > 0) => \A d \in depends_on(t) : completed(d)

\* A cancel that was carried out and returned Ok leaves a durable cancelled
\* outcome that no later step, crash or repeated request replaces.  After any
\* cancel that returned Ok, also one that found an outcome, neither join nor the
\* summary reports the Task completed.  A Task is reported completed only with a
\* durable completed outcome of its child.
CancelIsFinal ==
  /\ \A o \in canceller.ok : effect[o].first = "Cancelled" /\ outcome[o] = "Cancelled"
  /\ \A o \in canceller.ok \cup (IF cancels("reused") THEN {canceller.op} ELSE {}) :
       /\ summary[o[1]] # "Completed" /\ call[o[1]].result # "Completed"
       /\ outcome[o] # "Completed"
  /\ \A t \in AllTasks : summary[t] = "Completed" => completed(t)

\* No child runs on unnoticed: whichever gap of join the call fell into, a child
\* that is about to run or runs when cancel has returned Ok was notified, so that
\* join drops it; a notification that found no waiter is made up for by the
\* durable outcome the execution meets first.
CancelledIsDropped ==
  \A t \in AllTasks :
    /\ canceller.pc \in {"ok", "reused"} /\ canceller.op = operation_id(t)
    /\ call[t].pc \in {"intent", "reserve", "build", "run"}
    => operation_id(t) \in notified
=============================================================================
