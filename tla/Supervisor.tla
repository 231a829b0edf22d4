------------------------------ MODULE Supervisor ------------------------------
(* A workflow node run by a configured Supervisor (solaris-agent,             *)
(* workflow_executor_supervisor.rs and its record files).  In every round the *)
(* coordinator's conversation takes one turn, whose decision is appended to   *)
(* the Ledger; a Dispatch creates Tasks, runs the ready ones and appends one  *)
(* delivery of their results, which the next decision takes in and            *)
(* acknowledges.  After a crash the attempt is replayed from round 0 against  *)
(* the Ledger, and every record it finds is validated first.                  *)
(*                                                                            *)
(* log[0] is the order of the attempt's own records in the Ledger, log[t] the *)
(* order of them and those of Task t; what the records say is in turn,        *)
(* decision, delivery, consumer, outcome and worker.                          *)
EXTENDS Integers, Sequences, FiniteSets, SequencesExt

CONSTANTS Tasks, Graphs,  \* depends_on of the proposals of one attempt
          MaxRounds, MaxPending, MaxCrashes,
          MaxRefusals  \* spawns refused, and appends of a worker that fail

Rounds == 0..(MaxRounds - 1)
\* How a worker ends; Failed is with a class that says what happened, and
\* SideEffect is Failed with the class SideEffectUnknown.
Statuses == {"Completed", "Invalid", "Failed", "SideEffect", "Cancelled", "Unknown"}
\* The failure classes: OutcomeUnknown and ReconciliationRequired are one.
Unknown == "Unknown"
SideEffectUnknown == "SideEffectUnknown"
NonRetryable == "NonRetryable"

VARIABLES graph, log, task,
          turn,      \* round -> the outcome of the coordinator's turn
          decision,  \* round -> the decision record and its inputs
          delivery,  \* round -> Tasks whose results were delivered
          consumer,  \* round -> the round whose decision acknowledged it
          outcome,   \* Task -> its agent_outcome
          worker,    \* Task -> the worker outcome the Supervisor keeps
          ran,       \* Task -> how often its worker was run
          pc, round, known, pending, fresh, processed, call, error,
          result, crashes, refusals

records == <<log, task, turn, decision, delivery, consumer, outcome, worker>>
local == <<pc, round, known, pending, fresh, processed, call, error>>
vars == <<graph, records, ran, local, result, crashes, refusals>>

NoDecision == [kind |-> "none", tasks |-> {}, inputs |-> {}]
NoTask == [state |-> "none", class |-> "none"]

Init ==
  /\ graph \in Graphs /\ log = [k \in Tasks \cup {0} |-> <<>>]
  /\ task = [t \in Tasks |-> NoTask]
  /\ turn = [r \in Rounds |-> NoDecision]
  /\ decision = [r \in Rounds |-> NoDecision]
  /\ delivery = [r \in Rounds |-> {}]
  /\ consumer = [r \in Rounds |-> MaxRounds]
  /\ outcome = [t \in Tasks |-> "none"] /\ worker = [t \in Tasks |-> "none"]
  /\ ran = [t \in Tasks |-> 0]
  /\ pc = "open" /\ round = 0 /\ known = {} /\ pending = {} /\ fresh = FALSE
  /\ processed = {} /\ call = [t \in Tasks |-> "none"] /\ error = "none"
  /\ result = "none" /\ crashes = 0 /\ refusals = 0

-----------------------------------------------------------------------------
\* The records and their order.

\* The log a record is looked up in.
of(key) == IF key \in Tasks THEN log[key] ELSE log[0]
has(kind, key) == <<kind, key>> \in Range(of(key))
append(kind, key) ==
  log' = [k \in DOMAIN log |->
            IF key \in Tasks /\ k # key THEN log[k] ELSE Append(log[k], <<kind, key>>)]

\* Each of the records of the chain is there once, and after the one before it.
require_strict_order(k, chain) ==
  /\ \A i \in DOMAIN chain : Cardinality({n \in DOMAIN log[k] : log[k][n] = chain[i]}) = 1
  /\ SelectSeq(log[k], LAMBDA entry : entry \in Range(chain)) = chain

\* What a replay looks up.
find_supervisor_conversation_handle == has("opened", 0)
load_supervisor_decision(r) == has("decision", r)
find_supervisor_worker_handle(t) == has("handle", t)
find_agent_outcome(t) == outcome[t]
load_supervisor_worker_outcome(t) == worker[t]
load_supervisor_deliveries == {r \in Rounds : has("delivery", r)}
pending_supervisor_messages == {r \in load_supervisor_deliveries : ~has("ack", r)}

\* A completed worker whose output is not valid has failed.
supervisor_worker_body(status) == IF status = "Invalid" THEN "Failed" ELSE status
\* A worker outcome agrees with the agent_outcome it was built from.
validate_supervisor_worker_outcome(t) == worker[t] = supervisor_worker_body(find_agent_outcome(t))

validate_causality(r, t) ==
  require_strict_order(t, << <<"decision", r>>, <<"created", t>>, <<"handle", t>>,
                             <<"assigned", t>>, <<"agent_outcome", t>>,
                             <<"worker_outcome", t>>, <<"settled", t>>, <<"delivery", r>> >>)

validate_supervisor_delivery_record(r) ==
  /\ decision[r].kind = "Dispatch"
  /\ delivery[r] # {} /\ delivery[r] \subseteq decision[r].tasks
  /\ \A t \in delivery[r] : validate_supervisor_worker_outcome(t) /\ validate_causality(r, t)

validate_supervisor_coordinator_turn_chain(r) ==
  require_strict_order(0, << <<"opened", 0>>, <<"intent", r>>, <<"turn", r>>, <<"decision", r>> >>)
validate_supervisor_turn_result(r) ==
  turn[r].kind = decision[r].kind /\ turn[r].tasks = decision[r].tasks
validate_supervisor_coordinator_turn_binding(r) ==
  validate_supervisor_coordinator_turn_chain(r) /\ validate_supervisor_turn_result(r)

load_supervisor_delivery_acks ==
  \A r \in Rounds : has("ack", r) =>
    /\ require_strict_order(0, << <<"delivery", r>>, <<"ack", r>> >>)
    /\ require_strict_order(0, << <<"decision", consumer[r]>>, <<"ack", r>> >>)
    /\ validate_supervisor_delivery_record(r)
    /\ r < consumer[r] /\ r \in decision[consumer[r]].inputs

\* What round r's decision took in is what had been delivered and not yet
\* acknowledged when it was appended.
validate_supervisor_decision_pending_history(r) ==
  LET seq(kind, key) == CHOOSE n \in DOMAIN log[0] : log[0][n] = <<kind, key>>
      before(kind) == {d \in Rounds : has(kind, d) /\ seq(kind, d) < seq("decision", r)}
  IN  /\ \A d \in before("delivery") : d < r /\ validate_supervisor_delivery_record(d)
      /\ \A d \in before("ack") :
           /\ d \in before("delivery") /\ consumer[d] < r
           /\ require_strict_order(0, << <<"delivery", d>>, <<"decision", consumer[d]>>, <<"ack", d>> >>)
           /\ d \in decision[consumer[d]].inputs
      /\ decision[r].inputs = before("delivery") \ before("ack")

validate_supervisor_decision_delivery_chain(r) ==
  /\ validate_supervisor_coordinator_turn_binding(r)
  /\ validate_supervisor_decision_pending_history(r)
  /\ \A d \in decision[r].inputs :
       /\ d < r /\ require_strict_order(0, << <<"delivery", d>>, <<"decision", r>> >>)
       /\ validate_supervisor_delivery_record(d)

loads == /\ load_supervisor_delivery_acks
         /\ \A r \in load_supervisor_deliveries : validate_supervisor_delivery_record(r)

-----------------------------------------------------------------------------
\* An error that requires recovery leaves everything as it is; any other one
\* is followed by the cleanup.
supervisor_error_requires_recovery(class) == class \in {Unknown, SideEffectUnknown}
fails(class) ==
  IF supervisor_error_requires_recovery(class)
  THEN /\ pc' = "returned" /\ result' = Unknown /\ error' = class
  ELSE /\ pc' = "cleanup" /\ error' = class /\ UNCHANGED result

open_supervisor ==
  /\ pc = "open"
  /\ IF find_supervisor_conversation_handle THEN UNCHANGED log ELSE append("opened", 0)
  /\ pc' = "round"
  /\ UNCHANGED <<graph, task, turn, decision, delivery, consumer, outcome, worker, ran, round,
                 known, pending, fresh, processed, call, error, result, crashes, refusals>>

begin_round ==
  /\ pc = "round"
  /\ IF round = MaxRounds
     THEN fails(NonRetryable) /\ UNCHANGED <<pending, fresh>>
     ELSE IF ~loads THEN fails(Unknown) /\ UNCHANGED <<pending, fresh>>
     ELSE /\ pending' = pending_supervisor_messages
          /\ fresh' = ~load_supervisor_decision(round)
          /\ pc' = IF load_supervisor_decision(round) THEN "check" ELSE "turn"
          /\ UNCHANGED <<error, result>>
  /\ UNCHANGED <<graph, records, ran, round, known, processed, call, crashes, refusals>>

\* The conversation runs a turn once: an intent a crash left without an
\* outcome is never run again, and a recorded outcome is given out again.
run_turn_intent ==
  /\ pc = "turn"
  /\ IF has("turn", round) THEN pc' = "decide" /\ UNCHANGED <<log, error, result>>
     ELSE IF has("intent", round) THEN fails(Unknown) /\ UNCHANGED log
     ELSE append("intent", round) /\ pc' = "coordinator" /\ UNCHANGED <<error, result>>
  /\ UNCHANGED <<graph, task, turn, decision, delivery, consumer, outcome, worker, ran, round,
                 known, pending, fresh, processed, call, crashes, refusals>>

Decisions == [kind : {"Dispatch"}, tasks : SUBSET Tasks \ {{}}, inputs : {{}}]
               \cup [kind : {"Finalize", "Abort", "AbortUnknown", "Failed", "FailedUnknown"},
                     tasks : {{}}, inputs : {{}}]

run_turn_outcome(d) ==
  /\ pc = "coordinator"
  /\ append("turn", round)
  /\ turn' = [turn EXCEPT ![round] = d]
  /\ pc' = "decide"
  /\ UNCHANGED <<graph, task, decision, delivery, consumer, outcome, worker, ran, round, known,
                 pending, fresh, processed, call, error, result, crashes, refusals>>

supervisor_graph_has_cycle(keys) ==
  ~\E rank \in [keys -> 1..Cardinality(keys)] :
     \A t \in keys : graph[t] \cap keys \subseteq {d \in keys : rank[d] < rank[t]}

validate_supervisor_decision(d) ==
  d.kind = "Dispatch" =>
    /\ d.tasks \cap known = {}
    /\ \A t \in d.tasks : graph[t] \subseteq known \cup d.tasks
    /\ ~supervisor_graph_has_cycle(known \cup d.tasks)

\* A turn that did not complete, or did not give a decision, ends the attempt.
require_completed_turn(d) == d.kind \notin {"Failed", "FailedUnknown"}
conservative_failure_class(d) == IF d.kind = "FailedUnknown" THEN Unknown ELSE NonRetryable
supervisor_decision_envelope(r) == [turn[r] EXCEPT !.inputs = pending]

persist_supervisor_decision ==
  /\ pc = "decide"
  /\ IF ~require_completed_turn(turn[round]) \/ ~validate_supervisor_decision(turn[round])
     THEN fails(conservative_failure_class(turn[round])) /\ UNCHANGED <<log, decision>>
     ELSE /\ append("decision", round)
          /\ decision' = [decision EXCEPT ![round] = supervisor_decision_envelope(round)]
          /\ pc' = "check" /\ UNCHANGED <<error, result>>
  /\ UNCHANGED <<graph, task, turn, delivery, consumer, outcome, worker, ran, round, known,
                 pending, fresh, processed, call, crashes, refusals>>

check_decision ==
  /\ pc = "check"
  /\ IF /\ validate_supervisor_decision_delivery_chain(round)
        /\ validate_supervisor_decision(decision[round])
     THEN pc' = "ack" /\ UNCHANGED <<error, result>>
     ELSE fails(Unknown)
  /\ UNCHANGED <<graph, records, ran, round, known, pending, fresh, processed, call, crashes,
                 refusals>>

\* Mutant: a decision acknowledges all that is pending, its inputs or not.
observes_all(r) == pending

\* Of the messages read before the decision, those it took in.
observed_messages(r) == pending \cap decision[r].inputs

acknowledge_supervisor_messages(d) ==
  /\ pc = "ack" /\ d \in observed_messages(round) /\ ~has("ack", d)
  /\ append("ack", d)
  /\ consumer' = [consumer EXCEPT ![d] = round]
  /\ UNCHANGED <<graph, task, turn, decision, delivery, outcome, worker, ran, local, result,
                 crashes, refusals>>

\* Mutant: only undelivered messages keep a Supervisor from finalizing.
gate_lets_unfinished == IF pending_supervisor_messages # {} THEN {Unknown} ELSE {}

\* The classes finalizing may fail with; the first Task in key order decides.
require_supervisor_finalize_gate ==
  IF pending_supervisor_messages # {} THEN {Unknown}
  ELSE {IF task[t].state = "Failed" THEN task[t].class ELSE NonRetryable :
          t \in {k \in known : task[k].state # "Completed"}}

\* An Abort, and a Finalize whose output the coordinator's role does not allow,
\* end the attempt with an error.
apply_decision ==
  /\ pc = "ack" /\ \A d \in observed_messages(round) : has("ack", d)
  /\ \/ decision[round].kind = "Dispatch" /\ pc' = "create" /\ UNCHANGED <<error, result>>
     \/ decision[round].kind = "Abort" /\ fails(NonRetryable)
     \/ decision[round].kind = "AbortUnknown" /\ fails(Unknown)
     \/ /\ decision[round].kind = "Finalize" /\ require_supervisor_finalize_gate = {}
        /\ pc' = "returned" /\ result' = "Output" /\ UNCHANGED error
     \/ /\ decision[round].kind = "Finalize"
        /\ \E class \in require_supervisor_finalize_gate : fails(class)
  /\ UNCHANGED <<graph, records, ran, round, known, pending, fresh, processed, call, crashes,
                 refusals>>

\* Tasks are created one by one; one that is durable is found again.
create_supervisor_tasks(t) ==
  /\ pc = "create" /\ t \in decision[round].tasks /\ task[t] = NoTask
  /\ task' = [task EXCEPT ![t].state = "Queued"]
  /\ append("created", t)
  /\ UNCHANGED <<graph, turn, decision, delivery, consumer, outcome, worker, ran, local, result,
                 crashes, refusals>>

start_tasks ==
  /\ pc = "create" /\ \A t \in decision[round].tasks : task[t] # NoTask
  /\ known' = known \cup decision[round].tasks
  /\ processed' = {} /\ pc' = "wave"
  /\ UNCHANGED <<graph, records, ran, round, pending, fresh, call, error, result, crashes,
                 refusals>>

-----------------------------------------------------------------------------
\* run_ready_supervisor_tasks: waves of Tasks whose dependencies completed.

ready == {t \in known \ processed : \A d \in graph[t] : task[d].state = "Completed"}

run_ready_supervisor_tasks ==
  /\ pc = "wave" /\ ready # {}
  /\ processed' = processed \cup ready
  /\ call' = [t \in Tasks |-> IF t \in ready THEN "start" ELSE "none"]
  /\ pc' = "workers"
  /\ UNCHANGED <<graph, records, ran, round, known, pending, fresh, error, result, crashes, refusals>>

step(t, from, to) == pc = "workers" /\ call[t] = from /\ call' = [call EXCEPT ![t] = to]
\* All workers of a wave end before the first error in completion order counts.
worker_fails(t, class) ==
  /\ call' = [call EXCEPT ![t] = "ended"]
  /\ error' = IF error = "none" THEN class ELSE error

\* A recorded result is used again.  A Queued Task is spawned; any other one
\* was spawned before and is found by its handle.
execute_supervisor_task(t) ==
  /\ pc = "workers" /\ call[t] = "start"
  /\ CASE load_supervisor_worker_outcome(t) # "none" -> step(t, "start", "settle") /\ UNCHANGED <<log, error>>
       [] worker[t] = "none" /\ task[t].state = "Queued" ->
            /\ IF find_supervisor_worker_handle(t) THEN UNCHANGED log ELSE append("handle", t)
            /\ step(t, "start", "assign") /\ UNCHANGED error
       [] worker[t] = "none" /\ task[t].state # "Queued" /\ ~find_supervisor_worker_handle(t) ->
            worker_fails(t, Unknown) /\ UNCHANGED log
       [] OTHER -> /\ step(t, "start", IF find_agent_outcome(t) = "none" THEN "join" ELSE "build")
                   /\ UNCHANGED <<log, error>>
  /\ UNCHANGED <<graph, task, turn, decision, delivery, consumer, outcome, worker, ran, pc, round,
                 known, pending, fresh, processed, result, crashes, refusals>>

spawn_refused(t) ==
  /\ pc = "workers" /\ call[t] = "start" /\ refusals < MaxRefusals
  /\ worker[t] = "none" /\ task[t].state = "Queued"
  /\ worker_fails(t, NonRetryable)
  /\ refusals' = refusals + 1
  /\ UNCHANGED <<graph, records, ran, pc, round, known, pending, fresh, processed, result, crashes>>

assign_worker(t) ==
  /\ step(t, "assign", "join")
  /\ task' = [task EXCEPT ![t].state = "Assigned"]
  /\ append("assigned", t)
  /\ UNCHANGED <<graph, turn, decision, delivery, consumer, outcome, worker, ran, pc, round, known,
                 pending, fresh, processed, error, result, crashes, refusals>>

\* The Task is Running and the child's effect intent durable before it runs.
join_supervisor_worker(t) ==
  /\ pc = "workers" /\ call[t] = "join"
  /\ IF task[t].state = "Cancelled" \/ has("effect", t)
     THEN worker_fails(t, Unknown) /\ UNCHANGED <<log, task, ran>>
     ELSE /\ step(t, "join", "run")
          /\ append("effect", t)
          /\ task' = [task EXCEPT ![t].state = "Running"]
          /\ ran' = [ran EXCEPT ![t] = @ + 1]
          /\ UNCHANGED error
  /\ UNCHANGED <<graph, turn, decision, delivery, consumer, outcome, worker, pc, round, known,
                 pending, fresh, processed, result, crashes, refusals>>

record_agent_outcome(t, status) ==
  /\ step(t, "run", "build")
  /\ outcome' = [outcome EXCEPT ![t] = status]
  /\ append("agent_outcome", t)
  /\ UNCHANGED <<graph, task, turn, decision, delivery, consumer, worker, ran, pc, round, known,
                 pending, fresh, processed, error, result, crashes, refusals>>

\* The state and the class a worker's outcome gives its Task.
supervisor_task_state(t) ==
  CASE worker[t] = "Completed" -> [state |-> "Completed", class |-> "none"]
    [] worker[t] = "Cancelled" -> [state |-> "Cancelled", class |-> "Cancelled"]
    [] OTHER -> [state |-> "Failed",
                 class |-> CASE worker[t] = "Unknown" -> Unknown
                             [] worker[t] = "SideEffect" -> SideEffectUnknown
                             [] OTHER -> NonRetryable]

build_supervisor_worker_outcome(t) ==
  /\ worker' = [worker EXCEPT ![t] = supervisor_worker_body(outcome[t])]
  /\ append("worker_outcome", t)

persist_supervisor_worker_outcome(t) ==
  /\ step(t, "build", "settle")
  /\ build_supervisor_worker_outcome(t)
  /\ UNCHANGED <<graph, task, turn, decision, delivery, consumer, outcome, ran, pc, round, known,
                 pending, fresh, processed, error, result, crashes, refusals>>

terminal(t) == task[t].state \in {"Completed", "Failed", "Cancelled"}
settles(t) ==
  /\ task' = [task EXCEPT ![t] = supervisor_task_state(t)]
  /\ append("settled", t)

\* A Task that has settled must agree with the recorded result.
settle_supervisor_worker(t) ==
  /\ pc = "workers" /\ call[t] = "settle"
  /\ IF terminal(t) /\ task[t] # supervisor_task_state(t)
     THEN worker_fails(t, Unknown) /\ UNCHANGED <<log, task>>
     ELSE /\ step(t, "settle", "ended") /\ UNCHANGED error
          /\ IF terminal(t) THEN UNCHANGED <<log, task>> ELSE settles(t)
  /\ UNCHANGED <<graph, turn, decision, delivery, consumer, outcome, worker, ran, pc, round, known,
                 pending, fresh, processed, result, crashes, refusals>>

\* The append of a worker's outcome, or of its Task's settlement, fails.
worker_append_failed(t) ==
  /\ pc = "workers" /\ refusals < MaxRefusals
  /\ \/ call[t] = "build"
     \/ call[t] = "settle" /\ ~terminal(t)
  /\ worker_fails(t, Unknown)
  /\ refusals' = refusals + 1
  /\ UNCHANGED <<graph, records, ran, pc, round, known, pending, fresh, processed, result, crashes>>

end_wave ==
  /\ pc = "workers" /\ \A t \in Tasks : call[t] \in {"none", "ended"}
  /\ call' = [t \in Tasks |-> "none"]
  /\ IF error # "none" THEN fails(error) ELSE pc' = "wave" /\ UNCHANGED <<error, result>>
  /\ UNCHANGED <<graph, records, ran, round, known, pending, fresh, processed, crashes, refusals>>

delivered(r) == has("delivery", r)

\* One delivery for the round's own proposals that have a result.
persist_supervisor_worker_delivery ==
  /\ pc = "wave" /\ ready = {}
  /\ LET results == {t \in decision[round].tasks : worker[t] # "none"}
     IN  IF delivered(round) \/ results = {}
         THEN /\ pc' = "round" /\ round' = round + 1
              /\ UNCHANGED <<log, delivery, error, result>>
         ELSE IF Cardinality(pending_supervisor_messages) >= MaxPending
         THEN fails(Unknown) /\ UNCHANGED <<log, delivery, round>>
         ELSE /\ append("delivery", round)
              /\ delivery' = [delivery EXCEPT ![round] = results]
              /\ pc' = "round" /\ round' = round + 1
              /\ UNCHANGED <<error, result>>
  /\ UNCHANGED <<graph, task, turn, decision, consumer, outcome, worker, ran, known, pending, fresh,
                 processed, call, crashes, refusals>>

-----------------------------------------------------------------------------
\* terminate_supervisor_tasks and the close that follows it.

\* Cancelling a handle whose child may have run without an outcome fails.
cancellable(t) == ~has("effect", t)

active(t) == task[t].state \in {"Assigned", "Running"}

\* Mutant: a Task that has ended is settled, whatever its class.
cleanup_trusts_terminal ==
  {t \in known : \/ active(t) /\ find_agent_outcome(t) = Unknown
                 \/ active(t) /\ find_agent_outcome(t) = "none" /\ ~cancellable(t)}

\* The Tasks the cleanup cannot settle.  A Task that has failed with an effect
\* in doubt is not one of them: terminate_supervisor_task asks for the two
\* other classes only.
cleanup_errors ==
  {t \in known : \/ task[t].class = Unknown
                 \/ active(t) /\ find_agent_outcome(t) = Unknown
                 \/ active(t) /\ find_agent_outcome(t) = "none" /\ ~cancellable(t)}

cancel_supervisor_task_record(t) ==
  /\ task' = [task EXCEPT ![t].state = "Cancelled"]
  /\ append("cancelled", t)

\* A Task whose worker has an outcome is settled with it, whatever became of
\* the worker's own attempt to do so; any other one is cancelled.
terminate_supervisor_task(t) ==
  /\ pc = "cleanup" /\ t \in known /\ ~terminal(t) /\ t \notin cleanup_errors
  /\ \/ /\ find_agent_outcome(t) = "none"
        /\ cancel_supervisor_task_record(t) /\ UNCHANGED worker
     \/ /\ find_agent_outcome(t) # "none" /\ worker[t] = "none"
        /\ build_supervisor_worker_outcome(t) /\ UNCHANGED task
     \/ worker[t] # "none" /\ settles(t) /\ UNCHANGED worker
  /\ UNCHANGED <<graph, turn, decision, delivery, consumer, outcome, ran, local, result,
                 crashes, refusals>>

\* An error of the cleanup turns the attempt's error into one to reconcile.
supervisor_result_after_cleanup ==
  /\ pc = "cleanup" /\ \A t \in known : terminal(t) \/ t \in cleanup_errors
  /\ pc' = "returned"
  /\ result' = IF cleanup_errors = {} THEN "Failed" ELSE Unknown
  /\ UNCHANGED <<graph, records, ran, round, known, pending, fresh, processed, call, error, crashes,
                 refusals>>

\* The process dies; the attempt is executed again from its start.
crash ==
  /\ pc \notin {"open", "returned"} /\ crashes < MaxCrashes
  /\ crashes' = crashes + 1
  /\ pc' = "open" /\ round' = 0 /\ known' = {} /\ pending' = {} /\ fresh' = FALSE
  /\ processed' = {} /\ call' = [t \in Tasks |-> "none"] /\ error' = "none"
  /\ UNCHANGED <<graph, records, ran, result, refusals>>

Next ==
  \/ open_supervisor \/ begin_round \/ run_turn_intent
  \/ \E d \in Decisions : run_turn_outcome(d)
  \/ persist_supervisor_decision \/ check_decision
  \/ \E d \in Rounds : acknowledge_supervisor_messages(d)
  \/ apply_decision \/ start_tasks \/ run_ready_supervisor_tasks \/ end_wave
  \/ \E t \in Tasks :
       \/ create_supervisor_tasks(t) \/ execute_supervisor_task(t) \/ spawn_refused(t)
       \/ assign_worker(t) \/ join_supervisor_worker(t)
       \/ \E status \in Statuses : record_agent_outcome(t, status)
       \/ persist_supervisor_worker_outcome(t) \/ settle_supervisor_worker(t)
       \/ worker_append_failed(t) \/ terminate_supervisor_task(t)
  \/ persist_supervisor_worker_delivery \/ supervisor_result_after_cleanup \/ crash

Spec == Init /\ [][Next]_vars

-----------------------------------------------------------------------------
TypeOK ==
  /\ \A k \in DOMAIN log : \A i \in DOMAIN log[k] : log[k][i][2] \in {k} \cup Rounds
  /\ known \subseteq Tasks /\ pending \subseteq Rounds /\ round \in 0..MaxRounds
  /\ result \in {"none", "Output", "Failed", Unknown}
  /\ \A t \in Tasks : outcome[t] \in Statuses \cup {"none"}

\* Whatever point of an attempt the process dies at, what it had appended is a
\* history its replay accepts: the deliveries, the acknowledgements and the
\* chain of every decision pass the checks the replay makes of them.
ReplayAccepts ==
  /\ loads
  /\ \A r \in Rounds : load_supervisor_decision(r) => validate_supervisor_decision_delivery_chain(r)

\* An output is returned only when every Task of the attempt has completed, was
\* run once, and its result had been delivered to exactly one decision.
FinalizeSawEveryResult ==
  /\ \A t \in Tasks : ran[t] <= 1
  /\ result = "Output" =>
       \A t \in Tasks : task[t] # NoTask =>
         /\ task[t].state = "Completed" /\ outcome[t] = "Completed"
         /\ Cardinality({r \in Rounds : \E d \in decision[r].inputs : t \in delivery[d]}) = 1

\* An attempt ends in a plain failure or an output only if every worker that
\* may have run has a recorded outcome other than an unknown one, and its Task
\* carries what that outcome says.  A worker that failed with an effect in doubt
\* keeps its class, and a Finalize over such Tasks alone is never a plain
\* failure; but next to an Abort, an exhausted round budget or another failed
\* Task it is, because the cleanup takes any Failed Task for settled
\* (workflow_executor_supervisor_tasks.rs:265-279).
UnknownNotHidden ==
  result \in {"Output", "Failed"} =>
    /\ \A t \in Tasks : has("effect", t) =>
         /\ outcome[t] \notin {"none", "Unknown"} /\ terminal(t)
         /\ worker[t] = supervisor_worker_body(outcome[t]) /\ task[t] = supervisor_task_state(t)
    /\ result = "Failed" /\ round < MaxRounds /\ decision[round].kind = "Finalize" =>
         \E t \in known : task[t].state # "Completed" /\ task[t].class # SideEffectUnknown
=============================================================================
