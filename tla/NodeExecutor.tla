----------------------------- MODULE NodeExecutor -----------------------------
(* A workflow node executed by child Agents (solaris-agent,                   *)
(* workflow_executor.rs and workflow_executor_configured.rs), for every       *)
(* strategy but the configured Supervisor, which has a module of its own.     *)
(* A strategy is a sequence of phases; a phase spawns its children, prepares  *)
(* them as a Team, and joins them.  Under Supervisor and Team the coordinator *)
(* is spawned with the workers and joined when their results are delivered.   *)
EXTENDS Integers, Sequences, FiniteSets

CONSTANTS Workers, Coordinator, Preliminary,  \* Preliminary: reviewers before the last
          MaxConcurrent, MaxFaults

Children == Workers \cup Preliminary \cup {Coordinator}
Strategies == {"Single", "Supervisor", "Team", "Fanout", "IndependentReviewer"}
Statuses == {"Completed", "Failed", "Unknown"}

VARIABLES strategy, configured,
          pc, phase, handle,
          task,       \* the Tasks the executor settles: the workers'
          status,     \* what a joined child reported
          delivered,  \* worker results in the coordinator's inbox
          cleanup,    \* handles cancel_handles still has
          after, class, reported, usage, faults

vars == <<strategy, configured, pc, phase, handle, task, status, delivered, cleanup, after, class,
          reported, usage, faults>>

\* resolve_strategy: a configured Supervisor is not run here.
resolve_strategy ==
  {<<s, c>> \in Strategies \X BOOLEAN : ~(s = "Supervisor" /\ c)}

coordinated == strategy \in {"Supervisor", "Team"}
execute_fanout == << Workers, {Coordinator} >>
execute_configured_fanout == << Workers, {Coordinator} >>
execute_reviewer == << Workers, {Coordinator} >>
\* The last reviewer decides; the others review first.
execute_configured_reviewer ==
  IF Preliminary = {} THEN << Workers, {Coordinator} >>
  ELSE << Workers, Preliminary, {Coordinator} >>
phases ==
  CASE strategy = "Single" -> << {Coordinator} >>
    [] coordinated -> << Workers \cup {Coordinator} >>
    [] strategy = "Fanout" -> IF configured THEN execute_configured_fanout ELSE execute_fanout
    [] OTHER -> IF configured THEN execute_configured_reviewer ELSE execute_reviewer
settle_task(c) == c # Coordinator

Init ==
  /\ \E sc \in resolve_strategy : strategy = sc[1] /\ configured = sc[2]
  /\ pc = "start" /\ phase = 1
  /\ handle = [c \in Children |-> "none"] /\ task = [c \in Children |-> "none"]
  /\ status = [c \in Children |-> "none"]
  /\ delivered = {} /\ cleanup = {} /\ after = "none" /\ class = "none" /\ reported = {}
  /\ usage = {} /\ faults = 0

constant == <<strategy, configured>>
fault == faults < MaxFaults /\ faults' = faults + 1
\* cancel_handles of hs, and the error the node then returns.
fails(error, hs) ==
  /\ class' = error /\ cleanup' = hs
  /\ pc' = IF hs = {} THEN "returned" ELSE "cleanup"

-----------------------------------------------------------------------------
\* Role, input and before hooks; a provider Plugin answers without a child.
execute ==
  /\ pc = "start"
  /\ \/ pc' = "spawn" /\ UNCHANGED <<class, cleanup, after, faults>>
     \/ fault /\ fails("NonRetryable", {}) /\ UNCHANGED after
     \/ (~configured \/ strategy = "Single") /\ pc' = "contribute" /\ UNCHANGED <<class, cleanup, after, faults>>
  /\ UNCHANGED <<constant, phase, handle, task, status, delivered, reported, usage>>

unspawned == {c \in phases[phase] : handle[c] = "none"}
\* Specs are spawned one by one, the coordinator's first.
next_spec == IF Coordinator \in unspawned THEN {Coordinator} ELSE unspawned
spawned == {c \in phases[phase] : handle[c] = "spawned"}

\* Mutant: the handles a failed spawn leaves behind are dropped.
drops_handles == {}

\* The handles a failed spawn leaves behind.
left_behind == spawned

spawn_handles(c) ==
  /\ pc = "spawn" /\ c \in next_spec
  /\ \/ /\ handle' = [handle EXCEPT ![c] = "spawned"]
        /\ task' = [task EXCEPT ![c] = "Assigned"]
        /\ UNCHANGED <<pc, class, cleanup, faults>>
     \/ fault /\ fails("NonRetryable", left_behind) /\ UNCHANGED <<handle, task>>
  /\ after' = "settle"
  /\ UNCHANGED <<constant, phase, status, delivered, reported, usage>>

\* One commit of the phase's Team members; if it fails the handles are
\* cancelled and their Tasks left alone.
prepare_collaboration_handles ==
  /\ pc = "spawn" /\ unspawned = {}
  /\ \/ pc' = "join" /\ UNCHANGED <<class, cleanup, after, faults>>
     \/ fault /\ fails("Reconcile", spawned) /\ after' = "keep"
  /\ UNCHANGED <<constant, phase, handle, task, status, delivered, reported, usage>>

\* The children joined together: all but a coordinator that waits for them.
joined_together == phases[phase] \ (IF coordinated THEN {Coordinator} ELSE {})
joining == {c \in Children : handle[c] = "joining"}
\* buffer_unordered(max_concurrent_workers) of the configured strategies.
has_permit == configured => Cardinality(joining) < MaxConcurrent

start_join(c) ==
  /\ pc = "join" /\ c \in joined_together /\ handle[c] = "spawned"
  /\ strategy = "Single" \/ c = Coordinator \/ has_permit
  /\ handle' = [handle EXCEPT ![c] = "joining"]
  /\ UNCHANGED <<constant, pc, phase, task, status, delivered, cleanup, after, class, reported,
                 usage, faults>>

settle_handle_task(c, s) ==
  task' = [task EXCEPT ![c] = IF settle_task(c) THEN s ELSE @]

\* The child's outcome; its usage is added, and a worker's Task settled by it,
\* which may fail.
join_handle(c, s) ==
  /\ pc \in {"join", "coordinator"} /\ handle[c] = "joining"
  /\ handle' = [handle EXCEPT ![c] = "joined"]
  /\ \/ /\ status' = [status EXCEPT ![c] = s]
        /\ settle_handle_task(c, IF s = "Completed" THEN "Completed" ELSE "Failed")
        /\ UNCHANGED faults
     \/ /\ settle_task(c) /\ fault
        /\ status' = [status EXCEPT ![c] = "error"] /\ UNCHANGED task
  /\ usage' = usage \cup {c}
  /\ UNCHANGED <<constant, pc, phase, delivered, cleanup, after, class, reported>>

\* A join that fails settles the Task as one to reconcile and cancels the
\* handle; either may fail too, which the error reports.
join_fails(c) ==
  /\ pc \in {"join", "coordinator"} /\ handle[c] = "joining" /\ fault
  /\ status' = [status EXCEPT ![c] = "error"]
  /\ \/ handle' = [handle EXCEPT ![c] = "cancelled"] /\ UNCHANGED reported
     \/ handle' = [handle EXCEPT ![c] = "lost"] /\ reported' = reported \cup {c}
  /\ \/ settle_handle_task(c, "Failed")
     \/ UNCHANGED task
  /\ UNCHANGED <<constant, pc, phase, delivered, cleanup, after, class, usage>>

ended(c) == handle[c] \in {"joined", "cancelled", "lost"}
failed(c) == status[c] # "Completed"
\* workflow_failure_from_result
failure_of(c) ==
  CASE status[c] = "error" -> "Reconcile"
    [] status[c] = "Unknown" -> "Unknown"
    [] OTHER -> "NonRetryable"

\* Configured workers, and a candidate for review, must have completed; the
\* other strategies pass on what a worker failed with.
required(c) == configured \/ strategy = "IndependentReviewer"
waiting_coordinator == IF coordinated THEN {Coordinator} ELSE {}

\* The results of a phase, in spec order: the first error is the node's.
join_all ==
  /\ pc = "join" /\ \A c \in joined_together : ended(c)
  /\ after' = "settle"
  /\ LET errors == {c \in joined_together : status[c] = "error"}
         bad == {c \in joined_together : failed(c) /\ (required(c) \/ c = Coordinator)}
     IN  \/ /\ errors # {} /\ fails("Reconcile", waiting_coordinator)
            /\ UNCHANGED phase
         \/ /\ errors = {} /\ bad # {} /\ ~coordinated
            /\ \E c \in bad : fails(failure_of(c), {})
            /\ UNCHANGED phase
         \/ /\ errors = {} /\ (bad = {} \/ coordinated)
            /\ phase' = IF phase < Len(phases) THEN phase + 1 ELSE phase
            /\ pc' = IF coordinated THEN "deliver"
                     ELSE IF phase < Len(phases) THEN "spawn" ELSE "output"
            /\ UNCHANGED <<class, cleanup>>
  /\ UNCHANGED <<constant, handle, task, status, delivered, reported, usage, faults>>

-----------------------------------------------------------------------------
\* Supervisor and Team: the results go to the coordinator's inbox, then it runs.

\* Mutant: the coordinator is joined while results are still to be delivered.
delivered_any == TRUE

all_delivered == delivered = Workers

\* A configured Team stops at a worker whose output is not valid.
deliver_worker_result(w) ==
  /\ pc = "deliver" /\ w \in Workers \ delivered
  /\ \/ /\ ~(configured /\ failed(w))
        /\ delivered' = delivered \cup {w}
        /\ UNCHANGED <<pc, class, cleanup, faults>>
     \/ /\ configured /\ failed(w)
        /\ fails(failure_of(w), {Coordinator}) /\ UNCHANGED <<delivered, faults>>
     \/ fault /\ fails("Reconcile", {Coordinator}) /\ UNCHANGED delivered
  /\ after' = IF configured THEN "settle" ELSE "ignore"
  /\ UNCHANGED <<constant, phase, handle, task, status, reported, usage>>

join_coordinator ==
  /\ pc = "deliver" /\ all_delivered
  /\ handle' = [handle EXCEPT ![Coordinator] = "joining"]
  /\ pc' = "coordinator"
  /\ UNCHANGED <<constant, phase, task, status, delivered, cleanup, after, class, reported, usage,
                 faults>>

coordinator_result ==
  /\ pc = "coordinator" /\ ended(Coordinator)
  /\ IF failed(Coordinator) THEN fails(failure_of(Coordinator), {})
     ELSE pc' = "output" /\ UNCHANGED <<class, cleanup>>
  /\ UNCHANGED <<constant, phase, handle, task, status, delivered, after, reported, usage, faults>>

\* The last child's text must be the JSON value its role promises.
normalize_role_output ==
  /\ pc = "output"
  /\ \/ pc' = "contribute" /\ UNCHANGED <<class, cleanup, faults>>
     \/ fault /\ fails("NonConvergent", {})
  /\ UNCHANGED <<constant, phase, handle, task, status, delivered, after, reported, usage>>

\* Storage and after hooks of Plugins see the output before it is returned.
finish_plugin_contributions ==
  /\ pc = "contribute"
  /\ \/ pc' = "returned" /\ class' = "output" /\ UNCHANGED <<cleanup, faults>>
     \/ fault /\ fails("NonRetryable", {})
  /\ UNCHANGED <<constant, phase, handle, task, status, delivered, after, reported, usage>>

-----------------------------------------------------------------------------
\* Each handle's Task is settled and the handle cancelled, whatever the others
\* did; a failure is added to the error's message, unless it is ignored.
cancel_handles(c) ==
  /\ pc = "cleanup" /\ c \in cleanup
  /\ \/ settle_handle_task(c, IF after = "keep" THEN task[c] ELSE "Cancelled")
     \/ UNCHANGED task
  /\ \/ handle' = [handle EXCEPT ![c] = "cancelled"] /\ UNCHANGED <<reported, faults>>
     \/ /\ fault /\ handle' = [handle EXCEPT ![c] = "lost"]
        /\ reported' = IF after = "ignore" THEN reported ELSE reported \cup {c}
  /\ cleanup' = cleanup \ {c}
  /\ pc' = IF cleanup = {c} THEN "returned" ELSE "cleanup"
  /\ UNCHANGED <<constant, phase, status, delivered, after, class, usage>>

\* timeout_ms of the node: the execution is dropped where it is, and with it
\* the handles it holds.
time_out ==
  /\ pc # "returned" /\ fault
  /\ pc' = "returned" /\ class' = "TimedOut"
  /\ UNCHANGED <<constant, phase, handle, task, status, delivered, cleanup, after, reported, usage>>

Next ==
  \/ time_out \/ execute \/ prepare_collaboration_handles \/ join_all \/ join_coordinator
  \/ coordinator_result \/ normalize_role_output \/ finish_plugin_contributions
  \/ \E c \in Children :
       \/ spawn_handles(c) \/ start_join(c) \/ join_fails(c) \/ cancel_handles(c)
       \/ \E s \in Statuses : join_handle(c, s)
  \/ \E w \in Workers : deliver_worker_result(w)

Spec == Init /\ [][Next]_vars

-----------------------------------------------------------------------------
TypeOK ==
  /\ \A c \in Children : handle[c] \in {"none", "spawned", "joining", "joined", "cancelled", "lost"}
  /\ class \in {"none", "output", "NonRetryable", "Reconcile", "Unknown", "NonConvergent", "TimedOut"}
  /\ cleanup \subseteq Children /\ delivered \subseteq Workers /\ usage \subseteq Children

\* When a node returns, no child it spawned is left behind silently: each was
\* joined or cancelled, or the error reports it or asks for reconciliation.  Only
\* a node that ran out of its time drops its handles, and says that it did.
NoChildForgotten ==
  pc = "returned" =>
    \A c \in Children :
      handle[c] \in {"none", "joined", "cancelled"} \/ c \in reported \/ class \in {"Reconcile", "TimedOut"}

\* The child that gives the output runs when every child before it has ended
\* and, in a Team, every worker's result is in its inbox; and it is the one
\* whose completion the output rests on.
DeciderRunsLast ==
  /\ handle[Coordinator] \in {"joining", "joined"} /\ strategy # "Single" =>
       /\ \A w \in Workers : ended(w)
       /\ coordinated => delivered = Workers
  /\ pc \in {"output", "contribute"} /\ handle[Coordinator] # "none" =>
       /\ status[Coordinator] = "Completed"
       /\ configured /\ strategy # "Single" => \A c \in Workers : status[c] = "Completed"

\* A node returns with no child left behind that its error does not report, and
\* the child its output rests on ran after the others (workflow_executor.rs).
NodeAccounted == NoChildForgotten /\ DeciderRunsLast
=============================================================================
