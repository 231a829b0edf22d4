--------------------------- MODULE ManagedProcess ---------------------------
(* One child process of solaris-process: spawned ambient, as a process group  *)
(* of its own, or in a sandbox, under a guardian that starts the target when   *)
(* released and reports its exit and the drain of its group; finalized by its  *)
(* handle or, when the end of the whole tree cannot be confirmed, retained in  *)
(* the recovery registry, whose entries a worker and the shutdown retry.       *)
EXTENDS Naturals, FiniteSets

CONSTANTS MaxFaults

Callers == {"owner", "worker", "shutdown"}
Dead == {"none", "reaped"}

VARIABLES sandboxed,
          pc,         \* of the thread that spawns, waits for and drops the child
          \* the processes
          guardian, target, group, stray,
          \* the control channel: packets on their way, and the Host's end of it
          to_guardian, to_host, open, seen,
          told,       \* what the guardian's supervision remembers
          \* what the Host owns
          containment, sandbox, owner, released, finalize_sent, root_ready, terminated, finalized,
          unknown, result, errors,
          back,       \* where the thread goes on after a pending cleanup
          \* the recovery registry and the callers that retry its entry
          registered, in_flight, attempt, awaiting,
          life, faults

processes == <<guardian, target, group, stray>>
channel == <<to_guardian, to_host, open, seen>>
handle == <<containment, sandbox, owner, released, finalize_sent, root_ready, terminated, finalized>>
outcome == <<unknown, result, errors, back>>
registry == <<registered, in_flight, attempt, awaiting>>
vars == <<sandboxed, pc, processes, channel, told, handle, outcome, registry, life, faults>>

Init ==
  /\ sandboxed \in BOOLEAN /\ pc = "prepare"
  /\ guardian = "none" /\ target = "none" /\ group = "none" /\ stray = FALSE
  /\ to_guardian = {} /\ to_host = {} /\ open = FALSE /\ seen = {} /\ told = {}
  /\ containment = FALSE /\ sandbox = "none" /\ owner = "none" /\ released = FALSE
  /\ finalize_sent = FALSE /\ root_ready = FALSE /\ terminated = FALSE /\ finalized = FALSE
  /\ unknown = FALSE /\ result = "none" /\ errors = {} /\ back = "failed"
  /\ registered = FALSE /\ in_flight = FALSE
  /\ attempt = [c \in Callers |-> "none"] /\ awaiting = {}
  /\ life = "running" /\ faults = 0

fault == faults < MaxFaults /\ faults' = faults + 1
no_fault == UNCHANGED faults
\* FinalizationFailures: the stages that failed, told apart as far as the
\* properties do: the start's confirmation, the entry retained, and others.
record_error(stage) == errors' = errors \cup {stage}

-----------------------------------------------------------------------------
\* The processes.  The target may leave others in its group and, in a session
\* of their own, outside of it (which only a sandbox looks for, so that only
\* there is it told apart); SIGKILL ends a process some time later.
target_forks ==
  /\ target = "running"
  /\ \/ group = "none" /\ group' = "running" /\ UNCHANGED stray
     \/ sandboxed /\ ~stray /\ stray' = TRUE /\ UNCHANGED group
  /\ UNCHANGED <<sandboxed, pc, guardian, target, channel, told, handle, outcome, registry, life,
                 faults>>

process_exits ==
  /\ \/ target \in {"running", "dying"} /\ target' = "zombie" /\ UNCHANGED <<group, stray>>
     \/ group # "none" /\ group' = "none" /\ UNCHANGED <<target, stray>>
     \/ stray /\ stray' = FALSE /\ UNCHANGED <<target, group>>
  /\ UNCHANGED <<sandboxed, pc, guardian, channel, told, handle, outcome, registry, life, faults>>

signalled(p) == IF p = "running" THEN "dying" ELSE p
signal_target_group == target' = signalled(target) /\ group' = signalled(group)

-----------------------------------------------------------------------------
\* The guardian.  A packet sent when the Host has closed its end is an error.
Sends(packet) == to_host' = IF open THEN to_host \cup {packet} ELSE to_host
terminate_and_reap == guardian' = "reaping" /\ signal_target_group

\* run: the plan was accepted; only RELEASE starts the target.
guardian_run ==
  /\ guardian = "planned"
  /\ \/ /\ "RELEASE" \in to_guardian
        /\ to_guardian' = to_guardian \ {"RELEASE"}
        /\ \/ /\ target' = "running"
              /\ guardian' = IF open THEN "supervising" ELSE "unsupervised"
              /\ Sends("EXEC_OK") /\ no_fault
           \/ fault /\ guardian' = "exited" /\ Sends("EXEC_ERROR") /\ UNCHANGED target
           \/ fault /\ guardian' = "refusing" /\ target' = "dying" /\ UNCHANGED to_host
     \/ /\ "RELEASE" \notin to_guardian /\ ~open
        /\ guardian' = "exited" /\ no_fault /\ UNCHANGED <<target, to_guardian, to_host>>
  /\ UNCHANGED <<sandboxed, pc, group, stray, open, seen, told, handle, outcome, registry, life>>

\* EXEC_OK could not be sent: the target is terminated.
guardian_unsupervised ==
  /\ guardian = "unsupervised" /\ terminate_and_reap
  /\ UNCHANGED <<sandboxed, pc, stray, channel, told, handle, outcome, registry, life, faults>>

target_wait_status == target = "zombie"
target_group_is_drained == group = "none"

\* supervise_target_inner: what it has to report, then what it is told.
reports_exit == target_wait_status /\ "X" \notin told
reports_drain ==
  "terminate" \in told /\ target_wait_status /\ "D" \notin told /\ target_group_is_drained
Report(packet) ==
  IF open THEN told' = told \cup {packet} /\ Sends(packet) /\ UNCHANGED <<guardian, target, group>>
  ELSE terminate_and_reap /\ UNCHANGED <<told, to_host>>

supervise_reports ==
  /\ guardian = "supervising"
  /\ \/ reports_exit /\ Report("X")
     \/ ~reports_exit /\ reports_drain /\ Report("D")
  /\ UNCHANGED <<sandboxed, pc, stray, to_guardian, open, seen, handle, outcome, registry, life,
                 faults>>

poll_packet ==
  /\ guardian = "supervising" /\ ~reports_exit /\ ~reports_drain
  /\ \/ /\ "TERMINATE" \in to_guardian
        /\ told' = told \cup {"terminate"} /\ signal_target_group
        /\ to_guardian' = to_guardian \ {"TERMINATE"} /\ UNCHANGED guardian
     \/ /\ "TERMINATE" \notin to_guardian /\ "FINALIZE" \in to_guardian
        /\ to_guardian' = to_guardian \ {"FINALIZE"}
        /\ IF "D" \in told THEN guardian' = "exited" /\ target' = "reaped" /\ UNCHANGED group
           ELSE terminate_and_reap
        /\ UNCHANGED told
     \/ /\ to_guardian = {} /\ ~open
        /\ terminate_and_reap /\ UNCHANGED <<told, to_guardian>>
  /\ UNCHANGED <<sandboxed, pc, stray, to_host, open, seen, handle, outcome, registry, life, faults>>

\* terminate_and_reap_target_pid waits for the group, then reaps the leader.
reap_target ==
  /\ guardian \in {"reaping", "refusing"} /\ target_wait_status /\ target_group_is_drained
  /\ target' = "reaped" /\ guardian' = "exited"
  /\ IF guardian = "refusing" THEN Sends("EXEC_ERROR") ELSE UNCHANGED to_host
  /\ UNCHANGED <<sandboxed, pc, group, stray, to_guardian, open, seen, told, handle, outcome,
                 registry, life, faults>>

\* The guardian is killed: its death signal kills the target, not its group.
guardian_dies ==
  /\ guardian \in {"planned", "supervising", "reaping"} /\ fault
  /\ guardian' = "exited"
  /\ target' = IF target = "zombie" THEN "reaped" ELSE signalled(target)
  /\ UNCHANGED <<sandboxed, pc, group, stray, channel, told, handle, outcome, registry, life>>

-----------------------------------------------------------------------------
\* The Host's side of containment.
invalidate_control == open' = FALSE

\* consume_available: every packet that arrived; a closed channel is an error
\* that says the outcome is unknown, and the control is lost.
channel_broken == open /\ released /\ guardian = "exited"
consumed == IF open THEN seen \cup to_host ELSE seen
control_is_lost == ~open

\* try_wait of the child that was spawned: the guardian, or the target itself.
child_exited == IF sandboxed THEN guardian = "exited" ELSE target \in {"zombie", "reaped"}
reaps_child == target' = IF ~sandboxed /\ target = "zombie" THEN "reaped" ELSE target

\* process_group_is_drained: a group whose leader was not reaped still exists.
process_group_is_drained == target \in Dead /\ group = "none"
\* A child whose containment was not attached is its own root.
root_has_exited ==
  CASE ~containment -> child_exited
    [] ~sandboxed -> TRUE
    [] control_is_lost -> child_exited
    [] OTHER -> "X" \in consumed
containment_is_drained ==
  CASE ~containment -> TRUE
    [] ~sandboxed -> process_group_is_drained
    [] control_is_lost -> child_exited
    [] OTHER -> "D" \in consumed

\* Every process of a sandboxed tree inherits an end of the pipe.
sync_pipe_is_closed ==
  target \notin {"running", "dying"} /\ group = "none" /\ ~stray /\ guardian # "planned"
\* Mutant: the sandbox's own proof that its tree is gone is not asked for.
tree_assumed_drained == TRUE
process_tree_is_drained == sandboxed => sync_pipe_is_closed
exit_is_confirmed == root_has_exited /\ containment_is_drained /\ process_tree_is_drained

\* terminate_unix_child; a child with no containment is killed itself.
terminate_unix_child ==
  IF ~sandboxed
  THEN /\ IF containment THEN signal_target_group
          ELSE target' = signalled(target) /\ UNCHANGED group
       /\ UNCHANGED <<to_guardian, open, guardian>>
  ELSE IF ~containment \/ ~released
  THEN guardian' = "exited" /\ UNCHANGED <<to_guardian, open, target, group>>
  ELSE /\ IF open /\ "D" \notin seen /\ guardian # "exited"
          THEN to_guardian' = to_guardian \cup {"TERMINATE"} /\ UNCHANGED open
          ELSE /\ open' = (open /\ ("D" \in seen \/ guardian # "exited"))
               /\ UNCHANGED to_guardian
       /\ UNCHANGED <<target, group, guardian>>

\* finalize_after_drain sends FINALIZE once.
finalize_after_drain ==
  IF containment /\ sandboxed /\ open /\ ~finalize_sent
  THEN to_guardian' = to_guardian \cup {"FINALIZE"} /\ finalize_sent' = TRUE
  ELSE UNCHANGED <<to_guardian, finalize_sent>>

-----------------------------------------------------------------------------
\* Spawning.  Before the child exists a failure only cleans the sandbox up,
\* as far as that goes.
prepare_with_executable ==
  /\ pc = "prepare"
  /\ \/ pc' = "configure" /\ sandbox' = "held" /\ no_fault /\ UNCHANGED errors
     \/ fault /\ pc' = "failed" /\ record_error("other") /\ UNCHANGED sandbox
  /\ UNCHANGED <<sandboxed, processes, channel, told, containment, owner, released, finalize_sent,
                 root_ready, terminated, finalized, unknown, result, back, registry, life>>

cleanup_after_error ==
  /\ pc' = "failed" /\ record_error("other")
  /\ \/ sandbox' = "cleaned"
     \/ sandboxed /\ UNCHANGED sandbox

\* The containment and the sandbox are configured into the command, which gets
\* a guardian iff the drain of its tree must be verified.
spawn_command_with_policy_kind ==
  /\ pc = "configure"
  /\ \/ pc' = "spawn" /\ no_fault /\ UNCHANGED <<sandbox, errors>>
     \/ fault /\ cleanup_after_error
  /\ UNCHANGED <<sandboxed, processes, channel, told, containment, owner, released, finalize_sent,
                 root_ready, terminated, finalized, unknown, result, back, registry, life>>

\* verify_before_spawn, then the spawn.
spawn_prepared_command ==
  /\ pc = "spawn"
  /\ \/ /\ pc' = "attach" /\ owner' = "spawn" /\ no_fault /\ UNCHANGED <<sandbox, errors>>
        /\ IF sandboxed THEN guardian' = "planned" /\ open' = TRUE /\ UNCHANGED target
           ELSE target' = "running" /\ UNCHANGED <<guardian, open>>
     \/ fault /\ cleanup_after_error /\ UNCHANGED <<owner, guardian, target, open>>
  /\ UNCHANGED <<sandboxed, group, stray, to_guardian, to_host, seen, told, containment, released,
                 finalize_sent, root_ready, terminated, finalized, unknown, result, back, registry, life>>

\* finish_started_child_failure: the child is taken over by a pending cleanup.
finish_started_child_failure(stage) ==
  pc' = "p_terminate" /\ owner' = "pending" /\ record_error(stage)

\* The handshake, after which the guardian waits; on failure the launch, and
\* with it the channel, is dropped.
attach_before_release ==
  /\ pc = "attach"
  /\ \/ containment' = TRUE /\ pc' = "release" /\ no_fault /\ UNCHANGED <<owner, errors, open>>
     \/ /\ sandboxed /\ fault
        /\ finish_started_child_failure("other") /\ invalidate_control /\ UNCHANGED containment
  /\ UNCHANGED <<sandboxed, processes, to_guardian, to_host, seen, told, sandbox, released,
                 finalize_sent, root_ready, terminated, finalized, unknown, result, back, registry, life>>

outcome_unknown_error == unknown' = TRUE

\* The boundary is recorded before the send.
release_target ==
  /\ pc = "release"
  /\ released' = TRUE
  /\ \/ /\ ~sandboxed /\ pc' = "handle" /\ owner' = "handle" /\ back' = "returned" /\ no_fault
        /\ UNCHANGED <<to_guardian, open, unknown, errors>>
     \/ /\ sandboxed /\ guardian # "exited"
        /\ to_guardian' = {"RELEASE"} /\ pc' = "response" /\ no_fault
        /\ UNCHANGED <<open, owner, back, unknown, errors>>
     \/ /\ sandboxed /\ (IF guardian = "exited" THEN no_fault ELSE fault)
        /\ invalidate_control /\ outcome_unknown_error /\ finish_started_child_failure("other")
        /\ UNCHANGED <<to_guardian, back>>
  /\ UNCHANGED <<sandboxed, processes, to_host, seen, told, containment, sandbox, finalize_sent,
                 root_ready, terminated, finalized, result, registry, life>>

release_response ==
  /\ pc = "response"
  /\ \/ /\ "EXEC_OK" \in to_host /\ to_host' = to_host \ {"EXEC_OK"}
        /\ pc' = "confirm" /\ no_fault /\ UNCHANGED <<open, owner, unknown, errors>>
     \/ /\ "EXEC_OK" \notin to_host
        /\ (IF guardian = "exited" THEN no_fault ELSE fault)
        /\ invalidate_control /\ outcome_unknown_error /\ finish_started_child_failure("other")
        /\ to_host' = {}
  /\ UNCHANGED <<sandboxed, processes, to_guardian, seen, told, containment, sandbox, released,
                 finalize_sent, root_ready, terminated, finalized, result, back, registry, life>>

\* wait_for_start: the marker of full enforcement, or a failed start.
confirm_started ==
  /\ pc = "confirm"
  /\ \/ /\ pc' = "handle" /\ owner' = "handle" /\ back' = "returned" /\ no_fault /\ UNCHANGED errors
     \/ /\ (IF guardian = "exited" THEN no_fault ELSE fault)
        /\ finish_started_child_failure("Start") /\ UNCHANGED back
  /\ UNCHANGED <<sandboxed, processes, channel, told, containment, sandbox, released, finalize_sent,
                 root_ready, terminated, finalized, unknown, result, registry, life>>

-----------------------------------------------------------------------------
\* The handle: run and wait wait for the root, kill and a timeout or an output
\* limit do not; dropping the handle, or the future that runs it, takes over.
receive == seen' = consumed /\ to_host' = IF open THEN {} ELSE to_host

wait_target_exit == "X" \in consumed /\ ~channel_broken
wait_root_ready ==
  /\ pc = "handle"
  /\ IF sandboxed
     THEN /\ receive /\ UNCHANGED target
          /\ \/ wait_target_exit /\ root_ready' = TRUE /\ UNCHANGED <<open, unknown, errors>>
             \/ /\ channel_broken \/ (control_is_lost /\ "X" \notin seen)
                /\ invalidate_control /\ outcome_unknown_error /\ record_error("other")
                /\ UNCHANGED root_ready
     ELSE /\ child_exited /\ reaps_child /\ root_ready' = TRUE
          /\ UNCHANGED <<seen, to_host, open, unknown, errors>>
  /\ pc' = "terminate" /\ result' = "exited"
  /\ UNCHANGED <<sandboxed, guardian, group, stray, to_guardian, told, back, containment, sandbox, owner,
                 released, finalize_sent, terminated, finalized, registry, life, faults>>

\* timed_out, output_limit and killed are handled alike from here on.
stops_waiting ==
  /\ pc = "handle" /\ pc' = "terminate" /\ result' = "stopped"
  /\ UNCHANGED <<sandboxed, processes, channel, told, handle, unknown, errors, back, registry, life, faults>>

terminate_tree ==
  /\ pc = "terminate"
  /\ \/ terminate_unix_child /\ pc' = "confirming" /\ no_fault /\ UNCHANGED errors
     \/ /\ fault /\ record_error("other") /\ pc' = "finalize"
        /\ UNCHANGED <<guardian, target, group, to_guardian, open>>
  /\ UNCHANGED <<sandboxed, stray, to_host, seen, told, handle, unknown, result, back, registry, life>>

\* The poll of terminate_tree_and_confirm: confirmed, and the root reaped.
terminate_confirmed ==
  /\ pc = "confirming" /\ ~channel_broken /\ exit_is_confirmed
  /\ receive /\ finalize_after_drain
  /\ terminated' = TRUE /\ pc' = "reap"
  /\ UNCHANGED <<sandboxed, processes, open, told, containment, sandbox, owner, released, root_ready,
                 finalized, outcome, registry, life, faults>>

\* The deadline, or an error of the channel.
terminate_unconfirmed ==
  /\ pc = "confirming"
  /\ \/ channel_broken /\ invalidate_control
     \/ ~channel_broken /\ ~exit_is_confirmed /\ UNCHANGED open
  /\ receive /\ record_error("other") /\ pc' = "finalize"
  /\ UNCHANGED <<sandboxed, processes, to_guardian, told, handle, unknown, result, back, registry, life,
                 faults>>

\* Exit: the root is reaped; the readers are drained; either may fail.
reap_root ==
  /\ pc = "reap"
  /\ IF result = "exited" /\ ~root_ready THEN UNCHANGED target ELSE child_exited /\ reaps_child
  /\ \/ no_fault /\ UNCHANGED errors
     \/ fault /\ record_error("other")
  /\ pc' = "finalize"
  /\ UNCHANGED <<sandboxed, guardian, group, stray, channel, told, handle, unknown, result, back, registry,
                 life>>

\* Mutant: a sandbox whose tree was not confirmed gone is cleaned all the same.
cleans_unconfirmed == TRUE
tree_drain_confirmed == terminated

\* FinalizationFailures::finish: the result is given if nothing failed.
finish == pc = "returned" /\ errors = {}

\* finalize_sandbox: clean up after a confirmed drain, else retain.
finalize_sandbox ==
  /\ pc = "finalize"
  /\ IF tree_drain_confirmed
     THEN /\ containment' = FALSE
          /\ \/ /\ sandbox' = "cleaned" /\ finalized' = TRUE /\ pc' = "returned"
                /\ no_fault /\ UNCHANGED <<owner, errors>>
             \/ /\ sandboxed /\ fault /\ record_error("other") /\ pc' = "returned"
                /\ UNCHANGED <<sandbox, finalized, owner>>
          /\ UNCHANGED <<registered>>
     ELSE /\ owner' = "registry" /\ registered' = TRUE /\ pc' = "retain"
          /\ no_fault /\ UNCHANGED <<containment, sandbox, finalized, errors>>
  /\ UNCHANGED <<sandboxed, processes, channel, told, released, finalize_sent, root_ready, terminated,
                 unknown, result, back, in_flight, attempt, awaiting, life>>


-----------------------------------------------------------------------------
\* PendingStartedChildCleanup: a child taken over from a failed spawn, or from
\* a handle that is dropped before it was finalized.
take_pending_cleanup == owner = "handle" /\ ~finalized
drop_managed_child ==
  /\ pc \in {"handle", "terminate", "confirming", "reap", "returned"}
  /\ IF take_pending_cleanup
     THEN pc' = "p_terminate" /\ owner' = "pending"
     ELSE pc' = "gone" /\ UNCHANGED owner
  /\ back' = "gone"
  /\ UNCHANGED <<sandboxed, processes, channel, told, containment, sandbox, released, finalize_sent,
                 root_ready, terminated, finalized, unknown, result, errors, registry, life, faults>>

terminate_inner ==
  /\ pc = "p_terminate" /\ pc' = "p_wait"
  /\ \/ terminate_unix_child /\ no_fault /\ UNCHANGED errors
     \/ /\ fault /\ record_error("other")
        /\ UNCHANGED <<guardian, target, group, to_guardian, open>>
  /\ UNCHANGED <<sandboxed, stray, to_host, seen, told, handle, unknown, result, back, registry, life>>

needs_finalize == containment /\ sandboxed /\ open /\ ~finalize_sent
\* exit_and_containment_are_confirmed: an error, TRUE, or FALSE; the guardian
\* is told to finalize on the way.
confirm_fails == containment /\ channel_broken
confirm_true == ~confirm_fails /\ exit_is_confirmed /\ ~needs_finalize /\ child_exited
confirm_false == ~confirm_fails /\ ~confirm_true
exit_and_containment_are_confirmed ==
  /\ receive
  /\ open' = (open /\ ~confirm_fails)
  /\ IF ~confirm_fails /\ exit_is_confirmed THEN finalize_after_drain
     ELSE UNCHANGED <<to_guardian, finalize_sent>>

\* wait_for_exit: polls until confirmed, or until its deadline or an error.
wait_for_exit ==
  /\ pc = "p_wait" /\ exit_and_containment_are_confirmed
  /\ \/ confirm_true /\ pc' = "p_cleanup" /\ UNCHANGED errors
     \/ confirm_false /\ exit_is_confirmed /\ UNCHANGED <<pc, errors>>
     \/ ~confirm_true /\ pc' = "p_register" /\ record_error("other")
  /\ UNCHANGED <<sandboxed, processes, told, containment, sandbox, owner, released, root_ready,
                 terminated, finalized, unknown, result, back, registry, life, faults>>

cleanup_after_confirmed_exit ==
  /\ pc = "p_cleanup"
  /\ containment' = FALSE
  /\ \/ /\ sandbox' = "cleaned" /\ owner' = "gone" /\ pc' = back /\ no_fault /\ UNCHANGED errors
     \/ /\ sandboxed /\ fault /\ pc' = "p_register" /\ record_error("other")
        /\ UNCHANGED <<sandbox, owner>>
  /\ UNCHANGED <<sandboxed, processes, channel, told, released, finalize_sent, root_ready, terminated,
                 finalized, unknown, result, back, registry, life>>

register_process_recovery ==
  /\ pc = "p_register" /\ pc' = "retain"
  /\ owner' = "registry" /\ registered' = TRUE
  /\ UNCHANGED <<sandboxed, processes, channel, told, containment, sandbox, released, finalize_sent,
                 root_ready, terminated, finalized, outcome, in_flight, attempt, awaiting, life, faults>>

-----------------------------------------------------------------------------
\* The registry.  An attempt is begun by one caller at a time; the worker and
\* the shutdown run theirs on a blocking thread and wait for it until a
\* deadline, after which it goes on by itself.
begin_recovery_attempt(c) == registered /\ ~in_flight

begins(c) ==
  /\ begin_recovery_attempt(c) /\ attempt[c] = "none"
  /\ in_flight' = TRUE /\ attempt' = [attempt EXCEPT ![c] = "begun"]
  /\ awaiting' = awaiting \cup {c}

\* retain_pending_cleanup tries at once, on the owner's thread.
retain_pending_cleanup ==
  /\ pc = "retain"
  /\ \/ begins("owner") /\ pc' = "retrying" /\ UNCHANGED <<errors, registered>>
     \/ /\ ~begin_recovery_attempt("owner") /\ pc' = back
        /\ errors' = IF registered THEN errors \cup {"Reconciliation"} ELSE errors
        /\ UNCHANGED <<in_flight, attempt, awaiting, registered>>
  /\ UNCHANGED <<sandboxed, processes, channel, told, handle, unknown, result, back,
                 life, faults>>

retained ==
  /\ pc = "retrying" /\ attempt["owner"] = "none" /\ pc' = back
  /\ errors' = IF registered THEN errors \cup {"Reconciliation"} ELSE errors
  /\ UNCHANGED <<sandboxed, processes, channel, told, handle, unknown, result, back, registry, life,
                 faults>>

holds_lock(c) == attempt[c] \in {"terminated", "cleaning"}
\* retry: terminate_for_recovery, and its error, if any, kept for later.
terminate_for_recovery(c) ==
  /\ attempt[c] = "begun" /\ \A d \in Callers : ~holds_lock(d)
  /\ IF owner = "gone"
     THEN /\ attempt' = [attempt EXCEPT ![c] = "complete"]
          /\ no_fault /\ UNCHANGED <<guardian, target, group, to_guardian, open>>
     ELSE /\ attempt' = [attempt EXCEPT ![c] = "terminated"]
          /\ \/ terminate_unix_child /\ no_fault
             \/ fault /\ UNCHANGED <<guardian, target, group, to_guardian, open>>
  /\ UNCHANGED <<sandboxed, pc, stray, to_host, seen, told, handle, outcome, registered, in_flight,
                 awaiting, life>>

\* Mutant: a failed attempt gives the entry up.
gives_up(c, complete) == TRUE
\* retry_acquired_recovery removes the entry only when the retry is complete.
removes_entry(c, complete) == complete

ends(c, complete) ==
  /\ attempt' = [attempt EXCEPT ![c] = "leaving"]
  /\ registered' = (registered /\ ~removes_entry(c, complete))

retry_confirms(c) ==
  /\ attempt[c] = "terminated" /\ exit_and_containment_are_confirmed
  /\ \/ confirm_true /\ attempt' = [attempt EXCEPT ![c] = "cleaning"]
        /\ UNCHANGED <<registered>>
     \/ confirm_false /\ ends(c, FALSE)
     \/ confirm_fails /\ ends(c, FALSE)
  /\ UNCHANGED <<sandboxed, pc, processes, told, containment, sandbox, owner, released, root_ready,
                 terminated, finalized, outcome, in_flight, awaiting, life, faults>>

retry_cleans(c) ==
  /\ attempt[c] = "cleaning" /\ containment' = FALSE
  /\ \/ /\ sandbox' = "cleaned" /\ owner' = "gone"
        /\ attempt' = [attempt EXCEPT ![c] = "complete"]
        /\ no_fault /\ UNCHANGED <<registered>>
     \/ sandboxed /\ fault /\ ends(c, FALSE) /\ UNCHANGED <<sandbox, owner>>
  /\ UNCHANGED <<sandboxed, pc, processes, channel, told, released, finalize_sent, root_ready,
                 terminated, finalized, outcome, in_flight, awaiting, life>>

retry_acquired_recovery(c) ==
  /\ attempt[c] = "complete" /\ ends(c, TRUE)
  /\ UNCHANGED <<sandboxed, pc, processes, channel, told, handle, outcome, in_flight, awaiting, life, faults>>

\* The guard clears the flag last.
clears_in_flight(c) ==
  /\ attempt[c] = "leaving" /\ attempt' = [attempt EXCEPT ![c] = "none"]
  /\ in_flight' = FALSE /\ awaiting' = awaiting \ {c}
  /\ UNCHANGED <<sandboxed, pc, processes, channel, told, handle, outcome, registered,
                 life, faults>>

\* retry_process_recovery_before: the deadline, while the attempt goes on.
attempt_times_out(c) ==
  /\ c # "owner" /\ c \in awaiting
  /\ awaiting' = awaiting \ {c}
  /\ UNCHANGED <<sandboxed, pc, processes, channel, told, handle, outcome, registered, in_flight,
                 attempt, life, faults>>

retry_pending_once ==
  /\ life \in {"running", "stopping"} /\ "worker" \notin awaiting /\ begins("worker")
  /\ UNCHANGED <<sandboxed, pc, processes, channel, told, handle, outcome, registered,
                 life, faults>>

drain_retries ==
  /\ life = "draining" /\ "shutdown" \notin awaiting /\ begins("shutdown")
  /\ UNCHANGED <<sandboxed, pc, processes, channel, told, handle, outcome, registered,
                 life, faults>>

\* shutdown stops the worker, then drains; a deadline makes it an error, which
\* is reported and, unless the exit is forced, tried again.
shutdown ==
  /\ \/ life = "running" /\ life' = "stopping"
     \/ life = "stopping" /\ "worker" \notin awaiting /\ life' = "draining"
     \/ life = "stopping" /\ "worker" \in awaiting /\ life' = "error"
     \/ /\ life = "draining" /\ "shutdown" \notin awaiting
        /\ life' = IF registered THEN "error" ELSE "clean"
  /\ awaiting' = IF life' = "error" THEN awaiting \ {"worker"} ELSE awaiting
  /\ UNCHANGED <<sandboxed, pc, processes, channel, told, handle, outcome, registered, in_flight,
                 attempt, faults>>

finish_process_recovery ==
  /\ life = "error" /\ life' \in {"draining", "forced"}
  /\ UNCHANGED <<sandboxed, pc, processes, channel, told, handle, outcome, registry, faults>>

\* The Host process ends, by itself or by a crash: its end of the channel is
\* closed, and the children see that.
host_exits ==
  /\ (IF life \in {"clean", "forced"} THEN no_fault ELSE fault)
  /\ life' = "exited" /\ open' = FALSE
  /\ UNCHANGED <<sandboxed, pc, processes, to_guardian, to_host, seen, told, handle, outcome, registry>>

\* The kernel ends what the death of its parent or a signal leaves dying.
process_steps ==
  \/ target_forks \/ process_exits \/ guardian_run \/ guardian_unsupervised \/ supervise_reports
  \/ poll_packet \/ reap_target \/ guardian_dies

attempt_steps(c) ==
  \/ terminate_for_recovery(c) \/ retry_confirms(c) \/ retry_cleans(c)
  \/ retry_acquired_recovery(c) \/ clears_in_flight(c)

host_steps ==
  \/ prepare_with_executable \/ spawn_command_with_policy_kind \/ spawn_prepared_command \/ attach_before_release \/ release_target
  \/ release_response \/ confirm_started \/ wait_root_ready
  \/ stops_waiting
  \/ terminate_tree \/ terminate_confirmed \/ terminate_unconfirmed \/ reap_root \/ finalize_sandbox
  \/ drop_managed_child \/ terminate_inner \/ wait_for_exit \/ cleanup_after_confirmed_exit
  \/ register_process_recovery \/ retain_pending_cleanup \/ retained
  \/ \E c \in Callers : attempt_steps(c) \/ attempt_times_out(c)
  \/ retry_pending_once \/ drain_retries \/ shutdown \/ finish_process_recovery \/ host_exits

Next == process_steps \/ (life # "exited" /\ host_steps)

Spec == Init /\ [][Next]_vars

-----------------------------------------------------------------------------
TypeOK ==
  /\ guardian \in {"none", "planned", "unsupervised", "supervising", "reaping", "refusing", "exited"}
  /\ target \in {"none", "running", "dying", "zombie", "reaped"}
  /\ group \in {"none", "running", "dying"} /\ stray \in BOOLEAN
  /\ seen \subseteq {"X", "D"} /\ awaiting \subseteq Callers
  /\ owner \in {"none", "spawn", "handle", "pending", "registry", "gone"}
  /\ sandbox \in {"none", "held", "cleaned"}

target_gone == target \in {"none", "zombie", "reaped"}
group_gone == target_gone /\ group = "none"

\* A sandbox is cleaned up, and a command's result given without an error,
\* only when no process of its tree is left that could still use the one or
\* change the other: in a sandbox, wherever it went; without one, in its group.
TreeGoneFirst ==
  /\ sandboxed /\ sandbox = "cleaned" => group_gone /\ ~stray
  /\ finish => group_gone

\* A child that was started stays owned until its tree is confirmed gone: when
\* its spawn has failed or its handle is dropped it has been cleaned up, or the
\* registry holds it, for whatever attempt and however many have failed; an
\* attempt whose caller gave up waiting is still the only one; and the error
\* returned names what is retained.
NothingForgotten ==
  /\ pc \in {"failed", "gone"} /\ (guardian # "none" \/ target # "none") =>
       \/ registered
       \/ sandbox = "cleaned" /\ group_gone
  /\ owner = "registry" => registered
  /\ Cardinality({c \in Callers : attempt[c] # "none"}) <= 1
  /\ pc \in {"failed", "returned"} /\ registered => "Reconciliation" \in errors

\* A failure to spawn that does not say the outcome is unknown, or that the
\* sandbox could not be confirmed, leaves a target that never ran and that the
\* guardian will not start any more.
SafeToRetry ==
  pc = "failed" /\ ~unknown /\ "Start" \notin errors =>
    target = "none" /\ (guardian \notin {"none", "exited"} => "RELEASE" \notin to_guardian)

\* A child process has an owner until its whole tree is confirmed gone, its
\* sandbox is cleaned only then, and a failure to spawn that may be retried is
\* one after which the target never ran (solaris-process).
ChildAccounted == TreeGoneFirst /\ NothingForgotten /\ SafeToRetry
=============================================================================
