----------------------------- MODULE DurableTask -----------------------------
(* One message of one session, run by AgentEngine::run (solaris-agent,        *)
(* engine/run.rs) as a durable task: the session's lease and state            *)
(* (session/store.rs, session/lease.rs), the task's row (session/             *)
(* store_task.rs), the effect records of the Runtime Ledger (execution_       *)
(* context/recovery.rs) and the turn and tool-round steps between them.       *)
(*                                                                            *)
(* Every SQLite transaction and every ledger append is one action; between    *)
(* two of them a process may stall, lose its lease, be cancelled by the host  *)
(* or die, and another process may resume the message.  A process has an      *)
(* owner id of its own and loads the session once.  Compaction, hooks, the    *)
(* audit copy of the phases and the batching of concurrency-safe tools are    *)
(* left out; a failed audit append is a returned error like a cancelled turn. *)
EXTENDS Integers, Sequences, FiniteSets

CONSTANTS Procs, NoProc,
          NTools,      \* tool calls of a tool round
          ReplaySafe,  \* those that are ReadOnly and ReplaySafe
          LeaseTime, MaxClock,
          MaxCalls,    \* provider turns after which the provider answers finally
          MaxFaults,   \* cancellations, failed writes and quits
          SlowFence,   \* a process may stall between fence check and intent
          StoreFaults  \* the user checkpoint's transaction may fail

ASSUME ProcsAssumption == NoProc \notin Procs
ASSUME ToolsAssumption == NTools \in Nat /\ ReplaySafe \subseteq 1..NTools
ASSUME BoundsAssumption ==
  /\ LeaseTime \in Nat \ {0}
  /\ MaxClock \in Nat /\ MaxCalls \in Nat /\ MaxFaults \in Nat
  /\ SlowFence \in BOOLEAN /\ StoreFaults \in BOOLEAN

VARIABLES clock,
          lease,    \* the session's row of session_leases
          session,  \* its row of sessions: revision and message history
          task,     \* the message's row of durable_agent_tasks
          ledger,   \* effect_intent and effect_outcome records of the Run
          started,  \* the external effects that really began, in order
          faults,
          proc      \* the engine of every process

vars == <<clock, lease, session, task, ledger, started, faults, proc>>
stored == <<lease, session, task>>

Terminal == {"completed", "outcome_unknown", "side_effect_unknown", "aborted"}
Phases == Terminal \cup
  {"absent", "created", "user_checkpointed", "awaiting_provider",
   "provider_in_flight", "provider_completed", "tools_in_flight",
   "tools_completed"}
Kinds == {"normal", "continuation"}
NoCall == <<>>

Fresh == [pc |-> "new", epoch |-> 0, rev |-> 0, trusted |-> TRUE,
          messages |-> <<>>, kind |-> "normal", call |-> NoCall, tool |-> 0,
          unknown |-> FALSE, reply |-> "none"]

Init ==
  /\ clock = 0
  /\ lease = [owner |-> NoProc, epoch |-> 1, expires |-> 0]
  /\ session = [revision |-> 0, messages |-> <<>>]
  /\ task = [phase |-> "absent", call |-> NoCall, rev |-> 0]
  /\ ledger = <<>> /\ started = <<>> /\ faults = 0
  /\ proc = [p \in Procs |-> Fresh]

-----------------------------------------------------------------------------
(* Identities.  A provider call's id is a digest of the turn kind and the     *)
(* whole request; a tool effect's id is the tool_use id the reply gave it; a  *)
(* round's id also has the task revision its transition will get.             *)
provider_call_id(p) == <<proc[p].kind, proc[p].messages, 0>>
tool_effect_id(p) == <<"tool", proc[p].messages, proc[p].tool>>
tool_round_call_id(p, revision) == <<"round", proc[p].messages, revision>>

Calls(s) == Cardinality({i \in DOMAIN s : s[i] \notin {"user", "results"}})
PendingTools(s) == s # <<>> /\ s[Len(s)] = "tools"
IsPrefix(s, t) == Len(s) <= Len(t) /\ \A i \in 1..Len(s) : s[i] = t[i]

At(p, pc) == proc[p].pc = pc
Goto(p, pc) == proc' = [proc EXCEPT ![p].pc = pc]

\* require_trusted, require_current_lease and the revision comparison every
\* fenced transaction of the session store makes.
require_current_lease(p) ==
  /\ proc[p].trusted
  /\ lease.owner = p /\ lease.epoch = proc[p].epoch /\ lease.expires > clock
  /\ session.revision = proc[p].rev

\* Mutant: the lease time is subtracted.
renewed_backwards == [lease EXCEPT !.expires = clock - LeaseTime]

Renewed == [lease EXCEPT !.expires = clock + LeaseTime]

\* SessionStore::save of history s, with the lease refreshed.
save(p, s, pc) ==
  /\ require_current_lease(p)
  /\ session' = [revision |-> session.revision + 1, messages |-> s]
  /\ lease' = Renewed
  /\ proc' = [proc EXCEPT ![p].rev = @ + 1, ![p].messages = s, ![p].pc = pc]

can_transition_to(from, to) == from = to \/ from \notin Terminal

\* ActiveSessionFence::transition_task: the same phase and call id is a no-op.
transition_task(p, phase, call) ==
  /\ require_current_lease(p)
  /\ can_transition_to(task.phase, phase)
  /\ task' = IF task.phase = phase /\ task.call = call THEN task
             ELSE [phase |-> phase, call |-> call, rev |-> task.rev + 1]
  /\ UNCHANGED <<lease, session>>

-----------------------------------------------------------------------------
(* The effect records.                                                        *)
Positions(type, e) ==
  {i \in DOMAIN ledger : ledger[i].type = type /\ ledger[i].effect = e}

\* The last intent decides; only an outcome recorded after it counts.
recover_effect(e, safe) ==
  LET intents == Positions("intent", e)
      last == CHOOSE i \in intents : \A j \in intents : j <= i
      outcomes == {i \in Positions("outcome", e) : i > last}
      status == ledger[CHOOSE i \in outcomes : TRUE].status
  IN CASE intents = {} -> "execute"
       [] intents # {} /\ outcomes # {} ->
            IF status = "unknown" THEN "reconcile" ELSE status
       [] OTHER -> IF safe THEN "execute" ELSE "reconcile"

has_unresolved_effect_intent ==
  \E i \in DOMAIN ledger :
    ledger[i].type = "intent" /\ Positions("outcome", ledger[i].effect) = {}

append_intent(e) ==
  ledger' = Append(ledger, [type |-> "intent", effect |-> e, status |-> "none"])

\* compare_and_append by effect id; a recorded outcome is canonical.  A second
\* one is accepted only if its payload is the same.
accepts_outcome(e, status) ==
  \A i \in Positions("outcome", e) : ledger[i].status = status

persist_canonical_effect_outcome(e, status) ==
  ledger' = IF Positions("outcome", e) = {}
            THEN Append(ledger, [type |-> "outcome", effect |-> e,
                                 status |-> status])
            ELSE ledger

-----------------------------------------------------------------------------
(* Starting or resuming the message.                                          *)
load_active(p) ==
  /\ At(p, "new")
  /\ lease.owner = NoProc \/ lease.expires <= clock
  /\ lease' = [owner |-> p, epoch |-> lease.epoch + 1,
               expires |-> clock + LeaseTime]
  /\ proc' = [proc EXCEPT ![p].pc = "activate", ![p].epoch = lease.epoch + 1,
                          ![p].rev = session.revision,
                          ![p].messages = session.messages]
  /\ UNCHANGED <<clock, session, task, ledger, started, faults>>

activate_resumed_session(p) ==
  /\ At(p, "activate")
  /\ save(p, proc[p].messages, "begin")
  /\ UNCHANGED <<clock, task, ledger, started, faults>>

\* Where a found task continues: resume_pending_tool_round first.
ResumeAt(p) ==
  LET s == proc[p].messages
      pending == task.phase \in {"tools_in_flight", "provider_completed"}
                 /\ PendingTools(s)
  IN CASE task.phase = "completed" -> "done"
       [] task.phase \in Terminal \ {"completed"} -> "refused"
       [] task.phase = "created" -> "checkpoint"
       [] pending -> IF task.phase = "provider_completed"
                        \/ task.call = tool_round_call_id(p, task.rev)
                     THEN "round" ELSE "refused_round"
       [] task.phase = "tools_in_flight" /\ ~pending -> "refused_round"
       [] task.phase \in {"awaiting_provider", "provider_in_flight",
                          "provider_completed"} /\ ~pending -> "resume"
       [] OTHER -> "turn"

begin_or_resume_task(p) ==
  /\ At(p, "begin")
  /\ require_current_lease(p)
  /\ IF task.phase = "absent"
     THEN /\ task' = [phase |-> "created", call |-> NoCall, rev |-> 0]
          /\ Goto(p, "checkpoint")
     ELSE /\ proc' = [proc EXCEPT
               ![p].pc = ResumeAt(p), ![p].kind = "normal",
               ![p].call = IF task.phase = "tools_in_flight"
                           THEN task.call ELSE NoCall]
          /\ UNCHANGED task
  /\ UNCHANGED <<clock, lease, session, ledger, started, faults>>

\* The user message and the phase are committed in one transaction.
checkpoint_task_user(p) ==
  /\ At(p, "checkpoint")
  /\ task.phase = "created" /\ task.call = NoCall
  /\ save(p, Append(proc[p].messages, "user"), "turn")
  /\ task' = [task EXCEPT !.phase = "user_checkpointed", !.rev = @ + 1]
  /\ UNCHANGED <<clock, ledger, started, faults>>

\* It fails before its commit: the message stays pushed in memory.
checkpoint_fails(p) ==
  /\ At(p, "checkpoint") /\ StoreFaults /\ faults < MaxFaults
  /\ faults' = faults + 1
  /\ proc' = [proc EXCEPT ![p].messages = Append(@, "user"), ![p].pc = "idle"]
  /\ UNCHANGED <<clock, stored, ledger, started>>

\* The host sends the message again to a process that returned an error.
run_again(p) ==
  /\ At(p, "idle")
  /\ Goto(p, "begin")
  /\ UNCHANGED <<clock, stored, ledger, started, faults>>

-----------------------------------------------------------------------------
(* A provider turn.                                                           *)

save_before_turn(p) ==
  /\ At(p, "turn")
  /\ save(p, proc[p].messages, "await")
  /\ UNCHANGED <<clock, task, ledger, started, faults>>

record_awaiting_provider(p) ==
  /\ At(p, "await")
  /\ transition_task(p, "awaiting_provider", provider_call_id(p))
  /\ Goto(p, "recover")
  /\ UNCHANGED <<clock, ledger, started, faults>>

require_resume_call_id(p) ==
  /\ At(p, "resume")
  /\ Goto(p, IF task.call = provider_call_id(p) THEN "recover" ELSE "refused")
  /\ UNCHANGED <<clock, stored, ledger, started, faults>>

recover_provider_effect(p) ==
  /\ At(p, "recover")
  /\ LET found == recover_effect(provider_call_id(p), FALSE)
     IN proc' = [proc EXCEPT
          ![p].pc = CASE found = "execute" -> "fence"
                      [] found = "reconcile" -> "refused"
                      [] OTHER -> "completed_call",
          ![p].reply = found]
  /\ UNCHANGED <<clock, stored, ledger, started, faults>>

\* ensure_session_fence of record_effect_intent, a heartbeat of its own.
ensure_session_fence(p) ==
  /\ require_current_lease(p)
  /\ \/ At(p, "fence") /\ Goto(p, "intent")
     \/ At(p, "tool_fence") /\ Goto(p, "tool_intent")
  /\ lease' = Renewed
  /\ UNCHANGED <<clock, session, task, ledger, started, faults>>

record_provider_intent(p) ==
  /\ At(p, "intent")
  /\ append_intent(provider_call_id(p))
  /\ Goto(p, "in_flight")
  /\ UNCHANGED <<clock, stored, started, faults>>

record_provider_in_flight(p) ==
  /\ At(p, "in_flight")
  /\ transition_task(p, "provider_in_flight", provider_call_id(p))
  /\ Goto(p, "execute")
  /\ UNCHANGED <<clock, ledger, started, faults>>

\* The provider is external: any answer, and a final one when the bound is met.
Replies(p) == IF Calls(proc[p].messages) + 1 < MaxCalls
              THEN {"tools", "truncated", "final", "error"}
              ELSE {"final", "error"}

provider_stream(p) ==
  /\ At(p, "execute")
  /\ started' = Append(started, provider_call_id(p))
  /\ \E r \in Replies(p) :
       proc' = [proc EXCEPT ![p].reply = r, ![p].pc = "outcome"]
  /\ UNCHANGED <<clock, stored, ledger, faults>>

\* Mutant: a failed outcome append is only logged.
outcome_failure_ignored(p) ==
  /\ At(p, "outcome")
  /\ \/ /\ persist_canonical_effect_outcome(provider_call_id(p), proc[p].reply)
        /\ UNCHANGED faults
     \/ faults < MaxFaults /\ faults' = faults + 1 /\ UNCHANGED ledger
  /\ Goto(p, "completed_call")
  /\ UNCHANGED <<clock, stored, started>>

\* EffectOutcomeGuard::complete: another canonical outcome, or a failed append,
\* is an error, and the phase guard then records an unknown outcome.
record_provider_outcome(p) ==
  /\ At(p, "outcome")
  /\ \/ /\ accepts_outcome(provider_call_id(p), proc[p].reply)
        /\ persist_canonical_effect_outcome(provider_call_id(p), proc[p].reply)
        /\ Goto(p, "completed_call")
        /\ UNCHANGED faults
     \/ /\ faults' \in IF Positions("outcome", provider_call_id(p)) # {}
                       THEN {faults} ELSE {faults + 1} \cap 0..MaxFaults
        /\ Goto(p, "guard_drop")
        /\ UNCHANGED ledger
  /\ UNCHANGED <<clock, stored, started>>

\* ProviderCompleted, then the reply joins the history in memory.
record_provider_completed(p) ==
  /\ At(p, "completed_call")
  /\ transition_task(p, "provider_completed", provider_call_id(p))
  /\ LET r == proc[p].reply
     IN proc' = [proc EXCEPT
          ![p].messages = IF r = "error" THEN @ ELSE Append(@, r),
          ![p].kind = IF r = "truncated" THEN "continuation" ELSE @,
          ![p].pc = CASE r = "tools" -> "save_tools" [] r = "final" -> "save_final"
                      [] r = "truncated" -> "turn" [] OTHER -> "idle"]
  /\ UNCHANGED <<clock, ledger, started, faults>>

save_final(p) ==
  /\ At(p, "save_final")
  /\ save(p, proc[p].messages, "finish")
  /\ UNCHANGED <<clock, task, ledger, started, faults>>

record_completed_durable_task(p) ==
  /\ At(p, "finish")
  /\ transition_task(p, "completed", NoCall)
  /\ Goto(p, "done")
  /\ UNCHANGED <<clock, ledger, started, faults>>

-----------------------------------------------------------------------------
(* A tool round.                                                              *)
\* Mutant: the round starts before the reply that asked for it is saved.
round_before_save(p) ==
  /\ At(p, "save_tools")
  /\ require_current_lease(p)
  /\ Goto(p, "round")
  /\ UNCHANGED <<clock, stored, ledger, started, faults>>

save_tools(p) ==
  /\ At(p, "save_tools")
  /\ save(p, proc[p].messages, "round")
  /\ UNCHANGED <<clock, task, ledger, started, faults>>

begin_tool_round(p) ==
  /\ At(p, "round")
  /\ LET call == IF proc[p].call # NoCall THEN proc[p].call
                 ELSE tool_round_call_id(p, task.rev + 1)
     IN /\ transition_task(p, "tools_in_flight", call)
        /\ proc' = [proc EXCEPT ![p].pc = "tool", ![p].tool = 1,
                                ![p].call = call, ![p].unknown = FALSE]
  /\ UNCHANGED <<clock, ledger, started, faults>>

\* The next call of the round, or its end.
NextTool(p) == IF proc[p].tool < NTools THEN "tool" ELSE "save_results"

\* A recorded outcome is reused, an unknown one ends the round; a call to be
\* executed may first be denied by policy or by the user.
recover_tool_effect(p) ==
  /\ At(p, "tool")
  /\ LET found == recover_effect(tool_effect_id(p), proc[p].tool \in ReplaySafe)
     IN \/ /\ found = "execute"
           /\ Goto(p, "tool_fence")
        \/ /\ found = "reconcile"
           /\ proc' = [proc EXCEPT ![p].unknown = TRUE, ![p].pc = "save_results"]
        \/ /\ found # "reconcile"
           /\ proc' = [proc EXCEPT ![p].pc = NextTool(p), ![p].tool = @ + 1]
  /\ UNCHANGED <<clock, stored, ledger, started, faults>>

record_tool_intent(p) ==
  /\ At(p, "tool_intent")
  /\ append_intent(tool_effect_id(p))
  /\ Goto(p, "tool_execute")
  /\ UNCHANGED <<clock, stored, started, faults>>

execute_single(p) ==
  /\ At(p, "tool_execute")
  /\ started' = Append(started, tool_effect_id(p))
  /\ Goto(p, "tool_outcome")
  /\ UNCHANGED <<clock, stored, ledger, faults>>

\* complete_canonical.  A process left for recovery is recorded as unknown; so
\* is, in the round's status only, an outcome that could not be recorded.
record_tool_outcome(p) ==
  /\ At(p, "tool_outcome")
  /\ \/ /\ accepts_outcome(tool_effect_id(p), "executed")
        /\ persist_canonical_effect_outcome(tool_effect_id(p), "executed")
        /\ proc' = [proc EXCEPT ![p].pc = NextTool(p), ![p].tool = @ + 1]
        /\ UNCHANGED faults
     \/ /\ faults < MaxFaults /\ faults' = faults + 1
        /\ \/ persist_canonical_effect_outcome(tool_effect_id(p), "unknown")
           \/ UNCHANGED ledger
        /\ proc' = [proc EXCEPT ![p].unknown = TRUE, ![p].pc = "save_results"]
     \/ /\ Positions("outcome", tool_effect_id(p)) # {}  \* another payload
        /\ proc' = [proc EXCEPT ![p].unknown = TRUE, ![p].pc = "save_results"]
        /\ UNCHANGED <<ledger, faults>>
  /\ UNCHANGED <<clock, stored, started>>

save_tool_results(p) ==
  /\ At(p, "save_results")
  /\ save(p, Append(proc[p].messages, "results"),
          IF proc[p].unknown THEN "side_effect_unknown" ELSE "tools_completed")
  /\ UNCHANGED <<clock, task, ledger, started, faults>>

record_tool_round(p) ==
  /\ \/ /\ At(p, "tools_completed")
        /\ transition_task(p, "tools_completed", proc[p].call)
        /\ proc' = [proc EXCEPT ![p].pc = "turn", ![p].kind = "normal",
                                ![p].call = NoCall]
     \/ /\ At(p, "side_effect_unknown")
        /\ transition_task(p, "side_effect_unknown", proc[p].call)
        /\ Goto(p, "idle")
  /\ UNCHANGED <<clock, ledger, started, faults>>

-----------------------------------------------------------------------------
(* Cancellation, loss of the lease, crash and exit.                           *)
\* The user quits at a tool's confirmation: close_cancelled_tool_round.
quit(p) ==
  /\ At(p, "tool") /\ faults < MaxFaults
  /\ recover_effect(tool_effect_id(p), proc[p].tool \in ReplaySafe) = "execute"
  /\ faults' = faults + 1
  /\ save(p, Append(proc[p].messages, "results"),
          IF has_unresolved_effect_intent THEN "closed_unknown" ELSE "closed_aborted")
  /\ UNCHANGED <<clock, task, ledger, started>>

close_cancelled_tool_round(p) ==
  /\ \/ At(p, "closed_unknown")
        /\ transition_task(p, "outcome_unknown", proc[p].call)
     \/ At(p, "closed_aborted") /\ transition_task(p, "aborted", proc[p].call)
  /\ Goto(p, "idle")
  /\ UNCHANGED <<clock, ledger, started, faults>>

\* The host drops the future: the outcome guard of a started effect records an
\* unknown outcome, if the append does not fail, before the phase guard does.
cancel(p) ==
  /\ faults < MaxFaults /\ faults' = faults + 1
  /\ \/ /\ proc[p].pc \in {"execute", "outcome"}
        /\ \/ persist_canonical_effect_outcome(provider_call_id(p), "unknown")
           \/ UNCHANGED ledger
        /\ Goto(p, "guard_drop")
     \/ /\ proc[p].pc \in {"tool_execute", "tool_outcome"}
        /\ \/ persist_canonical_effect_outcome(tool_effect_id(p), "unknown")
           \/ UNCHANGED ledger
        /\ Goto(p, "guard_drop")
     \/ At(p, "tool") /\ Goto(p, "guard_drop") /\ UNCHANGED ledger
     \/ At(p, "fence") /\ Goto(p, "idle") /\ UNCHANGED ledger
  /\ UNCHANGED <<clock, stored, started>>

drop_phase_guard(p) ==
  /\ At(p, "guard_drop")
  /\ transition_task(p, "outcome_unknown",
       IF PendingTools(proc[p].messages) THEN proc[p].call
       ELSE provider_call_id(p))
  /\ Goto(p, IF PendingTools(proc[p].messages) THEN "abort" ELSE "idle")
  /\ UNCHANGED <<clock, ledger, started, faults>>

\* abort_current_turn answers the pending tool calls, then tries to record the
\* phase; a terminal phase refuses.
abort_current_turn(p) ==
  /\ \/ /\ At(p, "abort")
        /\ save(p, Append(proc[p].messages, "results"),
                IF has_unresolved_effect_intent THEN "abort_unknown" ELSE "abort_phase")
        /\ UNCHANGED task
     \/ /\ proc[p].pc \in {"abort_unknown", "abort_phase"}
        /\ LET phase == IF At(p, "abort_unknown")
                        THEN "outcome_unknown" ELSE "aborted"
           IN \/ transition_task(p, phase, NoCall)
              \/ ~can_transition_to(task.phase, phase) /\ UNCHANGED stored
        /\ Goto(p, "idle")
  /\ UNCHANGED <<clock, ledger, started, faults>>

Unfenced == {"new", "idle", "resume", "recover", "intent", "execute", "outcome",
             "tool", "tool_intent", "tool_execute", "tool_outcome",
             "done", "refused", "refused_round", "failed", "dead"}

\* A fenced transaction finds the lease gone: mark_lost, and run returns.
lose_lease(p) ==
  /\ proc[p].pc \notin Unfenced
  /\ ~require_current_lease(p)
  /\ proc' = [proc EXCEPT ![p].trusted = FALSE, ![p].pc = "failed"]
  /\ UNCHANGED <<clock, stored, ledger, started, faults>>

heartbeat(p) ==
  /\ proc[p].pc \notin {"new", "dead"} /\ proc[p].trusted
  /\ \/ require_current_lease(p) /\ lease' = Renewed /\ UNCHANGED proc
     \/ /\ ~require_current_lease(p)
        /\ proc' = [proc EXCEPT ![p].trusted = FALSE] /\ UNCHANGED lease
  /\ UNCHANGED <<clock, session, task, ledger, started, faults>>

crash(p) ==
  /\ proc[p].pc \notin {"new", "dead"}
  /\ Goto(p, "dead")
  /\ UNCHANGED <<clock, stored, ledger, started, faults>>

\* A process that returned closes its session; dropping the manager does too.
release(p) ==
  /\ proc[p].pc \in {"idle", "done", "refused", "refused_round"}
  /\ require_current_lease(p)
  /\ lease' = [lease EXCEPT !.owner = NoProc, !.expires = 0]
  /\ Goto(p, "dead")
  /\ UNCHANGED <<clock, session, task, ledger, started, faults>>

tick ==
  /\ clock < MaxClock
  /\ ~SlowFence =>
       \A p \in Procs : proc[p].pc \notin {"intent", "tool_intent"}
  /\ clock' = clock + 1
  /\ UNCHANGED <<stored, ledger, started, faults, proc>>

Next ==
  \/ tick
  \/ \E p \in Procs :
       \/ load_active(p) \/ activate_resumed_session(p)
       \/ begin_or_resume_task(p) \/ checkpoint_task_user(p)
       \/ checkpoint_fails(p) \/ run_again(p) \/ save_before_turn(p)
       \/ record_awaiting_provider(p) \/ require_resume_call_id(p)
       \/ recover_provider_effect(p) \/ ensure_session_fence(p)
       \/ record_provider_intent(p) \/ record_provider_in_flight(p)
       \/ provider_stream(p) \/ record_provider_outcome(p)
       \/ record_provider_completed(p) \/ save_final(p)
       \/ record_completed_durable_task(p) \/ save_tools(p)
       \/ begin_tool_round(p) \/ recover_tool_effect(p)
       \/ record_tool_intent(p) \/ execute_single(p) \/ record_tool_outcome(p)
       \/ save_tool_results(p) \/ record_tool_round(p)
       \/ quit(p) \/ close_cancelled_tool_round(p) \/ cancel(p)
       \/ drop_phase_guard(p) \/ abort_current_turn(p)
       \/ lose_lease(p) \/ heartbeat(p) \/ crash(p) \/ release(p)

Spec == Init /\ [][Next]_vars

-----------------------------------------------------------------------------
Tags == {"user", "tools", "truncated", "final", "results"}
Replied == {"tools", "truncated", "final"}
Effects == (Kinds \cup {"tool", "round"}) \X Seq(Tags) \X Nat

TypeOK ==
  /\ clock \in 0..MaxClock /\ faults \in 0..MaxFaults
  /\ lease \in [owner : Procs \cup {NoProc}, epoch : Nat, expires : Nat]
  /\ session \in [revision : Nat, messages : Seq(Tags)]
  /\ task \in [phase : Phases, call : Effects \cup {NoCall}, rev : Nat]
  /\ started \in Seq(Effects)
  /\ ledger \in Seq([type : {"intent", "outcome"}, effect : Effects,
                     status : Replied \cup {"none", "error", "executed", "unknown"}])

Tool(e) == e[1] = "tool"
Safe(e) == Tool(e) /\ e[3] \in ReplaySafe

\* recover_effect resolves an effect's identity against the durable history
\* before external work is repeated: whoever crashes, stalls, is cancelled or
\* takes the session over, a provider request or a tool call that is not
\* read-only and replay-safe begins at most once.
AtMostOnce ==
  \A i, j \in DOMAIN started :
    started[i] = started[j] /\ ~Safe(started[i]) => i = j

\* "The assistant tool-use checkpoint must be durable before any tool intent
\* can start": the durable history always begins with the reply that asked for
\* a started tool call, so a successor can find the round again.
CheckpointedBeforeTools ==
  \A i \in DOMAIN ledger :
    Tool(ledger[i].effect) => IsPrefix(ledger[i].effect[2], session.messages)

\* Every reply in the durable history is the recorded outcome of the provider
\* request for the history before it, never one that only a lost process saw.
HistoryRecorded ==
  \A n \in DOMAIN session.messages :
    session.messages[n] \in Replied =>
      \E k \in Kinds :
        \E j \in Positions("outcome", <<k, SubSeq(session.messages, 1, n - 1), 0>>) :
          ledger[j].status = session.messages[n]

\* A message that is sent again after an error is in the durable history once.
UserOnce ==
  Cardinality({n \in DOMAIN session.messages : session.messages[n] = "user"}) <= 1

\* Two processes never interleave their histories: a save only extends the
\* durable history, so a process that lost its lease cannot overwrite what its
\* successor saved.
HistoryGrows == [][IsPrefix(session.messages, session'.messages)]_vars

\* A message is run as if by one process: no provider request or tool call that
\* may not be repeated begins twice (recover_effect), the durable history has the
\* reply that asked for a tool before the tool's intent and only replies with a
\* recorded outcome, and no save takes back what another process saved.
TaskRunOnce ==
  /\ [](AtMostOnce /\ CheckpointedBeforeTools /\ HistoryRecorded)
  /\ HistoryGrows

\* "A crash after this save resumes the saved round": a message is refused for
\* its tool round only while the outcome of one of the calls is not known.
ResumesSavedRound ==
  \A p \in Procs :
    At(p, "refused_round") =>
      \E i \in DOMAIN ledger :
        /\ ledger[i].type = "intent" /\ Tool(ledger[i].effect)
        /\ \A j \in Positions("outcome", ledger[i].effect) :
             ledger[j].status = "unknown"
=============================================================================
