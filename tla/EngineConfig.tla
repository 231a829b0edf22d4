----------------------------- MODULE EngineConfig -----------------------------
(* The configuration of one engine (solaris-agent, engine.rs): the Host's     *)
(* updates (engine/config_update.rs), intensities (run_preset.rs) and modes,  *)
(* the view the Host reads (engine/runtime_configuration.rs), what tools      *)
(* change between turns (engine/context_modifiers.rs, plan/tools.rs), the     *)
(* plan artifacts in the Runtime Ledger, and what a session keeps across a    *)
(* restart (engine/session_state.rs).                                         *)
(*                                                                            *)
(* A tool round runs all its calls, then persists a submitted plan, applies   *)
(* the modifiers and saves; the process may die and a write may fail between  *)
(* any two of them.  The outcomes of the calls are durable (DurableTask), so  *)
(* a resumed round has the results it had.  A thinking setting is Unset, 0    *)
(* when disabled and its token budget when enabled.                           *)
EXTENDS Integers, Sequences, FiniteSets
LOCAL INSTANCE SequencesExt

CONSTANTS Updates,      \* the RuntimeConfigUpdates the Host sends
          Absent,       \* a field an update does not have
          Providers,    \* [thinking, effort, levels]: what providers support
          Intensities, Modes, Tools,
          Rounds,       \* the tool rounds: sequences of calls
          MinAgents, MaxAgents,
          MaxChanges,   \* bound on what the Host does
          MaxRounds, MaxFaults

VARIABLES compat,     \* the provider's support
          engine,     \* the live configuration and history
          view,       \* RuntimeConfigurationState, shared with the Host
          flag,       \* the plan flag shared with the tools and the view
          stored,     \* the saved session
          budget,     \* max_active_agents of the durable resource budget
          artifacts,  \* plan artifacts: [msg, plan], in order of revision
          round,      \* step of the tool round in progress
          pending,    \* its durable part: message, calls and results
          left,       \* plans whose exit was applied
          changes, rounds, faults

vars == <<compat, engine, view, flag, stored, budget, artifacts, round, pending,
          left, changes, rounds, faults>>

Unset == -1
DefaultBudget == 10
Default == [model |-> "m", thinking |-> Unset, effort |-> Absent,
            compaction |-> "off", policy |-> "OnDemand", mode |-> "Auto",
            allow |-> {}, confirm |-> {}, plan |-> FALSE, pre |-> {},
            messages |-> <<>>,
            planned |-> {},      \* tools that were allowed in plan mode alone
            unsaved |-> FALSE]   \* the Host set another effort since the last save
NoRound == [msg |-> 0, calls |-> <<>>, ok |-> <<>>]

session_runtime_state(e) ==
  [effort |-> e.effort, allow |-> e.allow, plan |-> e.plan, pre |-> e.pre,
   messages |-> e.messages]

\* A save takes the engine as it is.
saved(e) == [e EXCEPT !.unsaved = FALSE]

thinking_budget(thinking) == IF thinking > 0 THEN thinking ELSE Absent

refresh_runtime_configuration(e, agents, intensity) ==
  [model |-> e.model, mode |-> e.mode, policy |-> e.policy, agents |-> agents,
   effort |-> e.effort, thinking |-> e.thinking,
   thinking_budget |-> thinking_budget(e.thinking),
   compaction |-> e.compaction, plan |-> e.plan, intensity |-> intensity]

\* RuntimeConfigurationView::snapshot: the mode the Host is shown.
snapshot_permission == IF flag THEN "Plan" ELSE engine.mode

Init ==
  /\ compat \in Providers
  /\ engine = Default /\ flag = FALSE /\ budget = MinAgents
  /\ view = refresh_runtime_configuration(Default, MinAgents, "Medium")
  /\ stored = session_runtime_state(Default)
  /\ artifacts = <<>> /\ round = "idle" /\ pending = NoRound /\ left = {}
  /\ changes = 0 /\ rounds = 0 /\ faults = 0

Fault == faults < MaxFaults /\ faults' = faults + 1
Change == changes < MaxChanges /\ changes' = changes + 1

-----------------------------------------------------------------------------
(* Updates.                                                                   *)

supplied(u) == {f \in DOMAIN u : u[f] # Absent}

validate_thinking(value) ==
  IF value \notin {"enabled", "disabled"} THEN "Rejected"
  ELSE IF ~compat.thinking THEN "Unsupported" ELSE "Applied"

thinking_after(u) ==
  IF u.thinking = Absent \/ validate_thinking(u.thinking) # "Applied"
  THEN engine.thinking
  ELSE IF u.thinking = "disabled" THEN 0
  ELSE IF u.budget = Absent THEN DefaultBudget ELSE u.budget

\* Mutant: a budget is accepted with thinking off.
budget_ignores_thinking(u) ==
  IF u.budget = 0 THEN "Rejected"
  ELSE IF ~compat.thinking THEN "Unsupported" ELSE "Applied"

validate_thinking_budget(u) ==
  IF u.budget = 0 \/ thinking_after(u) <= 0 THEN "Rejected"
  ELSE IF ~compat.thinking THEN "Unsupported" ELSE "Applied"

validate_effort(value) ==
  IF value = "" THEN "Applied"
  ELSE IF ~compat.effort THEN "Unsupported"
  ELSE IF compat.levels # <<>> /\ ~Contains(compat.levels, value)
  THEN "Rejected" ELSE "Applied"

validate_compaction(value) ==
  IF value \in {"off", "safe", "full"} THEN "Applied" ELSE "Rejected"

\* The result of one supplied field.
field_result(u, f) ==
  CASE f = "model" -> IF u.model = "" THEN "Rejected" ELSE "Applied"
    [] f = "thinking" -> validate_thinking(u.thinking)
    [] f = "budget" -> validate_thinking_budget(u)
    [] f = "effort" -> validate_effort(u.effort)
    [] f = "compaction" -> validate_compaction(u.compaction)
    [] f = "policy" -> "Applied"
    [] f = "agents" -> IF u.agents \in MinAgents..MaxAgents THEN "Applied"
                       ELSE "Rejected"

\* Mutant: one accepted field is enough.
accepts_some(u) ==
  \E f \in supplied(u) : field_result(u, f) = "Applied"

accepted(u) ==
  /\ supplied(u) # {}
  /\ \A f \in supplied(u) : field_result(u, f) = "Applied"

Value(u, f, old) == IF u[f] = Absent THEN old ELSE u[f]

updated(u) ==
  [engine EXCEPT
     !.model = Value(u, "model", @),
     !.thinking = IF u.budget # Absent /\ validate_thinking_budget(u) = "Applied"
                  THEN u.budget ELSE thinking_after(u),
     !.effort = IF u.effort = "" THEN Absent ELSE Value(u, "effort", @),
     !.unsaved = @ \/ u.effort # Absent,
     !.compaction = Value(u, "compaction", @),
     !.policy = Value(u, "policy", @)]

\* config_update::apply: the durable budget is written before the rest.
apply(u, e) ==
  /\ accepted(u)
  /\ engine' = e
  /\ budget' = Value(u, "agents", budget)
  /\ view' = refresh_runtime_configuration(updated(u), Value(u, "agents", budget),
                                           view.intensity)

apply_config_update ==
  \E u \in Updates :
    /\ round = "idle" /\ Change /\ apply(u, updated(u))
    /\ UNCHANGED <<compat, flag, stored, artifacts, round, pending, left,
                   rounds, faults>>

\* The budget's record cannot be written: every field is reported rejected.
budget_not_stored ==
  \E u \in Updates :
    /\ round = "idle" /\ Change /\ Fault
    /\ accepted(u) /\ Value(u, "agents", budget) # budget
    /\ UNCHANGED <<compat, engine, view, flag, stored, budget, artifacts, round,
                   pending, left, rounds>>

\* /model: the update, then the session is saved.
set_model_command ==
  \E u \in Updates :
    /\ round = "idle" /\ Change
    /\ supplied(u) = {"model"} /\ apply(u, saved(updated(u)))
    /\ stored' = session_runtime_state(updated(u))
    /\ UNCHANGED <<compat, flag, artifacts, round, pending, left, rounds,
                   faults>>

Preferences == [Low |-> <<"low">>, Medium |-> <<"medium", "low">>,
                High |-> <<"high", "medium", "low">>]

resolve_effort(intensity) ==
  LET wanted == IF intensity \in DOMAIN Preferences
                THEN SelectSeq(Preferences[intensity],
                               LAMBDA p : Contains(compat.levels, p))
                ELSE <<>>
  IN IF compat.levels = <<>> THEN Absent
     ELSE IF wanted = <<>> THEN Last(compat.levels) ELSE wanted[1]

resolve_run_preset(intensity) ==
  [effort |-> resolve_effort(intensity),
   policy |-> IF intensity = "Ultracode" THEN "Proactive" ELSE "OnDemand"]

\* Mutant: the Host is shown the intensity alone.
shows_intensity_only(intensity) == [view EXCEPT !.intensity = intensity]

view_of_preset(intensity) ==
  [view EXCEPT !.intensity = intensity,
               !.policy = resolve_run_preset(intensity).policy,
               !.effort = resolve_run_preset(intensity).effort]

apply_intensity ==
  \E i \in Intensities :
    /\ round = "idle" /\ Change
    /\ engine' = [engine EXCEPT !.effort = resolve_run_preset(i).effort,
                                !.policy = resolve_run_preset(i).policy,
                                !.unsaved = TRUE]
    /\ view' = view_of_preset(i)
    /\ UNCHANGED <<compat, flag, stored, budget, artifacts, round, pending,
                   left, rounds, faults>>

set_permission_mode ==
  \E mode \in Modes :
    LET e == [engine EXCEPT !.mode = mode]
    IN /\ round = "idle" /\ Change
       /\ engine' = e
       /\ view' = refresh_runtime_configuration(e, budget, view.intensity)
       /\ UNCHANGED <<compat, flag, stored, budget, artifacts, round, pending,
                      left, rounds, faults>>

may_import == engine.messages = <<>>
import_history ==
  /\ round = "idle" /\ Change /\ may_import
  /\ \/ LET e == saved([engine EXCEPT !.messages = <<"imported">>])
        IN engine' = e /\ stored' = session_runtime_state(e) /\ UNCHANGED faults
     \/ Fault /\ UNCHANGED <<engine, stored>>   \* the save fails: undone
  /\ UNCHANGED <<compat, view, flag, budget, artifacts, round, pending, left,
                 rounds>>

-----------------------------------------------------------------------------
(* Tool rounds.  A call is [tool, arg]: EnterPlanMode, ExitPlanMode with a    *)
(* plan, or a skill that changes the model, or the effort and allows a tool.  *)

validated_plan_markdown(plan) == plan # "invalid"

\* Whether a call succeeds; all calls of a round see the same flag.
tool_execute(call) ==
  CASE call.tool = "Enter" -> ~flag
    [] call.tool = "Exit" -> flag /\ validated_plan_markdown(call.arg)
    [] OTHER -> TRUE

tool_modifiers == {i \in DOMAIN pending.calls : pending.ok[i]}
submitted_plans == {i \in tool_modifiers : pending.calls[i].tool = "Exit"}

execute_tool_round ==
  \E calls \in Rounds :
    /\ round = "idle" /\ rounds < MaxRounds /\ rounds' = rounds + 1
    /\ round' = "executed"
    /\ pending' = [msg |-> rounds + 1, calls |-> calls,
                   ok |-> [i \in DOMAIN calls |-> tool_execute(calls[i])]]
    /\ engine' = saved([engine EXCEPT !.messages = Append(@, "turn")])
    /\ stored' = session_runtime_state(engine')
    /\ UNCHANGED <<compat, view, flag, budget, artifacts, left, changes, faults>>

resume_pending_tool_round ==
  /\ round = "idle" /\ pending # NoRound /\ rounds = pending.msg
  /\ Last(engine.messages) = "turn"
  /\ round' = "executed"
  /\ UNCHANGED <<compat, engine, view, flag, stored, budget, artifacts, pending,
                 left, changes, rounds, faults>>

matching_plan_artifact(msg, plan) ==
  Contains(artifacts, [msg |-> msg, plan |-> plan])

recorded_plan(msg, plan) ==
  IF matching_plan_artifact(msg, plan) THEN artifacts
  ELSE Append(artifacts, [msg |-> msg, plan |-> plan])

persist_plan_artifacts ==
  /\ round = "executed"
  /\ \/ /\ submitted_plans = {} /\ round' = "persisted"
        /\ UNCHANGED <<artifacts, faults>>
     \/ /\ Cardinality(submitted_plans) > 1 /\ round' = "idle"   \* an error
        /\ UNCHANGED <<artifacts, faults>>
     \/ /\ Cardinality(submitted_plans) = 1
        /\ round' = "persisted"
        /\ \E i \in submitted_plans :
             artifacts' = recorded_plan(pending.msg, pending.calls[i].arg)
        /\ UNCHANGED faults
     \/ /\ Cardinality(submitted_plans) = 1 /\ Fault   \* it cannot be written
        /\ round' = "idle" /\ UNCHANGED artifacts
  /\ UNCHANGED <<compat, engine, view, flag, stored, budget, pending, left,
                 changes, rounds>>

\* PlanModeTransition::Enter and Exit, and the modifier of a skill.
enter_plan(e) == [e EXCEPT !.pre = e.allow, !.plan = TRUE]

\* Mutant: what was allowed in plan mode stays allowed.
exit_keeps_allowed(e) == [e EXCEPT !.plan = FALSE]

exit_plan(e) == [e EXCEPT !.plan = FALSE, !.allow = e.pre]
apply_modifier(e, call) ==
  CASE call.tool = "Enter" -> enter_plan(e)
    [] call.tool = "Exit" -> exit_plan(e)
    [] call.tool = "Model" -> [e EXCEPT !.model = call.arg]
    [] OTHER -> [e EXCEPT !.effort = "high", !.allow = @ \cup {call.arg},
                          !.confirm = @ \cup {call.arg},
                          !.planned = IF e.plan THEN @ \cup ({call.arg} \ e.pre)
                                      ELSE @ \ {call.arg}]

modified ==
  FoldLeft(LAMBDA e, i : IF i \in tool_modifiers
                         THEN apply_modifier(e, pending.calls[i]) ELSE e,
           engine, [i \in DOMAIN pending.calls |-> i])

apply_context_modifiers ==
  /\ round = "persisted" /\ round' = "applied"
  /\ engine' = modified
  /\ flag' = modified.plan
  /\ view' = refresh_runtime_configuration(modified, budget, view.intensity)
  /\ left' = left \cup {[msg |-> pending.msg, plan |-> pending.calls[i].arg]
                          : i \in submitted_plans}
  /\ UNCHANGED <<compat, stored, budget, artifacts, pending, changes, rounds,
                 faults>>

\* The results join the history and the session is saved.
persist_session_state ==
  /\ round = "applied" /\ round' = "idle"
  /\ \/ /\ engine' = saved([engine EXCEPT !.messages = Append(@, "results")])
        /\ stored' = session_runtime_state(engine')
        /\ pending' = NoRound /\ UNCHANGED faults
     \/ /\ engine' = [engine EXCEPT !.messages = Append(@, "results")]
        /\ Fault /\ UNCHANGED <<stored, pending>>
  /\ UNCHANGED <<compat, view, flag, budget, artifacts, left, changes, rounds>>

\* Mutant: plan mode is not restored.
restores_no_plan ==
  [Default EXCEPT !.effort = stored.effort, !.allow = stored.allow,
     !.confirm = stored.allow, !.messages = stored.messages]

\* A new process: the configured defaults, then the session's own state.
restore_session_runtime_state ==
  [Default EXCEPT !.effort = stored.effort, !.allow = stored.allow,
     !.confirm = stored.allow, !.plan = stored.plan, !.pre = stored.pre,
     !.messages = stored.messages,
     !.planned = IF stored.plan THEN stored.allow \ stored.pre ELSE {}]

\* A JSON stream's start-up applies the intensity again, but for its policy.
stream_startup(e, i) == [e EXCEPT !.effort = resolve_run_preset(i).effort, !.unsaved = TRUE]

starts(e, intensity) ==
  /\ engine' = e /\ flag' = e.plan
  /\ view' = refresh_runtime_configuration(e, budget, intensity)

restart ==
  /\ Fault /\ round' = "idle"
  /\ \/ starts(restore_session_runtime_state, "Medium")
     \/ \E i \in Intensities : starts(stream_startup(restore_session_runtime_state, i), i)
  /\ UNCHANGED <<compat, stored, budget, artifacts, pending, left, changes,
                 rounds>>

Next ==
  \/ apply_config_update \/ budget_not_stored \/ set_model_command
  \/ apply_intensity \/ set_permission_mode \/ import_history
  \/ execute_tool_round \/ resume_pending_tool_round
  \/ persist_plan_artifacts \/ apply_context_modifiers
  \/ persist_session_state \/ restart

Spec == Init /\ [][Next]_vars

-----------------------------------------------------------------------------
\* The variables have their types.
TypeOK ==
  /\ engine.allow \subseteq Tools /\ engine.confirm \subseteq Tools
  /\ engine.plan \in BOOLEAN /\ flag \in BOOLEAN
  /\ budget \in MinAgents..MaxAgents
  /\ round \in {"idle", "executed", "persisted", "applied"}
  /\ changes \in 0..MaxChanges /\ rounds \in 0..MaxRounds
  /\ faults \in 0..MaxFaults

\* What the Host reads is what the engine will use for the next request,
\* whichever of the setters, tools and restarts changed it last
\* (refresh_runtime_configuration, apply_intensity, snapshot).
ViewTruthful ==
  /\ view = refresh_runtime_configuration(engine, budget, view.intensity)
  /\ flag = engine.plan
  /\ snapshot_permission = IF engine.plan THEN "Plan" ELSE engine.mode

\* "if one supplied field is rejected or unsupported, none of the supplied
\* fields are written" (engine.rs): an accepted update gives every supplied
\* field its value, no two of them contradicting each other.
UpdatesWhole ==
  \A u \in Updates : accepted(u) =>
    LET e == updated(u)
    IN /\ u.thinking = "enabled" => e.thinking > 0
       /\ u.thinking = "disabled" => e.thinking = 0
       /\ u.budget # Absent => e.thinking = u.budget
       /\ e.thinking > 0 => compat.thinking \/ e.thinking = engine.thinking
       /\ u.agents # Absent => u.agents \in MinAgents..MaxAgents
       /\ u.effort \notin {Absent, ""} /\ compat.levels # <<>> =>
            Contains(compat.levels, e.effort)

\* Plan mode is left only for a plan that is durable, and a plan of a message
\* has one artifact however often its round is repeated
\* (persist_plan_artifacts, record_plan_artifact).
PlansDurable ==
  /\ \A p \in left : Contains(artifacts, p)
  /\ IsInjective(artifacts)
  /\ \A i, j \in DOMAIN artifacts : i < j => artifacts[i].msg <= artifacts[j].msg

\* Between rounds the stored session has the plan state and the allow-list
\* the engine works with, also after failed saves, repeated rounds and
\* restarts, and its effort unless the Host or a stream's start-up has set
\* another one since the last save (session_state.rs).
SessionAgrees ==
  round = "idle" /\ pending = NoRound =>
    /\ stored.plan = engine.plan /\ stored.pre = engine.pre
    /\ stored.allow = engine.allow /\ stored.messages = engine.messages
    /\ engine.unsaved \/ stored.effort = engine.effort

\* Leaving plan mode takes what was allowed in it off the allow-list, which
\* decides for a Host.  The confirmer, which decides in terminal mode, keeps
\* exactly these tools in addition until the process ends
\* (engine/context_modifiers.rs).
PlanGrantsEnd ==
  /\ ~engine.plan => engine.allow \cap engine.planned = {}
  /\ engine.confirm = engine.allow \cup engine.planned

\* Host-owned history is imported into an empty session and at most once.
ImportedFirst ==
  \A i \in DOMAIN engine.messages : engine.messages[i] = "imported" => i = 1

\* The Host sees the configuration the engine uses, and the session keeps it up
\* to what SessionAgrees and PlanGrantsEnd say.
ConfigTruthful ==
  /\ ViewTruthful /\ UpdatesWhole /\ PlansDurable
  /\ SessionAgrees /\ PlanGrantsEnd /\ ImportedFirst
=============================================================================
